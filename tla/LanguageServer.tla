---------------------------- MODULE LanguageServer ----------------------------
(* lsp/: the language server, and the editor at the other end of its pipes. The *)
(* editor keeps to the protocol: it asks about documents it has open, with the  *)
(* positions of its own text. What is asked is chosen when the request is read. *)
EXTENDS Integers, SequencesExt, FiniteSetsExt

CONSTANTS
    Uris,         \* documents
    Sources,      \* texts: sequences of characters, with a blank behind what declares
    Ast,          \* text -> its statements in the order they begin in, each with how many
                  \* others it is inside of (its level), or Unreadable
    Unreadable,   \* no tree: a number of the text is out of range, and the lexer throws
    Letters,      \* what a word is made of
    Keywords, Builtins,
    NewName,      \* what things are renamed to
    Framed,       \* does the editor put headers before its messages, or line ends behind them?
    MaxMessages,  \* bound: messages to the server
    MaxRequests,  \* bound: requests among them
    MaxUnread     \* bound: messages in the pipe

ASSUME LspAssumption == Unreadable \notin Sources

VARIABLES
    documents,    \* documents_: uri -> its text and diagnostics
    symbols,      \* symbols_cache_: uri -> what the text declares
    server,       \* "reads" stdin, is "stuck" in a lock, or has "ended"
    stdin,        \* messages the server has not read
    hungUp,       \* the editor has closed stdin
    sent, requests,  \* messages and requests so far
    view,         \* the editor's documents: text, kept (the last that was not empty) and
                  \* read (the last of those the lexer takes)
    shown,        \* the diagnostics the editor shows
    answer        \* the answer just written, with what the editor had when it asked

lspVars == <<documents, symbols, server, stdin, hungUp, sent, requests, view, shown, answer>>

editorVars == <<hungUp, sent, requests, view>>

JsonNull == <<>>

NoAnswer == [method |-> "none"]

---------------------------------------------------------------------------
(* Positions are lines and characters from 0, offsets count the characters      *)
(* before them.                                                                 *)

Newlines(t, offset) == {i \in 1..offset : t[i] = "\n"}

OffsetToPosition(t, offset) ==
    [line |-> Cardinality(Newlines(t, offset)),
     character |-> offset - Max(Newlines(t, offset) \cup {0})]

LineStart(t, line) ==
    Min({i \in 0..Len(t) : Cardinality(Newlines(t, i)) = line} \cup {Len(t)})

\* A character past the end of the line is counted on into the next.
PositionToOffset(t, p) == LineStart(t, p.line) + p.character

\* The word around the position or right before it.
WordAt(t, p) ==
    LET offset == PositionToOffset(t, p)
        first == Min({s \in 0..offset : \A i \in (s + 1)..offset : t[i] \in Letters})
        behind == Max({e \in offset..Len(t) : \A i \in (offset + 1)..e : t[i] \in Letters})
    IN  IF offset >= Len(t) THEN JsonNull ELSE SubSeq(t, first + 1, behind)

\* Mutant: only the character before a match is looked at.
OccurrencesOfPrefix(t, w) ==
    {o \in 0..(Len(t) - Len(w)) :
        /\ SubSeq(t, o + 1, o + Len(w)) = w
        /\ o > 0 => t[o] \notin Letters}

\* Where the word stands by itself. The search goes on behind every match, whole
\* word or not; no whole word begins inside one.
Occurrences(t, w) ==
    {o \in 0..(Len(t) - Len(w)) :
        /\ SubSeq(t, o + 1, o + Len(w)) = w
        /\ o > 0 => t[o] \notin Letters
        /\ o + Len(w) < Len(t) => t[o + Len(w) + 1] \notin Letters}

\* Offsets of a text, or indices of it, in their order.
InOrder(S, t) == SelectSeq([i \in 1..(Len(t) + 1) |-> i - 1], LAMBDA o : o \in S)

---------------------------------------------------------------------------
\* spanToLocation: the lexer notes where a keyword ends, from 1; the server takes
\* 1 off the line only.
LocationOf(t, s) ==
    LET p == OffsetToPosition(t, s.behind) IN [line |-> p.line, character |-> p.character + 1]

\* The statements that the i-th one is inside of.
Around(s, i) == {j \in 1..(i - 1) : \A k \in (j + 1)..i : s[k].level > s[j].level}

\* What a statement declares.
SymbolsOf(t, s) ==
    LET Named(names, kind) ==
          [i \in DOMAIN names |->
              [name |-> names[i], kind |-> kind, location |-> LocationOf(t, s)]]
    IN  IF s.kind = "other" THEN <<>> ELSE Named(s.names, s.kind) \o Named(s.params, "parameter")

\* The server looks into bodies of functions and plain blocks, but not of conditions
\* and loops.
ExtractSymbols(t) ==
    LET s == Ast[t]
    IN  FlattenSeq([i \in DOMAIN s |->
                       IF \A j \in Around(s, i) : s[j].kind /= "other"
                       THEN SymbolsOf(t, s[i]) ELSE <<>>])

\* One for every character no token begins with, # here, a line below it.
GenerateDiagnostics(t) ==
    {LET p == OffsetToPosition(t, i) IN [line |-> p.line + 1, character |-> p.character + 1] :
        i \in {i \in DOMAIN t : t[i] = "#"}}

\* documents_[uri] = and the like.
Stored(f, u, x) == [v \in DOMAIN f \cup {u} |-> IF v = u THEN x ELSE f[v]]

Erased(f, u) == Restrict(f, DOMAIN f \ {u})

\* The text is stored before it is read: if the lexer throws, handleNotification
\* catches it, and the symbols and what the editor shows are those of an earlier text.
ParseDocument(u, t) ==
    IF Ast[t] = Unreadable
    THEN /\ documents' = Stored(documents, u, [text |-> t, diagnostics |-> {}])
         /\ UNCHANGED <<symbols, shown>>
    ELSE /\ documents' = Stored(documents, u,
                                [text |-> t, diagnostics |-> GenerateDiagnostics(t)])
         /\ symbols' = Stored(symbols, u, ExtractSymbols(t))
         /\ shown' = Stored(shown, u, GenerateDiagnostics(t))

---------------------------------------------------------------------------
(* The editor.                                                                  *)

Sends(m) ==
    /\ sent < MaxMessages /\ Len(stdin) < MaxUnread /\ ~hungUp
    /\ sent' = sent + 1 /\ requests' = requests + (IF m.kind = "request" THEN 1 ELSE 0)
    /\ stdin' = Append(stdin, m)
    /\ answer' = NoAnswer
    /\ UNCHANGED <<documents, symbols, server, shown, hungUp>>

Changed(v, t) ==
    [text |-> t,
     kept |-> IF t = <<>> THEN v.kept ELSE t,
     read |-> IF t = <<>> \/ Ast[t] = Unreadable THEN v.read ELSE t]

OpenDocument(u, t) ==
    /\ u \notin DOMAIN view
    /\ view' = Stored(view, u, [text |-> t, kept |-> t,
                                read |-> IF Ast[t] = Unreadable THEN Unreadable ELSE t])
    /\ Sends([kind |-> "didOpen", uri |-> u, text |-> t])

EditDocument(u, t) ==
    /\ u \in DOMAIN view /\ view[u].text /= t
    /\ view' = Stored(view, u, Changed(view[u], t))
    /\ Sends([kind |-> "didChange", uri |-> u, text |-> t])

SaveDocument(u) ==
    /\ u \in DOMAIN view
    /\ Sends([kind |-> "didSave", uri |-> u])
    /\ UNCHANGED view

CloseDocument(u) ==
    /\ u \in DOMAIN view
    /\ view' = Erased(view, u)
    /\ Sends([kind |-> "didClose", uri |-> u])

AskServer ==
    /\ requests < MaxRequests
    /\ Sends([kind |-> "request", view |-> view])
    /\ UNCHANGED view

HangUp ==
    /\ ~hungUp
    /\ hungUp' = TRUE /\ answer' = NoAnswer
    /\ UNCHANGED <<documents, symbols, server, stdin, sent, requests, view, shown>>

Editor ==
    \/ \E u \in Uris :
         \/ \E t \in Sources : OpenDocument(u, t) \/ EditDocument(u, t)
         \/ SaveDocument(u) \/ CloseDocument(u)
    \/ AskServer \/ HangUp

---------------------------------------------------------------------------
(* The server. It reads lines; a message behind a header has no line end of its *)
(* own, so it is read when the next header, or the end of the input, follows.   *)

Reads(kind) ==
    /\ server = "reads"
    /\ stdin /= <<>> /\ Head(stdin).kind = kind
    /\ ~Framed \/ Len(stdin) > 1 \/ hungUp
    /\ stdin' = Tail(stdin)
    /\ UNCHANGED editorVars

Message == Head(stdin)

DidOpen ==
    /\ Reads("didOpen")
    /\ ParseDocument(Message.uri, Message.text)
    /\ answer' = NoAnswer
    /\ UNCHANGED server

\* An empty text is taken for a message without one.
DidChange ==
    /\ Reads("didChange")
    /\ IF Message.text = <<>>
       THEN UNCHANGED <<documents, symbols, shown>>
       ELSE ParseDocument(Message.uri, Message.text)
    /\ answer' = NoAnswer
    /\ UNCHANGED server

\* parseDocument locks documents_mutex_, which is held.
DidSave ==
    /\ Reads("didSave")
    /\ server' = IF Message.uri \in DOMAIN documents THEN "stuck" ELSE server
    /\ answer' = NoAnswer
    /\ UNCHANGED <<documents, symbols, shown>>

\* What the editor shows of it stays.
DidClose ==
    /\ Reads("didClose")
    /\ documents' = Erased(documents, Message.uri)
    /\ symbols' = Erased(symbols, Message.uri)
    /\ answer' = NoAnswer
    /\ UNCHANGED <<server, shown>>

Replies(method, u, p, content) ==
    /\ Reads("request")
    /\ answer' = [method |-> method, uri |-> u, position |-> p, view |-> Message.view,
                  content |-> content]
    /\ UNCHANGED <<documents, symbols, shown>>

Declared(u) == IF u \in DOMAIN symbols THEN symbols[u] ELSE <<>>

Called(u, w) == SelectSeq(Declared(u), LAMBDA s : s.name = w)

Word(u, p) == WordAt(documents[u].text, p)

HoverKind(u, w) ==
    IF w \in Keywords THEN "keyword"
    ELSE IF w \in Builtins THEN "builtin"
    ELSE IF w = JsonNull \/ Called(u, w) = <<>> THEN "none" ELSE Called(u, w)[1].kind

Hover(u, p) ==
    Replies("hover", u, p, HoverKind(u, Word(u, p))) /\ UNCHANGED server

\* The first symbol of that name, whatever the scope.
FindDefinition(u, w) ==
    IF w = JsonNull \/ Called(u, w) = <<>> THEN JsonNull ELSE <<Called(u, w)[1].location>>

Definition(u, p) ==
    Replies("definition", u, p, FindDefinition(u, Word(u, p))) /\ UNCHANGED server

\* Only functions, variables and parameters have a definition to leave out.
FindReferences(u, w) ==
    LET t == documents[u].text
        definitions == SelectSeq(Called(u, w), LAMBDA s : s.kind /= "constant")
        places == {OffsetToPosition(t, o) : o \in Occurrences(t, w)}
    IN  IF w = JsonNull \/ u \notin DOMAIN symbols THEN {}
        ELSE IF definitions = <<>> THEN places ELSE places \ {definitions[1].location}

References(u, p) ==
    Replies("references", u, p, FindReferences(u, Word(u, p))) /\ UNCHANGED server

EditAt(t, offset, length, new) ==
    [from |-> OffsetToPosition(t, offset),
     to |-> [OffsetToPosition(t, offset) EXCEPT !.character = @ + length], new |-> new]

RenameEdits(w) ==
    IF w = JsonNull \/ w \in Keywords \cup Builtins THEN JsonNull
    ELSE [v \in DOMAIN documents |->
            LET t == documents[v].text
                places == InOrder(Occurrences(t, w), t)
            IN  [i \in DOMAIN places |-> EditAt(t, places[i], Len(w), NewName)]]

Rename(u, p) ==
    Replies("rename", u, p, RenameEdits(Word(u, p))) /\ UNCHANGED server

Completion(u) ==
    /\ Replies("completion", u, JsonNull,
               Keywords \cup Builtins \cup {s.name : s \in ToSet(Declared(u))})
    /\ UNCHANGED server

\* Each with its place, which is as long as its name.
DocumentSymbol(u) ==
    /\ Replies("documentSymbol", u, JsonNull,
               {[name |-> s.name, from |-> s.location,
                 to |-> [s.location EXCEPT !.character = @ + Len(s.name)]] :
                   s \in ToSet(Declared(u))})
    /\ UNCHANGED server

\* Of all documents, what has the query, a letter here, in its name.
WorkspaceSymbol(query) ==
    /\ Replies("workspaceSymbol", JsonNull, JsonNull,
               UNION {{[uri |-> v, name |-> s.name] :
                         s \in {s \in ToSet(symbols[v]) : query \in ToSet(s.name)}} :
                        v \in DOMAIN symbols})
    /\ UNCHANGED server

InlayHint(u) ==
    /\ Replies("inlayHint", u, JsonNull,
               {s.location : s \in {s \in ToSet(Declared(u)) : s.kind = "parameter"}})
    /\ UNCHANGED server

LineEnd(t, line) ==
    Min({i \in LineStart(t, line)..Len(t) : i < Len(t) => t[i + 1] = "\n"})

LineText(t, line) == SubSeq(t, LineStart(t, line) + 1, LineEnd(t, line))

\* Keywords are looked for line by line.
KeywordTokens(t) ==
    UNION {{[line |-> n, character |-> o, length |-> Len(w)] :
              o \in Occurrences(LineText(t, n), w)} :
             n \in 0..Cardinality(Newlines(t, Len(t))), w \in Keywords}

SemanticTokens(u) ==
    Replies("semanticTokens", u, JsonNull, KeywordTokens(documents[u].text)) /\ UNCHANGED server

Blanks == {" ", "\t"}

\* After a line end outside strings come a tab for every bracket that is open, and
\* none of the blanks that were there.
PutCharacter(f, c) == [f EXCEPT !.out = Append(@, c), !.fresh = FALSE]

PutOutside(f, c) ==
    CASE c \in {"{", "("} -> [PutCharacter(f, c) EXCEPT !.indent = @ + 1]
      [] c \in {"}", ")"} -> [PutCharacter(f, c) EXCEPT !.indent = Max({0, @ - 1})]
      [] c = "\n" -> [PutCharacter(f, c) EXCEPT !.out = @ \o [i \in 1..f.indent |-> "\t"],
                                                !.fresh = TRUE]
      [] OTHER -> PutCharacter(f, c)

FormatCharacter(t, f, i) ==
    LET quoted == IF t[i] = "\"" /\ (i = 1 \/ t[i - 1] /= "\\") THEN ~f.quoted ELSE f.quoted
    IN  IF f.fresh /\ t[i] \in Blanks THEN f
        ELSE IF quoted THEN [PutCharacter(f, t[i]) EXCEPT !.quoted = TRUE]
        ELSE PutOutside([f EXCEPT !.quoted = FALSE], t[i])

Formatted(t) ==
    FoldLeftDomain(LAMBDA f, i : FormatCharacter(t, f, i),
                   [out |-> <<>>, indent |-> 0, quoted |-> FALSE, fresh |-> FALSE], t).out

\* The edit ends where the last line begins.
FormattingEdit(t) ==
    [from |-> [line |-> 0, character |-> 0],
     to |-> [line |-> Cardinality(Newlines(t, Len(t))), character |-> 0],
     new |-> Formatted(t)]

DocumentFormatting(u) ==
    Replies("formatting", u, JsonNull, FormattingEdit(documents[u].text)) /\ UNCHANGED server

\* Of several blanks in a row the first stays.
Squeezed(t) ==
    LET kept == InOrder({i \in DOMAIN t : t[i] \in Blanks => i = 1 \/ t[i - 1] \notin Blanks}, t)
    IN  [i \in DOMAIN kept |-> t[kept[i]]]

RangeFormattingEdit(t, p, q) ==
    LET from == PositionToOffset(t, p)
        chosen == SubSeq(t, from + 1, Min({Len(t), PositionToOffset(t, q)}))
    IN  IF from > Len(t) \/ Squeezed(chosen) = chosen THEN <<>>
        ELSE <<[from |-> p, to |-> q, new |-> Squeezed(chosen)]>>

RangeFormatting(u, p, q) ==
    Replies("rangeFormatting", u, p, RangeFormattingEdit(documents[u].text, p, q))
    /\ UNCHANGED server

\* The result of shutdown is null; the loop ends behind it.
Shutdown ==
    /\ Replies("shutdown", JsonNull, JsonNull, JsonNull)
    /\ server' = "ended"

EndOfInput ==
    /\ server = "reads" /\ stdin = <<>> /\ hungUp
    /\ server' = "ended" /\ answer' = NoAnswer
    /\ UNCHANGED <<documents, symbols, stdin, editorVars, shown>>

Positions(t) == {OffsetToPosition(t, o) : o \in 0..Len(t)}

RangeEnds(t, p) ==
    {OffsetToPosition(t, o) : o \in {LineEnd(t, p.line), Len(t)}}

HandleRequest ==
    \/ \E u \in DOMAIN Message.view :
         \/ Completion(u) \/ DocumentSymbol(u) \/ InlayHint(u)
         \/ SemanticTokens(u) \/ DocumentFormatting(u)
         \/ \E p \in Positions(Message.view[u].text) :
              \/ Hover(u, p) \/ Definition(u, p) \/ References(u, p) \/ Rename(u, p)
              \/ \E q \in RangeEnds(Message.view[u].text, p) : RangeFormatting(u, p, q)
    \/ \E query \in Letters : WorkspaceSymbol(query)
    \/ Shutdown

LspInit ==
    /\ documents = <<>> /\ symbols = <<>> /\ server = "reads"
    /\ stdin = <<>> /\ hungUp = FALSE /\ sent = 0 /\ requests = 0
    /\ view = <<>> /\ shown = <<>> /\ answer = NoAnswer

LspNext ==
    \/ Editor
    \/ DidOpen \/ DidChange \/ DidSave \/ DidClose
    \/ stdin /= <<>> /\ Message.kind = "request" /\ HandleRequest
    \/ EndOfInput

LspSpec == LspInit /\ [][LspNext]_lspVars

---------------------------------------------------------------------------
\* When the server comes to a request, it has the documents the editor had when it
\* asked: of each the last text that was not empty, and the symbols and diagnostics
\* of the last text the lexer did not throw on.
InStep ==
    server = "reads" /\ stdin /= <<>> /\ Message.kind = "request" =>
      /\ DOMAIN documents = DOMAIN Message.view
      /\ \A u \in DOMAIN Message.view :
           LET v == Message.view[u]
           IN  /\ documents[u].text = v.kept
               /\ IF v.read = Unreadable THEN u \notin DOMAIN symbols
                  ELSE symbols[u] = ExtractSymbols(v.read) /\ shown[u] = GenerateDiagnostics(v.read)

\* What the editor makes of edits: a character past the end of a line is its end.
EditorOffset(t, p) == Min({PositionToOffset(t, p), LineEnd(t, p.line)})

Applied(t, edits) ==
    FoldRight(LAMBDA e, s : SubSeq(s, 1, EditorOffset(t, e.from)) \o e.new
                            \o SubSeq(s, EditorOffset(t, e.to) + 1, Len(s)),
              edits, t)

\* Where a word or a single character begins or ends.
Cuts(t) ==
    {i \in 0..Len(t) : i \in {0, Len(t)} \/ t[i] \notin Letters \/ t[i + 1] \notin Letters}

Renamed(t, w) ==
    LET cuts == InOrder(Cuts(t), t)
        Piece(n) == SubSeq(t, cuts[n] + 1, cuts[n + 1])
    IN  FlattenSeq([n \in 1..(Len(cuts) - 1) |-> IF Piece(n) = w THEN NewName ELSE Piece(n)])

\* The whole words of a text that are w.
Standing(t, w) ==
    LET cuts == Cuts(t)
    IN  {o \in cuts : o + Len(w) \in cuts /\ w = SubSeq(t, o + 1, o + Len(w))}

Stripped(t) == SelectSeq(t, LAMBDA c : c \notin Blanks)

\* Right behind a blank behind a keyword.
BehindKeyword(t, q) ==
    /\ q.character > 0 /\ t[EditorOffset(t, q)] \in Blanks
    /\ WordAt(t, [q EXCEPT !.character = @ - 1]) \in Keywords

\* Renaming replaces the word, as a whole word, in all documents of the editor that
\* are not empty, and nothing else.
RenameSound(c, docs, w) ==
    IF c = JsonNull THEN w \in {JsonNull} \cup Keywords \cup Builtins
    ELSE \A v \in DOMAIN docs :
           docs[v].text = docs[v].kept => Applied(docs[v].text, c[v]) = Renamed(docs[v].text, w)

\* No reference is missing, but the one behind the keyword that declares it.
ReferencesSound(c, t, w) ==
    LET all == IF w = JsonNull THEN {} ELSE {OffsetToPosition(t, o) : o \in Standing(t, w)}
    IN  /\ c \subseteq all /\ Cardinality(all \ c) <= 1
        /\ \A q \in all \ c : BehindKeyword(t, q)

\* Formatting changes blanks only, and nothing when done again: of a text whose
\* last line is empty, as the edit ends where that line begins.
FormattingSound(c, t) ==
    LET new == Applied(t, <<c>>)
    IN  t = <<>> \/ Last(t) = "\n" => Stripped(new) = Stripped(t) /\ Formatted(new) = new

KeywordPlaces(t) ==
    UNION {{[line |-> OffsetToPosition(t, o).line, character |-> OffsetToPosition(t, o).character,
             length |-> Len(w)] : o \in Standing(t, w)} : w \in Keywords}

\* Symbols found in the workspace stand in documents the editor has open.
WorkspaceSound(c, docs) ==
    \A r \in c : /\ r.uri \in DOMAIN docs
                 /\ docs[r.uri].text = docs[r.uri].read => Standing(docs[r.uri].text, r.name) /= {}

\* Answers about symbols, for a text the lexer did not throw on: what is offered
\* stands in it, and what has a place is right behind a keyword.
SymbolsSound(m, c, t) ==
    /\ m = "references" => ReferencesSound(c, t, WordAt(t, answer.position))
    /\ m = "definition" => \A q \in ToSet(c) : BehindKeyword(t, q)
    /\ m = "inlayHint" => \A q \in c : BehindKeyword(t, q)
    /\ m = "documentSymbol" => \A r \in c : BehindKeyword(t, r.from) /\ Standing(t, r.name) /= {}
    /\ m = "completion" => \A w \in c \ (Keywords \cup Builtins) : Standing(t, w) /= {}

\* Every answer is right about the text the editor had when it asked, unless that
\* text was empty, which the server never hears of (LSPServer::handleRequest).
AnswerSound ==
    LET m == answer.method
    IN  /\ m = "workspaceSymbol" => WorkspaceSound(answer.content, answer.view)
        /\ m \notin {"none", "shutdown", "workspaceSymbol"} =>
             LET asked == answer.view[answer.uri]
                 t == asked.text
                 c == answer.content
             IN  t = asked.kept =>
                   /\ m = "rename" => RenameSound(c, answer.view, WordAt(t, answer.position))
                   /\ m = "semanticTokens" => c = KeywordPlaces(t)
                   /\ m = "formatting" => FormattingSound(c, t)
                   /\ m = "rangeFormatting" => Stripped(Applied(t, c)) = Stripped(t)
                   /\ t = asked.read => SymbolsSound(m, c, t)

\* The server is in step with the editor, and what it answers is right.
ServerSound == InStep /\ AnswerSound

=============================================================================
