------------------------------- MODULE Parser -------------------------------
(* parser/parser.h: the recursive-descent parser reading a program in which    *)
(* tokens are wrong, missing, or too many, or which ends early. The parse       *)
(* functions are in Grammar; here is the machine that runs them: the tokens     *)
(* and the cursor, the calls, the loops, the errors it reports and the          *)
(* recovery from them.                                                          *)
EXTENDS Grammar, Integers, SequencesExt

CONSTANTS Texts,      \* the programs written, as sequences of the kinds of their tokens
          Kinds,      \* kinds of token that may appear by mistake
          MaxEdits    \* mistakes in a program

ASSUME ParserAssumption == Texts # {} /\ "eof" \notin Kinds /\ MaxEdits \in Nat

VARIABLES source,     \* what follows the tokens already looked at
          edits,      \* mistakes made so far
          ahead,      \* tokens looked at, from the cursor on
          todo,       \* what the functions being executed still have to do
          at,         \* the cursor
          before,     \* the token before it
          found,      \* what the last function returned
          told,       \* an error was reported
          unexplained,\* a function failed and only P999 says so
          lax,        \* a missing delimiter or a token without a meaning was let pass
          open,       \* opening less closing delimiters consumed, by kind
          saved,      \* what was consumed since the parser may have to go back
          stuck       \* the loop whose iteration leaves the cursor where it was

parserVars == <<source, edits, ahead, todo, at, before, found, told, unexplained, lax, open,
                saved, stuck>>

None == "none"

End == [do |-> "end"]

ParserInit ==
    /\ source \in Texts /\ edits = 0 /\ ahead = <<>>
    /\ todo = Program
    /\ at = 0 /\ before = None /\ found = None
    /\ told = FALSE /\ unexplained = FALSE /\ lax = FALSE
    /\ open = [d \in {"(", "[", "{"} |-> 0]
    /\ saved = [on |-> FALSE, tokens |-> <<>>, before |-> None]
    /\ stuck = None

---------------------------------------------------------------------------
Now == Head(todo)

Later == Tail(todo)

Peek == Head(ahead)

AtEnd == Peek = "eof"

\* How many tokens the instruction looks at.
Wanted == IF Now.do = "second" THEN 2
          ELSE IF Now.do \in {"take", "need", "must", "when", "lax", "loop", "dispatch", "moved",
                              "sync"} THEN 1 ELSE 0

Looked == Len(ahead) >= Wanted \/ (ahead # <<>> /\ Last(ahead) = "eof")

Running == todo # <<>> /\ stuck = None

Does(what) == Running /\ Now.do = what /\ Looked

\* The lexer hands over what is written, or a mistake: one more token, another
\* one, none, or the end of the file.
Read ==
    /\ Running /\ ~Looked
    /\ \/ /\ ahead' = Append(ahead, IF source = <<>> THEN "eof" ELSE Head(source))
          /\ source' = IF source = <<>> THEN <<>> ELSE Tail(source)
          /\ UNCHANGED edits
       \/ /\ edits < MaxEdits /\ edits' = edits + 1
          /\ \/ /\ \E k \in Kinds : ahead' = Append(ahead, k)
                /\ \/ UNCHANGED source
                   \/ source # <<>> /\ source' = Tail(source)
             \/ /\ source # <<>> /\ source' \in {Tail(source), <<>>}
                /\ UNCHANGED ahead
    /\ UNCHANGED <<todo, at, before, found, told, unexplained, lax, open, saved, stuck>>

Closes == [c \in {")", "]", "}"} |-> IF c = ")" THEN "(" ELSE IF c = "]" THEN "[" ELSE "{"]

Tallied ==
    IF Peek \in DOMAIN open THEN [open EXCEPT ![Peek] = @ + 1]
    ELSE IF Peek \in DOMAIN Closes THEN [open EXCEPT ![Closes[Peek]] = @ - 1]
    ELSE open

\* advance(), where the end of the file was ruled out.
Advance ==
    /\ ahead' = Tail(ahead) /\ at' = at + 1 /\ before' = Peek /\ open' = Tallied
    /\ saved' = IF saved.on THEN [saved EXCEPT !.tokens = Append(@, Peek)] ELSE saved
    /\ UNCHANGED <<source, edits, unexplained, stuck>>

Stay == UNCHANGED <<source, edits, ahead, at, before, open, saved, unexplained, stuck>>

Continue(with) == todo' = with \o Later

\* What is left once a function has returned, or a loop was left.
After(mark) == SubSeq(todo, SelectInSeq(todo, LAMBDA i : i.do = mark) + 1, Len(todo))

Enter(rule, then) == Rules[rule] \o <<End>> \o then

---------------------------------------------------------------------------
TakeToken ==
    /\ Does("take") /\ Continue(<<>>)
    /\ IF AtEnd THEN Stay ELSE Advance
    /\ UNCHANGED <<found, told, lax>>

Abandon(how) ==
    CASE how = "null" -> found' = "null" /\ todo' = After("end")
      [] how = "part" -> found' = "ok" /\ todo' = After("end")
      [] how = "leave" -> todo' = Tail(After("again")) /\ UNCHANGED found
      [] how = "go on" -> Continue(<<>>) /\ UNCHANGED found

Expect ==
    /\ Does("need") \/ Does("must")
    /\ \/ /\ Peek \in Now.kinds
          /\ IF Now.do = "need" THEN Advance ELSE Stay
          /\ Continue(<<>>) /\ UNCHANGED <<found, told>>
       \/ /\ Peek \notin Now.kinds
          /\ told' = TRUE /\ Abandon(Now.otherwise) /\ Stay
    /\ UNCHANGED lax

Choose ==
    /\ Does("when")
    /\ Continue(IF Peek \in Now.kinds THEN Now.then ELSE Now.else)
    /\ Stay /\ UNCHANGED <<found, told, lax>>

ChooseBySecond ==
    /\ Does("second")
    /\ Continue(IF Len(ahead) > 1 /\ ahead[2] \in Now.kinds THEN Now.then ELSE <<>>)
    /\ Stay /\ UNCHANGED <<found, told, lax>>

ChooseByResult ==
    /\ Does("test")
    /\ Continue(IF found = Now.is THEN Now.then ELSE Now.else)
    /\ Stay /\ UNCHANGED <<found, told, lax>>

\* A closing delimiter, or none and no error.
MayClose ==
    /\ Does("lax") /\ Continue(<<>>)
    /\ IF Peek \in Now.kinds THEN Advance /\ UNCHANGED lax ELSE Stay /\ lax' = TRUE
    /\ UNCHANGED <<found, told>>

SkipToken ==
    /\ Does("skip") /\ Continue(<<>>) /\ lax' = TRUE
    /\ Stay /\ UNCHANGED <<found, told>>

Iterate ==
    /\ Does("loop")
    /\ IF (Peek \in Now.kinds) = Now.not THEN Continue(<<>>)
       ELSE todo' = Now.body \o <<[do |-> "again", from |-> at, what |-> Now.what]>> \o todo
    /\ Stay /\ UNCHANGED <<found, told, lax>>

\* The end of an iteration. Where the cursor has not moved, the next one does
\* the same again.
Repeat ==
    /\ Does("again")
    /\ IF Now.from = at THEN stuck' = Now.what /\ UNCHANGED todo
       ELSE Continue(<<>>) /\ UNCHANGED stuck
    /\ UNCHANGED <<source, edits, ahead, at, before, found, told, unexplained, lax, open, saved>>

LeaveLoop ==
    /\ Does("leave") /\ todo' = Tail(After("again"))
    /\ Stay /\ UNCHANGED <<found, told, lax>>

NextIteration ==
    /\ Does("continue")
    /\ todo' = SubSeq(todo, SelectInSeq(todo, LAMBDA i : i.do = "again"), Len(todo))
    /\ Stay /\ UNCHANGED <<found, told, lax>>

CallRule ==
    /\ \/ Does("call") /\ todo' = Enter(Now.rule, Later)
       \/ /\ Does("dispatch")
          /\ todo' = Enter(IF Peek \in DOMAIN Now.table THEN Now.table[Peek] ELSE Now.other, Later)
       \/ /\ Does("guarded")
          /\ todo' = Enter(Now.rule, <<[do |-> "moved", from |-> at]>> \o Later)
    /\ Stay /\ UNCHANGED <<found, told, lax>>

ReturnResult ==
    /\ \/ Does("return") /\ found' = Now.is /\ todo' = After("end")
       \/ Does("pass") /\ todo' = After("end") /\ UNCHANGED found
       \/ Does("result") /\ found' = Now.is /\ Continue(<<>>)
    /\ Stay /\ UNCHANGED <<told, lax>>

ReportError ==
    /\ Does("report") /\ Continue(<<>>) /\ told' = TRUE
    /\ Stay /\ UNCHANGED <<found, lax>>

\* Mutant: the parser looks at the token it did not like again.
MovedNot ==
    /\ Does("moved") /\ Continue(<<>>)
    /\ IF found # "null" /\ Now.from = at /\ ~AtEnd
       THEN Stay /\ told' = TRUE
       ELSE Stay /\ UNCHANGED told
    /\ UNCHANGED <<found, lax>>

\* The end of parse_expression.
Moved ==
    /\ Does("moved") /\ Continue(<<>>)
    /\ IF found # "null" /\ Now.from = at /\ ~AtEnd
       THEN Advance /\ told' = TRUE
       ELSE Stay /\ UNCHANGED told
    /\ UNCHANGED <<found, lax>>

---------------------------------------------------------------------------
\* The error count before and after a declaration: told is of this attempt until
\* it is added to the ones around it.
AttemptDeclaration ==
    /\ Does("attempt")
    /\ todo' = Enter("declaration",
                     <<[do |-> "tried", failed |-> Now.failed, told |-> told]>> \o Later)
    /\ told' = FALSE
    /\ Stay /\ UNCHANGED <<found, lax>>

Tried ==
    /\ Does("tried")
    /\ IF found = "null"
       THEN /\ Continue(Now.failed \o <<[do |-> "merge", told |-> Now.told]>>)
            /\ UNCHANGED told
       ELSE Continue(<<May({";"})>>) /\ told' = (told \/ Now.told)
    /\ Stay /\ UNCHANGED <<found, lax>>

Merge ==
    /\ Does("merge") /\ Continue(<<>>) /\ told' = (told \/ Now.told)
    /\ Stay /\ UNCHANGED <<found, lax>>

GenericError ==
    /\ Does("reportIfNone") /\ Continue(<<>>)
    /\ told' = TRUE /\ unexplained' = (unexplained \/ ~told)
    /\ UNCHANGED <<source, edits, ahead, at, before, found, lax, open, saved, stuck>>

\* Where synchronize stops.
Anchors == {"fn", "let", "if", "for", "return", "while", "loop", "match", "try", "throw", "break",
            "continue", "struct", "enum", "use", "mod", "trait", "impl", "publish", "subscribe",
            "handle", "async", "serial", "process", "}"}

SynchronizeStep ==
    /\ Does("sync")
    /\ LET there == AtEnd \/ (Now.moving /\ (before = ";" \/ Peek \in Anchors))
       IN \/ there /\ Continue(<<>>) /\ Stay
          \/ ~there /\ Continue(<<[Now EXCEPT !.moving = TRUE]>>) /\ Advance
    /\ UNCHANGED <<found, told, lax>>

---------------------------------------------------------------------------
\* The generic call that may turn out to be a comparison.
SaveCursor ==
    /\ Does("save") /\ Continue(<<>>)
    /\ saved' = [on |-> TRUE, tokens |-> <<>>, before |-> before]
    /\ UNCHANGED <<source, edits, ahead, at, before, found, told, unexplained, lax, open, stuck>>

Forgotten == [on |-> FALSE, tokens |-> <<>>, before |-> None]

ForgetCursor ==
    /\ Does("forget") /\ Continue(<<>>) /\ saved' = Forgotten
    /\ UNCHANGED <<source, edits, ahead, at, before, found, told, unexplained, lax, open, stuck>>

GoBack ==
    /\ Does("back") /\ Continue(<<>>) /\ saved' = Forgotten
    /\ ahead' = saved.tokens \o ahead /\ at' = at - Len(saved.tokens) /\ before' = saved.before
    /\ UNCHANGED <<source, edits, found, told, unexplained, lax, open, stuck>>

ParserStep ==
    \/ TakeToken \/ Expect \/ Choose \/ ChooseBySecond \/ ChooseByResult \/ MayClose \/ SkipToken
    \/ Iterate \/ Repeat \/ LeaveLoop \/ NextIteration \/ CallRule \/ ReturnResult
    \/ ReportError \/ Moved \/ AttemptDeclaration \/ Tried \/ Merge \/ GenericError \/ SynchronizeStep
    \/ SaveCursor \/ ForgetCursor \/ GoBack

ParserNext == Read \/ ParserStep

ParserSpec == ParserInit /\ [][ParserNext]_parserVars

---------------------------------------------------------------------------
ParserDone == todo = <<>>

\* The values of the variables; what the parser may go back over are type arguments,
\* no delimiters and no calls.
ParserTypeOK ==
    /\ edits \in 0..MaxEdits /\ at \in Nat
    /\ found \in {None, "null", "ok", "id", "binary"}
    /\ told \in BOOLEAN /\ unexplained \in BOOLEAN /\ lax \in BOOLEAN
    /\ open \in [{"(", "[", "{"} -> Int]
    /\ \A i \in 1..Len(ahead) : ahead[i] = "eof" => i = Len(ahead)
    /\ saved.on => Range(saved.tokens) \subseteq TypeNames \cup {"<", ">", ","}

\* The loops in which the program stays for ever: over the fields of a struct, the
\* captures and the parameters of a lambda, which look for a name and a comma and
\* do nothing about any other token.
Endless == {"fields", "captures", "lambda parameters"}

\* No other loop of the parser is left where it was by an iteration, whatever
\* the program is.
LoopsAdvance == stuck \in {None} \cup Endless

\* The parser is in a state it can leave, but for the loops named.
ParserAdvances == ParserTypeOK /\ LoopsAdvance

\* A declaration that fails has reported why: the generic "Parse error at token" is
\* never what the user is told.
FailuresExplained == ~unexplained

\* A program accepted without an error has its delimiters in pairs, except for the
\* places that let a missing one pass without an error.
AcceptedIsBalanced == ParserDone /\ ~told /\ ~lax => \A d \in DOMAIN open : open[d] = 0

\* What is written without mistakes is accepted.
CorrectIsAccepted == edits = 0 => ~told /\ ~lax /\ stuck = None

\* What the parser tells the user of a program is right.
VerdictIsRight == FailuresExplained /\ AcceptedIsBalanced /\ CorrectIsAccepted
=============================================================================
