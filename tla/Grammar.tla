------------------------------- MODULE Grammar -------------------------------
(* parser/parser.h, the parse functions: each is the sequence of what it does   *)
(* with the tokens, in the instructions that module Parser executes. The syntax *)
(* tree is left out, but for what a function does because of the kind of an     *)
(* expression; so are the spans and the codes of the errors.                    *)
EXTENDS Sequences, TLC

\* Identifiers with a meaning of their own to the parser; "id" is any other.
Ids == {"id", "tensor", "over", "stream", "event"}

\* Type keywords: those a handler may return, and the rest.
Basic == {"u32", "u8"}

TypeNames == Ids \cup Basic

---------------------------------------------------------------------------
\* Instructions. advance(), which does nothing at the end:
Take == [do |-> "take"]

\* A token of one of these kinds, or an error and then null, a partial result
\* ("part"), the end of the loop ("leave") or nothing ("go on").
Need(kinds, otherwise) == [do |-> "need", kinds |-> kinds, otherwise |-> otherwise]

\* The same, without consuming it.
Must(kinds, otherwise) == [do |-> "must", kinds |-> kinds, otherwise |-> otherwise]

When(kinds, then, else) == [do |-> "when", kinds |-> kinds, then |-> then, else |-> else]

If(kinds, then) == When(kinds, then, <<>>)

May(kinds) == If(kinds, <<Take>>)

\* The token after the next one.
WhenSecond(kinds, then) == [do |-> "second", kinds |-> kinds, then |-> then]

\* Loops: while the next token is one of these; until it is one, or the end; and
\* until one leaves it. "what" names the loop.
While(what, kinds, body) == [do |-> "loop", what |-> what, kinds |-> kinds, not |-> FALSE,
                             body |-> body]

Until(what, kinds, body) == [do |-> "loop", what |-> what, kinds |-> kinds \cup {"eof"},
                             not |-> TRUE, body |-> body]

Forever(what, body) == [do |-> "loop", what |-> what, kinds |-> {}, not |-> TRUE, body |-> body]

\* A delimiter that may be missing without an error.
Lax(kinds) == [do |-> "lax", kinds |-> kinds]

Leave == [do |-> "leave"]

Again == [do |-> "continue"]

Call(rule) == [do |-> "call", rule |-> rule]

\* A call of the function the next token selects, and its result.
Dispatch(table, other) == [do |-> "dispatch", table |-> table, other |-> other]

\* Results: null, an identifier, a binary expression, or anything else.
Result(r) == [do |-> "result", is |-> r]

Return(r) == [do |-> "return", is |-> r]

Pass == [do |-> "pass"]

WhenResult(r, then, else) == [do |-> "test", is |-> r, then |-> then, else |-> else]

Report == [do |-> "report"]

\* A declaration, whose failure is handled as "failed" says.
Attempt(failed) == [do |-> "attempt", failed |-> failed]

\* The generic error, unless the attempt reported one.
ReportIfNone == [do |-> "reportIfNone"]

\* Panic mode: past at least one token, then to where a statement may begin.
Synchronize == [do |-> "sync", moving |-> FALSE]

\* What is not an error is skipped without one.
Skip == [do |-> "skip"]

Save == [do |-> "save"]
Back == [do |-> "back"]
Forget == [do |-> "forget"]

\* parse_expression: what it calls, and the step over a token it did not like.
Guarded(rule) == [do |-> "guarded", rule |-> rule]

---------------------------------------------------------------------------
Ok == Return("ok")
Null == Return("null")

Program == <<Until("program", {}, <<Attempt(<<When({"eof"}, <<>>,
                                        <<ReportIfNone, Synchronize, Take>>)>>)>>)>>

AsyncFunction == <<Take, Call("function"), Pass>>

Serial == <<Take, When({"process"}, <<Call("process")>>, <<Call("function")>>), Pass>>

Declaration == <<Dispatch(
    [async |-> "async", fn |-> "function", serial |-> "serial", process |-> "process",
     publish |-> "publish", subscribe |-> "handler", handle |-> "handler", name |-> "name",
     struct |-> "struct", enum |-> "enum", trait |-> "trait", type |-> "alias",
     impl |-> "impl", use |-> "use", mod |-> "mod"], "statement"), Pass>>

Statement == <<Dispatch(
    [let |-> "let", const |-> "const", name |-> "name", publish |-> "publish",
     handle |-> "handler", bridge |-> "bridge", if |-> "if", match |-> "match",
     for |-> "for", while |-> "while", loop |-> "loop", return |-> "return",
     break |-> "break", continue |-> "break", try |-> "try", throw |-> "throw",
     raise |-> "raise", struct |-> "struct", enum |-> "enum", trait |-> "trait",
     impl |-> "impl", use |-> "use", mod |-> "mod"], "other statement"), Pass>>

OtherStatement == <<If({"{"}, <<Call("block"), Pass>>), Call("expression statement"), Pass>>

FunctionName == <<Need(Ids, "null")>>

Function == <<May({"async"}), Need({"fn"}, "null")>> \o FunctionName \o <<
    If({"<"}, <<Take,
        Until("type parameters", {">"},
            <<When(Ids, <<Take, When({","}, <<Take>>, <<If({">"}, <<Again>>), Report, Leave>>)>>,
                        <<Report, Leave>>)>>),
        Need({">"}, "go on")>>),
    Need({"("}, "null"),
    Until("parameters", {")"},
        <<When(Ids, <<Take, If({":"}, <<Take, Call("type")>>), May({","})>>, <<Report, Leave>>)>>),
    Need({")"}, "null"),
    If({"->"}, <<Take, Call("type")>>),
    When({"noraise"}, <<Take>>,
        <<If({"raise"}, <<Take, When({"?"} \cup TypeNames, <<Take>>, <<Report>>)>>)>>),
    Must({"{"}, "null"), Call("block"), Ok>>

Process == <<Need({"process"}, "null"), May(Ids),
    If({"("}, <<Take,
        Until("process parameters", {")"},
            <<When(Ids, <<Take, If({":"}, <<Take, May(TypeNames),
                              If({"["}, <<Take, May({"int"}), Need({"]"}, "go on")>>)>>),
                          May({","})>>, <<Leave>>)>>),
        Need({")"}, "null")>>),
    Must({"{"}, "null"), Call("block"), Ok>>

Name == <<Take, Need(Ids, "null"), Need({"="}, "null"), Need(TypeNames, "null"),
    If({"["}, <<Take, May({"int"} \cup Ids), Need({"]"}, "go on")>>), Ok>>

Let == <<Take, May({"mut"}),
    If({"("}, <<Take,
        Until("names", {")"},
            <<Need(Ids, "null"), When({","}, <<Take>>, <<Must({")"}, "null")>>)>>),
        Need({")"}, "null"), Need({"="}, "null"), Call("expression"), Ok>>),
    Need(Ids, "null"),
    If({":"}, <<Take, Call("type")>>), If({"="}, <<Take, Call("expression")>>), Ok>>

Const == <<Take, Need(Ids, "null"), If({":"}, <<Take, Call("type")>>),
    Need({"="}, "null"), Call("expression"), Ok>>

\* "if" is consumed; its "let" has a function of its own.
IfStatement == <<Take, If({"let"}, <<Call("if let"), Pass>>),
    Call("expression"), Must({"{"}, "null"), Call("block"),
    While("else", {"else"}, <<Take,
        When({"if"}, <<Take, Call("expression"), Call("block")>>,
            <<When({"{"}, <<Call("block"), Leave>>, <<Report, Leave>>)>>)>>), Ok>>

\* A pattern, "=" and an expression, and the block: what if let and while let share.
LetPattern == <<Take, Call("pattern"), WhenResult("null", <<Null>>, <<>>), Need({"="}, "null"),
    Call("expression"), Must({"{"}, "null"), Call("block")>>

IfLet == LetPattern \o <<If({"else"}, <<Take,
    When({"if"}, <<Call("if")>>, <<Must({"{"}, "null"), Call("block")>>)>>), Ok>>

WhileLet == LetPattern \o <<Ok>>

Match == <<Take, Call("expression"), Need({"{"}, "null"),
    Until("match", {"}"}, <<Call("pattern"), Need({"=>"}, "leave"),
        When({"{"}, <<Call("block")>>, <<Call("expression")>>), May({";"}), May({","})>>),
    Need({"}"}, "go on"), Ok>>

\* for and for await.
For == <<WhenSecond({"await"}, <<Take>>), Take, Need(Ids, "null"), Need({"in"}, "null"),
    Call("expression"), Must({"{"}, "null"), Call("block"), Ok>>

WhileStatement == <<Take, If({"let"}, <<Call("while let"), Pass>>),
    Call("expression"), Must({"{"}, "null"), Call("block"), Ok>>

Loop == <<Take, Must({"{"}, "null"), Call("block"), Ok>>

ReturnStatement == <<Take, When({";", "}"}, <<>>, <<Call("expression")>>), May({";"}), Ok>>

BreakStatement == <<Take, Need({";"}, "go on"), Ok>>

Try == <<WhenSecond({"?"}, <<Call("expression statement"), Pass>>),
    Take, Call("block"), WhenResult("null", <<Null>>, <<>>),
    While("catch", {"catch"}, <<Take, If(Ids, <<Take, If({":"}, <<Take, May(Ids)>>)>>),
        Call("block"), WhenResult("null", <<Null>>, <<>>)>>), Ok>>

Throw == <<Take, Call("expression"), WhenResult("null", <<Null>>, <<>>), May({";"}), Ok>>

Raise == <<Take, Call("expression"), WhenResult("null", <<Report, Null>>, <<>>), May({";"}), Ok>>

\* A field, and its type without generic parameters.
Field == <<Take, If({":"}, <<Take, May(TypeNames)>>)>>

StructFields == <<When({"pub"}, <<Take, When(Ids, Field, <<Report, Leave>>)>>,
                       <<If(Ids, Field)>>), May({","})>>

Struct == <<Take, Need(Ids, "null"), Need({"{"}, "part"),
    Until("fields", {"}"}, StructFields), Need({"}"}, "go on"), Ok>>

Use == <<Take, Need(Ids, "part"),
    While("path", {"::"}, <<Take, Need(Ids, "leave")>>),
    If({"as"}, <<Take, Need(Ids, "go on")>>), May({";"}), Ok>>

Mod == <<Take, Need(Ids, "null"), Need({"{"}, "part"),
    Until("module", {"}"}, <<Call("declaration"), WhenResult("null", <<Take>>, <<>>)>>),
    Need({"}"}, "go on"), Ok>>

BlockFailed == <<When({"}", "eof"}, <<>>, <<ReportIfNone, Synchronize>>)>>

\* Mutant: a block may be left open.
BlockUnclosed == <<Need({"{"}, "null"),
    Until("block", {"}"}, <<When({";"}, <<Take>>, <<Attempt(BlockFailed)>>)>>),
    May({"}"}), Ok>>

Block == <<Need({"{"}, "null"),
    Until("block", {"}"}, <<When({";"}, <<Take>>, <<Attempt(BlockFailed)>>)>>),
    Need({"}"}, "go on"), Ok>>

ExpressionStatement == <<Call("expression"), May({";"}), Ok>>

Arguments == Until("arguments", {")"}, <<Call("expression"), May({","})>>)

Publish == <<Take, Need(Ids, "null"),
    If({"("}, <<Take, Arguments, Need({")"}, "go on")>>), May({";"}), Ok>>

Command == <<Take, Need(Ids, "null"),
    If({"("}, <<Take, Arguments, Need({")"}, "go on")>>), Ok>>

\* subscribe and handle: a block with one function in it, parsed in place.
Handler == <<Take, Need(Ids, "null"), Need({"{"}, "null"), Need({"fn"}, "null"),
    Need(Ids, "null"), Need({"("}, "null"),
    Until("handler parameters", {")"},
        <<When(Ids, Field \o <<May({","})>>, <<Leave>>)>>), Lax({")"}),
    If({"->"}, <<Take, May(Ids \cup {"u32"})>>),
    Must({"{"}, "null"), Take,
    Until("handler", {"}"}, <<When({";"}, <<Take>>,
        <<Call("declaration"), WhenResult("null", <<Leave>>, <<May({";"})>>)>>)>>),
    Lax({"}"}), Need({"}"}, "go on"), Ok>>

Bridge == <<Take,
    When({"publish", "subscribe", "command", "handle", "stream", "event"}, <<Take>>,
         <<Must(Ids, "null")>>),
    Need(Ids, "null"), Need({"over"}, "null"), Call("expression"),
    WhenResult("null", <<Report, Null>>, <<>>), May({";"}), Ok>>

---------------------------------------------------------------------------
TypeArguments == <<Take, Call("type"), While("type arguments", {","}, <<Take, Call("type")>>)>>

TypeSize == <<Take, May({"int"} \cup Ids), Need({"]"}, "go on")>>

TensorType == <<Take, Need({"<"}, "part"), Call("type"), Need({","}, "part"), Need({"["}, "part"),
    Until("dimensions", {"]"}, <<When({"int"} \cup Ids, <<Take>>, <<Report, Leave>>), May({","})>>),
    Need({"]"}, "part"), Need({">"}, "part"), Ok>>

Type == <<If({"tensor"}, <<Call("tensor type"), Pass>>),
    When(Basic, <<Take>>,
    <<When({"result"}, <<Take, If({"<"}, TypeArguments \o <<May({">"})>>)>>,
    <<When(Ids, <<Take, If({"<"}, TypeArguments \o <<Need({">"}, "go on")>>)>>,
    <<When({"("}, <<Take,
          When({")"}, <<>>, <<Call("type"), While("tuple type", {","}, <<Take, Call("type")>>)>>),
          Need({")"}, "go on")>>,
    <<If({"["}, TypeSize)>>)>>)>>)>>),
    If({"["}, TypeSize), Ok>>

Pattern == <<Call("primary pattern"), WhenResult("null", <<Null>>, <<>>),
    While("or pattern", {"||"}, <<Take, Call("primary pattern"),
        WhenResult("null", <<Null>>, <<>>)>>), Ok>>

Elements(what, close, element) ==
    <<Until(what, {close}, element \o <<When({","}, <<Take>>, <<Leave>>)>>), Need({close}, "go on"),
      Ok>>

PrimaryPattern == <<
    If(Ids, <<WhenSecond({"@"}, <<Take, Take, Call("primary pattern"), Pass>>)>>),
    If({"int", "literal"}, <<Take, Ok>>),
    If(Ids, <<Take, If({"("}, <<Take>> \o Elements("constructor", ")", <<Call("pattern")>>)), Ok>>),
    If({"("}, <<Take>> \o Elements("tuple pattern", ")", <<Call("pattern")>>)),
    If({"["}, <<Take>> \o Elements("array pattern", "]",
        <<When({".."}, <<Take, May(Ids)>>, <<Call("pattern")>>)>>)),
    Report, Null>>

---------------------------------------------------------------------------
Expression == <<Guarded("assignment"), Pass>>

Assignment == <<Call("ternary"), If({"=", "+="}, <<Take, Call("assignment"), Return("binary")>>),
    Pass>>

Ternary == <<Call("comparison"),
    If({"?"}, <<Take, Call("expression"), Need({":"}, "part"), Call("ternary"),
                Return("binary")>>), Pass>>

\* The binary operators, of which only the range is not repeated: the levels above
\* it (|| to <), and those below it (+ to %), are one loop each, for the levels make
\* a difference to the tree alone.
Operators(below, operators) == <<Call(below),
    While("operators", operators, <<Take, Call(below), Result("binary")>>), Pass>>

Comparison == Operators("range", {"||", "&&", "|", "^", "&", "==", "<"})

RangeExpression == <<Call("term"), If({".."}, <<Take, Call("term"), Return("binary")>>), Pass>>

Term == Operators("unary", {"+", "-", "*", "/"})

Unary == <<If({"!", "-", "&", "*", "await"}, <<Take, Call("unary"), Ok>>),
    If({"try"}, <<WhenSecond({"?"}, <<Take, Take, Call("unary"), Ok>>)>>),
    Call("postfix"), Pass>>

Index == <<Take, Call("expression"),
    WhenResult("binary", <<>>, <<If({"..", ":"}, <<Take, Call("expression")>>)>>),
    Need({"]"}, "go on"), Result("ok")>>

\* id<T>(x): the parser goes back when it is no call of that form.
GenericCall == <<Save, Take,
    Until("type arguments", {">"}, <<When(TypeNames, <<Take, When({","}, <<Take>>, <<Leave>>)>>,
                                     <<Leave>>)>>),
    If({">"}, <<Take, If({"("}, <<Forget, Take, Arguments, Lax({")"}), Result("ok"), Again>>)>>),
    Back>>

Postfix == <<Call("primary"),
    Forever("postfix", <<
        If({"["}, Index \o <<Again>>),
        If({"."}, <<Take, When(Ids \cup {"int"}, <<Take, Result("ok"), Again>>, <<Report, Leave>>)>>),
        If({"<"}, <<WhenResult("id", GenericCall, <<>>), Leave>>),
        If({"("}, <<Take, Arguments, Need({")"}, "go on"), Result("ok"), Again>>),
        Leave>>), Pass>>

\* for x in e [if e], in a list, a dict or a set.
Comprehension(close) == If({"for"}, <<Take, Need(Ids, "part"), Need({"in"}, "part"),
    Call("expression"), If({"if"}, <<Take, Call("expression")>>)>> \o close \o <<Ok>>)

\* The elements after the first; a comma may end them.
More(what, close, element) == <<
    While(what, {","}, <<Take, If({close}, <<Leave>>)>> \o element),
    Need({close}, "go on"), Ok>>

List == <<Take, If({"]"}, <<Take, Ok>>), Call("expression"),
    Comprehension(<<Need({"]"}, "go on")>>)>> \o More("list", "]", <<Call("expression")>>)

LambdaParameters == <<If(Ids, Field), May({","})>>

Lambda == <<Take,
    If({"["}, <<Take, Until("captures", {"]"}, <<May(Ids), May({","})>>), Lax({"]"})>>),
    If({"("}, <<Take, Until("lambda parameters", {")"}, LambdaParameters), Lax({")"})>>),
    If({"->"}, <<Take, May(TypeNames)>>),
    If({"{"}, <<Call("block")>>), Ok>>

Path == <<Take,
    If({"::"}, <<While("path", {"::"}, <<Take, Need(Ids \cup {"self"}, "leave")>>), Ok>>),
    Return("id")>>

Parenthesised == <<Take, If({")"}, <<Take, Ok>>), Call("expression"),
    If({","}, <<Take, When({")"}, <<Take, Pass>>,
                  <<Call("expression")>> \o More("tuple", ")", <<Call("expression")>>))>>),
    Need({")"}, "go on"), Pass>>

DictOrSet == <<Take, If({"}"}, <<Take, Ok>>), Call("expression"),
    If({":"}, <<Take, Call("expression"), Comprehension(<<Lax({"}"})>>)>> \o
              More("dict", "}", <<Call("expression"), Need({":"}, "leave"), Call("expression")>>)),
    Comprehension(<<Lax({"}"})>>)>> \o More("set", "}", <<Call("expression")>>)

\* An interpolated string is parsed by a parser of its own, which reports to the
\* same reporter: it has mistakes of its own or none.
Primary == <<
    If({"int", "literal"}, <<Take, Ok>>),
    If({"interpolated"}, <<Take, Ok>>), If({"badly interpolated"}, <<Take, Report, Ok>>),
    If({"["}, List), If({"fn"}, Lambda),
    If({"command"}, <<Call("command"), Pass>>),
    If(Ids \cup {"self"}, Path),
    If({"("}, Parenthesised), If({"{"}, DictOrSet),
    Report, Return("id")>>

---------------------------------------------------------------------------
\* Names between < and >, of an enum or a trait: whatever ends them, no error.
TypeParameters == If({"<"}, <<Take,
    Until("type parameters", {">"}, <<May(Ids), When({","}, <<Take>>, <<Leave>>)>>), May({">"})>>)

Variant == <<Take, If({"("}, <<Take,
    Until("variant", {")"}, <<May(TypeNames), When({","}, <<Take>>, <<Leave>>)>>), Lax({")"})>>)>>

Enum == <<Take, Need(Ids, "null"), TypeParameters, Need({"{"}, "part"),
    Until("variants", {"}"}, <<If(Ids, Variant),
        When({","}, <<Take>>, <<When({"}"}, <<>>, <<Leave>>)>>)>>),
    Need({"}"}, "go on"), Ok>>

\* The methods of a trait or an impl. What is no method is skipped.
Methods(what, parameters, body) ==
    Until(what, {"}"}, <<When({"fn"}, <<Take, Need(Ids, "leave"), Need({"("}, "leave"),
        Until("method parameters", {")"},
            <<If(parameters, Field), When({","}, <<Take>>, <<Leave>>)>>), Lax({")"}),
        If({"->"}, <<Take, May(TypeNames)>>), body>>, <<Skip, Take>>)>>)

Trait == <<Take, Need(Ids, "null"), TypeParameters, Need({"{"}, "part"),
    Methods("trait", Ids, When({"{"}, <<Call("block")>>, <<May({";"})>>)),
    Need({"}"}, "go on"), Ok>>

Alias == <<Take, Need(Ids, "null"), Need({"="}, "null"), Need(TypeNames, "null"), May({";"}), Ok>>

Impl == <<Take, Need(Ids, "null"), If({"for"}, <<Take, Need(Ids, "go on")>>), Need({"{"}, "part"),
    Methods("impl", Ids \cup {"self"}, Call("block")), Need({"}"}, "go on"), Ok>>

Rules == [
    declaration |-> Declaration, statement |-> Statement, async |-> AsyncFunction,
    function |-> Function, serial |-> Serial, process |-> Process, name |-> Name, let |-> Let,
    const |-> Const, if |-> IfStatement, match |-> Match, for |-> For, while |-> WhileStatement,
    loop |-> Loop, return |-> ReturnStatement, break |-> BreakStatement,
    continue |-> BreakStatement, try |-> Try, throw |-> Throw, raise |-> Raise,
    struct |-> Struct, enum |-> Enum, trait |-> Trait, alias |-> Alias, impl |-> Impl,
    use |-> Use, mod |-> Mod, block |-> Block, publish |-> Publish, handler |-> Handler,
    bridge |-> Bridge, command |-> Command, type |-> Type, pattern |-> Pattern,
    expression |-> Expression, assignment |-> Assignment, ternary |-> Ternary,
    comparison |-> Comparison, range |-> RangeExpression, term |-> Term, unary |-> Unary,
    postfix |-> Postfix, primary |-> Primary]
  @@ ("other statement" :> OtherStatement) @@ ("expression statement" :> ExpressionStatement)
  @@ ("if let" :> IfLet) @@ ("while let" :> WhileLet) @@ ("tensor type" :> TensorType)
  @@ ("primary pattern" :> PrimaryPattern)

=============================================================================
