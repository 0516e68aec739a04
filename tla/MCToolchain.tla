----------------------------- MODULE MCToolchain -----------------------------
(* Instances of the parts of Toolchain.                                         *)
EXTENDS Toolchain

\* Compilations of the same file at two levels, and by the driver that makes a
\* binary one of another file whose text and name run together to the same.
Compilation(s, n, l, m) == [source |-> s, name |-> n, level |-> l, mode |-> m]

MCRequests == {Compilation(<<"a">>, <<"b", "c">>, <<"0">>, "bytecode"),
               Compilation(<<"a">>, <<"b", "c">>, <<"1">>, "bytecode"),
               Compilation(<<"a", "b">>, <<"c">>, <<"0">>, "aot")}

\* Modules with a main, without one, and with functions of the same name; f2 fills
\* two pages.
MCModules == {("main" :> "m1"), ("main" :> "m2" @@ "f" :> "f1"),
              ("main" :> "m1" @@ "f" :> "f2"), ("f" :> "f1")}

MCSize == [v \in {"m1", "m2", "f1", "f2"} |-> IF v = "f2" THEN 6 ELSE 3]

\* Programs that use every parse function, and the mistakes made in them.
MCTexts == {
  <<"async", "fn", "id", "<", "id", ",", "id", ">", "(", "id", ":", "u32", ",", "id", ")",
    "->", "id",
    "raise", "?", "{", "await", "id", ";", "}">>,
  <<"fn", "id", "(", ")", "noraise", "{", "return", "id", ";", "}", "fn", "id", "(", ")",
    "{", "}">>,
  <<"serial", "process", "id", "(", "id", ":", "u8", "[", "int", "]", ")", "{", ";", "}">>,
  <<"serial", "fn", "id", "(", "id", ":", "tensor", "<", "u8", ",", "[", "int", ",", "id",
    "]", ">", ")", "{", "}">>,
  <<"fn", "id", "(", "id", ":", "result", "<", "u8", ",", "id", "<", "id", ">", ">", ",",
    "id", ":", "(", "u8", ",", "id", ")", "[", "int", "]", ")", "{", "}">>,
  <<"name", "id", "=", "u32", "[", "int", "]", ";", "id", "[", "id", "..", "id", "]", ";">>,
  <<"let", "mut", "id", ":", "[", "int", "]", "=", "id", "*", "-", "int", ";">>,
  <<"let", "(", "id", ",", "id", ")", "=", "(", "id", ",", "int", ")", ";">>,
  <<"const", "id", ":", "u8", "=", "int", "?", "id", ":", "id", ";">>,
  <<"fn", "id", "(", ")", "{", "if", "id", "{", "break", ";", "}", "else", "if", "id", "{",
    "}", "else", "{", "}", "}">>,
  <<"if", "let", "id", "(", "id", ")", "=", "id", "{", "continue", ";", "}", "else", "{", "}">>,
  <<"while", "let", "id", "@", "int", "=", "id", "{", "}", "while", "id", "{", "}">>,
  <<"match", "id", "{", "int", "||", "id", "=>", "{", "}", ",", "(", "id", ",", "id", ")",
    "=>", "int", ",", "[", "id", ",", "..", "id", "]", "=>", "id", "}">>,
  <<"for", "id", "in", "id", "..", "int", "{", "}", "for", "await", "id", "in", "id", "{",
    "}">>,
  <<"loop", "{", "try", "{", "}", "catch", "id", ":", "id", "{", "throw", "id", ";", "}",
    "raise", "id", ";", "}">>,
  <<"let", "id", "=", "try", "?", "id", "(", "id", ")", ";", "try", "?", "id", ";">>,
  <<"struct", "id", "{", "pub", "id", ":", "u8", ",", "id", ":", "id", "}">>,
  <<"enum", "id", "<", "id", ">", "{", "id", "(", "u8", ",", "id", ")", ",", "id", "}">>,
  <<"trait", "id", "<", "id", ">", "{", "fn", "id", "(", "id", ":", "id", ")", "->", "u8",
    ";", "fn", "id", "(", ")", "{", "}", "}">>,
  <<"impl", "id", "for", "id", "{", "fn", "id", "(", "self", ")", "->", "u8", "{", "return",
    "self", ".", "id", ";", "}", "}">>,
  <<"type", "id", "=", "u32", ";", "use", "id", "::", "id", "as", "id", ";", "mod", "id",
    "{", "fn", "id", "(", ")", "{", "}", "}">>,
  <<"publish", "id", "(", "id", ",", "int", ")", ";", "subscribe", "id", "{", "fn", "id",
    "(", "id", ":", "id", ")", "{", "id", ";", "}", "}">>,
  <<"handle", "id", "{", "fn", "id", "(", "id", ")", "->", "u32", "{", "let", "id", "=",
    "int", ";", "}", "}">>,
  <<"bridge", "publish", "id", "over", "literal", ";", "id", "=", "command", "id", "(", "id",
    ")", ";">>,
  <<"id", "<", "u32", ",", "id", ">", "(", "int", ")", ".", "id", "+=", "id", "<", "id", "+",
    "id", ";">>,
  <<"let", "id", "=", "fn", "[", "id", ",", "id", "]", "(", "id", ":", "u8", ")", "->", "u8",
    "{", "id", "}", ";">>,
  <<"let", "id", "=", "[", "id", "for", "id", "in", "id", "if", "id", "]", ";", "[", "]",
    ";", "[", "int", ",", "int", "]", ";">>,
  <<"let", "id", "=", "{", "id", "for", "id", "in", "id", "}", ";">>,
  <<"let", "id", "=", "{", "id", ":", "id", "for", "id", "in", "id", "}", ";">>,
  <<"let", "id", "=", "{", "id", ":", "int", ",", "id", ":", "int", "}", "+", "{", "int",
    ",", "int", "}", ";">>,
  <<"let", "id", "=", "interpolated", "+", "id", "::", "self", "==", "(", "(", ")", ")", ";">> }
MCKinds == {"id", "int", "{", "}", ")", ";", "fn", "badly interpolated"}

\* Functions of six loads, and one with a store before the first load.
LoadLocal(s) == [op |-> "load", slot |-> s]
StoreLocal(s) == [op |-> "store", slot |-> s]
Arithmetic == [op |-> "arithmetic", slot |-> 0]
OtherCode == [op |-> "other", slot |-> 0]

MCCodes == [1..6 -> {LoadLocal(s) : s \in 0..4}] \cup
  {<<StoreLocal(1), LoadLocal(0), Arithmetic, LoadLocal(2), OtherCode, StoreLocal(0),
     LoadLocal(3), LoadLocal(1), LoadLocal(2)>>}

\* Three packages that need each other in some of their versions; the name of one is
\* the beginning of another's.
MCShorter == [n \in {"a", "ab", "c"} |-> IF n = "ab" THEN {"a"} ELSE {}]

Dep(n, c) == [name |-> n, con |-> c, optional |-> FALSE]
Optional(n, c) == [Dep(n, c) EXCEPT !.optional = TRUE]
AnyVersion == [op |-> "*"]
PathTo == [op |-> "path"]
Caret(v) == [op |-> "^", version |-> v]
Tilde(v) == [op |-> "~", version |-> v]
Exact(v) == [op |-> "exact", version |-> v]
AtLeast(v) ==
  [op |-> "range", low |-> v, lowInc |-> TRUE, high |-> V(99, 0, 0), highInc |-> TRUE]

MCRequires ==
     <<"a", V(1, 0, 0)>> :> <<Dep("ab", Caret(V(1, 0, 0)))>>
  @@ <<"a", V(1, 1, 0)>> :> <<Dep("c", AnyVersion)>>
  @@ <<"ab", V(1, 0, 0)>> :> <<>>
  @@ <<"ab", V(1, 1, 0)>> :> <<Optional("c", AnyVersion), Dep("c", AtLeast(V(1, 0, 0)))>>
  @@ <<"ab", V(2, 0, 0)>> :> <<Dep("a", Caret(V(1, 0, 0)))>>
  @@ <<"c", V(0, 0, 0)>> :> <<>>
  @@ <<"c", V(1, 0, 0)>> :> <<Dep("ab", Tilde(V(1, 0, 0)))>>

Project(normal, dev, build) == [normal |-> normal, dev |-> dev, build |-> build]

MCManifests ==
  {Project(<<Dep("a", AnyVersion), Dep("ab", AtLeast(V(1, 0, 0)))>>, <<>>, <<>>),
   Project(<<Dep("a", AnyVersion)>>, <<>>, <<>>),
   Project(<<Dep("ab", AnyVersion)>>, <<Dep("a", Exact(V(1, 0, 0)))>>, <<>>),
   Project(<<Dep("ab", Exact(V(1, 0, 0)))>>, <<Dep("ab", Exact(V(2, 0, 0)))>>,
           <<Dep("ab", Exact(V(1, 1, 0)))>>),
   Project(<<Optional("a", AnyVersion)>>, <<>>, <<Dep("c", PathTo)>>)}

MCEdits ==
  {[kind |-> "normal", dep |-> Dep("ab", Exact(V(2, 0, 0)))],
   [kind |-> "dev", dep |-> Dep("ab", Caret(V(1, 0, 0)))],
   [kind |-> "build", dep |-> Dep("c", PathTo)]}

MCRegistries ==
  LET all == DOMAIN MCRequires
      late == {<<"a", V(1, 1, 0)>>, <<"ab", V(2, 0, 0)>>}
  IN  {all, all \ late, {<<"ab", V(1, 0, 0)>>, <<"c", V(1, 0, 0)>>}}

\* Texts of the editor: a function, a string with a bracket in it, one with a number
\* that is too large, and none.
ALet == <<"l", "e", "t", " ">>

FunctionText ==
  <<"f", "n", " ", "f", "(", "a", ")", " ", "{", "\n", " ">> \o ALet
    \o <<"a", "b", " ", "=", " ", "a", ";", "\n", "}", "\n">>
StringText ==
  ALet \o <<"a", " ", "=", " ", "\"", "a", " ", " ", "{", "\"", ";", "\n",
           "i", "f", " ", "l", "e", "n", "{">> \o ALet \o <<"n", ";", "}", "\n", "#">>
NumberText == ALet \o <<"a", "b", " ", "9", "a", "\n">>

AStatement(level, k, behind, names, params) ==
  [level |-> level, kind |-> k, behind |-> behind, names |-> names, params |-> params]

MCAst ==
     FunctionText :>
       <<AStatement(0, "function", 2, <<<<"f">>>>, <<<<"a">>>>),
         AStatement(1, "variable", 14, <<<<"a", "b">>>>, <<>>)>>
  @@ StringText :>
       <<AStatement(0, "variable", 3, <<<<"a">>>>, <<>>),
         AStatement(0, "other", 18, <<>>, <<>>),
         AStatement(1, "variable", 26, <<<<"n">>>>, <<>>)>>
  @@ NumberText :> Unreadable
  @@ <<>> :> <<>>

MCSources == DOMAIN MCAst
MCKeywords == {<<"f", "n">>, <<"l", "e", "t">>, <<"i", "f">>}
MCBuiltins == {<<"l", "e", "n">>}
MCNewName == <<"b">>
==============================================================================
