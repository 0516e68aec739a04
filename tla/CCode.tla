--------------------------------- MODULE CCode ---------------------------------
(* The C program that codegen/c_codegen.h makes of a program of SyntaxTree      *)
(* (--mode=c), and what it does. The generator writes a C statement for every   *)
(* statement, so the tree is run here with the meaning of what is written for   *)
(* it. Every variable is a C variable of type int.                              *)
(*   scopes  the blocks of the running function that are open, innermost last   *)
(*   tries   the try statements around the statement, in its own function       *)
(*   out     what was printed                                                   *)
(*   how     "goes", or what is done instead of going on: "break", "continue",  *)
(*           "return" of value, "longjmp", "exit", "cut" (out of fuel), or      *)
(*           "lost": C does not say what the program does                       *)
(* A variable that has no value, and what a function returns that ends without  *)
(* a return statement, is NIL.                                                  *)
EXTENDS SyntaxTree

CONSTANT NIL

\* A match is written as a chain of if statements, each of which evaluates the
\* subject; a case that is an expression has no code.
MatchChain(s) ==
    LET Test(case) == IF case.pat = "lit" THEN Bin("IEQ", s.e, Num(case.n)) ELSE Num(1)
        Bound(case) == IF case.pat = "var" THEN <<Let(case.v, s.e)>> ELSE <<>>
    IN  Choose([i \in DOMAIN s.cases |->
                  [c |-> Test(s.cases[i]),
                   b |-> Bound(s.cases[i]) \o (IF Bare(s.cases[i]) THEN <<>> ELSE s.cases[i].b)]],
               <<>>)

Written(s) == IF s.op = "match" THEN MatchChain(s) ELSE s

---------------------------------------------------------------------------
(* What a C compiler accepts: nothing is declared twice in one block, and a     *)
(* block statement writes no braces, so what it declares belongs to the block   *)
(* around it; a function is defined before it is called; print is void.         *)

Mentions(s) ==
    {x.v : x \in {y \in UNION {SubExprs(e) : e \in ToSet(ExprsOf(s))} : y.k = "var"}}
        \cup (IF s.op = "set" THEN {s.v} ELSE {})

\* What is declared around every body of a statement, and in its k-th body.
Around(s) == IF s.op = "for" THEN {s.v} ELSE {}

Handed(s, k) == IF s.op = "try" /\ k = 2 /\ s.v # "" THEN {s.v} ELSE {}

\* The names a block has declared at its end, if it starts with those in own.
RECURSIVE Declares(_, _, _)
Declares(b, outer, own) ==
    LET Inner(d, s) == \A k \in DOMAIN Bodies(s) :
            Declares(Bodies(s)[k], outer \cup d.own \cup Around(s), Handed(s, k)).ok
        Next(d, s) ==
            CASE s.op = "let"   -> [own |-> d.own \cup {s.v},
                                    ok  |-> /\ d.ok /\ s.v \notin d.own
                                            /\ Mentions(s) \subseteq outer \cup d.own \cup {s.v}]
              [] s.op = "block" -> [Declares(s.b, outer, d.own) EXCEPT !.ok = @ /\ d.ok]
              [] OTHER -> [d EXCEPT !.ok = @ /\ Mentions(s) \subseteq outer \cup d.own /\ Inner(d, s)]
    IN  FoldLeft(LAMBDA d, s : Next(d, Written(s)), [own |-> own, ok |-> TRUE], b)

\* The calls in a statement, and those whose value is used.
CallsIn(s) == {x \in UNION {SubExprs(e) : e \in ToSet(ExprsOf(s))} : x.k = "call"}

Demanded(s) ==
    LET Below(e) == IF e.k = "call" THEN UNION {SubExprs(a) : a \in ToSet(e.args)} ELSE SubExprs(e)
    IN  {x \in (IF s.op = "do" THEN Below(s.e) ELSE CallsIn(s)) : x.k = "call"}

Callees(fn) == {x.f : x \in UNION {CallsIn(s) : s \in Within(fn.body)}}

DefinedFirst(prog) ==
    \E o \in SetToSeqs(DOMAIN prog) : \A k \in DOMAIN o :
        Callees(prog[o[k]]) \subseteq {o[j] : j \in 1 .. k} \cup {"print"}

Compiles(prog) ==
    /\ DefinedFirst(prog)
    /\ \A f \in DOMAIN prog :
          /\ Declares(prog[f].body, {}, ToSet(prog[f].params)).ok
          /\ \A s \in Within(prog[f].body) : \A x \in Demanded(s) : x.f # "print"

---------------------------------------------------------------------------
(* Expressions. The order in which C evaluates operands and arguments is open:  *)
(* two of them that both print make the program lost.                           *)

Lose(c) == [c EXCEPT !.how = "lost"]

Burn(c) == [c EXCEPT !.fuel = @ - 1, !.how = IF c.fuel = 1 THEN "cut" ELSE @]

Level(c, v) == SelectLastInSeq(c.scopes, LAMBDA scope : v \in DOMAIN scope)

Declare(c, v, x) == [c EXCEPT !.scopes[Len(c.scopes)] = (v :> x) @@ @]

Truth(b) == IF b THEN 1 ELSE 0

Magnitude(a) == IF a < 0 THEN -a ELSE a

Quotient(a, b) == IF (a < 0) = (b < 0) THEN Magnitude(a) \div Magnitude(b)
                  ELSE -(Magnitude(a) \div Magnitude(b))

GenerateBinary(o, a, b) ==
    CASE o = "IADD" -> a + b
      [] o = "ISUB" -> a - b
      [] o = "IMUL" -> a * b
      [] o = "IDIV" -> Quotient(a, b)
      [] o = "IMOD" -> a - b * Quotient(a, b)
      [] o = "IEQ"  -> Truth(a = b)
      [] o = "INE"  -> Truth(a # b)
      [] o = "ILT"  -> Truth(a < b)
      [] o = "ILE"  -> Truth(a <= b)
      [] o = "IGT"  -> Truth(a > b)
      [] o = "IGE"  -> Truth(a >= b)

RECURSIVE Evaluate(_, _, _), Statement(_, _, _)

\* The values vs of expressions that are all needed.
Values(prog, es, c) ==
    LET Needed(d, x, acts) ==
            [c |-> IF (x.c.how = "goes" /\ x.v = NIL) \/ (acts /\ d.acted) THEN Lose(x.c) ELSE x.c,
             vs |-> Append(d.vs, x.v), acted |-> d.acted \/ acts]
        Next(d, x) == Needed(d, x, x.c.out # d.c.out \/ x.c.how = "exit")
    IN  FoldLeft(LAMBDA d, e : IF d.c.how = "goes" THEN Next(d, Evaluate(prog, e, d.c)) ELSE d,
                 [c |-> c, vs |-> <<>>, acted |-> FALSE], es)

Value(prog, e, c) == Values(prog, <<e>>, c)

Block(prog, b, c) ==
    FoldLeft(LAMBDA d, s : IF d.how = "goes" THEN Statement(prog, Written(s), d) ELSE d, c, b)

\* A block in braces, with what is declared before its first statement.
BlockBody(prog, b, bound, c) ==
    LET Close(d) == [d EXCEPT !.scopes = Front(@)]
    IN  Close(Block(prog, b, [c EXCEPT !.scopes = Append(@, bound)]))

\* The parameters belong to the outermost block of the body.
Function(prog, f, args, c) ==
    LET params == prog[f].params
        frame  == [v \in ToSet(params) |-> args[CHOOSE i \in DOMAIN params : params[i] = v]]
        Back(d) == [c |-> [d EXCEPT !.scopes = c.scopes, !.tries = c.tries,
                                    !.how = IF @ = "return" THEN "goes" ELSE @],
                    v |-> IF d.how = "return" THEN d.value ELSE NIL]
    IN  Back(Block(prog, prog[f].body, [Burn(c) EXCEPT !.scopes = <<frame>>, !.tries = 0]))

\* Only the first argument of print is printed.
GenerateCall(prog, f, x) ==
    IF x.c.how # "goes" THEN [c |-> x.c, v |-> NIL]
    ELSE IF f = "print" THEN [c |-> [x.c EXCEPT !.out = Append(@, Head(x.vs))], v |-> NIL]
    ELSE Function(prog, f, x.vs, x.c)

Combine(o, x) ==
    IF x.c.how # "goes" THEN [c |-> x.c, v |-> NIL]
    ELSE IF o \in {"IDIV", "IMOD"} /\ x.vs[2] = 0 THEN [c |-> Lose(x.c), v |-> NIL]
    ELSE [c |-> x.c, v |-> GenerateBinary(o, x.vs[1], x.vs[2])]

Evaluate(prog, e, c) ==
    CASE e.k \in {"num", "bool"} -> [c |-> c, v |-> e.n]
      [] e.k = "var"  -> [c |-> c, v |-> c.scopes[Level(c, e.v)][e.v]]
      [] e.k = "bin"  -> Combine(e.o, Values(prog, <<e.a, e.b>>, c))
      [] e.k = "call" -> GenerateCall(prog, e.f, Values(prog, e.args, c))

---------------------------------------------------------------------------
(* Statements. *)

\* What is declared is in scope, without a value, in its own initializer.
GenerateLet(prog, s, c) ==
    LET Given(x) == IF x.c.how = "goes"
                    THEN [x.c EXCEPT !.scopes[Len(x.c.scopes)][s.v] = x.vs[1]] ELSE x.c
    IN  Given(Value(prog, s.e, Declare(c, s.v, NIL)))

GenerateAssign(prog, s, c) ==
    LET Given(x) == IF x.c.how = "goes" THEN [x.c EXCEPT !.scopes[Level(x.c, s.v)][s.v] = x.vs[1]]
                    ELSE x.c
    IN  Given(Value(prog, s.e, c))

\* A return without a value returns 0.
GenerateReturn(prog, s, c) ==
    LET Given(x) == IF x.c.how = "goes" THEN [x.c EXCEPT !.how = "return", !.value = x.vs[1]] ELSE x.c
    IN  Given(Value(prog, IF s.val = <<>> THEN Num(0) ELSE Head(s.val), c))

RECURSIVE GenerateIf(_, _, _)
GenerateIf(prog, s, c) ==
    LET Take(x) == IF x.c.how # "goes" THEN x.c
                   ELSE IF x.vs[1] # 0 THEN BlockBody(prog, Head(s.arms).b, <<>>, x.c)
                   ELSE GenerateIf(prog, [s EXCEPT !.arms = Tail(@)], x.c)
    IN  IF s.arms # <<>> THEN Take(Value(prog, Head(s.arms).c, c))
        ELSE IF s.els # <<>> THEN BlockBody(prog, Head(s.els), <<>>, c) ELSE c

\* The bound of a for statement: ten, unless what it runs over is a number n, which
\* stands for the range from 1 to n. The control variable counts.
Bound(s) == IF s.lo = Num(1) /\ s.hi.k = "num" THEN s.hi.n ELSE 10

Test(prog, s, c) ==
    IF s.op = "while" THEN Value(prog, s.c, c)
    ELSE Value(prog, Bin("ILE", Ref(s.v), Num(Bound(s))), c)

Increment(s, c) == IF s.op = "for" THEN [c EXCEPT !.scopes[Len(c.scopes)][s.v] = @ + 1] ELSE c

RECURSIVE Iterate(_, _, _)
Iterate(prog, s, c) ==
    LET After(d) == IF d.how = "break" THEN [d EXCEPT !.how = "goes"]
                    ELSE IF d.how \in {"goes", "continue"}
                    THEN Iterate(prog, s, Increment(s, [d EXCEPT !.how = "goes"])) ELSE d
        Enter(x) == IF x.c.how # "goes" \/ x.vs[1] = 0 THEN x.c
                    ELSE After(BlockBody(prog, s.b, <<>>, Burn(x.c)))
    IN  Enter(Test(prog, s, c))

GenerateFor(prog, s, c) ==
    LET Close(d) == [d EXCEPT !.scopes = Front(@)]
    IN  Close(Iterate(prog, s, [c EXCEPT !.scopes = Append(@, s.v :> 1)]))

\* What a variable has after longjmp that was changed since setjmp is open.
Spoiled(c, d) ==
    [d EXCEPT !.scopes = [k \in DOMAIN c.scopes |-> [v \in DOMAIN c.scopes[k] |->
        IF d.scopes[k][v] = c.scopes[k][v] THEN c.scopes[k][v] ELSE NIL]]]

\* The buffer that a throw in the handler jumps to is still that of this statement.
\* What the handler is given is a pointer, no number.
RECURSIVE Handle(_, _, _, _)
Handle(prog, s, c, d) ==
    IF d.how # "longjmp" THEN d
    ELSE Handle(prog, s, c,
                BlockBody(prog, s.h, IF s.v = "" THEN <<>> ELSE s.v :> NIL,
                          Burn([Spoiled(c, d) EXCEPT !.how = "goes"])))

GenerateTry(prog, s, c) ==
    LET inside == [c EXCEPT !.tries = @ + 1]
        Leave(d) == [d EXCEPT !.tries = c.tries]
    IN  Leave(Handle(prog, s, c, BlockBody(prog, s.b, <<>>, inside)))

\* To the innermost try statement of the function, else out of the program.
GenerateThrow(prog, s, c) ==
    LET Thrown(x) == IF x.c.how # "goes" THEN x.c
                     ELSE [x.c EXCEPT !.how = IF c.tries > 0 THEN "longjmp" ELSE "exit"]
    IN  Thrown(Value(prog, s.e, c))

\* A loop statement is not written at all.
Statement(prog, s, c) ==
    CASE s.op = "let"   -> GenerateLet(prog, s, c)
      [] s.op = "set"   -> GenerateAssign(prog, s, c)
      [] s.op = "do"    -> Evaluate(prog, s.e, c).c
      [] s.op = "ret"   -> GenerateReturn(prog, s, c)
      [] s.op = "if"    -> GenerateIf(prog, s, c)
      [] s.op = "while" -> Iterate(prog, s, c)
      [] s.op = "for"   -> GenerateFor(prog, s, c)
      [] s.op = "loop"  -> c
      [] s.op = "block" -> Block(prog, s.b, c)
      [] s.op = "break" -> [c EXCEPT !.how = "break"]
      [] s.op = "cont"  -> [c EXCEPT !.how = "continue"]
      [] s.op = "try"   -> GenerateTry(prog, s, c)
      [] s.op = "throw" -> GenerateThrow(prog, s, c)

\* What the program prints, and how it ends.
Execute(prog, fuel) ==
    LET start == [scopes |-> <<>>, tries |-> 0, out |-> <<>>, how |-> "goes", value |-> 0,
                  fuel |-> fuel]
        done  == Function(prog, "main", <<>>, start).c
    IN  [out |-> done.out, st |-> IF done.how \in {"cut", "lost"} THEN done.how ELSE "done"]
===============================================================================
