----------------------------- MODULE Interpreter -----------------------------
(* The tree-walking interpreter (interpreter/interpreter.h) on the same part of *)
(* the language as BytecodeCompiler, with the same shape of programs. It is one *)
(* recursive function from an interpreter state to an interpreter state:        *)
(*   scopes  variable_stack, one map per block and per call                     *)
(*   out     what was printed                                                   *)
(*   brk, cont, ret, thr   the flags a statement raises to leave its block      *)
(*   rv, exc  return_value and exception_value                                  *)
(*   fuel    loop iterations and calls still allowed, so that the evaluation of *)
(*           a program that runs for ever ends; 0 means it was cut short        *)
(* Booleans are the integers 0 and 1, as every consumer of the code reads them. *)
(* Programs are those of SyntaxTree.                                            *)
EXTENDS Integers, SequencesExt

CONSTANT NIL    \* the value nil

AsInt(v) == IF v = NIL THEN 0 ELSE v

Truth(b) == IF b THEN 1 ELSE 0

Abs(a) == IF a < 0 THEN -a ELSE a

\* Division truncates towards zero; by zero it gives zero.
Quotient(a, b) ==
    CASE b = 0 -> 0
      [] b # 0 /\ (a < 0) = (b < 0) -> Abs(a) \div Abs(b)
      [] OTHER -> -(Abs(a) \div Abs(b))

Arith(o, l, r) ==
    LET a == AsInt(l)
        b == AsInt(r)
    IN  CASE o = "IADD" -> a + b
          [] o = "ISUB" -> a - b
          [] o = "IMUL" -> a * b
          [] o = "IDIV" -> Quotient(a, b)
          [] o = "IMOD" -> IF b = 0 THEN 0 ELSE a - b * Quotient(a, b)
          [] o = "IEQ"  -> Truth(a = b)
          [] o = "INE"  -> Truth(a # b)
          [] o = "ILT"  -> Truth(a < b)
          [] o = "ILE"  -> Truth(a <= b)
          [] o = "IGT"  -> Truth(a > b)
          [] o = "IGE"  -> Truth(a >= b)
          [] o \in {"AND", "OR"} -> NIL    \* no case of the switch: both give nil

---------------------------------------------------------------------------
(* Scopes. A name is looked up from the innermost scope outwards, through the   *)
(* scopes of the callers too.                                                   *)

PushScope(st) == [st EXCEPT !.scopes = Append(@, <<>>)]

PopScope(st) == [st EXCEPT !.scopes = Front(@)]

Holders(st, v) == {i \in DOMAIN st.scopes : v \in DOMAIN st.scopes[i]}

ScopedGet(st, v) ==
    IF Holders(st, v) = {} THEN NIL ELSE st.scopes[Max(Holders(st, v))][v]

ScopedSet(st, v, x) ==
    [st EXCEPT !.scopes[Len(st.scopes)] = (v :> x) @@ @]

\* An assignment to an unknown name creates it in the innermost scope.
Assign(st, v, x) ==
    IF Holders(st, v) = {} THEN ScopedSet(st, v, x)
    ELSE [st EXCEPT !.scopes[Max(Holders(st, v))][v] = x]

Burn(st) == [st EXCEPT !.fuel = @ - 1]

Leaves(st) == st.brk \/ st.cont \/ st.ret \/ st.thr \/ st.fuel = 0

---------------------------------------------------------------------------
RECURSIVE Evaluate(_, _, _), ExecuteStatement(_, _, _)

\* The statements of a block: the flags are looked at after each of them.
RunAll(prog, b, st) ==
    FoldLeft(LAMBDA d, s : IF d.left THEN d
                           ELSE LET next == ExecuteStatement(prog, s, d.st)
                                IN  [st |-> next, left |-> Leaves(next)],
             [st |-> st, left |-> FALSE], b).st

ExecuteBlock(prog, b, st) == PopScope(RunAll(prog, b, PushScope(st)))

\* The value of a last expression statement is the function's value.
ExecuteBody(prog, b, st) ==
    LET implicit == b # <<>> /\ Last(b).op = "do"
        Valued(x) == [x.st EXCEPT !.rv = x.v]
        After(before) == IF implicit /\ (Len(b) = 1 \/ ~Leaves(before))
                         THEN Valued(Evaluate(prog, Last(b).e, before)) ELSE before
    IN  PopScope(After(RunAll(prog, IF implicit THEN Front(b) ELSE b, PushScope(st))))

\* Flags other than the exception are those of the caller again afterwards.
ExecuteFunction(prog, f, args, st) ==
    LET params == prog[f].params
        given == Min({Len(params), Len(args)})
        bound == [v \in ToSet(SubSeq(params, 1, given)) |-> args[CHOOSE i \in 1 .. given : params[i] = v]]
        Back(done) == [st |-> [PopScope(done) EXCEPT !.rv = st.rv, !.ret = st.ret],
                       v  |-> done.rv]
    IN  Back(ExecuteBody(prog, prog[f].body,
                 [Burn(st) EXCEPT !.scopes = Append(@, bound),
                                  !.rv = NIL, !.ret = FALSE]))

EvaluateBinary(prog, e, st) ==
    LET Right(l, r) == [st |-> r.st, v |-> Arith(e.o, l.v, r.v)]
        Left(l) == Right(l, Evaluate(prog, e.b, l.st))
    IN  Left(Evaluate(prog, e.a, st))

EvaluateCall(prog, e, st) ==
    LET And(x, y) == [st |-> y.st, vs |-> Append(x.vs, y.v)]
        Called(x) ==
            IF e.f = "print"
            THEN [st |-> [x.st EXCEPT !.out = @ \o x.vs], v |-> NIL]
            ELSE IF x.st.fuel = 0 THEN [st |-> x.st, v |-> NIL]
            ELSE ExecuteFunction(prog, e.f, x.vs, x.st)
    IN  IF e.f \notin DOMAIN prog \cup {"print"} THEN [st |-> st, v |-> NIL]
        ELSE Called(FoldLeft(LAMBDA x, a : And(x, Evaluate(prog, a, x.st)),
                             [st |-> st, vs |-> <<>>], e.args))

\* Both operands are evaluated even when the first has thrown.
Evaluate(prog, e, st) ==
    CASE e.k \in {"num", "bool"} -> [st |-> st, v |-> e.n]
      [] e.k = "var"  -> [st |-> st, v |-> ScopedGet(st, e.v)]
      [] e.k = "bin"  -> EvaluateBinary(prog, e, st)
      [] e.k = "call" -> EvaluateCall(prog, e, st)

---------------------------------------------------------------------------
(* Statements. *)

\* The first branch whose condition holds, else the else body.
ExecuteIf(prog, s, st) ==
    LET Taken(arm, cond) ==
            IF AsInt(cond.v) # 0
            THEN [st |-> ExecuteBlock(prog, arm.b, cond.st), done |-> TRUE]
            ELSE [st |-> cond.st, done |-> FALSE]
        Else(d) == IF d.done \/ s.els = <<>> THEN d.st
                   ELSE ExecuteBlock(prog, Head(s.els), d.st)
    IN  Else(FoldLeft(LAMBDA d, arm : IF d.done THEN d
                                      ELSE Taken(arm, Evaluate(prog, arm.c, d.st)),
                      [st |-> st, done |-> FALSE], s.arms))

\* The first case that matches; what it binds stays bound after the match.
ExecuteMatch(prog, s, x) ==
    LET first == SelectInSeq(s.cases, LAMBDA case : case.pat \in {"wild", "var"}
                                                        \/ case.n = x.v)
        case  == s.cases[first]
        bound == IF case.pat = "var" THEN ScopedSet(x.st, case.v, x.v) ELSE x.st
    IN  IF first = 0 THEN x.st
        ELSE IF case.block \/ case.b = <<>> THEN ExecuteBlock(prog, case.b, bound)
        ELSE Evaluate(prog, Head(case.b).e, bound).st

\* After the body of a loop: return and throw leave it with their flags up,
\* break leaves it, continue goes on.
LoopLeft(st) == st.ret \/ st.thr \/ st.brk \/ st.fuel = 0

\* What a loop tests before it enters its body. The counter of a for loop is not
\* its variable: an assignment in the body does not move it.
LoopTest(prog, s, i, hi, st) ==
    CASE s.op = "while" -> Evaluate(prog, s.c, st)
      [] s.op = "loop"  -> [st |-> st, v |-> 1]
      [] s.op = "for"   -> IF i <= hi THEN [st |-> ScopedSet(st, s.v, i), v |-> 1]
                           ELSE [st |-> st, v |-> 0]

RECURSIVE Iterate(_, _, _, _, _)
Iterate(prog, s, i, hi, st) ==
    LET After(body) == IF LoopLeft(body) THEN [body EXCEPT !.brk = FALSE]
                       ELSE Iterate(prog, s, i + 1, hi, [body EXCEPT !.cont = FALSE])
        Go(test) == IF test.st.fuel = 0 \/ AsInt(test.v) = 0 THEN test.st
                    ELSE After(ExecuteBlock(prog, s.b, Burn(test.st)))
    IN  Go(LoopTest(prog, s, i, hi, st))

ExecuteFor(prog, s, st) ==
    LET Ranged(lo, hi) == IF NIL \in {lo.v, hi.v} THEN hi.st
                          ELSE Iterate(prog, s, lo.v, hi.v, hi.st)
        From(lo) == Ranged(lo, Evaluate(prog, s.hi, lo.st))
    IN  From(Evaluate(prog, s.lo, st))

ExecuteTry(prog, s, st) ==
    LET Scope(body) == PushScope([body EXCEPT !.thr = FALSE])
        Bound(body) == IF s.v = "" THEN Scope(body)
                       ELSE ScopedSet(Scope(body), s.v, body.exc)
        Caught(body) == IF body.thr THEN PopScope(RunAll(prog, s.h, Bound(body)))
                        ELSE body
        Again(after) == IF ~after.thr /\ st.thr
                        THEN [after EXCEPT !.thr = TRUE, !.exc = st.exc] ELSE after
    IN  Again(Caught(ExecuteBlock(prog, s.b, [st EXCEPT !.thr = FALSE])))

ExecuteReturn(prog, s, st) ==
    LET With(x) == [x.st EXCEPT !.rv = x.v, !.ret = TRUE]
    IN  With(IF s.val = <<>> THEN [st |-> st, v |-> NIL]
             ELSE Evaluate(prog, Head(s.val), st))

\* The statements made of one expression.
ExecuteSimple(s, x) ==
    CASE s.op = "let"   -> ScopedSet(x.st, s.v, x.v)
      [] s.op = "set"   -> Assign(x.st, s.v, x.v)
      [] s.op = "do"    -> x.st
      [] s.op = "throw" -> [x.st EXCEPT !.exc = x.v, !.thr = TRUE]

ExecuteStatement(prog, s, st) ==
    CASE s.op \in {"let", "set", "do", "throw"} ->
                            ExecuteSimple(s, Evaluate(prog, s.e, st))
      [] s.op = "if"    -> ExecuteIf(prog, s, st)
      [] s.op = "match" -> ExecuteMatch(prog, s, Evaluate(prog, s.e, st))
      [] s.op \in {"while", "loop"} -> Iterate(prog, s, 0, 0, st)
      [] s.op = "for"   -> ExecuteFor(prog, s, st)
      [] s.op = "break" -> [st EXCEPT !.brk = TRUE]
      [] s.op = "cont"  -> [st EXCEPT !.cont = TRUE]
      [] s.op = "block" -> ExecuteBlock(prog, s.b, st)
      [] s.op = "ret"   -> ExecuteReturn(prog, s, st)
      [] s.op = "try"   -> ExecuteTry(prog, s, st)

\* What a program prints, and whether the evaluation was cut short.
Interpret(prog, fuel) ==
    LET start == [scopes |-> <<>>, out |-> <<>>, brk |-> FALSE, cont |-> FALSE,
                  ret |-> FALSE, thr |-> FALSE, rv |-> NIL, exc |-> NIL,
                  fuel |-> fuel]
        Shown(done) == [out |-> done.out, cut |-> done.fuel = 0]
    IN  Shown(ExecuteFunction(prog, "main", <<>>, start).st)
==============================================================================
