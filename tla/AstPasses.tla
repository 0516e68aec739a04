------------------------------- MODULE AstPasses -------------------------------
(* The optimizer's passes over the syntax tree (optimizer/). Those main.cpp     *)
(* runs again and again come first: constant propagation and folding, algebraic *)
(* and control flow simplification, dead code elimination. A pass gives the new *)
(* tree in x and, in n, how many changes it counted: n > 0 is what it reports.  *)
(* Then those that run once and replace what they find by code they make: range *)
(* loops by endless loops, tail calls by jumps, calls of functions that are one *)
(* expression by that expression; and tree shaking, which removes functions. A  *)
(* program is given with the order its functions are declared in.               *)
EXTENDS SyntaxTree, Interpreter

CONSTANT InlineLimit    \* the nodes an expression that is inlined may have

Kept(x) == [x |-> x, n |-> 0]

\* The results of a pass on several nodes, in one.
Joined(rs) ==
    IF rs = <<>> THEN Kept(<<>>)
    ELSE [x |-> [i \in DOMAIN rs |-> rs[i].x],
          n |-> FoldLeft(LAMBDA t, r : t + r.n, 0, rs)]

IsLiteral(e) == e.k \in {"num", "bool"}

Comparisons == {"IEQ", "INE", "ILT", "ILE", "IGT", "IGE"}

---------------------------------------------------------------------------
(* Constant folding: the literal an operator on two literals is, if any. *)

Divided(a, b) == IF (a < 0) = (b < 0) THEN (IF a < 0 THEN -a ELSE a) \div (IF b < 0 THEN -b ELSE b)
                 ELSE -((IF a < 0 THEN -a ELSE a) \div (IF b < 0 THEN -b ELSE b))

Compared(o, a, b) ==
    CASE o = "IEQ" -> a = b
      [] o = "INE" -> a # b
      [] o = "ILT" -> a < b
      [] o = "ILE" -> a <= b
      [] o = "IGT" -> a > b
      [] o = "IGE" -> a >= b

FoldedInts(o, a, b) ==
    CASE o = "IADD" -> <<Num(a + b)>>
      [] o = "ISUB" -> <<Num(a - b)>>
      [] o = "IMUL" -> <<Num(a * b)>>
      [] o = "IDIV" /\ b # 0 -> <<Num(Divided(a, b))>>
      [] o = "IMOD" /\ b # 0 -> <<Num(a - b * Divided(a, b))>>
      [] o \in Comparisons -> <<Bool(Compared(o, a, b))>>
      [] OTHER -> <<>>

FoldedBools(o, a, b) ==
    CASE o = "AND" -> <<Bool(a = 1 /\ b = 1)>>
      [] o = "OR"  -> <<Bool(a = 1 \/ b = 1)>>
      [] o \in {"IEQ", "INE"} -> <<Bool(Compared(o, a, b))>>
      [] OTHER -> <<>>

TryFold(e) ==
    CASE e.a.k = "num" /\ e.b.k = "num"   -> FoldedInts(e.o, e.a.n, e.b.n)
      [] e.a.k = "bool" /\ e.b.k = "bool" -> FoldedBools(e.o, e.a.n, e.b.n)
      [] OTHER -> <<>>

---------------------------------------------------------------------------
(* Algebraic simplification: of the rules that apply the first is taken. *)

IsInt(e, n) == e = Num(n)

SameName(e) == e.a.k = "var" /\ e.a = e.b

SameOperands(e) == SameName(e) \/ (IsLiteral(e.a) /\ e.a = e.b)

SimplifiedArith(e) ==
    CASE e.o \in {"IADD", "ISUB"} /\ IsInt(e.b, 0)             -> <<e.a>>
      [] e.o = "IADD" /\ ~IsInt(e.b, 0) /\ IsInt(e.a, 0)       -> <<e.b>>
      [] e.o \in {"IMUL", "IDIV"} /\ IsInt(e.b, 1)             -> <<e.a>>
      [] e.o = "IMUL" /\ ~IsInt(e.b, 1) /\ IsInt(e.a, 1)       -> <<e.b>>
      [] e.o = "IMUL" /\ Num(1) \notin {e.a, e.b}
                      /\ Num(0) \in {e.a, e.b}                 -> <<Num(0)>>
      [] e.o = "IMOD" /\ IsInt(e.b, 1)                         -> <<Num(0)>>
      [] e.o = "ISUB" /\ ~IsInt(e.b, 0) /\ SameOperands(e)     -> <<Num(0)>>
      [] e.o = "IMUL" /\ IsInt(e.b, 2) /\ Num(0) # e.a /\ Num(1) # e.a
                                                               -> <<Bin("IADD", e.a, e.a)>>
      [] e.o = "IMUL" /\ ~IsInt(e.b, 2) /\ Num(0) # e.b /\ Num(1) # e.b
                      /\ IsInt(e.a, 2)                         -> <<Bin("IADD", e.b, e.b)>>
      [] OTHER -> <<>>

SimplifiedTest(e) ==
    CASE e.o \in {"ILT", "IGT"} /\ SameName(e)     -> <<Bool(FALSE)>>
      [] e.o \in {"ILE", "IGE"} /\ SameName(e)     -> <<Bool(TRUE)>>
      [] e.o \in {"IEQ", "INE"} /\ SameOperands(e) -> <<Bool(e.o = "IEQ")>>
      [] OTHER -> <<>>

\* The operand that decides an "and" or an "or" alone, and the one that never does.
SimplifiedLogic(e) ==
    LET neutral == Bool(e.o = "AND")
        decides == Bool(e.o = "OR")
    IN  CASE e.b = neutral                    -> <<e.a>>
          [] e.b # neutral /\ e.a = neutral   -> <<e.b>>
          [] neutral \notin {e.a, e.b} /\ decides \in {e.a, e.b} -> <<decides>>
          [] OTHER -> <<>>

TrySimplify(e) ==
    CASE e.o \in Comparisons   -> SimplifiedTest(e)
      [] e.o \in {"AND", "OR"} -> SimplifiedLogic(e)
      [] OTHER                 -> SimplifiedArith(e)

---------------------------------------------------------------------------
(* Folding and simplifying visit every expression, the innermost first, of every *)
(* statement; a case whose body is an expression is left alone.                  *)

RECURSIVE RewriteExpr(_, _)
RewriteExpr(pass, e) ==
    CASE e.k = "bin" ->
            LET Whole(l, r) == [x |-> [e EXCEPT !.a = l.x, !.b = r.x], n |-> l.n + r.n]
                Tried(d) == IF pass = "fold" THEN TryFold(d.x) ELSE TrySimplify(d.x)
                With(d) == IF Tried(d) = <<>> THEN d ELSE [x |-> Head(Tried(d)), n |-> d.n + 1]
            IN  With(Whole(RewriteExpr(pass, e.a), RewriteExpr(pass, e.b)))
      [] e.k = "call" ->
            LET args == Joined([i \in DOMAIN e.args |-> RewriteExpr(pass, e.args[i])])
            IN  [x |-> [e EXCEPT !.args = args.x], n |-> args.n]
      [] OTHER -> Kept(e)

\* A body a pass does not look into.
Closed(s, i) == s.op = "match" /\ Bare(s.cases[i])

RECURSIVE RewriteBlock(_, _)
RewriteBlock(pass, b) ==
    LET Exprs(s)  == Joined([i \in DOMAIN ExprsOf(s) |-> RewriteExpr(pass, ExprsOf(s)[i])])
        Blocks(s) == Joined([i \in DOMAIN Bodies(s) |->
                                IF Closed(s, i) THEN Kept(Bodies(s)[i])
                                ELSE RewriteBlock(pass, Bodies(s)[i])])
        Both(s, es, bs) == [x |-> WithBodies(WithExprs(s, es.x), bs.x), n |-> es.n + bs.n]
    IN  Joined([i \in DOMAIN b |-> Both(b[i], Exprs(b[i]), Blocks(b[i]))])

---------------------------------------------------------------------------
(* Constant propagation: a walk with the literals the names are known to hold.  *)

\* A name is replaced where it is an operand or an argument.
RECURSIVE PropagateExpr(_, _)
PropagateExpr(e, known) ==
    LET Operand(o) == IF o.k = "var" /\ o.v \in DOMAIN known
                      THEN [x |-> known[o.v], n |-> 1] ELSE PropagateExpr(o, known)
        Whole(l, r) == [x |-> [e EXCEPT !.a = l.x, !.b = r.x], n |-> l.n + r.n]
        Called(args) == [x |-> [e EXCEPT !.args = args.x], n |-> args.n]
    IN  CASE e.k = "bin"  -> Whole(Operand(e.a), Operand(e.b))
          [] e.k = "call" -> Called(Joined([i \in DOMAIN e.args |-> Operand(e.args[i])]))
          [] OTHER -> Kept(e)

Forget(known, v) == [w \in DOMAIN known \ {v} |-> known[w]]

\* Only a literal initializer changes what is known of the name.
AfterLet(known, v, e) == IF IsLiteral(e) THEN (v :> e) @@ known ELSE known

\* Mutant: an assignment leaves what was known.
AfterSetKnown(known, v) == known

AfterSet(known, v) == Forget(known, v)

\* What the arms of an if are entered with; what they do is not seen after it.
ForArm(known) == known

RECURSIVE PropagateBlock(_, _), PropagateStmt(_, _)

PropagateBlock(b, known) ==
    FoldLeft(LAMBDA d, s : LET r == PropagateStmt(s, d.known)
                           IN  [x |-> Append(d.x, r.x), n |-> d.n + r.n, known |-> r.known],
             [x |-> <<>>, n |-> 0, known |-> known], b)

\* match, try and throw are passed over, their names stay known.
PropagateStmt(s, known) ==
    LET Result(x, n, k) == [x |-> x, n |-> n, known |-> k]
        Valued(e, k)    == Result([s EXCEPT !.e = e.x], e.n, k)
        Loops(es, b)    == Result([WithExprs(s, es.x) EXCEPT !.b = b.x], es.n + b.n, <<>>)
        Arms(cs, bs)    == Result(WithBodies(WithExprs(s, cs.x), bs.x), cs.n + bs.n, known)
        Entered(b)      == Result([s EXCEPT !.b = b.x], b.n, b.known)
        Expr(e)         == PropagateExpr(e, known)
        Bounds(r)       == [x |-> <<r.x.a, r.x.b>>, n |-> r.n]
    IN  CASE s.op = "do"  -> Valued(Expr(s.e), known)
          [] s.op = "let" -> LET e == Expr(s.e) IN Valued(e, AfterLet(known, s.v, e.x))
          [] s.op = "set" -> Valued(Expr(s.e), AfterSet(known, s.v))
          [] s.op = "ret" -> LET vs == Joined([i \in DOMAIN s.val |-> Expr(s.val[i])])
                             IN  Result([s EXCEPT !.val = vs.x], vs.n, known)
          [] s.op = "if"  ->
                Arms(Joined([i \in DOMAIN s.arms |-> Expr(s.arms[i].c)]),
                     Joined([i \in DOMAIN Bodies(s) |->
                                PropagateBlock(Bodies(s)[i], ForArm(known))]))
          [] s.op = "while" -> Loops(Joined(<<Expr(s.c)>>), PropagateBlock(s.b, <<>>))
          [] s.op = "for"   -> Loops(Bounds(Expr(Bin("..", s.lo, s.hi))),
                                      PropagateBlock(s.b, <<>>))
          [] s.op = "loop"  -> Loops(Kept(<<>>), PropagateBlock(s.b, <<>>))
          [] s.op = "block" -> Entered(PropagateBlock(s.b, known))
          [] OTHER -> Result(s, 0, known)

---------------------------------------------------------------------------
(* Control flow simplification. *)

\* Only the operator at the top of an expression is looked at, and no change of
\* an expression is counted.
RECURSIVE ShortCircuit(_)
ShortCircuit(e) ==
    IF e.k = "bin" /\ e.o \in {"AND", "OR"} /\ e.a.k = "bool"
    THEN IF (e.a.n = 1) = (e.o = "AND") THEN ShortCircuit(e.b) ELSE e.a
    ELSE e

\* A statement becomes itself, the body that is always taken, or nothing.
Taken(s) ==
    LET Branch(b) == <<Sub(b)>>
    IN  CASE s.op = "if" /\ Len(s.arms) = 1 /\ s.arms[1].c.k = "bool" ->
                [x |-> IF s.arms[1].c.n = 1 THEN Branch(s.arms[1].b)
                       ELSE IF s.els = <<>> THEN <<>> ELSE Branch(Head(s.els)),
                 n |-> 1]
          [] s.op = "while" /\ s.c = Bool(FALSE) -> [x |-> <<>>, n |-> 1]
          [] OTHER -> Kept(<<s>>)

\* The body of a case that is an expression is lost, and that is not counted.
RECURSIVE SimplifyFlow(_)
SimplifyFlow(b) ==
    LET Inner(s) == Joined([i \in DOMAIN Bodies(s) |->
                               IF Closed(s, i) THEN Kept(<<>>)
                               ELSE SimplifyFlow(Bodies(s)[i])])
        Tested(s) == IF s.op = "for" THEN s
                     ELSE WithExprs(s, [i \in DOMAIN ExprsOf(s) |-> ShortCircuit(ExprsOf(s)[i])])
        Outer(t, n) == [x |-> t.x, n |-> t.n + n]
        Stmt(s, bs) == Outer(Taken(WithBodies(Tested(s), bs.x)), bs.n)
    IN  FoldLeft(LAMBDA d, s : LET r == Stmt(s, Inner(s))
                               IN  [x |-> d.x \o r.x, n |-> d.n + r.n],
                 Kept(<<>>), b)

---------------------------------------------------------------------------
(* Dead code elimination: nothing runs after a return or a throw of a block. *)

Leaving == {"ret", "throw"}

FirstLeaving(b) == SelectInSeq(b, LAMBDA s : s.op \in Leaving)

Reachable(b) == IF FirstLeaving(b) = 0 THEN b ELSE SubSeq(b, 1, FirstLeaving(b))

RECURSIVE EliminateDead(_)
EliminateDead(b) ==
    LET Blocks(s) == Joined([i \in DOMAIN Bodies(s) |->
                                IF Closed(s, i) THEN Kept(Bodies(s)[i])
                                ELSE EliminateDead(Bodies(s)[i])])
        Stmt(s, bs) == [x |-> WithBodies(s, bs.x), n |-> bs.n]
        alive == Joined([i \in DOMAIN Reachable(b) |->
                            Stmt(b[i], Blocks(b[i]))])
    IN  [alive EXCEPT !.n = @ + Len(b) - Len(Reachable(b))]

---------------------------------------------------------------------------
\* A copy of a block (ast/clone.cpp): cases whose bodies are expressions are left out.
RECURSIVE Clone(_)
Clone(b) ==
    LET Copied(s) == IF s.op = "match"
                     THEN [s EXCEPT !.cases = SelectSeq(@, LAMBDA c : ~Bare(c))] ELSE s
        Inside(s) == WithBodies(s, [i \in DOMAIN Bodies(s) |-> Clone(Bodies(s)[i])])
    IN  [i \in DOMAIN b |-> Inside(Copied(b[i]))]

---------------------------------------------------------------------------
(* Range loops. The names a loop needs are numbered through the whole program.  *)

Fresh(base, n) == "_" \o base \o "_" \o ToString(n)

\* The m-th loop: the counter moves after the body, and stops before the end.
Loopified(s, m) ==
    LET start == Fresh("start", 2 * m)
        end   == Fresh("end", 2 * m + 1)
        Stop  == Choose(<<[c |-> Bin("IGE", Ref(start), Ref(end)), b |-> <<Break>>]>>, <<>>)
    IN  Sub(<<Let(start, s.lo), Let(end, s.hi),
              Loop(<<Stop, Let(s.v, Ref(start)), Sub(Clone(s.b)),
                     Set(start, Bin("IADD", Ref(start), Num(1)))>>)>>)

\* The same loop without its last round.
Shortened(s) == [s EXCEPT !.hi = Bin("ISUB", @, Num(1))]

\* The loops of a block; a loop in the body of one that is replaced stays.
RECURSIVE ReplaceFors(_, _, _)
ReplaceFors(how, b, m) ==
    LET Replaced(s, n) == IF how = "loop" THEN Loopified(s, n) ELSE Shortened(s)
        Inner(s, n) == FoldLeft(LAMBDA d, c : LET r == ReplaceFors(how, c, d.n)
                                              IN  [x |-> Append(d.x, r.x), n |-> r.n],
                                [x |-> <<>>, n |-> n], Bodies(s))
        Outer(s, r) == [x |-> WithBodies(s, r.x), n |-> r.n]
        Stmt(s, n) == IF s.op = "for" THEN [x |-> Replaced(s, n), n |-> n + 1]
                      ELSE Outer(s, Inner(s, n))
    IN  FoldLeft(LAMBDA d, s : LET r == Stmt(s, d.n)
                               IN  [x |-> Append(d.x, r.x), n |-> r.n],
                 [x |-> <<>>, n |-> m], b)

Desugar(how, prog, order) ==
    FoldLeft(LAMBDA d, f : LET r == ReplaceFors(how, prog[f].body, d.n)
                           IN  [x |-> [d.x EXCEPT ![f].body = r.x], n |-> r.n],
             Kept(prog), order)

---------------------------------------------------------------------------
(* Tail calls. *)

ValueOf(s) ==
    CASE s.op = "do" -> <<s.e>>
      [] s.op = "ret" -> s.val
      [] OTHER -> <<>>

IsCallOf(s, f) == \E e \in ToSet(ValueOf(s)) : e.k = "call" /\ e.f = f

\* Does a block end in a call of f, in one of its branches?
RECURSIVE TailCalls(_, _)
TailCalls(b, f) ==
    /\ b # <<>>
    /\ \/ IsCallOf(Last(b), f)
       \/ /\ Last(b).op \in {"if", "block"}
          /\ \E c \in ToSet(Bodies(Last(b))) : TailCalls(c, f)

\* The parameters are assigned one after the other.
Jump(e, params) ==
    LET given == Min({Len(params), Len(e.args)})
    IN  Sub([i \in 1 .. given |-> Set(params[i], e.args[i])] \o <<Continue>>)

\* Every call of f that is a statement or is returned, wherever it stands.
RECURSIVE Jumping(_, _, _)
Jumping(b, f, params) ==
    LET Inside(s) == WithBodies(s, [i \in DOMAIN Bodies(s) |-> Jumping(Bodies(s)[i], f, params)])
        Stmt(s) == IF IsCallOf(s, f) THEN Jump(Head(ValueOf(s)), params)
                   ELSE IF s.op \in {"if", "block"} \cup LoopOps THEN Inside(s)
                   ELSE s
    IN  [i \in DOMAIN b |-> Stmt(b[i])]

TurnsIntoLoop(prog, f) == prog[f].params # <<>> /\ TailCalls(prog[f].body, f)

Looping(fn, f) == <<Loop(<<Sub(Jumping(Clone(fn.body), f, fn.params))>>)>>

OptimizeTailCalls(prog, order) ==
    LET fs == {f \in ToSet(order) : TurnsIntoLoop(prog, f)}
    IN  [x |-> [f \in DOMAIN prog |->
                  IF f \in fs THEN [prog[f] EXCEPT !.body = Looping(prog[f], f)] ELSE prog[f]],
         n |-> Cardinality(fs)]

---------------------------------------------------------------------------
(* Inlining. A candidate is kept as a pointer to the expression in its function, *)
(* which is inlined into as well when its turn comes.                            *)

\* What a pointer to a node that was replaced leads to.
Gone == [k |-> "gone"]

RECURSIVE CountNodes(_)
CountNodes(e) ==
    CASE e.k = "bin"  -> 1 + CountNodes(e.a) + CountNodes(e.b)
      [] e.k = "call" -> FoldLeft(LAMBDA n, a : n + CountNodes(a), 2, e.args)
      [] OTHER -> 1

ReturnExpr(fn) == IF Len(fn.body) = 1 THEN ValueOf(Head(fn.body)) ELSE <<>>

Inlineable(fn) == \E e \in ToSet(ReturnExpr(fn)) : CountNodes(e) <= InlineLimit

CollectCandidates(prog) ==
    [f \in {g \in DOMAIN prog : Inlineable(prog[g])} |->
        [params |-> prog[f].params, e |-> Head(ReturnExpr(prog[f]))]]

RECURSIVE Substitute(_, _, _)
Substitute(e, params, args) ==
    LET at == SelectInSeq(params, LAMBDA p : p = e.v)
    IN  CASE e.k = "var"  -> IF at = 0 THEN e ELSE args[at]
          [] e.k = "bin"  -> [e EXCEPT !.a = Substitute(@, params, args),
                                       !.b = Substitute(@, params, args)]
          [] e.k = "call" -> [e EXCEPT !.args = [i \in DOMAIN @ |-> Substitute(@[i], params, args)]]
          [] OTHER -> e

Fits(e, cands) ==
    e.k = "call" /\ e.f \in DOMAIN cands /\ Len(e.args) = Len(cands[e.f].params)

\* The arguments first, then the call, then what came in its place.
RECURSIVE InlineExpr(_, _)
InlineExpr(e, cands) ==
    LET Args(rs) == [x |-> [e EXCEPT !.args = rs.x], n |-> rs.n]
        Again(r, n) == [x |-> r.x, n |-> r.n + n]
        Called(c) == IF Fits(c.x, cands)
                     THEN Again(InlineExpr(Substitute(cands[e.f].e, cands[e.f].params, c.x.args),
                                           cands), c.n + 1)
                     ELSE c
        Whole(l, r) == [x |-> [e EXCEPT !.a = l.x, !.b = r.x], n |-> l.n + r.n]
    IN  CASE e.k = "call" -> Called(Args(Joined([i \in DOMAIN e.args |-> InlineExpr(e.args[i], cands)])))
          [] e.k = "bin"  -> Whole(InlineExpr(e.a, cands), InlineExpr(e.b, cands))
          [] OTHER -> Kept(e)

RECURSIVE InlineBlock(_, _)
InlineBlock(b, cands) ==
    LET Exprs(s)  == Joined([i \in DOMAIN ExprsOf(s) |-> InlineExpr(ExprsOf(s)[i], cands)])
        Blocks(s) == Joined([i \in DOMAIN Bodies(s) |->
                                IF Closed(s, i) THEN Kept(Bodies(s)[i])
                                ELSE InlineBlock(Bodies(s)[i], cands)])
        Both(s, es, bs) == [x |-> WithBodies(WithExprs(s, es.x), bs.x), n |-> es.n + bs.n]
    IN  Joined([i \in DOMAIN b |-> Both(b[i], Exprs(b[i]), Blocks(b[i]))])

\* A candidate whose expression is itself a call that was inlined loses its node.
Moved(cands, f, body) ==
    IF f \notin DOMAIN cands THEN cands
    ELSE [cands EXCEPT ![f].e = IF Fits(@, cands) THEN Gone ELSE Head(ValueOf(Head(body)))]

InlineFunctions(prog, order) ==
    FoldLeft(LAMBDA d, f : LET r == InlineBlock(d.x[f].body, d.cands)
                           IN  [x |-> [d.x EXCEPT ![f].body = r.x], n |-> d.n + r.n,
                                cands |-> Moved(d.cands, f, r.x)],
             [x |-> prog, n |-> 0, cands |-> CollectCandidates(prog)], order)

\* Functions that are inlined into each other for ever.
Runaway(prog) ==
    LET cands == CollectCandidates(prog)
        Into(f) == {e.f : e \in {c \in SubExprs(cands[f].e) : Fits(c, cands)}}
    IN  \E S \in SUBSET DOMAIN cands : S # {} /\ \A f \in S : Into(f) \cap S # {}

---------------------------------------------------------------------------
(* Tree shaking. *)

\* The statements of a block, but those of cases whose bodies are expressions.
RECURSIVE Looked(_)
Looked(b) ==
    ToSet(b) \cup UNION {Looked(c) : c \in
        UNION {{Bodies(s)[i] : i \in {j \in DOMAIN Bodies(s) : ~Closed(s, j)}} : s \in ToSet(b)}}

CallsIn(b) ==
    {e \in UNION {SubExprs(x) : x \in UNION {ToSet(ExprsOf(s)) : s \in Looked(b)}} : e.k = "call"}

\* The functions in every set that holds main and what its members call.
Reached(prog) ==
    LET Callees(f) == {e.f : e \in CallsIn(prog[f].body)} \cap DOMAIN prog
        closed == {S \in SUBSET DOMAIN prog :
                     "main" \in S /\ \A f \in S : Callees(f) \subseteq S}
    IN  {f \in DOMAIN prog : \A S \in closed : f \in S}

Shake(prog) == [f \in Reached(prog) |-> prog[f]]
===============================================================================
