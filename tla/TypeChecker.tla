------------------------------ MODULE TypeChecker ------------------------------
(* The type check of main.cpp (type/type_checker.cpp, type/pattern_checker.cpp) *)
(* over the sequential core: which programs get as far as being run. There are  *)
(* no annotations, so that a parameter and what a call returns are unknown, and *)
(* what is unknown goes with everything. Try and throw are not looked into.     *)
EXTENDS SyntaxTree

\* scopes: the types of names, innermost last; ok: no error has been reported.
Nothing == [scopes |-> <<>>, ok |-> TRUE]

DefineVar(v, t, c) ==
    [c EXCEPT !.scopes = Append(Front(@), v :> t @@ Last(@))]

\* A name that is bound nowhere is that of a function, or an error of another part.
LookupVar(v, c) ==
    LET at == {i \in DOMAIN c.scopes : v \in DOMAIN c.scopes[i]}
    IN  IF at = {} THEN "unknown" ELSE c.scopes[Max(at)][v]

Require(holds, c) == [c EXCEPT !.ok = @ /\ holds]

Arithmetic == {"IADD", "ISUB", "IMUL", "IDIV", "IMOD"}

RECURSIVE TypeOf(_, _)
TypeOf(e, c) ==
    CASE e.k = "num"  -> "i64"
      [] e.k = "bool" -> "bool"
      [] e.k = "var"  -> LookupVar(e.v, c)
      [] e.k = "call" -> "unknown"
      [] e.k = "bin"  -> IF e.o \notin Arithmetic THEN "bool"
                         ELSE IF {TypeOf(e.a, c), TypeOf(e.b, c)} = {"i64"} THEN "i64"
                         ELSE "unknown"

CheckExpr(e, c) ==
    Require(\A x \in SubExprs(e) :
               x.k = "bin" /\ x.o \in Arithmetic =>
                   LET operands == {TypeOf(x.a, c), TypeOf(x.b, c)}
                   IN  "unknown" \in operands \/ operands = {"i64"}, c)

CanCoerce(from, to) == from = to \/ "unknown" \in {from, to}

---------------------------------------------------------------------------
IsCatchall(case) == case.pat = "var"

\* What a type is made of; numbers are too many to be enumerated.
Constructors(type) == IF type = "bool" THEN {Bool(TRUE), Bool(FALSE)} ELSE {[k |-> "any"]}

Covers(case, constructor) == IsCatchall(case) \/ constructor = Num(case.n)

FindMissing(type, cases) ==
    {c \in Constructors(type) : \A i \in DOMAIN cases : ~Covers(cases[i], c)}

Exhaustive(type, cases) == FindMissing(type, cases) = {}

Redundant(cases) ==
    \E i, j \in DOMAIN cases : j < i /\ IsCatchall(cases[j])

RECURSIVE CheckBlock(_, _)

Scoped(b, c) ==
    [CheckBlock(b, [c EXCEPT !.scopes = Append(@, <<>>)]) EXCEPT !.scopes = Front(@)]

\* The name of a pattern is defined around the match, not in its case.
CheckCase(case, type, c) ==
    Scoped(case.b, IF IsCatchall(case) THEN DefineVar(case.v, type, c) ELSE c)

CheckMatch(s, c) ==
    LET type == TypeOf(s.e, c)
        after == FoldLeft(LAMBDA d, case : CheckCase(case, type, d), CheckExpr(s.e, c), s.cases)
    IN  Require(type = "unknown" \/ (Exhaustive(type, s.cases) /\ ~Redundant(s.cases)), after)

\* The range of a loop has no type, and so neither has its variable.
CheckFor(s, c) ==
    LET inner == DefineVar(s.v, "unknown",
                           [CheckExpr(s.hi, CheckExpr(s.lo, c)) EXCEPT !.scopes = Append(@, <<>>)])
    IN  [Scoped(s.b, inner) EXCEPT !.scopes = Front(@)]

CheckStmt(s, c) ==
    CASE s.op = "let"   -> DefineVar(s.v, TypeOf(s.e, c), CheckExpr(s.e, c))
      [] s.op = "set"   -> Require(CanCoerce(TypeOf(s.e, c), LookupVar(s.v, c)), CheckExpr(s.e, c))
      [] s.op = "match" -> CheckMatch(s, c)
      [] s.op = "for"   -> CheckFor(s, c)
      [] s.op \in {"try", "throw"} -> c
      [] OTHER -> FoldLeft(LAMBDA d, b : Scoped(b, d),
                           FoldLeft(LAMBDA d, e : CheckExpr(e, d), c, ExprsOf(s)), Bodies(s))

CheckBlock(b, c) == FoldLeft(LAMBDA d, s : CheckStmt(s, d), c, b)

CheckFunction(fn) ==
    Scoped(fn.body, [Nothing EXCEPT !.scopes = <<[v \in ToSet(fn.params) |-> "unknown"]>>])

WellTyped(prog) == \A f \in DOMAIN prog : CheckFunction(prog[f]).ok

---------------------------------------------------------------------------
(* The error effects of functions (type/error_effect_analyzer.cpp), which the   *)
(* type check ends with: a function may be declared noraise, and is refused if  *)
(* its body may raise. What is not declared is unknown, and stays so for the    *)
(* functions that call it.                                                      *)

\* raise E is abstracted to raise Error, what throw gives, and raise of another.
Concrete == {"raise Error", "raise other"}

Effects == Concrete \cup {"unknown", "noraise", "raise?"}

CanRaise(effect) == effect # "noraise"

\* Mutant: what is unknown of one part is taken from the other.
UnionKnown(a, b) == IF a \in {"unknown", "noraise"} THEN b ELSE a

Union(a, b) ==
    CASE "unknown" \in {a, b} -> "unknown"
      [] "unknown" \notin {a, b} /\ a = "noraise" -> b
      [] a \notin {"unknown", "noraise"} /\ b = "noraise" -> a
      [] {a, b} \subseteq Concrete -> IF a = b THEN a ELSE "unknown"
      [] "raise?" \in {a, b} /\ {a, b} \subseteq Concrete \cup {"raise?"} -> "raise?"

UnionOf(effects) == FoldLeft(Union, "noraise", effects)

\* declared has the functions of the program; a builtin is none of them.
CalleeEffect(f, declared) == IF f \in DOMAIN declared THEN declared[f] ELSE "noraise"

RECURSIVE ExprEffect(_, _)
ExprEffect(e, declared) ==
    CASE e.k = "call" -> UnionOf(<<CalleeEffect(e.f, declared)>>
                                 \o [i \in DOMAIN e.args |-> ExprEffect(e.args[i], declared)])
      [] e.k = "bin"  -> Union(ExprEffect(e.a, declared), ExprEffect(e.b, declared))
      [] OTHER -> "noraise"

\* A try statement has a catch, whose body is not looked into; nor is a match.
RECURSIVE BlockEffect(_, _)
BlockEffect(b, declared) ==
    LET Parts(s) == [i \in DOMAIN ExprsOf(s) |-> ExprEffect(ExprsOf(s)[i], declared)]
                    \o [i \in DOMAIN Bodies(s) |-> BlockEffect(Bodies(s)[i], declared)]
        Stmt(s) == CASE s.op = "throw" -> "raise Error"
                     [] s.op \in {"try", "match"} -> "noraise"
                     [] OTHER -> UnionOf(Parts(s))
    IN  UnionOf([i \in DOMAIN b |-> Stmt(b[i])])

\* No function that is declared noraise may raise (EEF001).
Accepted(prog, declared) ==
    \A f \in DOMAIN prog :
        declared[f] = "noraise" => ~CanRaise(BlockEffect(prog[f].body, declared))

---------------------------------------------------------------------------
(* What the analysis says of a program.                                         *)

\* Nothing raises where the analysis does not look.
InSight(fn, declared) ==
    \A s \in Within(fn.body) :
        /\ s.op = "try"   => BlockEffect(s.h, declared) = "noraise"
        /\ s.op = "match" => /\ ExprEffect(s.e, declared) = "noraise"
                             /\ \A b \in ToSet(Bodies(s)) : BlockEffect(b, declared) = "noraise"

\* The functions that are accepted as noraise in some declaration of the program.
NoRaise(prog) ==
    UNION {{f \in DOMAIN prog : d[f] = "noraise"} :
           d \in {c \in [DOMAIN prog -> Effects] :
                    /\ Accepted(prog, c)
                    /\ \A f \in DOMAIN prog : c[f] = "noraise" => InSight(prog[f], c)}}
===============================================================================
