------------------------------- MODULE Optimizer -------------------------------
(* The optimization pipeline of main.cpp: its passes over a program, once at    *)
(* level 1 and until nothing changes (or five times) at level 2, then the tree  *)
(* shaking. What a pass promises is that the program still prints what it did.  *)
(* Each pass keeps that promise for some programs only; outside of them a step  *)
(* starts afresh with what the changed program prints, so that every pass is    *)
(* held to exactly what it can keep.                                            *)
EXTENDS AstPasses

CONSTANTS Sources,    \* the programs: sequences of <<name, function>>
          RunFuel     \* loop rounds and calls a program is watched for

VARIABLES prog,       \* the functions by name
          order,      \* their names, as declared
          level,      \* -O1 or -O2
          iter,       \* the iteration of the pipeline
          at,         \* the pass that is next
          changed,    \* any_change
          expected,   \* what the program is to print
          status      \* "optimizing", "stable" or "limit" (how the loop ended),
                      \* "done", or "lost": the compiler itself does not survive

Checker == INSTANCE TypeChecker

optVars == <<prog, order, level, iter, at, changed, expected, status>>

Repeated == <<"propagate", "fold", "simplify", "branches", "dead">>

Once == <<"desugar", "tailcalls", "inline">>

MaxIterations == IF level >= 2 THEN 5 ELSE 1

Pending == IF iter = 0 THEN Repeated \o Once ELSE Repeated

\* A pass over each function by itself.
OnBodies(Pass(_), p, names) ==
    LET all == Joined([i \in DOMAIN names |-> Pass(p[names[i]].body)])
        Body(f) == all.x[SelectInSeq(names, LAMBDA g : g = f)]
    IN  [x |-> [f \in DOMAIN p |-> [p[f] EXCEPT !.body = Body(f)]], n |-> all.n]

Ran(pass, p, names) ==
    CASE pass = "propagate" -> OnBodies(LAMBDA b : PropagateBlock(b, <<>>), p, names)
      [] pass \in {"fold", "simplify"} -> OnBodies(LAMBDA b : RewriteBlock(pass, b), p, names)
      [] pass = "branches"  -> OnBodies(SimplifyFlow, p, names)
      [] pass = "dead"      -> OnBodies(EliminateDead, p, names)
      [] pass = "desugar"   -> Desugar("loop", p, names)
      [] pass = "tailcalls" -> OptimizeTailCalls(p, names)
      [] pass = "inline"    -> InlineFunctions(p, names)

---------------------------------------------------------------------------
(* What each pass can keep. Names are bound before they are used throughout.    *)

RECURSIVE BlocksWithin(_)
BlocksWithin(b) == {b} \cup UNION {BlocksWithin(c) : c \in UNION {ToSet(Bodies(s)) : s \in ToSet(b)}}

BlocksOf(p) == UNION {BlocksWithin(p[f].body) : f \in DOMAIN p}

StmtsOf(p) == UNION {ToSet(b) : b \in BlocksOf(p)}

ExprsIn(ss) == UNION {SubExprs(e) : e \in UNION {ToSet(ExprsOf(s)) : s \in ss}}

BinsOf(p) == {e \in ExprsIn(StmtsOf(p)) : e.k = "bin"}

Uses(b, v) == Ref(v) \in ExprsIn(ToSet(b))

Binds(s, v) == s.op \in {"let", "set", "for", "try"} /\ s.v = v

BindsCase(s, v) == s.op = "match" /\ \E c \in ToSet(s.cases) : c.pat = "var" /\ c.v = v

NoBareCase(ss) == \A s \in ss : s.op = "match" => \A c \in ToSet(s.cases) : ~Bare(c)

NoLogic(p) == \A e \in BinsOf(p) : e.o \notin {"AND", "OR"}

\* Control never reaches the end of the block.
RECURSIVE NeverEnds(_)
NeverEnds(b) ==
    /\ b # <<>>
    /\ LET s == Last(b)
       IN  \/ s.op \in Leaving
           \/ s.op = "loop" /\ Break \notin Within(s.b)
           \/ /\ s.op = "block" \/ (s.op = "if" /\ s.els # <<>>)
              /\ \A c \in ToSet(Bodies(s)) : NeverEnds(c)

\* A name is only ever bound in one block, by a literal or an assignment.
Steady(p, v) ==
    /\ \A f \in DOMAIN p : v \notin ToSet(p[f].params)
    /\ \A s \in StmtsOf(p) : ~BindsCase(s, v) /\ (s.op = "let" /\ s.v = v => IsLiteral(s.e))
    /\ \E b \in BlocksOf(p) : \A c \in BlocksOf(p) :
          (\E s \in ToSet(c) : Binds(s, v)) => c = b

KeptByPropagation(p) ==
    \A s \in StmtsOf(p) : s.op = "let" /\ IsLiteral(s.e) => Steady(p, s.v)

\* What a call of the function gives is not nil.
Valued(fn) ==
    /\ fn.body # <<>>
    /\ NeverEnds(fn.body) \/ Last(fn.body).op = "do"
    /\ \A s \in Within(fn.body) : s # GiveNil /\ s.op # "throw"

IsTest(e) == e.k = "bool" \/ (e.k = "bin" /\ e.o \in Comparisons)

\* Operands are numbers, and what is multiplied calls nothing.
KeptBySimplifying(p) ==
    /\ NoLogic(p)
    /\ \A e \in BinsOf(p) \ {d \in BinsOf(p) : d.o \in Comparisons} :
          /\ ~IsTest(e.a) /\ ~IsTest(e.b)
          /\ e.o \in {"IMUL", "IMOD"} => \A d \in SubExprs(e) : d.k # "call"
          /\ \A d \in {e.a, e.b} : d.k = "call" => d.f \in DOMAIN p /\ Valued(p[d.f])

\* The last statement of a function stays: an expression before it would become
\* the function's value.
KeptBySimplifyingFlow(p) ==
    /\ NoLogic(p) /\ NoBareCase(StmtsOf(p))
    /\ \A f \in DOMAIN p : p[f].body # <<>> => SimplifyFlow(<<Last(p[f].body)>>).x # <<>>

\* Loops without continue whose variables are not looked at outside of them.
KeptByDesugaring(p) ==
    /\ NoBareCase(StmtsOf(p))
    /\ \A s \in StmtsOf(p) : s.op = "for" =>
          /\ Continue \notin Within(s.b)
          /\ \A c \in BlocksOf(p) : Uses(c, s.v) => c \in BlocksWithin(s.b)

\* Every path returns or calls itself, and none does so within a loop; no argument
\* needs a parameter that was assigned before it.
KeptByJumping(fn, f) ==
    LET b     == fn.body
        loops == {s \in Within(b) : s.op \in LoopOps}
        early == Within(Front(b)) \cup UNION {Within(c) : c \in ToSet(Bodies(Last(b)))}
        Assignable(args) ==
            /\ Len(args) = Len(fn.params)
            /\ \A j \in DOMAIN args : \A i \in 1 .. j - 1 :
                  Ref(fn.params[i]) \notin SubExprs(args[j])
    IN  /\ NeverEnds(b) \/ IsCallOf(Last(b), f)
        /\ NoBareCase(Within(b))
        /\ \A s \in early : s.op = "do" => ~IsCallOf(s, f)
        /\ \A l \in loops : \A s \in Within(l.b) : ~IsCallOf(s, f)
        /\ \A s \in Within(b) : \A v \in ToSet(fn.params) :
              ~BindsCase(s, v) /\ (Binds(s, v) => s.op = "set")
        /\ \A s \in Within(b) : IsCallOf(s, f) => Assignable(Head(ValueOf(s)).args)

\* The arguments of what is inlined call nothing themselves.
KeptByInlining(p) ==
    \A e \in ExprsIn(StmtsOf(p)) : Fits(e, CollectCandidates(p)) =>
        \A d \in SubExprs(e) \ {e} : d.k # "call"

Keeps(pass, p) ==
    CASE pass = "propagate" -> KeptByPropagation(p)
      [] pass = "fold"      -> NoLogic(p)
      [] pass = "simplify"  -> KeptBySimplifying(p)
      [] pass = "branches"  -> KeptBySimplifyingFlow(p)
      [] pass = "dead"      -> TRUE
      [] pass = "desugar"   -> KeptByDesugaring(p)
      [] pass = "tailcalls" -> \A f \in DOMAIN p : TurnsIntoLoop(p, f) => KeptByJumping(p[f], f)
      [] pass = "inline"    -> KeptByInlining(p)

\* What the program is to print after a pass. Desugared loops leave out the end of
\* their range, which the interpreter runs.
Promised(pass, result) ==
    IF Keeps(pass, prog) /\ pass # "desugar" THEN expected
    ELSE Interpret(IF Keeps(pass, prog) THEN Desugar("shorter", prog, order).x ELSE result,
                   RunFuel)

---------------------------------------------------------------------------
(* The pipeline. *)

\* Mutant: what an earlier pass of the iteration reported is overwritten.
PassDoneAlone(pass, run) ==
    IF pass = "inline" /\ (Runaway(prog) \/ Gone \in ExprsIn(StmtsOf(run.x)))
    THEN status' = "lost" /\ UNCHANGED <<prog, changed, expected>>
    ELSE /\ prog' = run.x
         /\ changed' = (run.n > 0)
         /\ expected' = Promised(pass, prog')
         /\ UNCHANGED status

\* A pass sets any_change when it counted something. Inlining that the compiler does
\* not survive leaves no program.
PassDone(pass, run) ==
    IF pass = "inline" /\ (Runaway(prog) \/ Gone \in ExprsIn(StmtsOf(run.x)))
    THEN status' = "lost" /\ UNCHANGED <<prog, changed, expected>>
    ELSE /\ prog' = run.x
         /\ changed' = (changed \/ run.n > 0)
         /\ expected' = Promised(pass, prog')
         /\ UNCHANGED status

RunPass ==
    /\ status = "optimizing" /\ at <= Len(Pending)
    /\ PassDone(Pending[at], Ran(Pending[at], prog, order))
    /\ at' = at + 1
    /\ UNCHANGED <<order, level, iter>>

\* The end of an iteration: once more while something changes.
EndIteration ==
    /\ status = "optimizing" /\ at > Len(Pending)
    /\ IF changed /\ iter + 1 < MaxIterations
       THEN iter' = iter + 1 /\ at' = 1 /\ changed' = FALSE /\ UNCHANGED status
       ELSE status' = (IF changed THEN "limit" ELSE "stable") /\ UNCHANGED <<iter, at, changed>>
    /\ UNCHANGED <<prog, order, level, expected>>

TreeShake ==
    /\ status \in {"limit", "stable"}
    /\ prog' = Shake(prog)
    /\ order' = SelectSeq(order, LAMBDA f : f \in DOMAIN prog')
    /\ status' = "done"
    /\ UNCHANGED <<level, iter, at, changed, expected>>

OptInit ==
    /\ \E s \in Sources :
          /\ order = [i \in DOMAIN s |-> s[i][1]]
          /\ prog = [f \in {s[i][1] : i \in DOMAIN s} |->
                       s[SelectInSeq(s, LAMBDA d : d[1] = f)][2]]
    /\ Checker!WellTyped(prog)
    /\ level \in 1 .. 2
    /\ iter = 0 /\ at = 1 /\ changed = FALSE /\ status = "optimizing"
    /\ expected = Interpret(prog, RunFuel)

\* No program to optimize.
NoProgram ==
    /\ order = <<"main">> /\ prog = [main |-> Fn(<<>>, <<>>)] /\ level = 0
    /\ iter = 0 /\ at = 1 /\ changed = FALSE /\ status = "done"
    /\ expected = [out |-> <<>>, cut |-> FALSE]

Optimizing == RunPass \/ EndIteration \/ TreeShake

OptSpec == OptInit /\ [][Optimizing]_optVars

---------------------------------------------------------------------------
(* Properties. *)

\* Programs that run for ever print the same for as long as either is watched.
Agrees(a, b) ==
    \/ a = b
    \/ a.cut /\ b.cut /\ (IsPrefix(a.out, b.out) \/ IsPrefix(b.out, a.out))

\* After every pass, in whatever order they meet, the program prints what it did
\* before (main.cpp, the optimization pipeline).
OutputKept == status # "lost" => Agrees(Interpret(prog, RunFuel), expected)

\* When the pipeline stops because no pass reports a change, none of them has
\* anything left to do (main.cpp, any_change).
StopsAtFixedPoint ==
    status = "stable" => \A i \in DOMAIN Repeated : Ran(Repeated[i], prog, order).x = prog
===============================================================================
