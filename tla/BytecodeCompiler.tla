--------------------------- MODULE BytecodeCompiler ---------------------------
(* The bytecode compiler (bytecode/bytecode_compiler.cpp) on the sequential     *)
(* core of the language: every statement is compiled for its effect on a        *)
(* compilation context, which holds the code emitted so far, the scopes, the    *)
(* loops being compiled and the exception handlers.                             *)
(*                                                                              *)
(* Programs are those of SyntaxTree. Instruction addresses count from 0, as in  *)
(* the code. Constants stand for themselves instead of an index into the        *)
(* constant pool, and the short forms LOAD_LOCAL_0/1 are written LOAD_LOCAL.    *)
EXTENDS Integers, SequencesExt

---------------------------------------------------------------------------
(* Emitting and patching. *)

EmitNamed(c, op, a, s) ==
    [c EXCEPT !.code = Append(@, [op |-> op, a |-> a, s |-> s])]

Emit(c, op, a) == EmitNamed(c, op, a, "")

\* The address of the next instruction.
Here(c) == Len(c.code)

\* Offsets are relative to the instruction after the jump.
PatchJump(c, j, target) ==
    IF j \in 0 .. Here(c) - 1
    THEN [c EXCEPT !.code[j + 1].a = target - (j + 1)]
    ELSE c

PatchHere(c, jumps) ==
    FoldLeft(LAMBDA d, j : PatchJump(d, j, Here(d)), c, jumps)

LastOp(c) == IF c.code = <<>> THEN "NOP" ELSE Last(c.code).op

---------------------------------------------------------------------------
(* Scopes: a stack of maps from names to slots. Slots are never reused. *)

EnterScope(c) == [c EXCEPT !.scopes = Append(@, <<>>)]

\* A scope that stays open: its names shadow the outer ones from then on.
LeaveScopeOpen(c) == c

LeaveScope(c) == [c EXCEPT !.scopes = Front(@)]

ResolveVariable(c, v) ==
    LET at == {i \in DOMAIN c.scopes : v \in DOMAIN c.scopes[i]}
    IN  IF at = {} THEN -1 ELSE c.scopes[Max(at)][v]

AllocateLocal(c, v) ==
    [c EXCEPT !.scopes[Len(c.scopes)] = (v :> c.next) @@ @, !.next = @ + 1]

---------------------------------------------------------------------------
(* Expressions. *)

RECURSIVE Expression(_, _)
Expression(e, c) ==
    CASE e.k = "num"  -> Emit(c, "PUSH", e.n)
      [] e.k = "var"  -> LET slot == ResolveVariable(c, e.v)
                         IN  IF slot >= 0 THEN Emit(c, "LOAD_LOCAL", slot)
                             ELSE EmitNamed(c, "LOAD_GLOBAL", 0, e.v)
      [] e.k = "bin"  -> Emit(Expression(e.b, Expression(e.a, c)), e.o, 0)
      [] e.k = "call" -> LET args == FoldLeft(LAMBDA d, a : Expression(a, d), c, e.args)
                             n    == Len(e.args)
                         IN  IF e.f = "print"
                             THEN EmitNamed(args, "CALL_EXT", n, "print")
                             ELSE Emit(EmitNamed(args, "LOAD_GLOBAL", 0, e.f), "CALL", n)

Store(c, v) ==
    LET slot == ResolveVariable(c, v)
    IN  IF slot >= 0 THEN Emit(c, "STORE_LOCAL", slot)
        ELSE EmitNamed(c, "STORE_GLOBAL", 0, v)

---------------------------------------------------------------------------
(* Statements. *)

RECURSIVE Statement(_, _)

\* Only the last statement of a block is in tail position.
Block(b, c) ==
    FoldLeft(LAMBDA d, i :
                 [Statement(b[i], [d EXCEPT !.tail = c.tail /\ i = Len(b)])
                     EXCEPT !.tail = c.tail],
             c, [i \in 1 .. Len(b) |-> i])

Scoped(b, c) == LeaveScope(Block(b, EnterScope(c)))

LetStmt(s, c) ==
    LET d == AllocateLocal(Expression(s.e, c), s.v)
    IN  Emit(d, "STORE_LOCAL", ResolveVariable(d, s.v))

AssignStmt(s, c) == Store(Expression(s.e, c), s.v)

\* A statement whose value stays on the stack.
ExprStmtKept(s, c) ==
    IF c.tail THEN Emit(Expression(s.e, c), "RET", 0) ELSE Expression(s.e, c)

ExprStmt(s, c) == Emit(Expression(s.e, c), IF c.tail THEN "RET" ELSE "POP", 0)

Terminates(c) == LastOp(c) \in {"RET", "RET_NULL"}

\* A branch is taken to leave the function when its last instruction does.
IfStmt(s, c) ==
    LET Arm(d, arm) ==
            LET cond == Expression(arm.c, d.c)
                then == Scoped(arm.b, Emit(cond, "JMP_IF_NOT", 0))
                past == IF Terminates(then) THEN then ELSE Emit(then, "JMP", 0)
            IN  [c    |-> PatchJump(past, Here(cond), Here(past)),
                 ends |-> IF Terminates(then) THEN d.ends
                          ELSE Append(d.ends, Here(then))]
        arms == FoldLeft(Arm, [c |-> c, ends |-> <<>>], s.arms)
        els  == FoldLeft(LAMBDA d, b : Scoped(b, d), arms.c, s.els)
    IN  PatchHere(els, arms.ends)

\* The body of a case is a block, or one expression whose value is dropped.
CaseBody(case, c) ==
    LeaveScope(IF case.block THEN Block(case.b, EnterScope(c))
               ELSE Emit(Expression(Head(case.b).e, EnterScope(c)), "POP", 0))

\* A wildcard case falls through into the POP that serves the unmatched path.
MatchStmt(s, c) ==
    LET Case(d, case) ==
            CASE d.closed -> d
              [] ~d.closed /\ case.pat = "wild" ->
                    [d EXCEPT !.c = CaseBody(case, Emit(d.c, "POP", 0)),
                              !.closed = TRUE]
              [] ~d.closed /\ case.pat = "var" ->
                    LET bind == AllocateLocal(Emit(d.c, "DUP", 0), case.v)
                        save == Emit(bind, "STORE_LOCAL",
                                     ResolveVariable(bind, case.v))
                        body == CaseBody(case, Emit(save, "POP", 0))
                    IN  [c |-> Emit(body, "JMP", 0),
                         ends |-> Append(d.ends, Here(body)), closed |-> TRUE]
              [] ~d.closed /\ case.pat = "lit" ->
                    LET test == Emit(Emit(Emit(d.c, "DUP", 0), "PUSH", case.n),
                                     "EQ", 0)
                        skip == Emit(test, "JMP_IF_NOT", 0)
                        body == CaseBody(case, Emit(skip, "POP", 0))
                        past == Emit(body, "JMP", 0)
                    IN  [d EXCEPT !.c = PatchJump(past, Here(test), Here(past)),
                                  !.ends = Append(@, Here(body))]
        cases == FoldLeft(Case,
                          [c |-> Expression(s.e, c), ends |-> <<>>,
                           closed |-> FALSE],
                          s.cases)
    IN  PatchHere(Emit(cases.c, "POP", 0), cases.ends)

---------------------------------------------------------------------------
(* Loops. A loop context remembers one break and one continue, the last seen. *)

OpenLoop(c) == [c EXCEPT !.loops = Append(@, [brk |-> -1, cont |-> -1])]

CloseLoop(c, again) ==
    LET l == Last(c.loops)
    IN  [PatchJump(PatchJump(c, l.brk, Here(c)), l.cont, again)
            EXCEPT !.loops = Front(@)]

BreakStmt(c) ==
    Emit([c EXCEPT !.loops[Len(c.loops)].brk = Here(c)], "JMP", 0)

ContinueStmt(c) ==
    Emit([c EXCEPT !.loops[Len(c.loops)].cont = Here(c)], "JMP", 0)

LoopBody(b, c) == [Scoped(b, [c EXCEPT !.tail = FALSE]) EXCEPT !.tail = c.tail]

JumpBack(c, start) == Emit(c, "JMP", start - (Here(c) + 1))

WhileStmt(s, c) ==
    LET cond == Expression(s.c, OpenLoop(c))
        back == JumpBack(LoopBody(s.b, Emit(cond, "JMP_IF_NOT", 0)), Here(c))
    IN  CloseLoop(PatchJump(back, Here(cond), Here(back)), Here(c))

LoopStmt(s, c) == CloseLoop(JumpBack(LoopBody(s.b, OpenLoop(c)), Here(c)), Here(c))

\* The step of a for loop, and one that forgets to store it.
ForStepLost(c, var) ==
    Emit(Emit(Emit(Emit(c, "LOAD_LOCAL", var), "PUSH", 1), "IADD", 0), "POP", 0)

ForStep(c, var) ==
    Emit(Emit(Emit(Emit(c, "LOAD_LOCAL", var), "PUSH", 1), "IADD", 0),
         "STORE_LOCAL", var)

\* for v in lo..hi, and for v in hi with lo = 1: the bound is inclusive.
ForStmt(s, c) ==
    LET var   == c.next
        end   == c.next + 1
        first == Emit(Expression(s.lo, AllocateLocal(OpenLoop(c), s.v)),
                      "STORE_LOCAL", var)
        test  == Emit(AllocateLocal(Expression(s.hi, first), "__end"),
                      "STORE_LOCAL", end)
        cond  == Emit(Emit(Emit(test, "LOAD_LOCAL", var), "LOAD_LOCAL", end),
                      "IGT", 0)
        body  == LoopBody(s.b, Emit(cond, "JMP_IF", 0))
        back  == JumpBack(ForStep(body, var), Here(test))
    IN  CloseLoop(PatchJump(back, Here(cond), Here(back)), Here(body))

---------------------------------------------------------------------------
(* Leaving a function, exceptions. *)

ReturnStmt(s, c) ==
    IF s.val = <<>> THEN Emit(c, "RET_NULL", 0)
    ELSE Emit(Expression(Head(s.val), c), "RET", 0)

ThrowStmt(s, c) == Emit(Expression(s.e, c), "THROW", 0)

\* Neither the try body nor the catch body opens a scope.
TryStmt(s, c) ==
    LET body  == Block(s.b, c)
        jump  == Emit(body, "JMP", 0)
        bound == IF s.v = "" \/ ResolveVariable(jump, s.v) >= 0 THEN jump
                 ELSE AllocateLocal(jump, s.v)
        guard == [bound EXCEPT !.handlers =
                     Append(@, [from |-> Here(c), to |-> Here(jump),
                                at |-> Here(jump),
                                var |-> IF s.v = "" THEN -1
                                        ELSE ResolveVariable(bound, s.v)])]
        catch == Block(s.h, guard)
    IN  PatchJump(catch, Here(body), Here(catch))

Statement(s, c) ==
    CASE s.op = "let"   -> LetStmt(s, c)
      [] s.op = "set"   -> AssignStmt(s, c)
      [] s.op = "do"    -> ExprStmt(s, c)
      [] s.op = "if"    -> IfStmt(s, c)
      [] s.op = "match" -> MatchStmt(s, c)
      [] s.op = "while" -> WhileStmt(s, c)
      [] s.op = "loop"  -> LoopStmt(s, c)
      [] s.op = "for"   -> ForStmt(s, c)
      [] s.op = "break" -> BreakStmt(c)
      [] s.op = "cont"  -> ContinueStmt(c)
      [] s.op = "block" -> Block(s.b, c)
      [] s.op = "ret"   -> ReturnStmt(s, c)
      [] s.op = "try"   -> TryStmt(s, c)
      [] s.op = "throw" -> ThrowStmt(s, c)

---------------------------------------------------------------------------
(* Functions. *)

\* A function without a return at its end gets one, or turns a last POP into it.
ImplicitReturn(c) ==
    CASE Terminates(c)    -> c
      [] LastOp(c) = "POP" -> [c EXCEPT !.code[Here(c)].op = "RET"]
      [] OTHER             -> Emit(c, "RET_NULL", 0)

ReservedLocals(arity, next) == Max({arity, next})

CompileFunction(f) ==
    LET arity  == Len(f.params)
        params == [v \in ToSet(f.params) |->
                      (CHOOSE i \in 1 .. arity : f.params[i] = v) - 1]
        start  == [code |-> <<>>, scopes |-> <<params>>, next |-> arity,
                   loops |-> <<>>, handlers |-> <<>>, tail |-> TRUE]
        done   == ImplicitReturn(Block(f.body, start))
    IN  [code |-> done.code, handlers |-> done.handlers, arity |-> arity,
         locals |-> ReservedLocals(arity, done.next)]

CompileModule(prog) == [name \in DOMAIN prog |-> CompileFunction(prog[name])]
===============================================================================
