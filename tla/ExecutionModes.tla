---------------------------- MODULE ExecutionModes ----------------------------
(* One program in five of the modes of claw: interpreted from its syntax tree   *)
(* (--run, Interpreter); compiled and run by the VM (--mode=bytecode,           *)
(* BytecodeCompiler and ClawVm), with or without the peephole pass of -O1 in    *)
(* between (Peephole); from the same bytecode, run as machine code (--mode=jit, *)
(* JitCode) and made into an executable (--mode=aot, AotCode); and translated   *)
(* to C (--mode=c, CCode). What the program prints in the other modes is        *)
(* computed at the start; the VM then runs it step by step.                     *)
EXTENDS ClawVm, SyntaxTree

CONSTANTS
    Programs,    \* the programs that are run as they are compiled
    Optimized,   \* and those that are run at -O1, as its passes leave the tree
    Fuel,        \* loop iterations and calls the interpreter may take
    MaxSteps     \* instructions the VM may execute

ASSUME ModesConstants == /\ Fuel \in Nat \ {0}
                         /\ MaxSteps \in Nat
                         /\ Fuel <= FrameLimit   \* too deep a recursion is cut

VARIABLES
    regular,     \* the program stays clear of what the compiler gets wrong
    ref,         \* what the interpreter printed, and whether it was cut short
    native,      \* how the machine code ended, for each order of compiling, the
                 \* executable, and the C program
    quiet,       \* the functions that may be declared noraise
    seen,        \* the stack heights seen: <<function, address, height>>
    leaked,      \* an exception has crossed a frame
    steps

modeVars == <<regular, ref, native, quiet, seen, leaked, steps>>
allVars  == <<vmVars, modeVars>>

Compiler == INSTANCE BytecodeCompiler
Shrinker == INSTANCE Peephole
Tree     == INSTANCE Interpreter
Native   == INSTANCE JitCode
Ahead    == INSTANCE AotCode
CSource  == INSTANCE CCode
Checker  == INSTANCE TypeChecker

---------------------------------------------------------------------------
(* What the two modes agree on. Outside of it the compiler differs from the     *)
(* interpreter: of several breaks or continues of a loop only the last is       *)
(* patched; a branch whose last instruction is a return is taken never to       *)
(* complete; a return drops the caller's pending operands; and a throw right    *)
(* before a try statement lies in the range of its handler. The peephole pass   *)
(* moves the jumps of a function it shortens to where they should not lead.     *)

RECURSIVE Count(_, _), KeepsOperands(_), EndOf(_, _),
          EndsInThrow(_), StartsTry(_)

\* How often a break or a continue occurs in the loop body b, for its own loop.
Count(b, op) ==
    LET In(s) == CASE s.op = op -> 1
                   [] s.op \in LoopOps -> 0
                   [] OTHER -> FoldLeft(LAMBDA n, c : n + Count(c, op), 0, Bodies(s))
    IN  FoldLeft(LAMBDA n, s : n + In(s), 0, b)

Calls(e) == \E x \in SubExprs(e) : x.k = "call" /\ x.f # "print"

\* No function is called while the left operand of an operator, or an earlier
\* argument, is pending.
KeepsOperands(e) ==
    CASE e.k = "call" -> \A i \in DOMAIN e.args :
                            /\ KeepsOperands(e.args[i])
                            /\ i > 1 => ~Calls(e.args[i])
      [] e.k = "bin"  -> KeepsOperands(e.a) /\ ~Calls(e.b)
      [] OTHER -> TRUE

\* How the code of a block ends: it never completes and its last instruction is
\* a return ("leaves"), that is its last instruction although it may complete
\* ("mixed"), it ends in the POP of a match ("pop"), or in none of these ("goes").
EndOf(b, tail) ==
    IF b = <<>> THEN "goes"
    ELSE LET s == Last(b) IN
         CASE s.op = "ret"   -> "leaves"
           [] s.op = "do"    -> IF tail THEN "leaves" ELSE "goes"
           [] s.op = "match" -> "pop"
           [] s.op = "block" -> EndOf(s.b, tail)
           [] s.op = "try"   ->
                IF EndOf(s.h, tail) = "leaves" /\ EndOf(s.b, tail) # "leaves"
                THEN "mixed" ELSE EndOf(s.h, tail)
           [] s.op = "if"    ->
                LET ends == [i \in DOMAIN Bodies(s) |-> EndOf(Bodies(s)[i], tail)]
                IN  IF Last(ends) # "leaves"
                    THEN IF s.els = <<>> THEN "goes" ELSE Last(ends)
                    ELSE IF s.els # <<>> /\ ToSet(ends) = {"leaves"}
                    THEN "leaves" ELSE "mixed"
           [] OTHER -> "goes"

\* An arm that may complete does not look as if it never did.
ArmsEnd(s) ==
    \A i \in DOMAIN s.arms : \A tail \in BOOLEAN : EndOf(s.arms[i].b, tail) # "mixed"

\* The last instruction of a block is a throw, the first is in a try body.
EndsInThrow(b) ==
    /\ b # <<>>
    /\ \/ Last(b).op = "throw"
       \/ Last(b).op \in {"block", "try"} /\ EndsInThrow(Last(Bodies(Last(b))))
       \/ Last(b).op = "if" /\ Last(b).els # <<>> /\ EndsInThrow(Head(Last(b).els))

StartsTry(b) ==
    /\ b # <<>>
    /\ \/ Head(b).op = "try"
       \/ Head(b).op \in {"block", "loop"} /\ StartsTry(Head(b).b)

Blocks(prog, f) ==
    {prog[f].body} \cup UNION {ToSet(Bodies(s)) : s \in Within(prog[f].body)}

Shaped(prog) ==
    \A f \in DOMAIN prog :
        /\ EndOf(prog[f].body, TRUE) \notin {"mixed", "pop"}
        /\ \A b \in Blocks(prog, f) : \A i \in 2 .. Len(b) :
              ~(EndsInThrow(SubSeq(b, 1, i - 1)) /\ StartsTry(SubSeq(b, i, Len(b))))
        /\ \A s \in Within(prog[f].body) :
              /\ s.op \in LoopOps =>
                    Count(s.b, "break") <= 1 /\ Count(s.b, "cont") <= 1
              /\ s.op = "if" => ArmsEnd(s)

NothingPending(prog) ==
    \A f \in DOMAIN prog : \A s \in Within(prog[f].body) :
        \A e \in ToSet(ExprsOf(s)) : KeepsOperands(e)

Regular(prog) == Shaped(prog) /\ NothingPending(prog)

---------------------------------------------------------------------------
(* What the machine code agrees on. It keeps pending operands where the VM drops *)
(* them, but has no exceptions, no nil (a function returns 0 instead), and no    *)
(* way to call a function that is compiled later; and a function that prints is  *)
(* not called while an operand is pending, or the stack is not aligned.          *)

Has(fn, op) == \E i \in DOMAIN fn.code : fn.code[i].op = op

\* The function may return nil, or the value of print, which is nil elsewhere.
MayGiveNil(fn) ==
    \/ Has(fn, "RET_NULL")
    \/ \E i \in 2 .. Len(fn.code) : fn.code[i].op = "RET" /\ fn.code[i - 1].op = "CALL_EXT"

\* The calls of a function, and those whose value is used.
CallSites(mod, f) == {i \in DOMAIN mod[f].code : mod[f].code[i].op = "CALL"}

ValueUsed(mod, f, i) ==
    LET next == mod[f].code[i + 1].op
    IN  ~(next = "POP" \/ (f = "main" /\ next = "RET"))

CalledAt(mod, f, i) == mod[f].code[i - 1].s

NoNilUsed(mod) ==
    \A f \in DOMAIN mod : \A i \in CallSites(mod, f) :
        ValueUsed(mod, f, i) => ~MayGiveNil(mod[CalledAt(mod, f, i)])

Jittable(prog, mod) ==
    /\ Shaped(prog)
    /\ NoNilUsed(mod)
    /\ \A f \in DOMAIN mod : ~Has(mod[f], "THROW")
    /\ NothingPending(prog) \/ \A f \in DOMAIN mod \ {"main"} : ~Has(mod[f], "CALL_EXT")

\* The orders of the functions in which no function comes before one it calls.
Orders(mod) ==
    LET Place(o, f) == CHOOSE k \in DOMAIN o : o[k] = f
    IN  {o \in SetToSeqs(DOMAIN mod) :
            \A f \in DOMAIN mod : \A i \in CallSites(mod, f) :
                Place(o, CalledAt(mod, f, i)) <= Place(o, f)}

Natively(prog, mod) ==
    IF Jittable(prog, mod) THEN {Native!ExecuteJit(mod, o, MaxSteps) : o \in Orders(mod)} ELSE {}

\* An executable is built of functions in any order, and calls them with operands
\* pending or not; it cannot divide, and prints one argument of several.
Executable(prog, mod) ==
    /\ Shaped(prog)
    /\ NoNilUsed(mod)
    /\ \A f \in DOMAIN mod : \A k \in DOMAIN mod[f].code :
          /\ mod[f].code[k].op \notin {"IDIV", "IMOD"}
          /\ mod[f].code[k].op = "CALL_EXT" => mod[f].code[k].a = 1

AheadOfTime(prog, mod) ==
    IF Executable(prog, mod) /\ Ahead!Builds(mod) THEN {Ahead!ExecuteAot(mod, MaxSteps)} ELSE {}

---------------------------------------------------------------------------
(* What the C program agrees on. It has no endless loops, counts from 1 to a     *)
(* number only, and in a variable that the body may change; only return gives a  *)
(* value; what operands do has no order; and an exception is caught in its own   *)
(* function, with its value and what was assigned since the try gone.            *)

RECURSIVE Escapes(_), Gives(_)

\* A throw of the block is in no try body within it.
Escapes(b) ==
    \E s \in ToSet(b) :
        \/ s.op = "throw"
        \/ \E k \in DOMAIN Bodies(s) : Escapes(Bodies(s)[k]) /\ ~(s.op = "try" /\ k = 1)

\* The block completes by returning a value.
Gives(b) ==
    /\ b # <<>>
    /\ LET s == Last(b)
       IN  \/ s.op = "ret" /\ s.val # <<>>
           \/ s.op = "block" /\ Gives(s.b)
           \/ s.op = "if" /\ s.els # <<>> /\ \A k \in DOMAIN Bodies(s) : Gives(Bodies(s)[k])

\* The names that a statement binds by declaring them, and otherwise.
Declared(s) == IF s.op = "let" \/ (s.op = "try" /\ s.v # "") THEN {s.v} ELSE {}

Bindings(s) ==
    CASE s.op = "for"   -> {s.v}
      [] s.op = "match" -> {case.v : case \in {c \in ToSet(s.cases) : c.pat = "var"}}
      [] OTHER -> {}

OwnName(fn, s) ==
    \A v \in Bindings(s) :
        /\ v \notin ToSet(fn.params) \cup UNION {Declared(t) : t \in Within(fn.body)}
        /\ \A t \in UNION {Within(c) : c \in ToSet(Bodies(s))} : v \notin Bindings(t)

Assigns(b) == {s.v : s \in {t \in Within(b) : t.op = "set"}}

\* At most one operand, or argument, calls a function, or no function prints.
Sequenced(s, quietly) ==
    quietly \/ \A e \in ToSet(ExprsOf(s)) : \A x \in SubExprs(e) :
        CASE x.k = "bin"  -> ~(Calls(x.a) /\ Calls(x.b))
          [] x.k = "call" -> Cardinality({i \in DOMAIN x.args : Calls(x.args[i])}) <= 1
          [] OTHER -> TRUE

SameInC(fn, s) ==
    /\ OwnName(fn, s)
    /\ CASE s.op = "let"   -> s.v \notin CSource!Mentions(s)
         [] s.op = "for"   -> /\ s.lo = Num(1) /\ s.hi.k = "num"
                              /\ s.v \notin Assigns(s.b)
         [] s.op = "match" -> ~Calls(s.e) /\ \A case \in ToSet(s.cases) : ~Bare(case)
         [] s.op = "block" -> \A t \in ToSet(s.b) : t.op # "let"
         [] s.op = "try"   -> /\ ~Escapes(s.h)
                              /\ \A t \in Within(s.h) : s.v \notin CSource!Mentions(t)
                              /\ Assigns(s.b) = {} \/ \A t \in Within(s.b) : t.op # "throw"
         [] OTHER -> s.op # "loop"

Portable(prog) ==
    LET All      == UNION {Within(prog[f].body) : f \in DOMAIN prog}
        Needed   == UNION {CSource!Demanded(s) : s \in All}
        Escaping == {f \in DOMAIN prog \ {"main"} : Escapes(prog[f].body)}
        quietly  == \A f \in DOMAIN prog \ {"main"} : "print" \notin CSource!Callees(prog[f])
    IN  /\ CSource!Compiles(prog)
        /\ \A f \in DOMAIN prog : \A s \in Within(prog[f].body) :
              SameInC(prog[f], s) /\ Sequenced(s, quietly)
        /\ \A x \in Needed : /\ Gives(prog[x.f].body)
                              /\ \A s \in Within(prog[x.f].body) : s # GiveNil
        /\ Escaping # {} => Needed = {} /\ \A s \in All : s.op # "try"

InC(prog) == IF Portable(prog) THEN {CSource!Execute(prog, 2 * Fuel)} ELSE {}

---------------------------------------------------------------------------
Height == top - Frame.base

\* What the passes of the level leave of the module.
Loaded(mod, shrink) == IF shrink THEN Shrinker!Optimize(mod) ELSE mod

\* No jump leads before the first instruction: what that does is undefined.
Defined(mod) == \A f \in DOMAIN mod : Shrinker!Inside(mod[f])

Shrinkable(mod) == \A f \in DOMAIN mod : Shrinker!Intact(mod[f])

\* A program that the type check refuses is not run in any mode.
Start(prog, shrink) ==
    /\ Checker!WellTyped(prog)
    /\ \E mod \in {Compiler!CompileModule(prog)} :
          \E loaded \in {Loaded(mod, shrink)} :
             /\ Defined(loaded)
             /\ VmInit(loaded)
             /\ regular = (Regular(prog) /\ (shrink => Shrinkable(mod)))
             /\ native = IF shrink THEN {} ELSE Natively(prog, mod) \cup AheadOfTime(prog, mod) \cup InC(prog)
    /\ ref    = Tree!Interpret(prog, Fuel)
    /\ quiet  = Checker!NoRaise(prog)
    /\ seen   = {}
    /\ leaked = FALSE
    /\ steps  = 0

Init == \E run \in (Programs \X {FALSE}) \cup (Optimized \X {TRUE}) : Start(run[1], run[2])

Unwinds == At({"THROW"}) /\ Catchers # {} /\ Max(Catchers) < Len(frames)

Step ==
    /\ steps < MaxSteps
    /\ Dispatch
    /\ steps'  = steps + 1
    /\ seen'   = seen \cup {<<Frame.fn, ip, Height>>}
    /\ leaked' = (leaked \/ Unwinds)
    /\ UNCHANGED <<regular, ref, native, quiet>>

Spec == Init /\ [][Step]_allVars

\* The dispatch loop does nothing but execute the next instruction.
FairSpec == Spec /\ WF_allVars(Step)

---------------------------------------------------------------------------
\* The machine stays within its arrays and, where the peephole pass left the
\* program intact, within its code.
ModesTypeOK ==
    /\ top \in 0 .. StackSize
    /\ Len(frames) \in 0 .. FrameLimit
    /\ status \in {"running", "stopped", "error"}
    /\ status = "running" => /\ frames # <<>> /\ ip \in Nat
                             /\ regular => ip <= Len(Code)
    /\ {regular, leaked} \subseteq BOOLEAN
    /\ steps \in 0 .. MaxSteps

\* What a regular program prints is the same in both modes: at every moment a
\* prefix of what the interpreter prints, and all of it once the VM is through.
VmAgrees ==
    regular =>
        /\ IsPrefix(out, ref.out) \/ (ref.cut /\ IsPrefix(ref.out, out))
        /\ status # "running" /\ ~ref.cut => out = ref.out

\* Neither machine code nor C does anything undefined, and both print the same.
OthersAgree ==
    \A run \in native :
        /\ run.st # "lost"
        /\ IF ref.cut THEN IsPrefix(run.out, ref.out) \/ IsPrefix(ref.out, run.out)
           ELSE run.st = "done" /\ run.out = ref.out

ModesAgree == VmAgrees /\ OthersAgree

\* tests/run_integration_tests.sh compares what the two modes print, for every
\* program it is given: a program that ends prints the same in both.
SameInBothModes == status # "running" /\ ~ref.cut => out = ref.out

\* Every local the running function uses lies below the top of the stack, so no
\* temporary overwrites it, however calls, returns and exceptions move the top.
LocalsBelowTop ==
    regular /\ status = "running" =>
        \A i \in DOMAIN Code :
            Code[i].op \in {"LOAD_LOCAL", "STORE_LOCAL"} => Local(Code[i].a) < top

\* The stack has one height at each instruction of a function, whichever way
\* control came there, unless an exception has crossed a frame.
SameHeight ==
    regular /\ status = "running" /\ ~leaked =>
        \A t \in seen : t[1] = Frame.fn /\ t[2] = ip => t[3] = Height

\* A regular program stops by returning from main, not by running off the end of
\* a function, which would stop its callers with it.
StopsByReturn == regular /\ status = "stopped" => frames = <<>>

\* The stack of the VM has the shape the compiler counts on.
StackInShape == ModesTypeOK /\ LocalsBelowTop /\ SameHeight /\ StopsByReturn

\* What is thrown, at whatever depth of calls, leaves no function that is declared
\* noraise and was accepted (error_effect.h, NoError: guaranteed not to raise).
NoRaiseKept ==
    [][regular /\ At({"THROW"}) =>
          \A k \in DOMAIN frames :
              k > Len(frames') \/ status' = "error" => frames[k].fn \notin quiet]_allVars

\* The locals of a function that waits for a call are as it left them, except
\* the variable a handler of it catches an exception in.
CallersKept ==
    [][\A k \in 1 .. Len(frames) - 1 :
          (At({"THROW"}) => k < Len(frames')) =>
              \A i \in frames[k].base .. frames[k].base + frames[k].locals - 1 :
                  stack'[i] = stack[i]]_allVars

\* Whatever the interpreter finishes, the VM finishes.
Halts == (regular /\ ~ref.cut) ~> (status # "running")
===============================================================================
