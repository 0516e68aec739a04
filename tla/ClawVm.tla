------------------------------- MODULE ClawVm -------------------------------
(* The stack machine of the bytecode VM (vm/claw_vm.cpp), one action per group *)
(* of instructions of the sequential core. The value stack is an array with a  *)
(* separate top: what lies above the top is stale, not absent. The locals of a *)
(* frame are the cells from its base on, and its temporaries lie above them.   *)
(* ip is the address of the instruction about to be fetched. Booleans are the  *)
(* integers 0 and 1; the closure of a function is the function's tag.          *)
EXTENDS Integers, SequencesExt

CONSTANTS
    NIL,         \* the value nil
    Closure,     \* Closure[name]: the value a function's name evaluates to
    StackSize,   \* cells of the value stack
    FrameLimit   \* MAX_CALL_FRAMES

ASSUME VmConstants == /\ NIL \notin Int
                      /\ \A f \in DOMAIN Closure : Closure[f] # NIL
                      /\ StackSize \in Nat \ {0}
                      /\ FrameLimit \in Nat \ {0}

VARIABLES
    module,      \* the loaded module: name -> [code, handlers, arity, locals]
    stack, top,  \* the value stack and its stack_top
    frames,      \* call_frames: fn, ip (saved at a call), base, locals
    ip,          \* the instruction pointer
    globals,     \* the global variables defined so far
    status,      \* "running", "stopped" or "error"
    out          \* what the program has printed

vmVars == <<module, stack, top, frames, ip, globals, status, out>>

\* What is not a number counts as zero.
AsInt(v) == IF v = NIL \/ v \in ToSet(Closure) THEN 0 ELSE v

Truth(b) == IF b THEN 1 ELSE 0

Arith(op, a, b) ==
    CASE op = "IADD" -> a + b
      [] op = "ISUB" -> a - b
      [] op = "IMUL" -> a * b
      [] op = "IEQ"  -> Truth(a = b)
      [] op = "INE"  -> Truth(a # b)
      [] op = "ILT"  -> Truth(a < b)
      [] op = "ILE"  -> Truth(a <= b)
      [] op = "IGT"  -> Truth(a > b)
      [] op = "IGE"  -> Truth(a >= b)

ArithOps == {"IADD", "ISUB", "IMUL", "IEQ", "INE", "ILT", "ILE", "IGT", "IGE"}

---------------------------------------------------------------------------
Frame == Last(frames)

Code == module[Frame.fn].code

Fetching == status = "running" /\ ip \in 0 .. Len(Code) - 1

Instr == Code[ip + 1]

At(ops) == Fetching /\ Instr.op \in ops

Peek == stack[top - 1]

Local(i) == Frame.base + i

\* The n topmost values are replaced by v.
Replace(n, v) ==
    /\ stack' = [stack EXCEPT ![top - n] = v]
    /\ top'   = top - n + 1

Advance == ip' = ip + 1

\* What an instruction does to the stack only.
StackStep(n, v) ==
    /\ top >= n
    /\ top - n < StackSize
    /\ Replace(n, v)
    /\ Advance
    /\ UNCHANGED <<module, frames, globals, status, out>>

VmInit(mod) ==
    /\ module  = mod
    /\ stack   = [i \in 0 .. StackSize - 1 |-> NIL]
    /\ top     = mod["main"].locals
    /\ frames  = <<[fn |-> "main", ip |-> 0, base |-> 0,
                    locals |-> mod["main"].locals]>>
    /\ ip      = 0
    /\ globals = <<>>
    /\ status  = "running"
    /\ out     = <<>>

---------------------------------------------------------------------------
(* Values. *)

Push == At({"PUSH"}) /\ StackStep(0, Instr.a)

Dup == At({"DUP"}) /\ StackStep(0, Peek)

Pop ==
    /\ At({"POP"})
    /\ top > 0
    /\ top' = top - 1
    /\ Advance
    /\ UNCHANGED <<module, stack, frames, globals, status, out>>

Compute ==
    /\ At(ArithOps)
    /\ StackStep(2, Arith(Instr.op, AsInt(stack[top - 2]), AsInt(Peek)))

Equal == At({"EQ"}) /\ StackStep(2, Truth(stack[top - 2] = Peek))

LoadLocal == At({"LOAD_LOCAL"}) /\ StackStep(0, stack[Local(Instr.a)])

StoreLocal ==
    /\ At({"STORE_LOCAL"})
    /\ top > 0
    /\ stack' = [stack EXCEPT ![Local(Instr.a)] = Peek]
    /\ top' = top - 1
    /\ Advance
    /\ UNCHANGED <<module, frames, globals, status, out>>

\* A name is a global, else a function, else nil.
LoadGlobal ==
    /\ At({"LOAD_GLOBAL"})
    /\ StackStep(0, IF Instr.s \in DOMAIN globals THEN globals[Instr.s]
                    ELSE IF Instr.s \in DOMAIN module THEN Closure[Instr.s]
                    ELSE NIL)

StoreGlobal ==
    /\ At({"STORE_GLOBAL"})
    /\ top > 0
    /\ globals' = (Instr.s :> Peek) @@ globals
    /\ top' = top - 1
    /\ Advance
    /\ UNCHANGED <<module, stack, frames, status, out>>

\* A builtin reads its argument in place; then it is replaced by the result.
CallExt ==
    /\ At({"CALL_EXT"})
    /\ top >= Instr.a
    /\ out' = Append(out, Peek)
    /\ frames' = [frames EXCEPT ![Len(frames)].ip = ip + 1]
    /\ Replace(Instr.a, NIL)
    /\ Advance
    /\ UNCHANGED <<module, globals, status>>

---------------------------------------------------------------------------
(* Jumps. *)

Jump ==
    /\ At({"JMP"})
    /\ ip' = ip + 1 + Instr.a
    /\ UNCHANGED <<module, stack, top, frames, globals, status, out>>

Branch(op, taken) ==
    /\ At({op})
    /\ top > 0
    /\ top' = top - 1
    /\ ip' = ip + 1 + (IF taken THEN Instr.a ELSE 0)
    /\ UNCHANGED <<module, stack, frames, globals, status, out>>

JumpIf == Branch("JMP_IF", AsInt(Peek) # 0)

JumpIfNot == Branch("JMP_IF_NOT", AsInt(Peek) = 0)

---------------------------------------------------------------------------
(* Calls. *)

IsClosure(v) == v \in ToSet(Closure)

Callee(v) == CHOOSE f \in DOMAIN Closure : Closure[f] = v

\* A frame whose base leaves the arguments below it.
CalleeFrameAbove ==
    LET f == Callee(Peek)
    IN  [fn |-> f, ip |-> 0, base |-> top - 1, locals |-> module[f].locals]

\* The closure is popped, the arguments become the first locals.
CalleeFrame ==
    LET f == Callee(Peek)
    IN  [fn |-> f, ip |-> 0, base |-> top - 1 - Instr.a, locals |-> module[f].locals]

Call ==
    /\ At({"CALL"})
    /\ top > Instr.a
    /\ IsClosure(Peek)
    /\ Len(frames) < FrameLimit
    /\ frames' = Append([frames EXCEPT ![Len(frames)].ip = ip + 1], CalleeFrame)
    /\ top' = CalleeFrame.base + CalleeFrame.locals
    /\ ip' = 0
    /\ UNCHANGED <<module, stack, globals, status, out>>

\* The caller's locals forgotten as well.
CallerTopAtBase(callers) ==
    IF callers = <<>> THEN 0 ELSE Last(callers).base

\* The top of a returning function's caller: its temporaries are forgotten.
CallerTop(callers) ==
    IF callers = <<>> THEN 0 ELSE Last(callers).base + Last(callers).locals

Return(v) ==
    LET callers == Front(frames)
    IN  /\ frames' = callers
        /\ stack' = [stack EXCEPT ![CallerTop(callers)] = v]
        /\ top' = CallerTop(callers) + 1
        /\ IF callers = <<>>
           THEN status' = "stopped" /\ UNCHANGED ip
           ELSE ip' = Last(callers).ip /\ UNCHANGED status
        /\ UNCHANGED <<module, globals, out>>

Ret == At({"RET"}) /\ top > 0 /\ Return(Peek)

RetNull == At({"RET_NULL"}) /\ Return(NIL)

---------------------------------------------------------------------------
(* Exceptions and the other ends. *)

\* Where frame k stands: after its current instruction.
PcOf(k) == IF k = Len(frames) THEN ip + 1 ELSE frames[k].ip

\* The first handler of frame k's function that covers it, 0 if there is none.
HandlerOf(k) ==
    SelectInSeq(module[frames[k].fn].handlers,
                LAMBDA h : h.from <= PcOf(k) /\ PcOf(k) < h.to)

Catchers == {k \in DOMAIN frames : HandlerOf(k) # 0}

\* The innermost frame with a handler goes on at its catch code.
Throw ==
    /\ At({"THROW"})
    /\ top > 0
    /\ Catchers # {}
    /\ LET k == Max(Catchers)
           h == module[frames[k].fn].handlers[HandlerOf(k)]
       IN  /\ frames' = SubSeq(frames, 1, k)
           /\ ip' = h.at
           /\ stack' = IF h.var >= 0
                       THEN [stack EXCEPT ![frames[k].base + h.var] = Peek]
                       ELSE stack
    /\ top' = top - 1
    /\ UNCHANGED <<module, globals, status, out>>

Uncaught ==
    /\ At({"THROW"})
    /\ top > 0
    /\ Catchers = {}
    /\ frames' = SubSeq(frames, 1, 1)
    /\ top' = top - 1
    /\ status' = "error"
    /\ UNCHANGED <<module, stack, ip, globals, out>>

\* Running past the last instruction stops the machine, wherever it is.
FallOff ==
    /\ status = "running"
    /\ ip >= Len(Code)
    /\ status' = "stopped"
    /\ UNCHANGED <<module, stack, top, frames, ip, globals, out>>

\* A call of no function or one frame too many, an underflow, an overflow.
Pops ==
    CASE Instr.op \in ArithOps \cup {"EQ"} -> 2
      [] Instr.op \in {"POP", "STORE_LOCAL", "STORE_GLOBAL", "JMP_IF", "JMP_IF_NOT",
                       "RET", "THROW"} -> 1
      [] Instr.op = "CALL_EXT" -> Instr.a
      [] Instr.op = "CALL" -> Instr.a + 1
      [] OTHER -> 0

Fault ==
    /\ Fetching
    /\ \/ top < Pops
       \/ top = StackSize /\ Instr.op \in {"PUSH", "DUP", "LOAD_LOCAL", "LOAD_GLOBAL"}
       \/ top > 0 /\ Instr.op = "CALL"
          /\ (~IsClosure(Peek) \/ Len(frames) >= FrameLimit)
    /\ status' = "error"
    /\ UNCHANGED <<module, stack, top, frames, ip, globals, out>>

Dispatch ==
    \/ Push \/ Dup \/ Pop \/ Compute \/ Equal
    \/ LoadLocal \/ StoreLocal \/ LoadGlobal \/ StoreGlobal \/ CallExt
    \/ Jump \/ JumpIf \/ JumpIfNot
    \/ Call \/ Ret \/ RetNull
    \/ Throw \/ Uncaught \/ FallOff \/ Fault
=============================================================================
