------------------------------- MODULE AotCode -------------------------------
(* The executable of --mode=aot: every function of the module becomes machine   *)
(* code (codegen/native_codegen.cpp), the code and a small runtime are linked   *)
(* (generate_aot in main.cpp, codegen/linker_integration.cpp). The machine is   *)
(* that of JitCode, with the register a call keeps its padding in:              *)
(*   r12     the words that were added to the stack to align it                 *)
(* Below the locals of a frame lie the return address, the caller's r12 and its *)
(* rbp. A result is what rax holds: no return looks at the stack.               *)
EXTENDS JitCode

JumpOps == {"JMP", "JMP_IF", "JMP_IF_NOT"}

\* Of the instructions modelled, those a module is refused for.
Unsupported == {"THROW", "STORE_GLOBAL"}

\* The addresses the jumps of a function lead to.
Targets(fn) ==
    {k + fn.code[k].a : k \in {j \in DOMAIN fn.code : fn.code[j].op \in JumpOps}}

\* A callee is named by the instruction before the call, and by no other means.
CalleesOf(fn) ==
    {IF k > 1 /\ fn.code[k - 1].op = "LOAD_GLOBAL" THEN fn.code[k - 1].s ELSE "" :
        k \in {j \in DOMAIN fn.code : fn.code[j].op = "CALL"}}

\* The module compiles, and what it calls is in the object file.
Builds(mod) ==
    \A f \in DOMAIN mod :
        /\ \A k \in DOMAIN mod[f].code : mod[f].code[k].op \notin Unsupported
        /\ Targets(mod[f]) \subseteq 0 .. Len(mod[f].code)
        /\ CalleesOf(mod[f]) \subseteq DOMAIN mod

---------------------------------------------------------------------------
(* Calls. The stack is aligned to two words when a call is made.                *)

\* What the argument registers hold when n arguments have been popped.
InRegisters(m, n) ==
    [k \in 1 .. Registers |-> IF k <= n THEN Word(m, n - k + 1) ELSE NIL]

Align(m) == [m EXCEPT !.r12 = m.sp % 2, !.sp = @ + (m.sp % 2)]

\* Behind the call the padding is taken away and rax pushed.
Realign(m, value) == Give([m EXCEPT !.sp = @ - m.r12], value)

Enter(m, f, fn, regs) ==
    LET rbp  == m.sp + 3
        high == rbp + Rounded(fn.locals)
        Init(k) == IF k < fn.arity /\ k < Registers THEN regs[k + 1] ELSE m.mem[rbp + 1 + k]
    IN  IF high > StackSize THEN [m EXCEPT !.st = "cut"]
        ELSE [m EXCEPT !.sp = high,
                       !.frames = Append(@, [fn |-> f, ip |-> 0, rbp |-> rbp]),
                       !.mem = [k \in DOMAIN @ |->
                                  IF k = rbp - 1 THEN m.r12
                                  ELSE IF k > rbp /\ k <= high THEN Init(k - rbp - 1)
                                  ELSE @[k]]]

CallUser(m, mod, f, n) == Enter(Align(Drop(m, n)), f, mod[f], InRegisters(m, n))

\* claw_print and claw_println print their one argument, on a stack that has to be
\* aligned, and return nothing.
CallRuntime(m, n) ==
    LET called == Align(Drop(m, n))
        shown  == InRegisters(m, n)[1]
    IN  IF shown = NIL \/ called.sp % 2 # 0 THEN Lose(m)
        ELSE Realign([called EXCEPT !.out = Append(@, shown)], NIL)

\* The caller's r12 is back before it uses it.
Return(m, value) ==
    LET back == [m EXCEPT !.sp = Current(m).rbp - 3, !.r12 = m.mem[Current(m).rbp - 1],
                          !.frames = Front(@), !.rax = value]
    IN  IF Len(m.frames) = 1 THEN [back EXCEPT !.st = "done"] ELSE Realign(back, value)

---------------------------------------------------------------------------
(* Instructions. *)

\* Division takes no operand from the stack, divides by rax or rcx, and half of what
\* it divides is in rdx, which nobody set.
Arithmetically(m, op) == IF op \in {"IDIV", "IMOD"} THEN Lose(m) ELSE Binary(m, op)

\* A comparison leaves 1 in rax unless it jumps over the instruction that clears it.
Compare(m, op) == Binary(m, op)

Access(m, i) == IF i.op = "LOAD_LOCAL" THEN LoadLocal(m, i.a) ELSE StoreLocal(m, i.a)

ControlFlow(m, op, to) ==
    IF op = "JMP" THEN GoOn(m, to) ELSE JumpIf(m, op = "JMP_IF", to)

\* A callee is no operand, and a return takes none.
Operands(i) ==
    CASE i.op = "CALL" -> i.a
      [] i.op = "RET"  -> 0
      [] OTHER -> Takes(i)

\* What the code of instruction i at address at does; a global has none.
Perform(m, mod, i, at) ==
    CASE i.op = "PUSH"         -> Give(m, i.a)
      [] i.op = "POP"          -> [Drop(m, 1) EXCEPT !.rax = Word(m, 1)]
      [] i.op = "DUP"          -> Give(m, Word(m, 1))
      [] i.op = "LOAD_GLOBAL"  -> m
      [] i.op \in Arithmetic   -> Arithmetically(m, i.op)
      [] i.op \in Comparison   -> Compare(m, i.op)
      [] i.op \in JumpOps      -> ControlFlow(m, i.op, at + 1 + i.a)
      [] i.op = "CALL"         -> CallUser(m, mod, mod[Current(m).fn].code[at].s, i.a)
      [] i.op = "CALL_EXT"     -> CallRuntime(m, i.a)
      [] i.op = "RET"          -> Return(m, m.rax)
      [] i.op = "RET_NULL"     -> Return(m, 0)
      [] OTHER                 -> Access(m, i)

\* An epilogue follows the last instruction if some jump leads there; otherwise the
\* next function does.
Proceed(m, mod) ==
    LET fr == Current(m)
        fn == mod[fr.fn]
        i  == fn.code[fr.ip + 1]
    IN  IF fr.ip = Len(fn.code)
        THEN IF Len(fn.code) \in Targets(fn) THEN Return(m, m.rax) ELSE Lose(m)
        ELSE IF m.sp - Operands(i) < fr.rbp THEN Lose(m)
        ELSE Perform(GoOn(m, fr.ip + 1), mod, i, fr.ip)

RECURSIVE Run(_, _, _)
Run(m, mod, n) ==
    IF m.st # "runs" THEN m
    ELSE IF n = 0 THEN [m EXCEPT !.st = "cut"]
    ELSE Run(Proceed(m, mod), mod, n - 1)

\* The system calls main, on an aligned stack.
ExecuteAot(mod, n) ==
    LET idle == [frames |-> <<>>, mem |-> [k \in 1 .. StackSize |-> NIL], sp |-> 0,
                 rax |-> NIL, r12 |-> 0, out |-> <<>>, st |-> "runs"]
        none == [k \in 1 .. Registers |-> NIL]
        done == Run(Enter(idle, "main", mod["main"], none), mod, n)
    IN  [out |-> done.out, st |-> done.st]
===============================================================================
