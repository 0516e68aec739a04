------------------------------- MODULE JitCode -------------------------------
(* The machine code of the method JIT (jit/jit_compiler.cpp, --mode=jit). Each  *)
(* instruction of a compiled function becomes a fixed sequence of x86-64        *)
(* instructions, so the machine code is run here an instruction of the bytecode *)
(* at a time, on what the sequence does to the registers and the stack:         *)
(*   frames  the calls, innermost last: the function, the address it goes on    *)
(*           at, and rbp                                                        *)
(*   mem, sp the machine's stack in words, growing upwards, and its height; the *)
(*           locals of a frame lie at rbp, its operands above them              *)
(*   rax     the register that a function returns its value in                  *)
(*   st      "runs", "done", "cut" (out of steps or of stack), or "lost": the   *)
(*           machine does something undefined                                   *)
(* All values are integers, so the types the compiler tracks are always I64. A  *)
(* word that nobody wrote is NIL.                                               *)
EXTENDS Integers, SequencesExt

CONSTANTS NIL, StackSize

\* Functions are compiled in the order of the module; where their code lies.
CodeBase == 1000

AddressOf(order, f) == CodeBase + SelectInSeq(order, LAMBDA g : g = f)

\* A function finds the code of those compiled before it, and its own, by name.
Known(order, f, g) ==
    g \in ToSet(order) /\ AddressOf(order, g) <= AddressOf(order, f)

CodeLies(order, w) == w \in {CodeBase + k : k \in DOMAIN order}

---------------------------------------------------------------------------
(* Registers and stack. *)

Current(m) == Last(m.frames)

\* The k-th word from the top.
Word(m, k) == m.mem[m.sp - k + 1]

Lose(m) == [m EXCEPT !.st = "lost"]

Drop(m, n) == [m EXCEPT !.sp = @ - n]

Push(m, w) == IF m.sp = StackSize THEN [m EXCEPT !.st = "cut"]
              ELSE [m EXCEPT !.sp = @ + 1, !.mem[m.sp + 1] = w]

\* The result of an operation goes through rax.
Give(m, w) == Push([m EXCEPT !.rax = w], w)

GoOn(m, at) == [m EXCEPT !.frames[Len(m.frames)].ip = at]

\* Slot k of the frame lies below rbp, in the direction the stack grows.
Slot(m, k) == Current(m).rbp + 1 + k

---------------------------------------------------------------------------
(* Instructions without a jump. *)

Minus(a) == IF a < 0 THEN -a ELSE a

\* idiv truncates towards zero.
Idiv(a, b) == IF (a < 0) = (b < 0) THEN Minus(a) \div Minus(b)
              ELSE -(Minus(a) \div Minus(b))

Arithmetic == {"IADD", "ISUB", "IMUL", "IDIV", "IMOD"}

Comparison == {"IEQ", "INE", "ILT", "ILE", "IGT", "IGE", "EQ"}

ArithmeticOp(op, a, b) ==
    CASE op = "IADD" -> a + b
      [] op = "ISUB" -> a - b
      [] op = "IMUL" -> a * b
      [] op = "IDIV" -> Idiv(a, b)
      [] op = "IMOD" -> a - b * Idiv(a, b)

ComparisonOp(op, a, b) ==
    CASE op \in {"IEQ", "EQ"} -> a = b
      [] op = "INE"  -> a # b
      [] op = "ILT"  -> a < b
      [] op = "ILE"  -> a <= b
      [] op = "IGT"  -> a > b
      [] op = "IGE"  -> a >= b

Computed(op, a, b) ==
    IF op \in Arithmetic THEN ArithmeticOp(op, a, b)
    ELSE IF ComparisonOp(op, a, b) THEN 1 ELSE 0

\* Division by zero traps.
Binary(m, op) ==
    IF NIL \in {Word(m, 2), Word(m, 1)} \/ (op \in {"IDIV", "IMOD"} /\ Word(m, 1) = 0)
    THEN Lose(m)
    ELSE Give(Drop(m, 2), Computed(op, Word(m, 2), Word(m, 1)))

LoadLocal(m, k) == Give(m, m.mem[Slot(m, k)])

StoreLocal(m, k) ==
    [Drop(m, 1) EXCEPT !.mem[Slot(m, k)] = Word(m, 1), !.rax = Word(m, 1)]

\* Any other global is read from, or written to, a table whose address nobody sets.
LoadGlobal(m, order, g) ==
    IF Known(order, Current(m).fn, g) THEN Give(m, AddressOf(order, g)) ELSE Lose(m)

\* print_i64 and println_i64 return 0. The C++ code they are in relies on a stack
\* aligned to two words.
CallExt(m, n) ==
    IF NIL \in {Word(m, k) : k \in 1 .. n} \/ (m.sp - n) % 2 # 0 THEN Lose(m)
    ELSE Give([Drop(m, n) EXCEPT !.out = @ \o [k \in 1 .. n |-> Word(m, n - k + 1)]], 0)

---------------------------------------------------------------------------
(* Jumps, calls and returns. *)

\* Where a jump at address i leads in a function of n instructions: one that is
\* out of range is never patched and leads on.
Landing(i, rel, n) == IF i + 1 + rel \in 0 .. n THEN i + 1 + rel ELSE i + 1

JumpIf(m, holds, at) ==
    IF Word(m, 1) = NIL THEN Lose(m)
    ELSE LET popped == [Drop(m, 1) EXCEPT !.rax = Word(m, 1)]
         IN  IF (Word(m, 1) # 0) = holds THEN GoOn(popped, at) ELSE popped

\* Frames of an even number of words, and of as many as there are locals.
Unrounded(n) == n

Rounded(n) == n + (n % 2)

\* call pushes the address to return to, the prologue rbp; the locals take an even
\* number of words, the first of which are set from the registers.
Prologue(m, f, fn, args) ==
    LET rbp  == m.sp + 2
        high == rbp + Rounded(fn.locals)
        Init(k) == IF k < fn.arity /\ k < Len(args) THEN args[k + 1] ELSE m.mem[rbp + 1 + k]
    IN  IF high > StackSize THEN [m EXCEPT !.st = "cut"]
        ELSE [m EXCEPT !.sp = high,
                       !.frames = Append(@, [fn |-> f, ip |-> 0, rbp |-> rbp]),
                       !.mem = [k \in DOMAIN @ |-> IF k \in rbp + 1 .. high
                                                   THEN Init(k - rbp - 1) ELSE @[k]]]

\* Six registers take arguments: of more, none is popped.
Registers == 6

Call(m, mod, order, n) ==
    LET callee == Word(m, 1)
        given  == IF n <= Registers THEN n ELSE 0
        args   == [k \in 1 .. given |-> Word(m, 2 + given - k)]
        f      == order[callee - CodeBase]
    IN  IF callee = NIL \/ ~CodeLies(order, callee) THEN Lose(m)
        ELSE Prologue(Drop(m, 1 + given), f, mod[f], args)

\* The stack is cut back to the frame, whatever is left on it.
Leave(m, value) ==
    LET back == [m EXCEPT !.sp = Current(m).rbp - 2, !.frames = Front(@), !.rax = value]
    IN  IF Len(m.frames) = 1 THEN [back EXCEPT !.st = "done"] ELSE Push(back, value)

---------------------------------------------------------------------------
\* Words an instruction takes from the stack.
Takes(i) ==
    CASE i.op \in Arithmetic \cup Comparison -> 2
      [] i.op \in {"POP", "DUP", "STORE_LOCAL", "JMP_IF", "JMP_IF_NOT", "RET"} -> 1
      [] i.op = "CALL" -> i.a + 1
      [] i.op = "CALL_EXT" -> i.a
      [] OTHER -> 0

\* What the code of instruction i, which lies at address at, does; ip is past it.
\* An instruction that has no case (THROW) has no code.
Effect(m, mod, order, i, at) ==
    LET to == Landing(at, i.a, Len(mod[Current(m).fn].code))
    IN  CASE i.op = "PUSH"         -> Give(m, i.a)
          [] i.op = "POP"          -> Drop(m, 1)
          [] i.op = "DUP"          -> Push(m, Word(m, 1))
          [] i.op \in Arithmetic \cup Comparison -> Binary(m, i.op)
          [] i.op = "LOAD_LOCAL"   -> LoadLocal(m, i.a)
          [] i.op = "STORE_LOCAL"  -> StoreLocal(m, i.a)
          [] i.op = "LOAD_GLOBAL"  -> LoadGlobal(m, order, i.s)
          [] i.op = "STORE_GLOBAL" -> Lose(m)
          [] i.op = "JMP"          -> GoOn(m, to)
          [] i.op = "JMP_IF"       -> JumpIf(m, TRUE, to)
          [] i.op = "JMP_IF_NOT"   -> JumpIf(m, FALSE, to)
          [] i.op = "CALL"         -> Call(m, mod, order, i.a)
          [] i.op = "CALL_EXT"     -> CallExt(m, i.a)
          [] i.op = "RET"          -> Leave(m, Word(m, 1))
          [] i.op = "RET_NULL"     -> Leave(m, 0)
          [] OTHER                 -> m

\* Past the last instruction lies the shared epilogue.
Advance(m, mod, order) ==
    LET fr   == Current(m)
        code == mod[fr.fn].code
        i    == code[fr.ip + 1]
    IN  IF fr.ip = Len(code) THEN Leave(m, m.rax)
        ELSE IF m.sp - Takes(i) < fr.rbp THEN Lose(m)
        ELSE Effect(GoOn(m, fr.ip + 1), mod, order, i, fr.ip)

RECURSIVE Continue(_, _, _, _)
Continue(m, mod, order, steps) ==
    IF m.st # "runs" THEN m
    ELSE IF steps = 0 THEN [m EXCEPT !.st = "cut"]
    ELSE Continue(Advance(m, mod, order), mod, order, steps - 1)

\* Every function is compiled, in order; then main is called without arguments.
ExecuteJit(mod, order, steps) ==
    LET idle == [frames |-> <<>>, mem |-> [k \in 1 .. StackSize |-> NIL], sp |-> 0,
                 rax |-> NIL, out |-> <<>>, st |-> "runs"]
        done == Continue(Prologue(idle, "main", mod["main"], <<>>), mod, order, steps)
    IN  [out |-> done.out, st |-> done.st]
===============================================================================
