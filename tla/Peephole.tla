------------------------------- MODULE Peephole -------------------------------
(* The peephole pass over bytecode (optimizer/peephole_optimizer.cpp), which    *)
(* main.cpp runs at -O1 and -O2 between the compiler and the VM. It removes     *)
(* pairs of instructions that undo each other and moves the targets of jumps,   *)
(* reading the operand of a jump, an offset, as an index into the code. The     *)
(* ranges of the exception handlers it leaves as they are.                      *)
EXTENDS Integers, SequencesExt

JumpOps == {"JMP", "JMP_IF", "JMP_IF_NOT", "LOOP"}

Undone == {<<"PUSH", "POP">>, <<"DUP", "POP">>, <<"NOT", "NOT">>,
           <<"INEG", "INEG">>, <<"FNEG", "FNEG">>}

Cancels(i, j) ==
    \/ <<i.op, j.op>> \in Undone
    \/ i.op = "LOAD_LOCAL" /\ j.op = "STORE_LOCAL" /\ i.a = j.a

\* The positions of what is removed: the pairs, found from left to right and
\* never overlapping, and the NOPs.
Removed(code) ==
    LET Pair[i \in 0 .. Len(code)] ==    \* a pair begins at i
            /\ i \in 1 .. Len(code) - 1
            /\ Cancels(code[i], code[i + 1])
            /\ ~Pair[i - 1]
    IN  {i \in DOMAIN code : Pair[i] \/ Pair[i - 1] \/ code[i].op = "NOP"}

\* The address that n has when the instructions at the positions r are gone.
NewIndex(r, n) == n - Cardinality({i \in r : i <= n})

\* An operand that is the index of an instruction that stays becomes its new index.
RemapJump(inst, code, r) ==
    IF inst.op \in JumpOps /\ inst.a \in 0 .. Len(code) - 1 /\ inst.a + 1 \notin r
    THEN [inst EXCEPT !.a = NewIndex(r, @)]
    ELSE inst

OptimizeFunction(fn) ==
    LET r    == Removed(fn.code)
        kept == SelectSeq([i \in DOMAIN fn.code |-> i], LAMBDA i : i \notin r)
    IN  [fn EXCEPT !.code = [k \in DOMAIN kept |-> RemapJump(fn.code[kept[k]], fn.code, r)]]

Optimize(mod) == [f \in DOMAIN mod |-> OptimizeFunction(mod[f])]

---------------------------------------------------------------------------
(* Which functions the pass leaves intact. The compiler emits no LOOP.          *)

\* Where the jump at position i of the code leads.
Target(code, i) == i + code[i].a

\* Every jump that stays leads to the instruction it led to, and the handlers
\* guard the instructions they guarded.
Intact(fn) ==
    LET r   == Removed(fn.code)
        new == OptimizeFunction(fn).code
    IN  /\ \A i \in DOMAIN fn.code \ r :
              fn.code[i].op \in JumpOps =>
                  Target(new, NewIndex(r, i)) = NewIndex(r, Target(fn.code, i))
        /\ \A h \in ToSet(fn.handlers) : \A n \in {h.from, h.to, h.at} : NewIndex(r, n) = n

\* No jump leads before the first instruction.
Inside(fn) ==
    \A i \in DOMAIN fn.code : fn.code[i].op \in JumpOps => Target(fn.code, i) >= 0
===============================================================================
