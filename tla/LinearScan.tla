------------------------------ MODULE LinearScan ------------------------------
(* emitter/reg_alloc: the linear scan that gives the locals of a function       *)
(* registers before the method JIT compiles it, and the analysis that finds     *)
(* where they live (jit_compiler: allocate_registers_for_function). A register  *)
(* is its number in its pool; the two pools have the same numbers, and a number *)
(* taken in one is not given in the other while it is in use.                   *)
EXTENDS Integers, Sequences, FiniteSets

CONSTANTS
  Codes,        \* code of the functions that may be compiled
  NumInt,       \* registers in the pool of integers
  NumFloat,     \* registers in the pool of floats
  Short,        \* intervals up to this long go to the pool of floats: 8
  FirstFloat    \* virtual registers from here on are floats: 128

\* What the analysis tells apart; the slot of a local is its virtual register.
Instruction == [op : {"load", "store", "arithmetic", "other"}, slot : Nat]

ASSUME ScanAssumption ==
    /\ Codes \subseteq Seq(Instruction)
    /\ NumInt \in Nat /\ NumFloat \in Nat /\ Short \in Nat /\ FirstFloat \in Nat

VARIABLES
  span,      \* virtual register -> its interval
  waiting,   \* intervals the scan has still to reach
  reg,       \* LiveInterval::allocated_reg, NoRegister where there is none
  spilled,   \* LiveInterval::is_spilled of the intervals of the list
  freeAt,    \* pool -> register -> end of the interval that has it
  active,    \* pool -> intervals that are active in it
  frame,     \* stack_frame_size_, in slots
  slot,      \* LiveInterval::spill_slot of those that are spilled
  wild       \* a write before the first element of reg_avail_ was made

scanVars == <<span, waiting, reg, spilled, freeAt, active, frame, slot, wild>>

NoRegister == -1
Pools == {"int", "float"}
Size(pool) == IF pool = "int" THEN NumInt ELSE NumFloat
Registers(pool) == 0..Size(pool) - 1

\* A register nobody has had yet.
Untouched == -1

Interval == [from : Nat, to : Nat]

ScanTypeOK ==
    /\ span \in [DOMAIN span -> Interval] /\ DOMAIN span \subseteq Nat
    /\ waiting \subseteq DOMAIN span
    /\ reg \in [DOMAIN span -> Int] /\ spilled \subseteq DOMAIN span
    /\ DOMAIN freeAt = Pools /\ \A pool \in Pools : freeAt[pool] \in [Registers(pool) -> Int]
    /\ active \in [Pools -> SUBSET DOMAIN span]
    /\ frame \in Nat /\ slot \in [DOMAIN span -> Nat] /\ wild \in BOOLEAN

(******************************** The analysis ********************************)

\* What the instruction at i of a function defines and uses.
Defs(code, i) ==
    CASE code[i].op = "load" -> {code[i].slot}
      [] code[i].op = "arithmetic" -> {0}
      [] OTHER -> {}
Uses(code, i) ==
    CASE code[i].op \in {"load", "store"} -> {code[i].slot}
      [] code[i].op = "arithmetic" -> {0, 1}
      [] OTHER -> {}

Least(S) == CHOOSE x \in S : \A y \in S : x <= y
Greatest(S) == CHOOSE x \in S : \A y \in S : y <= x

\* buildLiveIntervals: from the first definition to behind the last use.
From(code, r) ==
    LET defs == {i \in DOMAIN code : r \in Defs(code, i)}
    IN  IF defs = {} THEN 0 ELSE Least(defs) - 1
To(code, r) ==
    LET uses == {i \in DOMAIN code : r \in Uses(code, i)}
    IN  IF uses = {} THEN Len(code) ELSE Greatest(uses)

Mentioned(code) == UNION {Defs(code, i) \cup Uses(code, i) : i \in DOMAIN code}
Intervals(code) ==
    [r \in {v \in Mentioned(code) : From(code, v) < To(code, v)} |->
        [from |-> From(code, r), to |-> To(code, r)]]

(********************************** The scan **********************************)

Length(r) == span[r].to - span[r].from
Overlap(r, q) == span[q].from < span[r].to /\ span[q].to > span[r].from

\* sortIntervals: by start, and the shorter first.
Earlier(r, q) ==
    \/ span[r].from < span[q].from
    \/ span[r].from = span[q].from /\ Length(r) <= Length(q)
IsNext(r) == r \in waiting /\ \A q \in waiting : Earlier(r, q)

PoolOf(r) ==
    IF Length(r) > 0 /\ (r >= FirstFloat \/ Length(r) <= Short) THEN "float" ELSE "int"

\* cleanup_active.
StillActive(pool, r) ==
    IF span[r].from > 0 THEN {q \in active[pool] : span[q].to > span[r].from}
    ELSE active[pool]

\* What allocateInterval looks for, the first such register from 0 on.
Available(r, i) == freeAt[PoolOf(r)][i] <= span[r].from
InUseInPool(r, i) ==
    \E q \in DOMAIN span : PoolOf(q) = PoolOf(r) /\ reg[q] = i /\ Overlap(r, q)

InUse(r, i) == \E q \in DOMAIN span : reg[q] = i /\ Overlap(r, q)

FreeFor(r) == {i \in Registers(PoolOf(r)) : Available(r, i) /\ ~InUse(r, i)}

Activate(r) ==
    active' = [pool \in Pools |-> IF pool = PoolOf(r) THEN StillActive(pool, r) \cup {r}
                                  ELSE StillActive(pool, r)]

Reach(r) == ~wild /\ IsNext(r) /\ waiting' = waiting \ {r} /\ UNCHANGED span

Assign(r) ==
    /\ Reach(r) /\ FreeFor(r) # {}
    /\ reg' = [reg EXCEPT ![r] = Least(FreeFor(r))]
    /\ freeAt' = [freeAt EXCEPT ![PoolOf(r)][Least(FreeFor(r))] = span[r].to]
    /\ Activate(r) /\ UNCHANGED <<spilled, frame, slot, wild>>

\* The interval is shorter than what is left of the active one that ends first, or
\* there is none.
EndsFirst(r) == \A q \in StillActive(PoolOf(r), r) : Length(r) < span[q].to - span[r].from

SpillSelf(r) ==
    /\ Reach(r) /\ FreeFor(r) = {} /\ EndsFirst(r)
    /\ spilled' = spilled \cup {r}
    /\ slot' = [slot EXCEPT ![r] = frame] /\ frame' = frame + 1
    /\ Activate(r) /\ UNCHANGED <<reg, freeAt, wild>>

\* The other one is to give up its register, which is reset in a copy before it is
\* read: the interval gets -1, and so does the index into reg_avail_.
SpillOther(r) ==
    /\ Reach(r) /\ FreeFor(r) = {} /\ ~EndsFirst(r)
    /\ frame' = frame + 1 /\ wild' = TRUE
    /\ Activate(r) /\ UNCHANGED <<reg, freeAt, spilled, slot>>

ScanInit ==
    /\ span \in {Intervals(code) : code \in Codes}
    /\ waiting = DOMAIN span
    /\ reg = [r \in DOMAIN span |-> NoRegister] /\ spilled = {}
    /\ freeAt = [pool \in Pools |-> [i \in Registers(pool) |-> Untouched]]
    /\ active = [pool \in Pools |-> {}]
    /\ frame = 0 /\ slot = [r \in DOMAIN span |-> 0] /\ wild = FALSE

ScanNext == \E r \in waiting : Assign(r) \/ SpillSelf(r) \/ SpillOther(r)

ScanSpec == ScanInit /\ [][ScanNext]_scanVars

(********************************* Properties *********************************)

Reached == DOMAIN span \ waiting

\* No two locals that live at the same time share a register, not even one of each
\* pool, whose numbers mean the same to the code generator
\* (emit_load_store_with_reg_alloc). Every local the scan has reached has a
\* register or a slot of its own, unless the write went astray, and has no register
\* only where each one of its pool belongs to a local that lives at the same time:
\* a function with fewer locals alive at once than registers compiles without spills
\* and without the stray write (allocateInterval, spillInterval).
AllocationSound ==
    /\ \A r, q \in Reached :
          r # q /\ reg[r] = reg[q] /\ reg[r] # NoRegister => ~Overlap(r, q)
    /\ \A r, q \in spilled : r # q => slot[r] # slot[q]
    /\ \A r \in Reached : reg[r] = NoRegister =>
          /\ r \in spilled \/ wild
          /\ \A i \in Registers(PoolOf(r)) : \E q \in Reached : reg[q] = i /\ Overlap(r, q)
===============================================================================
