--------------------------- MODULE ToolchainProofs ---------------------------
(* What five parts of the toolchain keep. The method JIT: the linear scan       *)
(* allocates registers soundly whatever the code, the number of registers in    *)
(* each pool and the boundary between them; the engine keeps its tables, the    *)
(* pages and the limit of the code cache whatever the functions, their sizes    *)
(* and the addresses. The channels and stream operators: values keep their      *)
(* place and their order whatever the program does with them. The package       *)
(* manager: what a resolution leaves out, and what a lock pins, whatever the    *)
(* packages, the manifest and the versions that are published. The language     *)
(* server: what it knows when it comes to a request.                            *)
EXTENDS LinearScan, JitEngine, Streams, Packages, LanguageServer, FiniteSetTheorems,
        WellFoundedInduction, NaturalsInduction, TLAPS

(********************************* The analysis *******************************)

\* A set of natural numbers that is not empty has a least element.
LEMMA LeastOf ==
    ASSUME NEW S, S \subseteq Nat, S # {}
    PROVE  Least(S) \in S /\ \A y \in S : Least(S) <= y
<1>1. PICK x \in S : \A y \in S : <<y, x>> \notin OpToRel(<, Nat)
  BY WFMin, NatLessThanWellFounded, Zenon
<1>2. \A y \in S : ~(y < x)
  BY <1>1, Zenon DEF OpToRel
<1>3. x \in S /\ \A y \in S : x <= y
  BY <1>2
<1> QED
  BY <1>3 DEF Least

\* A bounded one that is not empty has a greatest.
LEMMA GreatestOf ==
    ASSUME NEW n \in Nat, NEW S, S \subseteq 0..n, S # {}
    PROVE  Greatest(S) \in S /\ \A y \in S : y <= Greatest(S)
<1> DEFINE T == {n - x : x \in S}
<1>1. T \subseteq Nat /\ T # {}
  <2>1. \A x \in S : n - x \in Nat
    OBVIOUS
  <2>2. PICK x \in S : TRUE
    OBVIOUS
  <2>3. n - x \in T
    OBVIOUS
  <2> QED
    BY <2>1, <2>3
<1>2. Least(T) \in T /\ \A y \in T : Least(T) <= y
  BY <1>1, LeastOf
<1>3. PICK x \in S : Least(T) = n - x
  BY <1>2
<1>4. \A y \in S : y <= x
  BY <1>2, <1>3
<1> QED
  BY <1>4 DEF Greatest

\* The analysis gives intervals that are not empty, and slots of locals their names.
LEMMA IntervalsShape ==
    ASSUME NEW code \in Codes
    PROVE  LET l == Intervals(code) IN
           /\ l \in [DOMAIN l -> Interval] /\ DOMAIN l \subseteq Nat
           /\ \A r \in DOMAIN l : l[r].from < l[r].to
<1>1. code \in Seq(Instruction)
  BY ScanAssumption
<1>2. /\ Len(code) \in Nat /\ DOMAIN code = 1..Len(code)
      /\ \A i \in DOMAIN code : code[i] \in Instruction
  BY <1>1
<1>3. ASSUME NEW r \in Mentioned(code)
      PROVE  r \in Nat /\ From(code, r) \in Nat /\ To(code, r) \in Nat
  <2> DEFINE defs == {i \in DOMAIN code : r \in Defs(code, i)}
             uses == {i \in DOMAIN code : r \in Uses(code, i)}
  <2>1. r \in Nat
    <3>1. PICK i \in DOMAIN code : r \in Defs(code, i) \cup Uses(code, i)
      BY DEF Mentioned
    <3>2. code[i].slot \in Nat
      BY <1>2 DEF Instruction
    <3>3. Defs(code, i) \subseteq Nat
      BY <3>2 DEF Defs
    <3>4. Uses(code, i) \subseteq Nat
      BY <3>2 DEF Uses
    <3> QED
      BY <3>1, <3>3, <3>4
  <2>2. From(code, r) \in Nat
    <3>1. CASE defs = {}
      BY <3>1 DEF From
    <3>2. CASE defs # {}
      <4>1. defs \subseteq Nat
        BY <1>2
      <4>2. Least(defs) \in defs
        BY <4>1, <3>2, LeastOf
      <4> HIDE DEF defs
      <4>3. From(code, r) = Least(defs) - 1
        BY <3>2 DEF From, defs
      <4>4. Least(defs) \in 1..Len(code)
        BY <4>2, <1>2 DEF defs
      <4> QED
        BY <4>3, <4>4, <1>2
    <3> QED
      BY <3>1, <3>2
  <2>3. To(code, r) \in Nat
    <3>1. CASE uses = {}
      BY <3>1, <1>2 DEF To
    <3>2. CASE uses # {}
      <4>1. uses \subseteq 0..Len(code)
        BY <1>2
      <4>2. Greatest(uses) \in uses
        BY <4>1, <3>2, <1>2, GreatestOf
      <4> HIDE DEF uses
      <4>3. To(code, r) = Greatest(uses)
        BY <3>2 DEF To, uses
      <4>4. Greatest(uses) \in 0..Len(code)
        BY <4>1, <4>2
      <4> QED
        BY <4>3, <4>4, <1>2
    <3> QED
      BY <3>1, <3>2
  <2> QED
    BY <2>1, <2>2, <2>3
<1>4. \A r \in DOMAIN Intervals(code) :
         /\ r \in Mentioned(code) /\ From(code, r) < To(code, r)
         /\ Intervals(code)[r] = [from |-> From(code, r), to |-> To(code, r)]
  BY DEF Intervals
<1> QED
  BY <1>3, <1>4 DEF Intervals, Interval

(*********************************** The scan *********************************)

\* The intervals are not empty and are reached in the order of their start; those
\* that wait have nothing yet.
StartsInOrder ==
    /\ \A r \in DOMAIN span : span[r].from < span[r].to
    /\ \A r \in waiting : reg[r] = NoRegister /\ r \notin spilled
    /\ \A q \in Reached, r \in waiting : span[q].from <= span[r].from

\* A register that was given belongs to an interval that ends when it is free.
Held ==
    \A pool \in Pools : \A i \in Registers(pool) :
       freeAt[pool][i] = Untouched
       \/ \E q \in Reached : reg[q] = i /\ span[q].to = freeAt[pool][i]

SlotsBelow == \A r \in spilled : slot[r] < frame

ScanInv == ScanTypeOK /\ StartsInOrder /\ Held /\ SlotsBelow /\ AllocationSound

LEMMA ScanInitInv == ScanInit => ScanInv
<1> SUFFICES ASSUME ScanInit PROVE ScanInv
  OBVIOUS
<1>1. PICK code \in Codes : span = Intervals(code)
  BY DEF ScanInit
<1>2. span \in [DOMAIN span -> Interval] /\ DOMAIN span \subseteq Nat
      /\ \A r \in DOMAIN span : span[r].from < span[r].to
  BY <1>1, IntervalsShape
<1>3. Reached = {}
  BY DEF ScanInit, Reached
<1>4. ScanTypeOK
  <2>1. waiting \subseteq DOMAIN span /\ spilled \subseteq DOMAIN span
    BY DEF ScanInit
  <2>2. reg \in [DOMAIN span -> Int] /\ slot \in [DOMAIN span -> Nat]
    BY DEF ScanInit, NoRegister
  <2>3. DOMAIN freeAt = Pools /\ \A pool \in Pools : freeAt[pool] \in [Registers(pool) -> Int]
    BY DEF ScanInit, Untouched
  <2>4. active \in [Pools -> SUBSET DOMAIN span]
    BY DEF ScanInit
  <2>5. frame \in Nat /\ wild \in BOOLEAN
    BY DEF ScanInit
  <2> QED
    BY <1>2, <2>1, <2>2, <2>3, <2>4, <2>5 DEF ScanTypeOK
<1>5. StartsInOrder
  BY <1>2, <1>3 DEF ScanInit, StartsInOrder
<1>6. Held /\ SlotsBelow /\ AllocationSound
  BY <1>3 DEF ScanInit, Held, SlotsBelow, AllocationSound
<1> QED
  BY <1>4, <1>5, <1>6 DEF ScanInv

\* The pool of an interval is one of the two, and its registers are numbers.
LEMMA PoolIsOne ==
    ASSUME NEW r
    PROVE  PoolOf(r) \in Pools /\ Registers(PoolOf(r)) \subseteq Nat
BY ScanAssumption DEF PoolOf, Pools, Registers, Size

\* Why an interval finds no register: each belongs to one that lives with it.
LEMMA NoneFree ==
    ASSUME ScanInv, NEW r \in waiting, FreeFor(r) = {}
    PROVE  \A i \in Registers(PoolOf(r)) : \E q \in Reached : reg[q] = i /\ Overlap(r, q)
<1> SUFFICES ASSUME NEW i \in Registers(PoolOf(r))
             PROVE  \E q \in Reached : reg[q] = i /\ Overlap(r, q)
  OBVIOUS
<1>1. PoolOf(r) \in Pools /\ i \in Nat
  BY PoolIsOne
<1>2. ~Available(r, i) \/ InUse(r, i)
  BY DEF FreeFor
<1>3. CASE InUse(r, i)
  <2>1. PICK q \in DOMAIN span : reg[q] = i /\ Overlap(r, q)
    BY <1>3 DEF InUse
  <2>2. q \in Reached
    BY <2>1, <1>1 DEF ScanInv, StartsInOrder, Reached, NoRegister
  <2> QED
    BY <2>1, <2>2
<1>4. CASE ~Available(r, i)
  <2>1. span[r].from \in Nat /\ span[r].to \in Nat /\ span[r].from < span[r].to
    BY DEF ScanInv, ScanTypeOK, StartsInOrder, Interval
  <2>2. freeAt[PoolOf(r)][i] \in Int /\ ~(freeAt[PoolOf(r)][i] <= span[r].from)
    BY <1>1, <1>4 DEF Available, ScanInv, ScanTypeOK
  <2>3. freeAt[PoolOf(r)][i] # Untouched
    BY <2>1, <2>2 DEF Untouched
  <2>4. PICK q \in Reached : reg[q] = i /\ span[q].to = freeAt[PoolOf(r)][i]
    BY <1>1, <2>3 DEF ScanInv, Held
  <2>5. span[q].from <= span[r].from /\ span[q].from \in Nat
    BY DEF ScanInv, ScanTypeOK, StartsInOrder, Interval, Reached
  <2>6. Overlap(r, q)
    BY <2>1, <2>2, <2>4, <2>5 DEF Overlap
  <2> QED
    BY <2>4, <2>6
<1> QED
  BY <1>2, <1>3, <1>4

\* What every step of the scan does: an interval is reached, and none changes.
LEMMA Reaches ==
    ASSUME ScanInv, NEW r \in waiting, Reach(r)
    PROVE  /\ span' = span /\ waiting' = waiting \ {r}
           /\ Reached' = Reached \cup {r} /\ r \notin Reached /\ r \in DOMAIN span
           /\ \A q \in waiting' : span[r].from <= span[q].from
           /\ \A q \in Reached : span[q].from <= span[r].from
           /\ PoolOf(r)' = PoolOf(r)
           /\ \A a, b : Overlap(a, b)' <=> Overlap(a, b)
           /\ \A a \in DOMAIN span : PoolOf(a)' = PoolOf(a)
<1>1. span' = span /\ waiting' = waiting \ {r}
  BY DEF Reach
<1>2. r \in DOMAIN span
  BY DEF ScanInv, ScanTypeOK
<1>3. Reached' = Reached \cup {r} /\ r \notin Reached
  BY <1>1, <1>2 DEF Reached
<1>4. \A q \in waiting : span[r].from <= span[q].from
  <2>1. \A q \in waiting : span[q].from \in Nat
    BY DEF ScanInv, ScanTypeOK, Interval
  <2> QED
    BY <2>1 DEF Reach, IsNext, Earlier
<1>5. \A q \in Reached : span[q].from <= span[r].from
  BY DEF ScanInv, StartsInOrder
<1>6. \A a, b : Overlap(a, b)' <=> Overlap(a, b)
  BY <1>1 DEF Overlap
<1>7. \A a : PoolOf(a)' = PoolOf(a)
  BY <1>1 DEF PoolOf, Length
<1> QED
  BY <1>1, <1>2, <1>3, <1>4, <1>5, <1>6, <1>7

LEMMA ActiveType ==
    ASSUME ScanInv, NEW r \in waiting, Reach(r), Activate(r)
    PROVE  active' \in [Pools -> SUBSET DOMAIN span']
<1>1. span' = span /\ r \in DOMAIN span
  BY Reaches
<1>2. \A pool \in Pools : StillActive(pool, r) \subseteq DOMAIN span
  BY DEF ScanInv, ScanTypeOK, StillActive
<1> QED
  BY <1>1, <1>2 DEF Activate

LEMMA AssignInv ==
    ASSUME ScanInv, NEW r \in waiting, Assign(r)
    PROVE  ScanInv'
<1> DEFINE i == Least(FreeFor(r))
           pool == PoolOf(r)
<1>0. Reach(r)
  BY DEF Assign
<1>1. i \in FreeFor(r) /\ pool \in Pools /\ i \in Registers(pool) /\ i \in Nat
  <2>1. FreeFor(r) \subseteq Nat /\ FreeFor(r) # {}
    BY PoolIsOne DEF Assign, FreeFor
  <2>2. i \in FreeFor(r)
    BY <2>1, LeastOf
  <2> QED
    BY <2>1, <2>2, PoolIsOne DEF FreeFor
<1>2. /\ reg' = [reg EXCEPT ![r] = i]
      /\ freeAt' = [freeAt EXCEPT ![pool][i] = span[r].to]
      /\ spilled' = spilled /\ frame' = frame /\ slot' = slot /\ wild' = wild
  BY DEF Assign
<1>3. ~InUse(r, i)
  BY <1>1 DEF FreeFor
<1> HIDE DEF i, pool
<1>4. r \in DOMAIN span /\ span' = span
  BY <1>0, Reaches
<1>5. reg'[r] = i /\ \A q \in DOMAIN span : q # r => reg'[q] = reg[q]
  BY <1>2, <1>4 DEF ScanInv, ScanTypeOK
<1>6. ScanTypeOK'
  <2>1. reg' \in [DOMAIN span -> Int]
    BY <1>1, <1>2, <1>4 DEF ScanInv, ScanTypeOK
  <2>2. ASSUME NEW p \in Pools PROVE freeAt'[p] \in [Registers(p) -> Int]
    <3>1. span[r].to \in Int
      BY <1>4 DEF ScanInv, ScanTypeOK, Interval
    <3> QED
      BY <1>1, <1>2, <3>1 DEF ScanInv, ScanTypeOK
  <2>3. active' \in [Pools -> SUBSET DOMAIN span]
    BY <1>0, <1>4, ActiveType DEF Assign
  <2>4. \A p : Registers(p)' = Registers(p)
    BY DEF Registers, Size
  <2> QED
    BY <1>0, <1>2, <1>4, <2>1, <2>2, <2>3, <2>4 DEF ScanInv, ScanTypeOK, Reach
<1>7. StartsInOrder'
  <2>1. \A q \in waiting' : q # r /\ q \in waiting
    BY <1>0, Reaches
  <2>2. \A q \in waiting' : reg'[q] = NoRegister /\ q \notin spilled'
    BY <2>1, <1>2, <1>5 DEF ScanInv, StartsInOrder, ScanTypeOK
  <2> QED
    BY <1>0, <1>4, <2>1, <2>2, Reaches DEF ScanInv, StartsInOrder
<1>8. Held'
  <2> SUFFICES ASSUME NEW p \in Pools, NEW j \in Registers(p), freeAt'[p][j] # Untouched
               PROVE  \E q \in Reached' : reg'[q] = j /\ span[q].to = freeAt'[p][j]
    BY <1>4 DEF Held, Registers, Size
  <2>1. CASE p = pool /\ j = i
    <3>1. freeAt'[p][j] = span[r].to
      BY <1>1, <1>2, <2>1 DEF ScanInv, ScanTypeOK
    <3> QED
      BY <3>1, <1>0, <1>5, <2>1, Reaches
  <2>2. CASE ~(p = pool /\ j = i)
    <3>1. freeAt'[p][j] = freeAt[p][j]
      BY <1>1, <1>2, <2>2 DEF ScanInv, ScanTypeOK
    <3>2. PICK q \in Reached : reg[q] = j /\ span[q].to = freeAt[p][j]
      BY <3>1 DEF ScanInv, Held
    <3>3. q # r /\ q \in DOMAIN span /\ q \in Reached'
      BY <3>2, <1>0, Reaches DEF Reached
    <3> QED
      BY <3>1, <3>2, <3>3, <1>5
  <2> QED
    BY <2>1, <2>2
<1>9. SlotsBelow'
  BY <1>2 DEF ScanInv, SlotsBelow
<1>10. AllocationSound'
  <2>1. ASSUME NEW a \in Reached', NEW b \in Reached', a # b, reg'[a] = reg'[b],
               reg'[a] # NoRegister
        PROVE  ~Overlap(a, b)'
    <3>0. a \in DOMAIN span /\ b \in DOMAIN span
      BY <1>4 DEF Reached
    <3>1. CASE a # r /\ b # r
      <4>1. a \in Reached /\ b \in Reached /\ reg[a] = reg[b] /\ reg[a] # NoRegister
        BY <3>0, <3>1, <1>0, <1>5, <2>1, Reaches
      <4>2. ~Overlap(a, b)
        BY <4>1, <2>1 DEF ScanInv, AllocationSound
      <4> QED
        BY <4>2, <1>0, Reaches
    <3>2. CASE a = r
      <4>1. reg[b] = i
        BY <3>0, <3>2, <1>5, <2>1
      <4>2. ~Overlap(r, b)
        BY <4>1, <3>0, <1>3 DEF InUse
      <4> QED
        BY <4>2, <3>2, <1>0, Reaches
    <3>3. CASE b = r
      <4>1. reg[a] = i
        BY <3>0, <3>3, <1>5, <2>1
      <4>2. ~Overlap(r, a)
        BY <4>1, <3>0, <1>3 DEF InUse
      <4>3. ~Overlap(a, r)
        BY <4>2 DEF Overlap
      <4> QED
        BY <4>3, <3>3, <1>0, Reaches
    <3> QED
      BY <3>1, <3>2, <3>3
  <2>2. ASSUME NEW a \in Reached', reg'[a] = NoRegister
        PROVE  /\ a \in spilled' \/ wild'
               /\ \A j \in Registers(PoolOf(a))' :
                     \E q \in Reached' : reg'[q] = j /\ Overlap(a, q)'
    <3>1. a # r
      BY <1>1, <1>5, <2>2 DEF NoRegister
    <3>2. a \in Reached /\ a \in DOMAIN span /\ reg[a] = NoRegister
      BY <3>1, <1>0, <1>5, <2>2, Reaches DEF Reached
    <3>3. Registers(PoolOf(a))' = Registers(PoolOf(a))
      <4>1. PoolOf(a)' = PoolOf(a)
        BY <1>0, <3>2, Reaches
      <4> QED
        BY <4>1 DEF Registers, Size
    <3>4. ASSUME NEW j \in Registers(PoolOf(a))
          PROVE  \E q \in Reached' : reg'[q] = j /\ Overlap(a, q)'
      <4>1. PICK q \in Reached : reg[q] = j /\ Overlap(a, q)
        BY <3>2 DEF ScanInv, AllocationSound
      <4>2. q # r /\ q \in DOMAIN span /\ q \in Reached'
        BY <1>0, Reaches DEF Reached
      <4> QED
        BY <4>1, <4>2, <1>0, <1>5, Reaches
    <3> QED
      BY <3>2, <3>3, <3>4, <1>2 DEF ScanInv, AllocationSound
  <2>3. \A a, b \in spilled' : a # b => slot'[a] # slot'[b]
    BY <1>2 DEF ScanInv, AllocationSound
  <2> QED
    BY <2>1, <2>2, <2>3 DEF AllocationSound
<1> QED
  BY <1>6, <1>7, <1>8, <1>9, <1>10 DEF ScanInv

\* An interval without a register is spilled, or the write went astray.
LEMMA SpillInv ==
    ASSUME ScanInv, NEW r \in waiting, SpillSelf(r) \/ SpillOther(r)
    PROVE  ScanInv'
<1>0. Reach(r) /\ FreeFor(r) = {} /\ Activate(r)
  BY DEF SpillSelf, SpillOther
<1>1. /\ reg' = reg /\ freeAt' = freeAt /\ frame' = frame + 1
      /\ \/ spilled' = spilled \cup {r} /\ slot' = [slot EXCEPT ![r] = frame] /\ wild' = wild
         \/ spilled' = spilled /\ slot' = slot /\ wild' = TRUE
  BY DEF SpillSelf, SpillOther
<1>2. r \in DOMAIN span /\ span' = span /\ r \notin spilled /\ reg[r] = NoRegister
  BY <1>0, Reaches DEF ScanInv, StartsInOrder
<1>3. /\ slot' \in [DOMAIN span -> Nat] /\ spilled' \subseteq DOMAIN span
      /\ \A q \in spilled' :
            (q = r /\ slot'[q] = frame) \/ (q # r /\ q \in spilled /\ slot'[q] = slot[q])
  <2>0. slot \in [DOMAIN span -> Nat] /\ frame \in Nat /\ spilled \subseteq DOMAIN span
    BY DEF ScanInv, ScanTypeOK
  <2>1. CASE SpillSelf(r)
    <3>1. spilled' = spilled \cup {r} /\ slot' = [slot EXCEPT ![r] = frame]
      BY <2>1 DEF SpillSelf
    <3> QED
      BY <2>0, <3>1, <1>2
  <2>2. CASE SpillOther(r)
    <3>1. spilled' = spilled /\ slot' = slot
      BY <2>2 DEF SpillOther
    <3> QED
      BY <2>0, <3>1, <1>2
  <2> QED
    BY <2>1, <2>2
<1>4. wild' \in BOOLEAN /\ frame \in Nat /\ frame' = frame + 1
  <2>1. CASE SpillSelf(r)
    BY <2>1 DEF SpillSelf, ScanInv, ScanTypeOK
  <2>2. CASE SpillOther(r)
    BY <2>2 DEF SpillOther, ScanInv, ScanTypeOK
  <2> QED
    BY <2>1, <2>2
<1>5. ScanTypeOK'
  <2>1. active' \in [Pools -> SUBSET DOMAIN span]
    BY <1>0, <1>2, ActiveType
  <2>2. slot' \in [DOMAIN span -> Nat] /\ frame' \in Nat /\ wild' \in BOOLEAN
        /\ spilled' \subseteq DOMAIN span
    BY <1>3, <1>4
  <2>3. \A p : Registers(p)' = Registers(p)
    BY DEF Registers, Size
  <2> QED
    BY <1>0, <1>1, <1>2, <2>1, <2>2, <2>3 DEF ScanInv, ScanTypeOK, Reach
<1>6. StartsInOrder'
  <2>1. \A q \in waiting' : q # r /\ q \in waiting
    BY <1>0, Reaches
  <2>2. \A q \in waiting' : reg'[q] = NoRegister /\ q \notin spilled'
    BY <2>1, <1>1 DEF ScanInv, StartsInOrder
  <2> QED
    BY <1>0, <1>2, <2>1, <2>2, Reaches DEF ScanInv, StartsInOrder
<1>7. Held'
  <2> SUFFICES ASSUME NEW p \in Pools, NEW j \in Registers(p), freeAt[p][j] # Untouched
               PROVE  \E q \in Reached' : reg[q] = j /\ span[q].to = freeAt[p][j]
    BY <1>1, <1>2 DEF Held, Registers, Size
  <2>1. PICK q \in Reached : reg[q] = j /\ span[q].to = freeAt[p][j]
    BY DEF ScanInv, Held
  <2> QED
    BY <2>1, <1>0, Reaches
<1>8. SlotsBelow'
  <2>1. \A q \in spilled : slot[q] \in Nat /\ slot[q] < frame /\ q # r
    BY <1>2 DEF ScanInv, SlotsBelow, ScanTypeOK
  <2> QED
    BY <1>3, <1>4, <2>1 DEF SlotsBelow
<1>9. AllocationSound'
  <2>1. ASSUME NEW a \in Reached', NEW b \in Reached', a # b, reg'[a] = reg'[b],
               reg'[a] # NoRegister
        PROVE  ~Overlap(a, b)'
    <3>1. a \in Reached /\ b \in Reached
      BY <1>0, <1>1, <1>2, <2>1, Reaches
    <3>2. ~Overlap(a, b)
      BY <3>1, <1>1, <2>1 DEF ScanInv, AllocationSound
    <3> QED
      BY <3>2, <1>0, Reaches
  <2>2. ASSUME NEW a \in Reached', reg'[a] = NoRegister
        PROVE  /\ a \in spilled' \/ wild'
               /\ \A j \in Registers(PoolOf(a))' :
                     \E q \in Reached' : reg'[q] = j /\ Overlap(a, q)'
    <3>0. a \in DOMAIN span /\ (a = r \/ a \in Reached)
      BY <1>0, <1>2, Reaches DEF Reached
    <3>1. Registers(PoolOf(a))' = Registers(PoolOf(a))
      <4>1. PoolOf(a)' = PoolOf(a)
        BY <1>0, <3>0, Reaches
      <4> QED
        BY <4>1 DEF Registers, Size
    <3>2. \A j \in Registers(PoolOf(a)) : \E q \in Reached : reg[q] = j /\ Overlap(a, q)
      <4>1. CASE a = r
        BY <4>1, <1>0, NoneFree
      <4>2. CASE a \in Reached
        BY <4>2, <1>1, <2>2 DEF ScanInv, AllocationSound
      <4> QED
        BY <3>0, <4>1, <4>2
    <3>3. a \in spilled' \/ wild'
      BY <3>0, <1>1, <2>2 DEF ScanInv, AllocationSound
    <3>4. Reached \subseteq Reached' /\ \A q : Overlap(a, q)' <=> Overlap(a, q)
      BY <1>0, Reaches
    <3> QED
      BY <3>1, <3>2, <3>3, <3>4, <1>1
  <2>3. \A a, b \in spilled' : a # b => slot'[a] # slot'[b]
    <3>1. \A q \in spilled : slot[q] \in Nat /\ slot[q] < frame /\ q # r
      BY <1>2 DEF ScanInv, SlotsBelow, ScanTypeOK
    <3>2. \A a, b \in spilled : a # b => slot[a] # slot[b]
      BY DEF ScanInv, AllocationSound
    <3> QED
      BY <1>3, <1>4, <3>1, <3>2
  <2> QED
    BY <2>1, <2>2, <2>3 DEF AllocationSound
<1> QED
  BY <1>5, <1>6, <1>7, <1>8, <1>9 DEF ScanInv

LEMMA ScanStutters == ScanInv /\ UNCHANGED scanVars => ScanInv'
<1> SUFFICES ASSUME ScanInv, UNCHANGED scanVars PROVE ScanInv'
  OBVIOUS
<1> USE DEF scanVars
<1>1. Reached' = Reached /\ (\A a, b : Overlap(a, b)' <=> Overlap(a, b))
      /\ (\A p : Registers(p)' = Registers(p)) /\ (\A a : PoolOf(a)' = PoolOf(a))
  BY DEF Reached, Overlap, Registers, Size, PoolOf, Length
<1>2. ScanTypeOK' /\ StartsInOrder' /\ Held' /\ SlotsBelow'
  BY <1>1 DEF ScanInv, ScanTypeOK, StartsInOrder, Held, SlotsBelow
<1>3. AllocationSound'
  BY <1>1 DEF ScanInv, AllocationSound
<1> QED
  BY <1>2, <1>3 DEF ScanInv

\* Whatever the code of a function and however many registers there are: the locals
\* that live at the same time are kept apart, each has a place, and one finds no
\* register, as the stray write of spillInterval needs, only where every register
\* of its pool is taken (allocate, allocateInterval, spillInterval).
THEOREM ScanIsSound == ScanSpec => []AllocationSound
<1>1. ScanInit => ScanInv
  BY ScanInitInv
<1>2. ScanInv /\ [ScanNext]_scanVars => ScanInv'
  BY AssignInv, SpillInv, ScanStutters DEF ScanNext
<1>3. ScanInv => AllocationSound
  BY DEF ScanInv
<1> QED
  BY <1>1, <1>2, <1>3, PTL DEF ScanSpec

(******************************* The code cache ******************************)

\* A set of numbers that has 0, and with a number the next one, has them all.
LEMMA Induct ==
    ASSUME NEW S, 0 \in S, \A n \in Nat : n \in S => n + 1 \in S
    PROVE  Nat \subseteq S
<1> SUFFICES ASSUME ~(Nat \subseteq S) PROVE FALSE
  OBVIOUS
<1> DEFINE T == Nat \ S
           n == Least(T)
<1>1. n \in T /\ \A m \in T : n <= m
  BY LeastOf
<1> HIDE DEF n
<1>2. n \in Nat /\ n - 1 \notin T
  BY <1>1
<1>3. n # 0 /\ n - 1 \in Nat /\ n - 1 \notin T
  BY <1>1, <1>2
<1> QED BY <1>1, <1>3

\* The element the sum takes first, and the function by which it is defined.
First(s) == CHOOSE x \in s : TRUE

Sums(ps, g) ==
    g = [s \in SUBSET DOMAIN ps |->
            IF s = {} THEN 0 ELSE ps[First(s)].size + g[s \ {First(s)}]]

Sized(ps) == IsFiniteSet(DOMAIN ps) /\ \A a \in DOMAIN ps : ps[a].size \in Nat

\* The total is what that function says of all pages.
LEMMA TotalIsSum ==
    ASSUME NEW ps
    PROVE  TotalSize(ps) = (CHOOSE g : Sums(ps, g))[DOMAIN ps]
  BY DEF TotalSize, MapThenSumSet, MapThenFoldSet, Sums, First

\* A set of pages without one has one page less.
LEMMA OneLess ==
    ASSUME NEW ps, Sized(ps), NEW s \in SUBSET DOMAIN ps
    PROVE  /\ IsFiniteSet(s) /\ Cardinality(s) \in Nat
           /\ s = {} <=> Cardinality(s) = 0
           /\ \A x \in s : s \ {x} \in SUBSET DOMAIN ps /\ Cardinality(s \ {x}) = Cardinality(s) - 1
           /\ s # {} => First(s) \in s
<1>1. IsFiniteSet(s)
  BY FS_Subset DEF Sized
<1>2. Cardinality(s) \in Nat /\ (s = {} <=> Cardinality(s) = 0)
  BY <1>1, FS_CardinalityType, FS_EmptySet
<1>3. \A x \in s : Cardinality(s \ {x}) = Cardinality(s) - 1
  BY <1>1, FS_RemoveElement
<1> QED BY <1>1, <1>2, <1>3 DEF First

\* There is such a function: it is built for one more page at a time.
LEMMA SumsExist ==
    ASSUME NEW ps, Sized(ps)
    PROVE  Sums(ps, CHOOSE g : Sums(ps, g))
<1> DEFINE Upto(n) == {s \in SUBSET DOMAIN ps : Cardinality(s) <= n}
           Sum(g, s) == IF s = {} THEN 0 ELSE ps[First(s)].size + g[s \ {First(s)}]
           Good == {n \in Nat : \E g : g = [s \in Upto(n) |-> Sum(g, s)]}
<1>1. 0 \in Good
  <2> DEFINE g == [s \in Upto(0) |-> 0]
  <2>1. g = [s \in Upto(0) |-> Sum(g, s)]
    BY OneLess
  <2> QED BY <2>1
<1>2. ASSUME NEW n \in Nat, n \in Good PROVE n + 1 \in Good
  <2>1. PICK g : g = [s \in Upto(n) |-> Sum(g, s)]
    BY <1>2
  <2> DEFINE h == [s \in Upto(n + 1) |-> Sum(g, s)]
  <2>2. ASSUME NEW s \in Upto(n + 1) PROVE Sum(g, s) = Sum(h, s)
    <3>1. CASE s = {}
      BY <3>1
    <3>2. CASE s # {}
      <4> DEFINE r == s \ {First(s)}
      <4>1. r \in Upto(n) /\ r \in Upto(n + 1)
        BY <3>2, OneLess
      <4>2. g[r] = Sum(g, r) /\ h[r] = Sum(g, r)
        BY <2>1, <4>1
      <4> QED BY <4>2, <3>2
    <3> QED BY <3>1, <3>2
  <2>3. h = [s \in Upto(n + 1) |-> Sum(h, s)]
    BY <2>2
  <2>4. \E f : f = [s \in Upto(n + 1) |-> Sum(f, s)]
    <3> HIDE DEF h, Upto
    <3> QED BY <2>3
  <2> HIDE DEF Upto, Sum
  <2>5. n + 1 \in Nat
    OBVIOUS
  <2> QED BY <2>4, <2>5, Zenon
<1>3. PICK n \in Nat : n = Cardinality(DOMAIN ps)
  BY FS_CardinalityType DEF Sized
<1>4. n \in Good
  <2> HIDE DEF Good
  <2> QED BY <1>1, <1>2, Induct
<1>5. Upto(n) = SUBSET DOMAIN ps
  BY <1>3, FS_Subset DEF Sized
<1>6. \E g : Sums(ps, g)
  BY <1>4, <1>5 DEF Sums
<1> QED BY <1>6

\* What the sum is of a set of pages: nothing of none, and one more with the first.
Sum(ps) == CHOOSE g : Sums(ps, g)

LEMMA SumValue ==
    ASSUME NEW ps, Sized(ps), NEW s \in SUBSET DOMAIN ps
    PROVE  Sum(ps)[s] = IF s = {} THEN 0
                        ELSE ps[First(s)].size + Sum(ps)[s \ {First(s)}]
<1> DEFINE g == Sum(ps)
<1>1. Sums(ps, g)
  BY SumsExist DEF Sum
<1> HIDE DEF g
<1>2. g[s] = IF s = {} THEN 0 ELSE ps[First(s)].size + g[s \ {First(s)}]
  BY <1>1 DEF Sums
<1> QED BY <1>2 DEF g

\* It is a number.
LEMMA SumIsNumber ==
    ASSUME NEW ps, Sized(ps), NEW s \in SUBSET DOMAIN ps
    PROVE  Sum(ps)[s] \in Nat
<1> DEFINE Good == {n \in Nat : \A r \in SUBSET DOMAIN ps :
                                    Cardinality(r) = n => Sum(ps)[r] \in Nat}
<1>1. 0 \in Good
  <2>1. ASSUME NEW r \in SUBSET DOMAIN ps, Cardinality(r) = 0 PROVE Sum(ps)[r] \in Nat
    <3>1. r = {}
      BY <2>1, OneLess
    <3> QED BY <3>1, SumValue
  <2> QED BY <2>1
<1>2. ASSUME NEW n \in Nat, n \in Good PROVE n + 1 \in Good
  <2>1. ASSUME NEW r \in SUBSET DOMAIN ps, Cardinality(r) = n + 1 PROVE Sum(ps)[r] \in Nat
    <3>1. r # {} /\ First(r) \in r /\ Cardinality(r \ {First(r)}) = n
      BY <2>1, OneLess
    <3>2. Sum(ps)[r \ {First(r)}] \in Nat
      BY <1>2, <3>1
    <3>3. ps[First(r)].size \in Nat
      BY <3>1 DEF Sized
    <3>4. Sum(ps)[r] = ps[First(r)].size + Sum(ps)[r \ {First(r)}]
      BY <3>1, SumValue
    <3> QED BY <3>2, <3>3, <3>4
  <2> QED BY <2>1
<1>3. Cardinality(s) \in Good
  <2> HIDE DEF Good
  <2>1. Nat \subseteq Good
    BY <1>1, <1>2, Induct
  <2> QED BY <2>1, OneLess
<1> QED BY <1>3

\* One page more adds its size, whichever it is.
LEMMA SumOneMore ==
    ASSUME NEW ps, Sized(ps), NEW s \in SUBSET DOMAIN ps, NEW a \in DOMAIN ps \ s
    PROVE  Sum(ps)[s \cup {a}] = Sum(ps)[s] + ps[a].size
<1> DEFINE Adds(r, x) == Sum(ps)[r \cup {x}] = Sum(ps)[r] + ps[x].size
           Good == {n \in Nat : \A r \in SUBSET DOMAIN ps : \A x \in DOMAIN ps \ r :
                                    Cardinality(r) = n => Adds(r, x)}
<1>1. ASSUME NEW r \in SUBSET DOMAIN ps, NEW x \in DOMAIN ps \ r, First(r \cup {x}) = x
      PROVE  Adds(r, x)
  <2>1. r \cup {x} \in SUBSET DOMAIN ps /\ r \cup {x} # {} /\ (r \cup {x}) \ {x} = r
    OBVIOUS
  <2>2. Sum(ps)[r \cup {x}] = ps[x].size + Sum(ps)[r]
    BY <1>1, <2>1, SumValue
  <2>3. ps[x].size \in Nat /\ Sum(ps)[r] \in Nat
    BY SumIsNumber DEF Sized
  <2> QED BY <2>2, <2>3
<1>2. 0 \in Good
  <2>1. ASSUME NEW r \in SUBSET DOMAIN ps, NEW x \in DOMAIN ps \ r, Cardinality(r) = 0
        PROVE  Adds(r, x)
    <3>1. First(r \cup {x}) = x
      BY <2>1, OneLess DEF First
    <3> QED BY <1>1, <3>1
  <2> QED BY <2>1
<1>3. ASSUME NEW n \in Nat, n \in Good PROVE n + 1 \in Good
  <2>1. ASSUME NEW r \in SUBSET DOMAIN ps, NEW x \in DOMAIN ps \ r, Cardinality(r) = n + 1,
               First(r \cup {x}) # x
        PROVE  Adds(r, x)
    <3> DEFINE y == First(r \cup {x})
               q == r \ {y}
    <3>1. r \cup {x} \in SUBSET DOMAIN ps /\ y \in r
      BY <2>1 DEF First
    <3> HIDE DEF y
    <3>2. q \in SUBSET DOMAIN ps /\ Cardinality(q) = n
      BY <2>1, <3>1, OneLess
    <3>3. q \cup {y} = r /\ (r \cup {x}) \ {y} = q \cup {x} /\ x \notin q /\ y \notin q
      BY <2>1, <3>1
    <3> HIDE DEF q
    <3>4. Sum(ps)[r \cup {x}] = ps[y].size + Sum(ps)[q \cup {x}]
      BY <3>1, <3>3, SumValue DEF y
    <3>5. Adds(q, x) /\ Adds(q, y)
      BY <1>3, <3>1, <3>2, <3>3
    <3>6. /\ Sum(ps)[q \cup {x}] = Sum(ps)[q] + ps[x].size
          /\ Sum(ps)[r] = Sum(ps)[q] + ps[y].size
      BY <3>3, <3>5
    <3>7. Sum(ps)[q] \in Nat /\ ps[x].size \in Nat /\ ps[y].size \in Nat
      BY <3>1, <3>2, SumIsNumber DEF Sized
    <3> QED BY <3>4, <3>6, <3>7
  <2> HIDE DEF Adds
  <2>2. ASSUME NEW r \in SUBSET DOMAIN ps, NEW x \in DOMAIN ps \ r, Cardinality(r) = n + 1
        PROVE  Adds(r, x)
    BY <1>1, <2>1, <2>2
  <2>3. n + 1 \in Nat
    OBVIOUS
  <2> QED BY <2>2, <2>3
<1>4. Cardinality(s) \in Good
  <2> HIDE DEF Good
  <2>1. Nat \subseteq Good
    BY <1>2, <1>3, Induct
  <2> QED BY <2>1, OneLess
<1> QED BY <1>4

\* It does not depend on pages that are not in the set.
LEMMA SumsAgree ==
    ASSUME NEW ps, Sized(ps), NEW qs, Sized(qs), DOMAIN ps \subseteq DOMAIN qs,
           \A a \in DOMAIN ps : qs[a] = ps[a]
    PROVE  Sum(qs)[DOMAIN ps] = Sum(ps)[DOMAIN ps]
<1> DEFINE Good == {n \in Nat : \A r \in SUBSET DOMAIN ps :
                                    Cardinality(r) = n => Sum(qs)[r] = Sum(ps)[r]}
<1>1. 0 \in Good
  BY SumValue, OneLess
<1>2. ASSUME NEW n \in Nat, n \in Good PROVE n + 1 \in Good
  <2>1. ASSUME NEW r \in SUBSET DOMAIN ps, Cardinality(r) = n + 1
        PROVE  Sum(qs)[r] = Sum(ps)[r]
    <3>1. r # {} /\ First(r) \in r /\ Cardinality(r \ {First(r)}) = n /\ r \in SUBSET DOMAIN qs
      BY <2>1, OneLess
    <3>2. Sum(qs)[r \ {First(r)}] = Sum(ps)[r \ {First(r)}]
      BY <1>2, <3>1
    <3>3. /\ Sum(qs)[r] = qs[First(r)].size + Sum(qs)[r \ {First(r)}]
          /\ Sum(ps)[r] = ps[First(r)].size + Sum(ps)[r \ {First(r)}]
      BY <3>1, SumValue
    <3> QED BY <3>1, <3>2, <3>3
  <2> QED BY <2>1
<1>3. Cardinality(DOMAIN ps) \in Good
  <2> HIDE DEF Good
  <2>1. Nat \subseteq Good
    BY <1>1, <1>2, Induct
  <2> QED BY <2>1, OneLess
<1> QED BY <1>3

\* A page more adds its size to the total.
LEMMA TotalAdds ==
    ASSUME NEW ps, Sized(ps), NEW a, a \notin DOMAIN ps, NEW page, page.size \in Nat
    PROVE  /\ Sized(With(ps, a, page))
           /\ TotalSize(With(ps, a, page)) = TotalSize(ps) + page.size
<1> DEFINE qs == With(ps, a, page)
<1>1. DOMAIN qs = DOMAIN ps \cup {a} /\ qs[a] = page /\ \A x \in DOMAIN ps : qs[x] = ps[x]
  BY DEF With
<1> HIDE DEF qs
<1>2. Sized(qs)
  BY <1>1, FS_AddElement DEF Sized
<1>3. TotalSize(qs) = Sum(qs)[DOMAIN ps \cup {a}] /\ TotalSize(ps) = Sum(ps)[DOMAIN ps]
  BY <1>1, TotalIsSum DEF Sum
<1>4. Sum(qs)[DOMAIN ps \cup {a}] = Sum(qs)[DOMAIN ps] + page.size
  BY <1>1, <1>2, SumOneMore
<1>5. Sum(qs)[DOMAIN ps] = Sum(ps)[DOMAIN ps]
  BY <1>1, <1>2, SumsAgree
<1> QED BY <1>2, <1>3, <1>4, <1>5 DEF qs

\* No pages have no size.
LEMMA TotalOfNone == Sized(Empty) /\ TotalSize(Empty) = 0
<1>1. DOMAIN Empty = {} /\ Sized(Empty)
  BY FS_EmptySet DEF Empty, Sized
<1> QED BY <1>1, TotalIsSum, SumValue DEF Sum

-----------------------------------------------------------------------------
(* The engine.                                                                  *)

Modes == {"idle", "jit", "hybrid", "stuck"}

JitShapes ==
    /\ DOMAIN module \subseteq JitFunctions
    /\ \A f \in DOMAIN module : CodeSize[module[f]] \in Nat
    /\ engine \in [mode : Modes, todo : SUBSET DOMAIN module]
    /\ engine.mode = "idle" => engine.todo = {}
    /\ DOMAIN compiled \subseteq JitFunctions /\ DOMAIN table \subseteq JitFunctions
    /\ DOMAIN pages \subseteq Addresses
    /\ loads \in Nat /\ constants \in 0..loads /\ clears \in Nat /\ used \in Nat
    /\ reloaded \in BOOLEAN /\ protectFailed \in BOOLEAN /\ mapFailed \in BOOLEAN
    /\ strayed \in BOOLEAN

SpaceCounted == Sized(pages) /\ used = TotalSize(pages) /\ used < CacheSize + Page

\* The code of a name is what the module loaded says, until one is loaded over it.
CodeIsCurrent ==
    ~reloaded => \A f \in DOMAIN compiled \cap DOMAIN module :
                     pages[compiled[f]].code = module[f]

\* A page is executable unless mprotect has failed.
PagesProtected == ~protectFailed => \A a \in DOMAIN pages : pages[a].executable

\* execute_jit compiles with the module that is loaded.
ModuleTold == engine.mode = "jit" => constants = loads

\* What was compiled with other constants than its own, a hybrid execution has compiled.
OwnConstants ==
    ~reloaded /\ ~strayed => \A f \in DOMAIN compiled : pages[compiled[f]].constants = loads

\* Until the caches are cleared the table has no address the compiler does not know.
TableFollows ==
    clears = 0 => \A f \in DOMAIN table : f \in DOMAIN compiled /\ table[f] = compiled[f]

\* Where the engine stopped, what it asks for does not fit.
StuckStays == engine.mode = "stuck" => \A f \in engine.todo : f \notin DOMAIN compiled /\ ~Fits(f)

\* On the way to the call of main, main is still to be compiled, or it is and the table
\* has its address, or its compilation has failed.
MainIsComing ==
    engine.mode = "jit" =>
        /\ JitMain \in DOMAIN module
        /\ \/ JitMain \in engine.todo
           \/ mapFailed \/ protectFailed
           \/ /\ JitMain \in DOMAIN table /\ JitMain \in DOMAIN compiled
              /\ table[JitMain] = compiled[JitMain]

JitInv ==
    /\ JitShapes /\ SpaceCounted /\ CompiledIsLive /\ CodeIsCurrent /\ PagesProtected
    /\ ModuleTold /\ OwnConstants /\ TableFollows /\ StuckStays /\ MainIsComing /\ CallsMain

-----------------------------------------------------------------------------
\* Pages take up less than one page more than what was asked for.
LEMMA RoundingUp ==
    ASSUME NEW size \in Nat
    PROVE  RoundedUp(size) \in Nat /\ RoundedUp(size) < size + Page
<1> DEFINE n == size + Page - 1
<1>1. n \in Nat /\ Page \in Nat /\ Page > 0
  BY JitAssumption
<1> HIDE DEF n
<1>2. n \div Page \in Nat /\ (n \div Page) * Page <= n
  BY <1>1, SMTT(30)
<1>3. RoundedUp(size) = (n \div Page) * Page
  BY DEF RoundedUp, n
<1>4. (n \div Page) * Page \in Nat
  BY <1>1, <1>2
<1> QED BY <1>1, <1>2, <1>3, <1>4 DEF n

\* The outcome of a call is remembered with what excuses it.
LEMMA CallsMainStays ==
    ASSUME JitInv, lastCall' = lastCall, reloaded => reloaded', mapFailed => mapFailed',
           protectFailed => protectFailed', strayed => strayed', clears' \in Nat,
           clears' >= clears
    PROVE  CallsMain'
<1>1. clears > 0 => clears' > 0
  BY DEF JitInv, JitShapes
<1> QED BY <1>1, Zenon DEF JitInv, CallsMain

\* What the code cache keeps when nothing is compiled.
LEMMA SamePages ==
    ASSUME JitInv, module' = module, compiled' = compiled, pages' = pages, used' = used,
           reloaded' = reloaded, protectFailed' = protectFailed, strayed' = strayed,
           loads' = loads
    PROVE  /\ SpaceCounted' /\ CompiledIsLive' /\ CodeIsCurrent' /\ PagesProtected'
           /\ OwnConstants'
  BY DEF JitInv, SpaceCounted, CompiledIsLive, CodeIsCurrent, PagesProtected, OwnConstants

\* Loading a module, and starting an execution.
LEMMA StartKeeps ==
    ASSUME JitInv, (\E m \in Modules : LoadModule(m)) \/ ExecuteJit \/ ExecuteHybrid
    PROVE  JitInv'
<1>1. CASE \E m \in Modules : LoadModule(m)
  <2>1. PICK m \in Modules : LoadModule(m)
    BY <1>1
  <2>2. /\ engine = Idle /\ module' = m /\ loads' = loads + 1
        /\ reloaded' = (reloaded \/ compiled /= Empty)
        /\ engine' = engine /\ compiled' = compiled /\ pages' = pages /\ used' = used
        /\ table' = table /\ clears' = clears /\ lastCall' = lastCall
        /\ protectFailed' = protectFailed /\ mapFailed' = mapFailed /\ strayed' = strayed
        /\ (constants' = constants \/ constants' = loads')
    BY <2>1 DEF LoadModule
  <2>3. JitShapes'
    BY <2>2, JitAssumption DEF JitInv, JitShapes, Idle, Modes
  <2>4. CodeIsCurrent' /\ OwnConstants'
    <3>1. ~reloaded' => DOMAIN compiled = {}
      BY <2>2 DEF Empty
    <3> QED BY <3>1, <2>2 DEF CodeIsCurrent, OwnConstants
  <2>5. SpaceCounted' /\ CompiledIsLive' /\ PagesProtected' /\ TableFollows'
    BY <2>2 DEF JitInv, SpaceCounted, CompiledIsLive, PagesProtected, TableFollows
  <2>6. StuckStays' /\ MainIsComing' /\ ModuleTold'
    BY <2>2 DEF StuckStays, MainIsComing, ModuleTold, Idle
  <2>7. CallsMain'
    BY <2>2, CallsMainStays DEF JitInv, JitShapes
  <2> QED BY <2>3, <2>4, <2>5, <2>6, <2>7 DEF JitInv
<1>2. CASE ExecuteJit \/ ExecuteHybrid
  <2>1. /\ module' = module /\ compiled' = compiled /\ pages' = pages /\ used' = used
        /\ table' = table /\ loads' = loads /\ clears' = clears /\ lastCall' = lastCall
        /\ reloaded' = reloaded /\ protectFailed' = protectFailed /\ mapFailed' = mapFailed
        /\ strayed' = strayed
    BY <1>2 DEF ExecuteJit, ExecuteHybrid, history
  <2>2. \/ /\ engine' = [mode |-> "jit", todo |-> DOMAIN module] /\ JitMain \in DOMAIN module
           /\ constants' = loads
        \/ /\ engine' = [mode |-> "hybrid", todo |-> hot \cap DOMAIN module]
           /\ constants' = constants
    BY <1>2 DEF ExecuteJit, ExecuteHybrid
  <2>3. JitShapes'
    BY <2>1, <2>2 DEF JitInv, JitShapes, Modes
  <2>4. /\ SpaceCounted' /\ CompiledIsLive' /\ CodeIsCurrent' /\ PagesProtected'
        /\ TableFollows' /\ OwnConstants'
    BY <2>1, SamePages DEF JitInv, TableFollows
  <2>5. StuckStays' /\ MainIsComing' /\ ModuleTold'
    BY <2>1, <2>2 DEF StuckStays, MainIsComing, ModuleTold
  <2>6. CallsMain'
    BY <2>1, CallsMainStays DEF JitInv, JitShapes
  <2> QED BY <2>3, <2>4, <2>5, <2>6 DEF JitInv
<1> QED BY <1>1, <1>2

\* A name that was compiled before, a failed mapping and a full cache.
LEMMA NoCodeKeeps ==
    ASSUME JitInv, NEW f \in JitFunctions,
           CompileCached(f) \/ CompileUnmapped(f) \/ CompileStuck(f)
    PROVE  JitInv'
<1>1. /\ module' = module /\ compiled' = compiled /\ pages' = pages /\ used' = used
      /\ loads' = loads /\ clears' = clears /\ lastCall' = lastCall /\ reloaded' = reloaded
      /\ protectFailed' = protectFailed /\ f \in engine.todo
      /\ strayed' = strayed /\ constants' = constants
  BY DEF CompileCached, CompileUnmapped, CompileStuck, EngineSame
<1>2. /\ SpaceCounted' /\ CompiledIsLive' /\ CodeIsCurrent' /\ PagesProtected'
      /\ OwnConstants'
  BY <1>1, SamePages
<1>3. engine.mode \in Modes /\ engine.todo \in SUBSET DOMAIN module
      /\ engine = [mode |-> engine.mode, todo |-> engine.todo]
  BY DEF JitInv, JitShapes
<1>4. CASE CompileCached(f)
  <2>1. /\ f \in DOMAIN compiled /\ mapFailed' = mapFailed
        /\ engine' = [mode |-> engine.mode, todo |-> engine.todo \ {f}]
    BY <1>3, <1>4 DEF CompileCached, Done
  <2>2. \/ engine.mode # "jit" /\ table' = table
        \/ /\ engine.mode = "jit" /\ DOMAIN table' = DOMAIN table \cup {f}
           /\ table'[f] = compiled[f] /\ \A y \in DOMAIN table \ {f} : table'[y] = table[y]
    <3>1. IF engine.mode = "jit" THEN table' = With(table, f, compiled[f]) ELSE table' = table
      BY <1>4 DEF CompileCached, Registered
    <3> DEFINE t == With(table, f, compiled[f])
    <3>2. DOMAIN t = DOMAIN table \cup {f} /\ t[f] = compiled[f]
          /\ \A y \in DOMAIN table \ {f} : t[y] = table[y]
      BY DEF With
    <3> HIDE DEF t
    <3>3. IF engine.mode = "jit" THEN table' = t ELSE table' = table
      BY <3>1 DEF t
    <3> QED BY <3>2, <3>3
  <2>3. JitShapes'
    BY <1>1, <1>3, <2>1, <2>2 DEF JitInv, JitShapes
  <2>4. TableFollows'
    BY <1>1, <2>1, <2>2 DEF JitInv, TableFollows
  <2>5. StuckStays'
    BY <1>1, <1>3, <2>1 DEF JitInv, StuckStays, Fits
  <2>6. MainIsComing' /\ ModuleTold'
    <3>1. CASE engine.mode = "jit"
      BY <1>1, <2>1, <2>2, <3>1 DEF JitInv, MainIsComing, ModuleTold
    <3>2. CASE engine.mode # "jit"
      BY <2>1, <3>2 DEF MainIsComing, ModuleTold
    <3> QED BY <3>1, <3>2
  <2>7. CallsMain'
    BY <1>1, <2>1, CallsMainStays DEF JitInv, JitShapes
  <2> QED BY <1>2, <2>3, <2>4, <2>5, <2>6, <2>7 DEF JitInv
<1>5. CASE CompileUnmapped(f)
  <2>1. /\ f \notin DOMAIN compiled /\ Fits(f) /\ mapFailed' = TRUE /\ table' = table
        /\ engine' = [mode |-> engine.mode, todo |-> engine.todo \ {f}]
    BY <1>3, <1>5 DEF CompileUnmapped, Done
  <2>2. JitShapes'
    BY <1>1, <1>3, <2>1 DEF JitInv, JitShapes
  <2>3. TableFollows' /\ StuckStays'
    BY <1>1, <1>3, <2>1 DEF JitInv, TableFollows, StuckStays, Fits
  <2>4. MainIsComing' /\ ModuleTold'
    BY <1>1, <2>1 DEF JitInv, MainIsComing, ModuleTold
  <2>5. CallsMain'
    BY <1>1, <2>1, CallsMainStays DEF JitInv, JitShapes
  <2> QED BY <1>2, <2>2, <2>3, <2>4, <2>5 DEF JitInv
<1>6. CASE CompileStuck(f)
  <2>1. /\ f \notin DOMAIN compiled /\ ~Fits(f) /\ mapFailed' = mapFailed /\ table' = table
        /\ engine' = [mode |-> "stuck", todo |-> {f}]
    BY <1>6 DEF CompileStuck
  <2>2. JitShapes'
    BY <1>1, <1>3, <2>1 DEF JitInv, JitShapes, Modes
  <2>3. TableFollows' /\ StuckStays' /\ MainIsComing' /\ ModuleTold'
    BY <1>1, <2>1 DEF JitInv, TableFollows, StuckStays, MainIsComing, ModuleTold, Fits
  <2>4. CallsMain'
    BY <1>1, <2>1, CallsMainStays DEF JitInv, JitShapes
  <2> QED BY <1>2, <2>2, <2>3, <2>4 DEF JitInv
<1> QED BY <1>4, <1>5, <1>6

\* Compiling a function: the pages and their address are entered, then made executable.
LEMMA CompileKeeps ==
    ASSUME JitInv, NEW f \in JitFunctions, NEW a \in Addresses, NEW executable \in BOOLEAN,
           Compile(f, a, executable)
    PROVE  JitInv'
<1> DEFINE size == RoundedUp(CodeSize[module[f]])
           page == [size |-> size, name |-> f, code |-> module[f], constants |-> constants,
                    executable |-> executable]
<1>1. /\ f \in engine.todo /\ f \notin DOMAIN compiled /\ a \notin DOMAIN pages
      /\ pages' = With(pages, a, page) /\ compiled' = With(compiled, f, a)
      /\ used' = used + size /\ used + CodeSize[module[f]] <= CacheSize
      /\ protectFailed' = (protectFailed \/ ~executable) /\ mapFailed' = mapFailed
      /\ module' = module /\ loads' = loads /\ clears' = clears /\ lastCall' = lastCall
      /\ reloaded' = reloaded /\ constants' = constants
      /\ strayed' = (strayed \/ (engine.mode = "hybrid" /\ constants /= loads))
  BY DEF Compile, EngineSame, Counted, Fits
<1>2. engine.mode \in Modes /\ engine.todo \in SUBSET DOMAIN module
      /\ engine = [mode |-> engine.mode, todo |-> engine.todo]
  BY DEF JitInv, JitShapes
<1>3. engine' = [mode |-> engine.mode, todo |-> engine.todo \ {f}]
  BY <1>2 DEF Compile, Done
<1>4. /\ DOMAIN pages' = DOMAIN pages \cup {a} /\ pages'[a] = page
      /\ \A b \in DOMAIN pages : pages'[b] = pages[b]
  <2> DEFINE ps == With(pages, a, page)
  <2>1. DOMAIN ps = DOMAIN pages \cup {a} /\ ps[a] = page
        /\ \A b \in DOMAIN pages \ {a} : ps[b] = pages[b]
    BY DEF With
  <2> HIDE DEF ps, page
  <2>2. pages' = ps
    BY <1>1 DEF ps
  <2> QED BY <1>1, <2>1, <2>2
<1>5. /\ DOMAIN compiled' = DOMAIN compiled \cup {f} /\ compiled'[f] = a
      /\ \A g \in DOMAIN compiled : compiled'[g] = compiled[g]
  <2> DEFINE cs == With(compiled, f, a)
  <2>1. DOMAIN cs = DOMAIN compiled \cup {f} /\ cs[f] = a
        /\ \A g \in DOMAIN compiled \ {f} : cs[g] = compiled[g]
    BY DEF With
  <2> HIDE DEF cs
  <2>2. compiled' = cs
    BY <1>1 DEF cs
  <2> QED BY <1>1, <2>1, <2>2
<1>6. \/ (engine.mode # "jit" \/ ~executable) /\ table' = table
      \/ /\ engine.mode = "jit" /\ executable /\ DOMAIN table' = DOMAIN table \cup {f}
         /\ table'[f] = a /\ \A y \in DOMAIN table \ {f} : table'[y] = table[y]
  <2> DEFINE t == With(table, f, a)
  <2>1. DOMAIN t = DOMAIN table \cup {f} /\ t[f] = a
        /\ \A y \in DOMAIN table \ {f} : t[y] = table[y]
    BY DEF With
  <2>2. IF executable THEN Registered(f, a) ELSE UNCHANGED table
    BY DEF Compile
  <2> HIDE DEF t
  <2>3. IF executable /\ engine.mode = "jit" THEN table' = t ELSE table' = table
    BY <2>2 DEF Registered, t
  <2> QED BY <2>1, <2>3
<1>7. /\ CodeSize[module[f]] \in Nat /\ size \in Nat /\ used \in Nat
      /\ size < CodeSize[module[f]] + Page
  BY <1>1, <1>2, RoundingUp DEF JitInv, JitShapes
<1>8. SpaceCounted'
  <2>1. page.size = size
    OBVIOUS
  <2> DEFINE ps == With(pages, a, page)
  <2> HIDE DEF page
  <2>2. Sized(ps) /\ TotalSize(ps) = TotalSize(pages) + page.size
    BY <1>1, <1>7, <2>1, TotalAdds DEF JitInv, SpaceCounted
  <2>3. pages' = ps /\ used = TotalSize(pages)
    BY <1>1 DEF JitInv, SpaceCounted
  <2> HIDE DEF ps, size
  <2>4. Sized(pages') /\ used' = TotalSize(pages')
    BY <1>1, <2>1, <2>2, <2>3
  <2>5. used + size < CacheSize + Page
    BY <1>1, <1>7, JitAssumption
  <2>6. used' < CacheSize + Page
    BY <1>1, <2>5
  <2> QED BY <2>4, <2>6 DEF SpaceCounted
<1> HIDE DEF size
<1>9. JitShapes'
  BY <1>1, <1>2, <1>3, <1>4, <1>5, <1>6, <1>7 DEF JitInv, JitShapes
<1>10. CompiledIsLive'
  BY <1>1, <1>4, <1>5 DEF JitInv, CompiledIsLive
<1>11. CodeIsCurrent'
  <2> SUFFICES ASSUME ~reloaded', NEW g \in DOMAIN compiled' \cap DOMAIN module'
               PROVE  pages'[compiled'[g]].code = module'[g]
    BY DEF CodeIsCurrent
  <2>1. CASE g = f
    BY <1>1, <1>4, <1>5, <2>1
  <2>2. CASE g # f
    <3>1. g \in DOMAIN compiled \cap DOMAIN module /\ ~reloaded
      BY <1>1, <1>5, <2>2
    <3>2. compiled[g] \in DOMAIN pages /\ pages[compiled[g]].code = module[g]
      BY <3>1 DEF JitInv, CodeIsCurrent, CompiledIsLive
    <3> QED BY <1>1, <1>4, <1>5, <3>1, <3>2
  <2> QED BY <2>1, <2>2
<1>16. PagesProtected'
  <2>1. pages'[a].executable = executable
    BY <1>4
  <2> HIDE DEF page
  <2> QED BY <1>1, <1>4, <2>1 DEF JitInv, PagesProtected
<1>17. OwnConstants'
  <2>1. pages'[a].constants = constants
    BY <1>4
  <2>2. ~strayed' => constants = loads
    <3>1. engine.mode # "idle"
      BY <1>1 DEF JitInv, JitShapes
    <3>2. engine.mode # "stuck"
      BY <1>1 DEF JitInv, StuckStays, Fits
    <3>3. engine.mode \in {"jit", "hybrid"}
      BY <1>2, <3>1, <3>2 DEF Modes
    <3> QED BY <1>1, <3>3 DEF JitInv, ModuleTold
  <2>3. \A g \in DOMAIN compiled : compiled[g] \in DOMAIN pages
    BY DEF JitInv, CompiledIsLive
  <2> HIDE DEF page
  <2> QED BY <1>1, <1>4, <1>5, <2>1, <2>2, <2>3 DEF JitInv, OwnConstants
<1>18. ModuleTold'
  BY <1>1, <1>3 DEF JitInv, ModuleTold
<1>12. TableFollows'
  BY <1>1, <1>5, <1>6 DEF JitInv, TableFollows
<1>13. StuckStays'
  BY <1>1, <1>2, <1>3 DEF JitInv, StuckStays, Fits
<1>14. MainIsComing'
  BY <1>1, <1>3, <1>5, <1>6 DEF JitInv, MainIsComing
<1>15. CallsMain'
  BY <1>1, CallsMainStays DEF JitInv, JitShapes
<1> QED BY <1>8, <1>9, <1>10, <1>11, <1>12, <1>13, <1>14, <1>15, <1>16, <1>17, <1>18
        DEF JitInv

\* What the engine finds at the address of main.
LEMMA CallKeeps ==
    ASSUME JitInv, CallMain
    PROVE  JitInv'
<1>1. /\ engine = [mode |-> "jit", todo |-> {}] /\ engine' = Idle /\ lastCall' = Found
      /\ module' = module /\ compiled' = compiled /\ pages' = pages /\ used' = used
      /\ table' = table /\ loads' = loads /\ clears' = clears /\ reloaded' = reloaded
      /\ protectFailed' = protectFailed /\ mapFailed' = mapFailed /\ strayed' = strayed
      /\ constants' = constants
  BY DEF CallMain
<1>2. JitMain \in DOMAIN module
  BY <1>1 DEF JitInv, MainIsComing
<1>3. \/ mapFailed \/ protectFailed
      \/ /\ JitMain \in DOMAIN table /\ JitMain \in DOMAIN compiled
         /\ table[JitMain] = compiled[JitMain]
  BY <1>1 DEF JitInv, MainIsComing
<1> DEFINE a == table[JitMain]
<1>4. clears = 0 \/ clears > 0
  BY DEF JitInv, JitShapes
<1>5. JitMain \in DOMAIN table /\ (clears = 0 \/ ~(mapFailed \/ protectFailed)) =>
         JitMain \in DOMAIN compiled /\ a = compiled[JitMain]
  BY <1>3 DEF JitInv, TableFollows
<1>6. JitMain \in DOMAIN compiled => /\ compiled[JitMain] \in DOMAIN pages
                                     /\ pages[compiled[JitMain]].name = JitMain
  BY DEF JitInv, CompiledIsLive
<1>7. CallsMain'
  <2>1. CASE JitMain \notin DOMAIN table
    BY <1>1, <1>3, <2>1 DEF Found, CallsMain
  <2>2. CASE JitMain \in DOMAIN table /\ a \notin DOMAIN pages
    BY <1>1, <1>4, <1>5, <1>6, <2>2 DEF Found, CallsMain
  <2>3. CASE JitMain \in DOMAIN table /\ a \in DOMAIN pages /\ ~pages[a].executable
    BY <1>1, <2>3 DEF Found, CallsMain, JitInv, PagesProtected
  <2>4. CASE /\ JitMain \in DOMAIN table /\ a \in DOMAIN pages /\ pages[a].executable
             /\ pages[a].name # JitMain
    BY <1>1, <1>4, <1>5, <1>6, <2>4 DEF Found, CallsMain
  <2>5. CASE /\ JitMain \in DOMAIN table /\ a \in DOMAIN pages /\ pages[a].executable
             /\ pages[a].name = JitMain /\ pages[a].code # module[JitMain]
    <3>1. lastCall' = "old code"
      BY <1>1, <2>5 DEF Found
    <3>2. reloaded \/ ((mapFailed \/ protectFailed) /\ clears > 0)
      BY <1>2, <1>4, <1>5, <2>5 DEF JitInv, CodeIsCurrent
    <3> QED BY <1>1, <3>1, <3>2 DEF CallsMain
  <2>6. CASE /\ JitMain \in DOMAIN table /\ a \in DOMAIN pages /\ pages[a].executable
             /\ pages[a].name = JitMain /\ pages[a].code = module[JitMain]
    <3>1. lastCall' = IF pages[a].constants # loads THEN "other constants" ELSE "main"
      BY <1>1, <2>6 DEF Found
    <3>2. \/ pages[a].constants = loads \/ reloaded \/ strayed
          \/ (mapFailed \/ protectFailed) /\ clears > 0
      BY <1>4, <1>5, <2>6 DEF JitInv, OwnConstants
    <3> QED BY <1>1, <3>1, <3>2 DEF CallsMain
  <2> QED BY <2>1, <2>2, <2>3, <2>4, <2>5, <2>6
<1>8. /\ SpaceCounted' /\ CompiledIsLive' /\ CodeIsCurrent' /\ PagesProtected'
      /\ OwnConstants'
  BY <1>1, SamePages
<1>9. JitShapes'
  BY <1>1 DEF JitInv, JitShapes, Modes, Idle
<1>10. TableFollows' /\ StuckStays' /\ MainIsComing' /\ ModuleTold'
  BY <1>1 DEF JitInv, TableFollows, StuckStays, MainIsComing, ModuleTold, Idle
<1> QED BY <1>7, <1>8, <1>9, <1>10 DEF JitInv

\* The end of a hybrid execution, a call recorded and the caches cleared.
LEMMA RestKeeps ==
    ASSUME JitInv,
           HybridEnds \/ ClearCaches \/ UpdateConfig \/ (\E f \in JitFunctions : RecordHotCall(f))
             \/ UNCHANGED jitVars
    PROVE  JitInv'
<1>1. CASE HybridEnds \/ (\E f \in JitFunctions : RecordHotCall(f)) \/ UNCHANGED jitVars
  <2>1. /\ module' = module /\ compiled' = compiled /\ pages' = pages /\ used' = used
        /\ table' = table /\ loads' = loads /\ clears' = clears /\ lastCall' = lastCall
        /\ reloaded' = reloaded /\ protectFailed' = protectFailed /\ mapFailed' = mapFailed
        /\ strayed' = strayed /\ constants' = constants
        /\ engine' = engine \/ engine' = Idle
    BY <1>1 DEF HybridEnds, RecordHotCall, history, jitVars
  <2>2. /\ SpaceCounted' /\ CompiledIsLive' /\ CodeIsCurrent' /\ PagesProtected'
        /\ OwnConstants'
    BY <2>1, SamePages
  <2>3. JitShapes'
    BY <2>1 DEF JitInv, JitShapes, Modes, Idle
  <2>4. TableFollows' /\ StuckStays' /\ MainIsComing' /\ ModuleTold'
    BY <2>1 DEF JitInv, TableFollows, StuckStays, MainIsComing, ModuleTold, Idle, Fits
  <2>5. CallsMain'
    BY <2>1, CallsMainStays DEF JitInv, JitShapes
  <2> QED BY <2>2, <2>3, <2>4, <2>5 DEF JitInv
<1>2. CASE ClearCaches \/ UpdateConfig
  <2>1. /\ module' = module /\ table' = table /\ loads' = loads /\ lastCall' = lastCall
        /\ reloaded' = reloaded /\ protectFailed' = protectFailed /\ mapFailed' = mapFailed
        /\ engine = Idle /\ engine' = Idle /\ clears' = clears + 1
        /\ compiled' = Empty /\ pages' = Empty /\ used' = 0 /\ strayed' = strayed
        /\ constants' \in {0, constants}
    BY <1>2 DEF ClearCaches, UpdateConfig, PagesGo, history
  <2>2. DOMAIN compiled' = {} /\ DOMAIN pages' = {}
    BY <2>1 DEF Empty
  <2>3. SpaceCounted'
    BY <2>1, TotalOfNone, JitAssumption DEF SpaceCounted
  <2>4. CompiledIsLive' /\ CodeIsCurrent' /\ PagesProtected' /\ OwnConstants'
    BY <2>2 DEF CompiledIsLive, CodeIsCurrent, PagesProtected, OwnConstants
  <2>5. clears \in Nat /\ JitShapes'
    BY <2>1, <2>2 DEF JitInv, JitShapes
  <2>6. TableFollows' /\ StuckStays' /\ MainIsComing' /\ ModuleTold'
    BY <2>1, <2>5 DEF TableFollows, StuckStays, MainIsComing, ModuleTold, Idle
  <2>7. CallsMain'
    BY <2>1, <2>5, CallsMainStays
  <2> QED BY <2>3, <2>4, <2>5, <2>6, <2>7 DEF JitInv
<1> QED BY <1>1, <1>2

\* In every reachable state the invariant holds: the tables of the compiler and of the
\* engine, the pages and the progress of an execution agree (jit/jit_compiler.cpp,
\* pipeline/execution_engine.cpp).
THEOREM JitInvariance == JitSpec => []JitInv
<1>1. JitInit => JitInv
  <2> SUFFICES ASSUME JitInit PROVE JitInv
    OBVIOUS
  <2>1. /\ module = Empty /\ compiled = Empty /\ pages = Empty /\ table = Empty
        /\ used = 0 /\ engine = Idle /\ loads = 0 /\ clears = 0 /\ lastCall = "none"
        /\ reloaded = FALSE /\ protectFailed = FALSE /\ mapFailed = FALSE /\ strayed = FALSE
        /\ constants = 0
    BY DEF JitInit
  <2>2. DOMAIN Empty = {}
    BY DEF Empty
  <2>3. SpaceCounted
    BY <2>1, TotalOfNone, JitAssumption DEF SpaceCounted
  <2>6. constants \in 0..loads
    BY <2>1
  <2>4. JitShapes
    BY <2>1, <2>2, <2>6 DEF JitShapes, Idle, Modes
  <2>5. /\ CompiledIsLive /\ CodeIsCurrent /\ PagesProtected /\ TableFollows /\ StuckStays
        /\ MainIsComing /\ CallsMain /\ ModuleTold /\ OwnConstants
    BY <2>1, <2>2 DEF ModuleTold, OwnConstants, CompiledIsLive, CodeIsCurrent, PagesProtected,
                      TableFollows, StuckStays, MainIsComing, CallsMain, Idle
  <2> QED BY <2>3, <2>4, <2>5 DEF JitInv
<1>2. JitInv /\ [JitNext]_jitVars => JitInv'
  BY StartKeeps, NoCodeKeeps, CompileKeeps, CallKeeps, RestKeeps DEF JitNext
<1> QED BY <1>1, <1>2, PTL DEF JitSpec

\* Whatever the functions, their sizes, the pages and the limit of the cache: its size is
\* what the pages hold and passes the limit by less than a page, the compiler gives out
\* live code of the right name, the engine is stuck only in a full cache, and the call of
\* main reaches main of the loaded module, compiled with its own constants, or one of the
\* mishaps that CallsMain names came before.
THEOREM EngineKeepsCode == JitSpec => []EngineSound
<1>1. JitInv => EngineSound
  <2> SUFFICES ASSUME JitInv PROVE EngineSound
    OBVIOUS
  <2>1. JitTypeOK /\ CompiledIsLive /\ CallsMain
    BY DEF JitInv, JitShapes, SpaceCounted, JitTypeOK
  <2>2. StuckOnlyWhenFull
    <3> SUFFICES ASSUME engine.mode = "stuck", NEW f \in engine.todo
                 PROVE  TotalSize(pages) + CodeSize[module[f]] > CacheSize
      BY DEF StuckOnlyWhenFull
    <3>1. ~(used + CodeSize[module[f]] <= CacheSize) /\ used = TotalSize(pages)
      BY DEF JitInv, StuckStays, SpaceCounted, Fits
    <3>2. used \in Nat /\ CodeSize[module[f]] \in Nat
      BY DEF JitInv, JitShapes
    <3> QED BY <3>1, <3>2, JitAssumption
  <2> QED BY <2>1, <2>2 DEF EngineSound, CodeCacheSound
<1> QED BY <1>1, JitInvariance, PTL

-----------------------------------------------------------------------------
(************************** The package manager ******************************)

\* The function by which the members of a set are taken out of a list.
Filters(s, T, f) ==
    f = [i \in 0..Len(s) |->
            IF i = 0 THEN <<>> ELSE IF s[i] \in T THEN Append(f[i - 1], s[i]) ELSE f[i - 1]]

\* What is filtered is what that function says of the whole list.
LEMMA FilteredIs ==
    ASSUME NEW s, NEW T
    PROVE  Filtered(s, T) = (CHOOSE f : Filters(s, T, f))[Len(s)]
  BY DEF Filtered, Filters

\* There is such a function: it is built for one more element at a time.
LEMMA FilterExists ==
    ASSUME NEW R, NEW s \in Seq(R), NEW T
    PROVE  Filters(s, T, CHOOSE f : Filters(s, T, f))
<1> DEFINE Step(f, i) ==
               IF i = 0 THEN <<>> ELSE IF s[i] \in T THEN Append(f[i - 1], s[i]) ELSE f[i - 1]
           Good == {n \in Nat : \E f : f = [i \in 0..n |-> Step(f, i)]}
<1>1. 0 \in Good
  <2> DEFINE f == [i \in 0..0 |-> <<>>]
  <2>1. f = [i \in 0..0 |-> Step(f, i)]
    OBVIOUS
  <2> HIDE DEF f
  <2>2. \E g : g = [i \in 0..0 |-> Step(g, i)]
    BY <2>1
  <2> QED BY <2>2
<1>2. ASSUME NEW n \in Nat, n \in Good PROVE n + 1 \in Good
  <2>1. PICK f : f = [i \in 0..n |-> Step(f, i)]
    BY <1>2
  <2> DEFINE h == [i \in 0..n + 1 |-> Step(f, i)]
  <2>2. ASSUME NEW i \in 0..n + 1 PROVE Step(f, i) = Step(h, i)
    <3>1. CASE i = 0
      BY <3>1
    <3>2. CASE i # 0
      <4>1. i - 1 \in 0..n /\ i - 1 \in 0..n + 1
        BY <3>2
      <4>2. f[i - 1] = Step(f, i - 1) /\ h[i - 1] = Step(f, i - 1)
        BY <2>1, <4>1
      <4> QED BY <4>2, <3>2
    <3> QED BY <3>1, <3>2
  <2>3. h = [i \in 0..n + 1 |-> Step(h, i)]
    BY <2>2
  <2>4. \E g : g = [i \in 0..n + 1 |-> Step(g, i)]
    <3> HIDE DEF h
    <3> QED BY <2>3
  <2> HIDE DEF Step
  <2>5. n + 1 \in Nat
    OBVIOUS
  <2> QED BY <2>4, <2>5, Zenon
<1>3. Len(s) \in Good
  <2> HIDE DEF Good
  <2> QED BY <1>1, <1>2, Induct
<1>4. \E f : Filters(s, T, f)
  BY <1>3 DEF Filters
<1> QED BY <1>4

\* What is left of a list of requirements is one.
LEMMA FilteredType ==
    ASSUME NEW R, NEW s \in Seq(R), NEW T
    PROVE  Filtered(s, T) \in Seq(R)
<1> DEFINE f == CHOOSE f : Filters(s, T, f)
           Good == {n \in Nat : n <= Len(s) => f[n] \in Seq(R)}
<1>1. \A i \in 0..Len(s) :
         f[i] = IF i = 0 THEN <<>> ELSE IF s[i] \in T THEN Append(f[i - 1], s[i]) ELSE f[i - 1]
  <2>1. Filters(s, T, f)
    BY FilterExists
  <2> HIDE DEF f
  <2> QED BY <2>1 DEF Filters
<1> HIDE DEF f
<1>2. 0 \in Good
  <2>1. 0 \in 0..Len(s) /\ f[0] = <<>>
    BY <1>1
  <2>2. <<>> \in Seq(R)
    OBVIOUS
  <2> QED BY <2>1, <2>2
<1>3. ASSUME NEW n \in Nat, n \in Good PROVE n + 1 \in Good
  <2> SUFFICES ASSUME n + 1 <= Len(s) PROVE f[n + 1] \in Seq(R)
    OBVIOUS
  <2>1. n + 1 \in 0..Len(s) /\ n + 1 # 0 /\ n + 1 - 1 = n /\ n + 1 \in 1..Len(s)
    OBVIOUS
  <2>2. f[n] \in Seq(R) /\ s[n + 1] \in R
    BY <1>3, <2>1
  <2>3. f[n + 1] = IF s[n + 1] \in T THEN Append(f[n], s[n + 1]) ELSE f[n]
    BY <1>1, <2>1
  <2> QED BY <2>2, <2>3
<1>4. Len(s) \in Good
  <2> HIDE DEF Good
  <2> QED BY <1>2, <1>3, Induct
<1>5. f[Len(s)] \in Seq(R)
  BY <1>4
<1> QED BY <1>5, FilteredIs DEF f

\* What is mandatory of a list of requirements is one.
LEMMA MandatoryType ==
    ASSUME NEW s \in Seq(Requirement)
    PROVE  Mandatory(s) \in Seq(Requirement)
  BY FilteredType DEF Mandatory

\* A finite set has a member that no other one is above.
LEMMA Maximal ==
    ASSUME NEW vs, IsFiniteSet(vs), vs # {}, NEW R,
           \A x \in vs : <<x, x>> \notin R,
           \A x, y, z \in vs : <<x, y>> \in R /\ <<y, z>> \in R => <<x, z>> \in R
    PROVE  \E v \in vs : \A w \in vs : <<v, w>> \notin R
<1> DEFINE Up(v) == {w \in vs : <<v, w>> \in R}
           Ups == {Up(v) : v \in vs}
<1>1. Ups \subseteq FiniteSubsetsOf(vs) /\ Ups # {}
  <2>1. \A v \in vs : Up(v) \subseteq vs /\ IsFiniteSet(Up(v))
    BY FS_Subset
  <2> HIDE DEF Up
  <2> QED BY <2>1 DEF FiniteSubsetsOf
<1>2. PICK u \in Ups : \A x \in Ups : <<x, u>> \notin StrictSubsetOrdering(vs)
  <2> HIDE DEF Ups
  <2> QED BY <1>1, WFMin, FS_StrictSubsetOrderingWellFounded, Zenon
<1>3. PICK v \in vs : u = Up(v)
  OBVIOUS
<1>4. ASSUME NEW w \in vs, <<v, w>> \in R PROVE FALSE
  <2>1. Up(w) \subseteq Up(v) /\ w \in Up(v) /\ w \notin Up(w)
    BY <1>4
  <2>2. <<Up(w), u>> \in StrictSubsetOrdering(vs)
    BY <1>3, <2>1 DEF StrictSubsetOrdering
  <2> QED BY <1>2, <2>2
<1> QED BY <1>4

\* The comparison of versions is a strict order on them.
LEMMA BeforeOrder ==
    ASSUME NEW u \in Version, NEW v \in Version, NEW w \in Version
    PROVE  ~Before(u, u) /\ (Before(u, v) /\ Before(v, w) => Before(u, w))
  BY DEF Before, Version

\* Of finitely many versions there is a newest, and an oldest.
LEMMA Extremes ==
    ASSUME NEW vs \in SUBSET Version, IsFiniteSet(vs), vs # {}
    PROVE  Newest(vs) \in vs /\ Oldest(vs) \in vs
<1> DEFINE Up == {p \in vs \X vs : Before(p[1], p[2])}
           Down == {p \in vs \X vs : Before(p[2], p[1])}
<1>1. \E v \in vs : \A w \in vs : ~Before(v, w)
  <2>1. \A x \in vs : <<x, x>> \notin Up
    BY BeforeOrder
  <2>2. \A x, y, z \in vs : <<x, y>> \in Up /\ <<y, z>> \in Up => <<x, z>> \in Up
    BY BeforeOrder
  <2>3. \A v, w \in vs : <<v, w>> \notin Up => ~Before(v, w)
    OBVIOUS
  <2> HIDE DEF Up
  <2>4. \E v \in vs : \A w \in vs : <<v, w>> \notin Up
    BY <2>1, <2>2, Maximal
  <2> QED BY <2>3, <2>4
<1>2. \E v \in vs : \A w \in vs : ~Before(w, v)
  <2>1. \A x \in vs : <<x, x>> \notin Down
    BY BeforeOrder
  <2>2. \A x, y, z \in vs : <<x, y>> \in Down /\ <<y, z>> \in Down => <<x, z>> \in Down
    BY BeforeOrder
  <2>3. \A v, w \in vs : <<v, w>> \notin Down => ~Before(w, v)
    OBVIOUS
  <2> HIDE DEF Down
  <2>4. \E v \in vs : \A w \in vs : <<v, w>> \notin Down
    BY <2>1, <2>2, Maximal
  <2> QED BY <2>3, <2>4
<1> QED BY <1>1, <1>2 DEF Newest, Oldest

\* The registry has finitely many versions of a package.
LEMMA VersionsType ==
    ASSUME PackagesTypeOK, NEW n
    PROVE  /\ Versions(n) \subseteq Version /\ IsFiniteSet(Versions(n))
           /\ \A v \in Versions(n) : <<n, v>> \in published
<1> DEFINE ps == {q \in published : q[1] = n}
           f == [p \in ps |-> p[2]]
<1>1. published \subseteq Names \X Version /\ IsFiniteSet(published)
  BY PackagesAssumption, FS_Subset DEF PackagesTypeOK
<1>2. IsFiniteSet(ps)
  BY <1>1, FS_Subset
<1>3. Versions(n) = {f[p] : p \in ps}
  BY DEF Versions
<1>4. IsFiniteSet(Versions(n))
  <2>1. f \in Surjection(ps, {f[p] : p \in ps})
    BY DEF Surjection
  <2> HIDE DEF ps, f
  <2> QED BY <1>2, <1>3, <2>1, FS_Surjection
<1> QED BY <1>1, <1>4 DEF Versions

\* What is selected from versions that the registry has is one of them.
LEMMA SelectsOne ==
    ASSUME PackagesTypeOK, NEW n, NEW vs \in SUBSET Versions(n), vs # {}
    PROVE  SelectBest(n, vs) \in vs
<1>1. vs \subseteq Version /\ IsFiniteSet(vs)
  BY VersionsType, FS_Subset
<1>2. Newest(vs) \in vs /\ Oldest(vs) \in vs
  BY <1>1, Extremes
<1>3. Oldest(IF Releases(vs) = {} THEN vs ELSE Releases(vs)) \in vs
  <2>1. Releases(vs) \subseteq vs /\ IsFiniteSet(Releases(vs)) /\ Releases(vs) \subseteq Version
    BY <1>1, FS_Subset DEF Releases
  <2>2. CASE Releases(vs) = {}
    BY <1>2, <2>2
  <2>3. CASE Releases(vs) # {}
    BY <2>1, <2>3, Extremes
  <2> QED BY <2>2, <2>3
<1>4. Selection \in {"Newest", "Oldest", "Minimal", "Lockfile"}
  BY PackagesAssumption DEF PackagesTypeOK, Selection
<1> QED BY <1>2, <1>3, <1>4 DEF SelectBest

\* The package manager by itself.
PackagesSpec == PackagesInit /\ [][PackagesNext]_pkgVars

Underway == mode \in {"resolving", "locking"}
Frames == 2..Len(calls)
Covered == DOMAIN resolved \cup InProgress

\* What the call i goes through: the one at the bottom has the manifest's.
WantedBy(i) ==
    IF i > 1 THEN DependenciesOf(calls[i].name, calls[i].version)
    ELSE IF op = "package" THEN <<>> ELSE Direct

\* No package is resolved while it is resolved already or being resolved.
StackInv ==
    /\ Underway => calls # <<>>
    /\ mode = "locking" => Len(calls) = 1 /\ calls[1].todo = <<>> /\ op # "package"
    /\ \A i \in Frames : calls[i].name \in Names /\ calls[i].name \notin DOMAIN resolved
    /\ \A i, j \in Frames : calls[i].name = calls[j].name => i = j

\* What is to be installed has a version.
TargetsInv ==
    /\ mode = "installing" => remaining \subseteq DOMAIN resolved
    /\ mode = "resolving" /\ op = "package" =>
          \A n \in remaining : n \in Covered \/ \E d \in Range(calls[1].todo) : d.name = n

\* A dependency is still to be looked at, being resolved, or resolved.
CoveredInv ==
    Underway =>
      /\ \A i \in 1..Len(calls) :
            \A d \in Range(WantedBy(i)) : d \in Range(calls[i].todo) \/ d.name \in Covered
      /\ \A n \in DOMAIN resolved \ switched :
            \A d \in Range(DependenciesOf(n, resolved[n].version)) : d.name \in Covered

\* A version meets what has been asked of its package so far.
AskedInv ==
    Underway /\ ~erased =>
      /\ \A n \in Names \ Covered : asked[n] = {}
      /\ \A n \in DOMAIN resolved : \A c \in asked[n] : Satisfies(resolved[n].version, c)
      /\ \A i \in Frames : \A c \in asked[calls[i].name] : Satisfies(calls[i].version, c)

\* There is no cycle among resolved packages: of any of them, one needs none of them.
OrderInv ==
    Underway /\ ~erased =>
      /\ \A n \in DOMAIN resolved : resolved[n].deps \subseteq DOMAIN resolved
      /\ \A X \in SUBSET DOMAIN resolved : X # {} => \E n \in X : resolved[n].deps \cap X = {}
      /\ \A i \in Frames : \A d \in Range(WantedBy(i)) :
            \/ d \in Range(calls[i].todo) \/ d.name \in DOMAIN resolved
            \/ i < Len(calls) /\ d.name = calls[i + 1].name

ResolverInv ==
    PackagesTypeOK /\ StackInv /\ TargetsInv /\ CoveredInv /\ AskedInv /\ OrderInv

\* The call on top goes on to its next dependency, and nothing else of the stack changes.
LEMMA PassedFacts ==
    ASSUME PackagesTypeOK, StackInv, Visiting
    PROVE  /\ Len(calls) \in Nat /\ Len(calls) >= 1
           /\ Passed \in Seq(Visit) /\ Len(Passed) = Len(calls)
           /\ Dependency \in Requirement
           /\ \A i \in 1..Len(calls) :
                 /\ Passed[i].name = calls[i].name /\ Passed[i].version = calls[i].version
                 /\ Passed[i].source = calls[i].source
                 /\ \A d \in Range(calls[i].todo) :
                       d \in Range(Passed[i].todo) \/ (i = Len(calls) /\ d = Dependency)
<1> DEFINE k == Len(calls)
<1>1. calls \in Seq(Visit) /\ calls # <<>> /\ calls[k].todo # <<>>
  BY DEF PackagesTypeOK, StackInv, Visiting, Top, Underway
<1>2. k \in Nat /\ k >= 1 /\ \A i \in 1..k : calls[i] \in Visit
  BY <1>1
<1>3. calls[k] \in Visit /\ calls[k].todo \in Seq(Requirement)
  BY <1>2 DEF Visit
<1>4. Dependency \in Requirement /\ Tail(calls[k].todo) \in Seq(Requirement)
  BY <1>1, <1>3 DEF Dependency, Top
<1> PICK call : call = [calls[k] EXCEPT !.todo = Tail(calls[k].todo)]
  OBVIOUS
<1>5. Passed = [calls EXCEPT ![k] = call]
  BY DEF Passed
<1>6. call \in Visit
  BY <1>3, <1>4 DEF Visit
<1>7. Passed \in Seq(Visit) /\ Len(Passed) = k
  BY <1>1, <1>2, <1>5, <1>6
<1>8. \A i \in 1..k : i # k => Passed[i] = calls[i]
  BY <1>1, <1>5
<1>9. Passed[k] = call
  <2>1. k \in DOMAIN calls
    BY <1>1, <1>2
  <2> QED BY <1>5, <2>1
<1>10. /\ Passed[k].name = calls[k].name /\ Passed[k].version = calls[k].version
       /\ Passed[k].source = calls[k].source /\ Passed[k].todo = Tail(calls[k].todo)
  BY <1>3, <1>9 DEF Visit
<1>11. \A d \in Range(calls[k].todo) : d \in Range(Tail(calls[k].todo)) \/ d = Dependency
  <2> DEFINE s == calls[k].todo
  <2>1. s \in Seq(Requirement) /\ s # <<>> /\ Dependency = s[1]
    BY <1>1, <1>3 DEF Dependency, Top
  <2> HIDE DEF s
  <2>2. SUFFICES ASSUME NEW j \in DOMAIN s, s[j] # s[1] PROVE s[j] \in Range(Tail(s))
    BY <2>1 DEF Range, s
  <2>3. j - 1 \in 1..Len(Tail(s)) /\ Tail(s)[j - 1] = s[j]
    BY <2>1, <2>2
  <2>4. j - 1 \in DOMAIN Tail(s)
    BY <2>1, <2>3
  <2> QED BY <2>3, <2>4 DEF Range
<1>12. \A i \in 1..k :
                 /\ Passed[i].name = calls[i].name /\ Passed[i].version = calls[i].version
                 /\ Passed[i].source = calls[i].source
                 /\ \A d \in Range(calls[i].todo) :
                       d \in Range(Passed[i].todo) \/ (i = k /\ d = Dependency)
  BY <1>8, <1>10, <1>11
<1> QED BY <1>2, <1>4, <1>7, <1>12

\* What a step of the resolver that goes on with the same calls leaves as it was.
Advances ==
    /\ Visiting /\ ~Circular /\ calls' = Passed /\ asked' = Asks
    /\ DOMAIN resolved' = DOMAIN resolved /\ Dependency.name \in DOMAIN resolved
    /\ \A n \in DOMAIN resolved :
          /\ resolved'[n].deps = resolved[n].deps
          /\ n # Dependency.name => resolved'[n] = resolved[n]
    /\ \A c \in Asks[Dependency.name] :
          ~erased => Satisfies(resolved'[Dependency.name].version, c)
    /\ resolved'[Dependency.name] = resolved[Dependency.name] \/ Dependency.name \in switched'
    /\ switched \subseteq switched'
    /\ mode' = mode /\ erased' = erased /\ UNCHANGED <<published, manifest, lock, op, remaining>>

\* The typing of all the rest.
LEMMA AdvancesInv ==
    ASSUME ResolverInv, Advances, PackagesTypeOK'
    PROVE  ResolverInv'
<1> DEFINE k == Len(calls)
<1>1. /\ k \in Nat /\ k >= 1 /\ Len(calls') = k
      /\ \A i \in 1..k : /\ calls'[i].name = calls[i].name
                         /\ calls'[i].version = calls[i].version
                         /\ \A d \in Range(calls[i].todo) :
                               \/ d \in Range(calls'[i].todo)
                               \/ i = k /\ d = Dependency
  BY PassedFacts DEF ResolverInv, Advances
<1>2. /\ Frames' = Frames /\ InProgress' = InProgress /\ Covered' = Covered
      /\ Frames \subseteq 1..k /\ DOMAIN resolved' = DOMAIN resolved
  BY <1>1 DEF Frames, InProgress, Covered, Advances
<1>3. \A i \in 1..k : WantedBy(i)' = WantedBy(i)
  BY <1>1 DEF WantedBy, DependenciesOf, Direct, Advances
<1>4. Dependency.name \in DOMAIN resolved /\ Dependency.name \in Covered
  BY DEF Advances, Covered
<1>6. StackInv'
  <2>1. calls' # <<>> /\ mode = "resolving" /\ mode' = mode
    BY <1>1 DEF Advances, Visiting
  <2>2. \A i \in Frames' : /\ calls'[i].name \in Names
                            /\ calls'[i].name \notin DOMAIN resolved'
    BY <1>1, <1>2 DEF StackInv, ResolverInv
  <2>3. \A i, j \in Frames' : calls'[i].name = calls'[j].name => i = j
    BY <1>1, <1>2 DEF StackInv, ResolverInv
  <2> QED BY <2>1, <2>2, <2>3 DEF StackInv
<1>7. TargetsInv'
  <2>1. \A d \in Range(calls[1].todo) : d \in Range(calls'[1].todo) \/ d.name \in Covered
    BY <1>1, <1>4
  <2> QED BY <1>2, <2>1 DEF TargetsInv, ResolverInv, Advances, Visiting
<1>8. CoveredInv'
  <2>1. Underway
    BY DEF Underway, Advances, Visiting
  <2>2. \A i \in 1..k : \A d \in Range(WantedBy(i)') :
            d \in Range(calls'[i].todo) \/ d.name \in Covered'
    BY <1>1, <1>2, <1>3, <1>4, <2>1 DEF CoveredInv, ResolverInv
  <2>3. ASSUME NEW n \in DOMAIN resolved', n \notin switched'
        PROVE  \A d \in Range(DependenciesOf(n, resolved[n].version)') : d.name \in Covered'
    <3>1. n \in DOMAIN resolved \ switched /\ resolved'[n] = resolved[n] /\ published' = published
      BY <2>3 DEF Advances
    <3>2. DependenciesOf(n, resolved[n].version)' = DependenciesOf(n, resolved[n].version)
      BY <3>1 DEF DependenciesOf
    <3> QED BY <1>2, <2>1, <3>1, <3>2 DEF CoveredInv, ResolverInv
  <2> QED BY <1>1, <2>2, <2>3 DEF CoveredInv
<1>9. AskedInv'
  <2> SUFFICES ASSUME ~erased PROVE AskedInv'
    BY DEF AskedInv, Advances
  <2>1. Underway
    BY DEF Underway, Advances, Visiting
  <2>2. /\ \A n \in Names \ Covered : asked[n] = {}
        /\ \A n \in DOMAIN resolved : \A c \in asked[n] : Satisfies(resolved[n].version, c)
        /\ \A i \in Frames : \A c \in asked[calls[i].name] : Satisfies(calls[i].version, c)
    BY <2>1 DEF AskedInv, ResolverInv
  <2>3. \A n \in Names : n # Dependency.name => asked'[n] = asked[n]
    BY DEF Advances, Asks, ResolverInv, PackagesTypeOK
  <2>4. \A i \in Frames : calls[i].name # Dependency.name /\ calls[i].name \in Names
    BY DEF Advances, Circular, InProgress, Frames, ResolverInv, StackInv
  <2>5. \A n \in Names \ Covered' : asked'[n] = {}
    BY <1>2, <1>4, <2>2, <2>3
  <2>6. \A n \in DOMAIN resolved' : \A c \in asked'[n] : Satisfies(resolved'[n].version, c)
    BY <1>2, <2>2, <2>3 DEF Advances, ResolverInv, PackagesTypeOK
  <2>7. \A i \in Frames' : \A c \in asked'[calls'[i].name] : Satisfies(calls'[i].version, c)
    <3> SUFFICES ASSUME NEW i \in Frames
                 PROVE  \A c \in asked'[calls'[i].name] : Satisfies(calls'[i].version, c)
      BY <1>2
    <3>1. calls'[i].name = calls[i].name /\ calls'[i].version = calls[i].version
      BY <1>1, <1>2
    <3>2. asked'[calls[i].name] = asked[calls[i].name]
      BY <2>3, <2>4
    <3> QED BY <2>2, <3>1, <3>2
  <2> QED BY <2>5, <2>6, <2>7 DEF AskedInv
<1>10. OrderInv'
  <2> SUFFICES ASSUME ~erased PROVE OrderInv'
    BY DEF OrderInv, Advances
  <2>1. Underway
    BY DEF Underway, Advances, Visiting
  <2>2. \A n \in DOMAIN resolved : resolved'[n].deps = resolved[n].deps
    BY DEF Advances
  <2>3. \A n \in DOMAIN resolved' : resolved'[n].deps \subseteq DOMAIN resolved'
    BY <1>2, <2>1, <2>2 DEF OrderInv, ResolverInv
  <2>4. \A X \in SUBSET DOMAIN resolved' : X # {} => \E n \in X : resolved'[n].deps \cap X = {}
    <3>1. \A X \in SUBSET DOMAIN resolved : X # {} => \E n \in X : resolved[n].deps \cap X = {}
      BY <2>1 DEF OrderInv, ResolverInv
    <3>2. SUFFICES ASSUME NEW X \in SUBSET DOMAIN resolved, X # {}
                   PROVE  \E n \in X : resolved'[n].deps \cap X = {}
      BY <1>2
    <3>3. PICK n \in X : resolved[n].deps \cap X = {}
      BY <3>1, <3>2
    <3> QED BY <2>2, <3>3
  <2>5. \A i \in Frames : \A d \in Range(WantedBy(i)) :
            \/ d \in Range(calls[i].todo) \/ d.name \in DOMAIN resolved
            \/ i < k /\ d.name = calls[i + 1].name
    BY <2>1 DEF OrderInv, ResolverInv
  <2>6. ASSUME NEW i \in Frames', NEW d \in Range(WantedBy(i)')
        PROVE  \/ d \in Range(calls'[i].todo) \/ d.name \in DOMAIN resolved'
               \/ i < Len(calls') /\ d.name = calls'[i + 1].name
    <3>1. i \in Frames /\ i \in 1..k /\ d \in Range(WantedBy(i)) /\ (i < k => i + 1 \in 1..k)
      BY <1>2, <1>3 DEF Frames
    <3>2. \/ d \in Range(calls[i].todo) \/ d.name \in DOMAIN resolved
          \/ i < k /\ d.name = calls[i + 1].name
      BY <2>5, <3>1
    <3> QED BY <1>1, <1>2, <1>4, <3>1, <3>2
  <2> QED BY <2>3, <2>4, <2>6 DEF OrderInv
<1> QED BY <1>6, <1>7, <1>8, <1>9, <1>10 DEF ResolverInv

\* The constraints after a call are those before, and its own.
LEMMA AsksFacts ==
    ASSUME ResolverInv, Visiting
    PROVE  /\ Asks \in [Names -> SUBSET Constraint]
           /\ Asks[Dependency.name] = asked[Dependency.name] \cup {Dependency.con}
           /\ Dependency.name \in Names
           /\ \A n \in Names : n # Dependency.name => Asks[n] = asked[n]
<1>1. Dependency \in Requirement
  BY PassedFacts DEF ResolverInv
<1>2. Dependency.name \in Names /\ Dependency.con \in Constraint
  BY <1>1 DEF Requirement
<1>3. asked \in [Names -> SUBSET Constraint]
  BY DEF ResolverInv, PackagesTypeOK
<1> QED BY <1>2, <1>3 DEF Asks

\* A version that is kept meets the constraint, as it met the others.
LEMMA AlreadyResolvedInv ==
    ASSUME ResolverInv, AlreadyResolved
    PROVE  ResolverInv'
<1>1. Visiting /\ IsResolved /\ MeetsThis(resolved[Dependency.name].version)
  BY DEF AlreadyResolved, Meets
<1>2. PackagesTypeOK'
  BY <1>1, PassedFacts, AsksFacts
     DEF AlreadyResolved, Resolves, project, installation, PackagesTypeOK, ResolverInv
<1>3. ASSUME NEW c \in Asks[Dependency.name], ~erased
      PROVE  Satisfies(resolved[Dependency.name].version, c)
  <2>1. c \in asked[Dependency.name] \/ c = Dependency.con
    BY <1>1, <1>3, AsksFacts
  <2>2. Underway
    BY <1>1 DEF Underway, Visiting
  <2> QED BY <1>1, <1>3, <2>1, <2>2 DEF ResolverInv, AskedInv, IsResolved, MeetsThis
<1>4. Advances
  BY <1>1, <1>3 DEF AlreadyResolved, Advances, Resolves, project, installation, IsResolved
<1> QED BY <1>2, <1>4, AdvancesInv

\* The version that takes the place of another one meets all constraints so far.
LEMMA SwitchVersionInv ==
    ASSUME ResolverInv, SwitchVersion
    PROVE  ResolverInv'
<1> DEFINE n == Dependency.name
           v == SelectBest(n, Compatible)
<1>1. Visiting /\ IsResolved /\ Compatible # {}
  BY DEF SwitchVersion
<1>2. v \in Compatible /\ v \in Version
  <2>1. Compatible \subseteq Versions(n)
    BY DEF Compatible
  <2>2. v \in Compatible
    BY <1>1, <2>1, SelectsOne DEF ResolverInv
  <2> QED BY <2>1, <2>2, VersionsType DEF ResolverInv
<1>3. \A c \in Asks[n] : Satisfies(v, c)
  BY <1>2 DEF Compatible, MeetsAll
<1> HIDE DEF v
<1>4. /\ resolved' = [resolved EXCEPT ![n].version = v] /\ n \in DOMAIN resolved
      /\ resolved \in [DOMAIN resolved -> ResolvedPackage]
  BY <1>1 DEF SwitchVersion, v, IsResolved, ResolverInv, PackagesTypeOK
<1>5. /\ DOMAIN resolved' = DOMAIN resolved
      /\ \A m \in DOMAIN resolved : m # n => resolved'[m] = resolved[m]
      /\ resolved'[n] = [resolved[n] EXCEPT !.version = v]
  BY <1>4
<1>6. resolved[n] \in ResolvedPackage
  BY <1>4
<1>7. /\ resolved'[n].version = v /\ resolved'[n].deps = resolved[n].deps
      /\ resolved'[n] \in ResolvedPackage
  BY <1>2, <1>5, <1>6 DEF ResolvedPackage
<1>8. resolved' \in [DOMAIN resolved' -> ResolvedPackage]
  BY <1>4, <1>5, <1>7
<1>9. PackagesTypeOK'
  <2>1. n \in Names
    BY <1>1, AsksFacts
  <2> HIDE DEF n
  <2> QED BY <1>1, <1>5, <1>8, <2>1, PassedFacts, AsksFacts
     DEF SwitchVersion, Resolves, project, installation, PackagesTypeOK, ResolverInv, n
<1>10. Advances
  <2>1. \A c \in Asks[n] : ~erased => Satisfies(resolved'[n].version, c)
    BY <1>3, <1>7
  <2>3. \A m \in DOMAIN resolved :
          /\ resolved'[m].deps = resolved[m].deps
          /\ m # n => resolved'[m] = resolved[m]
    BY <1>5, <1>7
  <2>4. n \in switched' /\ switched \subseteq switched' /\ n \in DOMAIN resolved
    BY <1>4 DEF SwitchVersion
  <2>5. /\ Visiting /\ ~Circular /\ calls' = Passed /\ asked' = Asks
        /\ mode' = mode /\ erased' = erased
        /\ UNCHANGED <<published, manifest, lock, op, remaining>>
    BY DEF SwitchVersion, Resolves, project, installation
  <2> QED BY <1>5, <2>1, <2>3, <2>4, <2>5 DEF Advances
<1> QED BY <1>9, <1>10, AdvancesInv

\* The dependencies a call goes through are requirements.
LEMMA DependenciesType ==
    ASSUME PackagesTypeOK, NEW n, NEW v
    PROVE  DependenciesOf(n, v) \in Seq(Requirement)
<1>1. CASE <<n, v>> \in published
  <2>1. Requires[<<n, v>>] \in Seq(Requirement)
    BY <1>1, PackagesAssumption DEF PackagesTypeOK
  <2> QED BY <1>1, <2>1, MandatoryType DEF DependenciesOf
<1>2. CASE <<n, v>> \notin published
  BY <1>2 DEF DependenciesOf
<1> QED BY <1>1, <1>2

\* A version that is chosen meets the constraint of the call.
LEMMA ChosenFacts ==
    ASSUME ResolverInv, Visiting, Pinned \/ Candidates # {}
    PROVE  /\ Chosen.version \in Version /\ Chosen.source \in Origins
           /\ MeetsThis(Chosen.version)
<1> DEFINE n == Dependency.name
<1>1. CASE Pinned
  <2>1. n \in DOMAIN lock /\ lock[n] \in Locked
    BY <1>1 DEF Pinned, ResolverInv, PackagesTypeOK
  <2>2. Chosen.version = lock[n].version /\ Chosen.source = lock[n].source
    BY <1>1 DEF Chosen
  <2> QED BY <1>1, <2>1, <2>2 DEF Pinned, Locked
<1>2. CASE ~Pinned
  <2> DEFINE v == SelectBest(n, Candidates)
  <2>1. Candidates \subseteq Versions(n) /\ Candidates # {}
    BY <1>2 DEF Candidates
  <2>2. v \in Candidates
    BY <2>1, SelectsOne DEF ResolverInv
  <2>3. v \in Version /\ MeetsThis(v)
    BY <2>1, <2>2, VersionsType DEF ResolverInv, Candidates
  <2>4. Chosen.version = v /\ Chosen.source \in Origins
    BY <1>2 DEF Chosen, Origins
  <2> QED BY <2>3, <2>4
<1> QED BY <1>1, <1>2

\* A call begins for a package that has no version, or had one until now.
LEMMA ChooseVersionInv ==
    ASSUME ResolverInv, ChooseVersion
    PROVE  ResolverInv'
<1> DEFINE n == Dependency.name
           v == Chosen.version
           call == [name |-> n, version |-> v, source |-> Chosen.source,
                    todo |-> DependenciesOf(n, v)]
<1> PICK k : k = Len(calls)
  OBVIOUS
<1>1. /\ Visiting /\ ~Circular /\ (Pinned \/ Candidates # {}) /\ (IsResolved => Erases)
      /\ asked' = Asks /\ calls' = Append(Passed, call)
      /\ resolved' = Restrict(resolved, DOMAIN resolved \ {n})
      /\ erased' = (erased \/ IsResolved) /\ mode' = mode /\ switched' = switched
      /\ UNCHANGED <<published, manifest, lock, op, remaining>>
  BY DEF ChooseVersion, Resolves, project, installation
<1>2. /\ n \in Names /\ v \in Version
      /\ Satisfies(v, Dependency.con) /\ Chosen.source \in Origins
  BY <1>1, AsksFacts, ChosenFacts DEF MeetsThis
<1>3. DependenciesOf(n, v) \in Seq(Requirement)
  BY DependenciesType DEF ResolverInv
<1>4. call \in Visit
  BY <1>2, <1>3 DEF Visit
<1>5. /\ k \in Nat /\ k >= 1 /\ Passed \in Seq(Visit) /\ Len(Passed) = k
      /\ \A i \in 1..k : /\ Passed[i].name = calls[i].name
                         /\ Passed[i].version = calls[i].version
                         /\ \A d \in Range(calls[i].todo) :
                               \/ d \in Range(Passed[i].todo)
                               \/ i = k /\ d = Dependency
  BY <1>1, PassedFacts DEF ResolverInv
<1>6. /\ call.name = n /\ call.version = v /\ call.todo = DependenciesOf(n, v)
  OBVIOUS
<1> HIDE DEF call, v
<1>7. /\ calls' \in Seq(Visit) /\ Len(calls') = k + 1 /\ calls'[k + 1] = call
      /\ \A i \in 1..k : calls'[i] = Passed[i]
  BY <1>1, <1>4, <1>5
<1>8. /\ Frames' = Frames \cup {k + 1} /\ Frames \subseteq 1..k /\ k + 1 \notin Frames
      /\ \A i \in Frames : /\ calls'[i].name = calls[i].name
                           /\ calls'[i].version = calls[i].version
  BY <1>5, <1>7 DEF Frames
<1>9. /\ DOMAIN resolved' = DOMAIN resolved \ {n}
      /\ \A m \in DOMAIN resolved' : resolved'[m] = resolved[m]
  BY <1>1 DEF Restrict
<1>10. InProgress' = InProgress \cup {n}
  <2>1. /\ InProgress = {calls[i].name : i \in Frames}
        /\ InProgress' = {calls'[i].name : i \in Frames'}
    BY DEF InProgress, Frames
  <2> QED BY <1>6, <1>7, <1>8, <2>1
<1>11. Covered' = Covered \cup {n}
  BY <1>9, <1>10 DEF Covered
<1>12. n \notin InProgress /\ \A i \in Frames : calls[i].name # n
  BY <1>1 DEF Circular, InProgress, Frames
<1>13. \A i \in 1..k : WantedBy(i)' = WantedBy(i)
  BY <1>1, <1>5, <1>7 DEF WantedBy, DependenciesOf, Direct
<1>14. WantedBy(k + 1)' = DependenciesOf(n, v)
  <2>1. calls'[k + 1].name = n /\ calls'[k + 1].version = v /\ k + 1 > 1
    BY <1>5, <1>6, <1>7
  <2>2. WantedBy(k + 1)' = DependenciesOf(calls'[k + 1].name, calls'[k + 1].version)
    BY <1>1, <2>1 DEF WantedBy, DependenciesOf
  <2> QED BY <2>1, <2>2
<1>15. Underway /\ Underway'
  BY <1>1 DEF Underway, Visiting
<1>16. PackagesTypeOK'
  <2>1. resolved' \in [DOMAIN resolved' -> ResolvedPackage] /\ DOMAIN resolved' \subseteq Names
    BY <1>1, <1>9 DEF Restrict, ResolverInv, PackagesTypeOK
  <2>2. backtracks' \in 0..BacktrackLimit
    <3>1. backtracks \in Nat /\ backtracks <= BacktrackLimit /\ BacktrackLimit \in Nat
      BY PackagesAssumption DEF ResolverInv, PackagesTypeOK
    <3> QED BY <1>1, <3>1 DEF ChooseVersion, Erases
  <2>3. erased' \in BOOLEAN
    BY <1>1 DEF ResolverInv, PackagesTypeOK, IsResolved
  <2> QED BY <1>1, <1>7, <2>1, <2>2, <2>3, AsksFacts
          DEF ChooseVersion, Resolves, project, installation, PackagesTypeOK, ResolverInv
<1>18. StackInv'
  <2>1. calls' # <<>> /\ mode' = "resolving"
    BY <1>1, <1>5, <1>7 DEF Visiting
  <2>2. \A i \in Frames' : calls'[i].name \in Names /\ calls'[i].name \notin DOMAIN resolved'
    BY <1>2, <1>6, <1>7, <1>8, <1>9 DEF ResolverInv, StackInv
  <2>3. \A i, j \in Frames' : calls'[i].name = calls'[j].name => i = j
    <3> SUFFICES ASSUME NEW i \in Frames', NEW j \in Frames', calls'[i].name = calls'[j].name
                 PROVE  i = j
      OBVIOUS
    <3>1. calls'[k + 1].name = n
      BY <1>6, <1>7
    <3>2. \A l \in Frames : calls'[l].name # n /\ calls'[l].name = calls[l].name
      BY <1>8, <1>12
    <3>3. (i \in Frames \/ i = k + 1) /\ (j \in Frames \/ j = k + 1)
      BY <1>8
    <3>4. \A l, m \in Frames : calls[l].name = calls[m].name => l = m
      BY DEF ResolverInv, StackInv
    <3> QED BY <3>1, <3>2, <3>3, <3>4
  <2> QED BY <2>1, <2>2, <2>3 DEF StackInv
<1>19. TargetsInv'
  <2>1. \A d \in Range(calls[1].todo) : d \in Range(calls'[1].todo) \/ d.name = n
    <3>1. 1 \in 1..k
      BY <1>5
    <3> QED BY <1>5, <1>7, <3>1
  <2> QED BY <1>1, <1>11, <2>1 DEF TargetsInv, ResolverInv, Visiting
<1>20. CoveredInv'
  <2>1. \A i \in 1..k : \A d \in Range(WantedBy(i)) :
            d \in Range(calls'[i].todo) \/ d.name \in Covered'
    BY <1>5, <1>7, <1>11, <1>15 DEF CoveredInv, ResolverInv
  <2>2. ASSUME NEW i \in 1..Len(calls'), NEW d \in Range(WantedBy(i)')
        PROVE  d \in Range(calls'[i].todo) \/ d.name \in Covered'
    <3>1. CASE i = k + 1
      BY <1>6, <1>7, <1>14, <2>2, <3>1
    <3>2. CASE i # k + 1
      <4>1. i \in 1..k
        BY <1>5, <1>7, <2>2, <3>2
      <4> QED BY <1>13, <2>1, <2>2, <4>1
    <3> QED BY <3>1, <3>2
  <2>3. ASSUME NEW m \in DOMAIN resolved', m \notin switched'
        PROVE  \A d \in Range(DependenciesOf(m, resolved[m].version)') : d.name \in Covered'
    <3>1. m \in DOMAIN resolved \ switched /\ resolved'[m] = resolved[m] /\ published' = published
      BY <1>1, <1>9, <2>3
    <3>2. DependenciesOf(m, resolved[m].version)' = DependenciesOf(m, resolved[m].version)
      BY <3>1 DEF DependenciesOf
    <3> QED BY <1>11, <1>15, <3>1, <3>2 DEF CoveredInv, ResolverInv
  <2> QED BY <2>2, <2>3 DEF CoveredInv
<1>21. ASSUME ~erased' PROVE n \notin Covered /\ ~erased /\ DOMAIN resolved' = DOMAIN resolved
  BY <1>1, <1>9, <1>12, <1>21 DEF Covered, IsResolved
<1>22. AskedInv'
  <2> SUFFICES ASSUME ~erased' PROVE AskedInv'
    BY DEF AskedInv
  <2>1. /\ \A m \in Names \ Covered : asked[m] = {}
        /\ \A m \in DOMAIN resolved : \A c \in asked[m] : Satisfies(resolved[m].version, c)
        /\ \A i \in Frames : \A c \in asked[calls[i].name] : Satisfies(calls[i].version, c)
    BY <1>15, <1>21 DEF AskedInv, ResolverInv
  <2>2. \A m \in Names : m # n => asked'[m] = asked[m]
    BY <1>1, AsksFacts
  <2>3. asked'[n] = {Dependency.con}
    BY <1>1, <1>2, <1>21, <2>1, AsksFacts
  <2>4. \A m \in Names \ Covered' : asked'[m] = {}
    BY <1>11, <2>1, <2>2
  <2>5. \A m \in DOMAIN resolved' : m \in Names /\ m # n
    BY <1>9 DEF ResolverInv, PackagesTypeOK
  <2>6. \A m \in DOMAIN resolved' : \A c \in asked'[m] : Satisfies(resolved'[m].version, c)
    BY <1>9, <2>1, <2>2, <2>5
  <2>7. ASSUME NEW i \in Frames'
        PROVE  \A c \in asked'[calls'[i].name] : Satisfies(calls'[i].version, c)
    <3>1. CASE i = k + 1
      BY <1>2, <1>6, <1>7, <2>3, <3>1
    <3>2. CASE i # k + 1
      <4>1. /\ i \in Frames
            /\ calls'[i].name = calls[i].name /\ calls'[i].version = calls[i].version
            /\ calls[i].name # n /\ calls[i].name \in Names
        BY <1>8, <1>12, <2>7, <3>2 DEF ResolverInv, StackInv
      <4> QED BY <2>1, <2>2, <4>1
    <3> QED BY <3>1, <3>2
  <2> QED BY <2>4, <2>6, <2>7 DEF AskedInv
<1>23. OrderInv'
  <2> SUFFICES ASSUME ~erased' PROVE OrderInv'
    BY DEF OrderInv
  <2>1. /\ \A m \in DOMAIN resolved : resolved[m].deps \subseteq DOMAIN resolved
        /\ \A X \in SUBSET DOMAIN resolved : X # {} => \E m \in X : resolved[m].deps \cap X = {}
        /\ \A i \in Frames : \A d \in Range(WantedBy(i)) :
            \/ d \in Range(calls[i].todo) \/ d.name \in DOMAIN resolved
            \/ i < k /\ d.name = calls[i + 1].name
    BY <1>15, <1>21 DEF OrderInv, ResolverInv
  <2>2. DOMAIN resolved' = DOMAIN resolved /\ \A m \in DOMAIN resolved : resolved'[m] = resolved[m]
    BY <1>9, <1>21
  <2>3. \A m \in DOMAIN resolved' : resolved'[m].deps \subseteq DOMAIN resolved'
    BY <2>1, <2>2
  <2>4. \A X \in SUBSET DOMAIN resolved' : X # {} => \E m \in X : resolved'[m].deps \cap X = {}
    <3> SUFFICES ASSUME NEW X \in SUBSET DOMAIN resolved, X # {}
                 PROVE  \E m \in X : resolved'[m].deps \cap X = {}
      BY <2>2
    <3>1. PICK m \in X : resolved[m].deps \cap X = {}
      BY <2>1
    <3> QED BY <2>2, <3>1
  <2>5. ASSUME NEW i \in Frames', NEW d \in Range(WantedBy(i)')
        PROVE  \/ d \in Range(calls'[i].todo) \/ d.name \in DOMAIN resolved'
               \/ i < Len(calls') /\ d.name = calls'[i + 1].name
    <3>1. CASE i = k + 1
      BY <1>6, <1>7, <1>14, <2>5, <3>1
    <3>2. CASE i # k + 1
      <4>1. i \in Frames /\ i \in 1..k /\ d \in Range(WantedBy(i)) /\ i < k + 1
        BY <1>5, <1>8, <1>13, <2>5, <3>2
      <4>2. CASE d \in Range(calls[i].todo)
        <5>1. CASE d \in Range(Passed[i].todo)
          BY <1>7, <4>1, <5>1
        <5>2. CASE i = k /\ d = Dependency
          BY <1>6, <1>7, <4>1, <5>2
        <5> QED BY <1>5, <4>1, <4>2, <5>1, <5>2
      <4>3. CASE i < k /\ d.name = calls[i + 1].name
        <5>1. i + 1 \in 1..k /\ i < Len(calls')
          BY <1>5, <1>7, <4>1, <4>3
        <5> QED BY <1>5, <1>7, <4>3, <5>1
      <4> QED BY <2>1, <2>2, <4>1, <4>2, <4>3
    <3> QED BY <3>1, <3>2
  <2> QED BY <2>3, <2>4, <2>5 DEF OrderInv
<1> QED BY <1>16, <1>18, <1>19, <1>20, <1>22, <1>23 DEF ResolverInv

\* The levels of the lock file, from the dependencies up.
Levels(f) ==
    f = [i \in 0..Cardinality(Names) |->
            IF i = 0 THEN {}
            ELSE {n \in DOMAIN resolved : resolved[n].deps \cap DOMAIN resolved \subseteq f[i - 1]}]

\* The order of the lock file is the last level.
LEMMA OrderIsLevel == LockOrder = (CHOOSE f : Levels(f))[Cardinality(Names)]
  BY DEF LockOrder, Levels

\* There are such levels: one is built on the other.
LEMMA LevelsExist == Levels(CHOOSE f : Levels(f))
<1> DEFINE Step(f, i) ==
               IF i = 0 THEN {}
               ELSE {n \in DOMAIN resolved :
                       resolved[n].deps \cap DOMAIN resolved \subseteq f[i - 1]}
           Good == {n \in Nat : \E f : f = [i \in 0..n |-> Step(f, i)]}
<1>1. 0 \in Good
  <2> DEFINE f == [i \in 0..0 |-> {}]
  <2>1. f = [i \in 0..0 |-> Step(f, i)]
    OBVIOUS
  <2> HIDE DEF f
  <2>2. \E g : g = [i \in 0..0 |-> Step(g, i)]
    BY <2>1
  <2> QED BY <2>2
<1>2. ASSUME NEW n \in Nat, n \in Good PROVE n + 1 \in Good
  <2>1. PICK f : f = [i \in 0..n |-> Step(f, i)]
    BY <1>2
  <2> DEFINE h == [i \in 0..n + 1 |-> Step(f, i)]
  <2>2. ASSUME NEW i \in 0..n + 1 PROVE Step(f, i) = Step(h, i)
    <3>1. CASE i = 0
      BY <3>1
    <3>2. CASE i # 0
      <4>1. i - 1 \in 0..n /\ i - 1 \in 0..n + 1
        BY <3>2
      <4>2. f[i - 1] = Step(f, i - 1) /\ h[i - 1] = Step(f, i - 1)
        <5> HIDE DEF Step
        <5> QED BY <2>1, <4>1
      <4> QED BY <4>2, <3>2
    <3> QED BY <3>1, <3>2
  <2>3. h = [i \in 0..n + 1 |-> Step(h, i)]
    <3> HIDE DEF Step
    <3> QED BY <2>2
  <2>4. \E g : g = [i \in 0..n + 1 |-> Step(g, i)]
    <3> HIDE DEF h
    <3> QED BY <2>3
  <2> HIDE DEF Step
  <2>5. n + 1 \in Nat
    OBVIOUS
  <2> QED BY <2>4, <2>5, Zenon
<1>3. Cardinality(Names) \in Good
  <2>1. Cardinality(Names) \in Nat
    BY PackagesAssumption, FS_CardinalityType
  <2> HIDE DEF Good
  <2> QED BY <1>1, <1>2, <2>1, Induct
<1>4. \E f : Levels(f)
  BY <1>3 DEF Levels
<1> QED BY <1>4

\* What the lock file has is resolved; and where no cycle is, it has everything:
\* a level that is not all of it is less than the next one.
LEMMA LockOrderFacts ==
    ASSUME PackagesTypeOK
    PROVE  /\ LockOrder \subseteq DOMAIN resolved
           /\ (\A X \in SUBSET DOMAIN resolved :
                  X # {} => \E n \in X : resolved[n].deps \cap X = {})
                => LockOrder = DOMAIN resolved
<1> DEFINE D == DOMAIN resolved
           K == Cardinality(Names)
           f == CHOOSE f : Levels(f)
<1>1. K \in Nat /\ D \subseteq Names
  BY PackagesAssumption, FS_CardinalityType DEF PackagesTypeOK
<1>2. \A i \in 0..K :
         f[i] = IF i = 0 THEN {} ELSE {n \in D : resolved[n].deps \cap D \subseteq f[i - 1]}
  <2>1. Levels(f)
    BY LevelsExist
  <2> HIDE DEF f
  <2> QED BY <2>1 DEF Levels
<1>3. LockOrder = f[K]
  BY OrderIsLevel
<1> HIDE DEF f, K
<1>4. f[0] = {} /\ \A i \in 0..K : f[i] \subseteq D
  <2>1. 0 \in 0..K
    BY <1>1
  <2> QED BY <1>2, <2>1
<1>5. \A i \in Nat : i + 1 <= K =>
         f[i + 1] = {n \in D : resolved[n].deps \cap D \subseteq f[i]}
  <2> SUFFICES ASSUME NEW i \in Nat, i + 1 <= K
               PROVE  f[i + 1] = {n \in D : resolved[n].deps \cap D \subseteq f[i]}
    OBVIOUS
  <2>1. i + 1 \in 0..K /\ i + 1 # 0 /\ (i + 1) - 1 = i
    BY <1>1
  <2> QED BY <1>2, <2>1
<1>6. K \in 0..K
  BY <1>1
<1>7. ASSUME \A X \in SUBSET D : X # {} => \E n \in X : resolved[n].deps \cap X = {}
      PROVE  f[K] = D
  <2> DEFINE Mono == {i \in Nat : i + 1 <= K => f[i] \subseteq f[i + 1]}
             Grow == {i \in Nat : i <= K => f[i] = D \/ Cardinality(f[i]) >= i}
  <2>1. 0 \in Mono
    BY <1>4
  <2>2. ASSUME NEW i \in Nat, i \in Mono PROVE i + 1 \in Mono
    <3> SUFFICES ASSUME (i + 1) + 1 <= K PROVE f[i + 1] \subseteq f[(i + 1) + 1]
      OBVIOUS
    <3>1. i + 1 \in Nat /\ i + 1 <= K
      BY <1>1
    <3>2. f[i] \subseteq f[i + 1]
      BY <2>2, <3>1
    <3>3. /\ f[i + 1] = {n \in D : resolved[n].deps \cap D \subseteq f[i]}
          /\ f[(i + 1) + 1] = {n \in D : resolved[n].deps \cap D \subseteq f[i + 1]}
      BY <1>5, <3>1
    <3> QED BY <3>2, <3>3
  <2>3. \A i \in Nat : i \in Mono
    <3> HIDE DEF Mono
    <3> QED BY <2>1, <2>2, Induct
  <2>4. 0 \in Grow
    BY <1>4, FS_EmptySet
  <2>5. ASSUME NEW i \in Nat, i \in Grow PROVE i + 1 \in Grow
    <3> SUFFICES ASSUME i + 1 <= K, f[i + 1] # D PROVE Cardinality(f[i + 1]) >= i + 1
      OBVIOUS
    <3>1. i \in 0..K /\ i + 1 \in 0..K
      BY <1>1
    <3>2. f[i] \subseteq f[i + 1] /\ f[i + 1] \subseteq D /\ f[i] # D
      BY <1>4, <2>3, <3>1
    <3>3. Cardinality(f[i]) >= i
      BY <2>5, <3>1, <3>2
    <3>4. PICK n \in D \ f[i] : resolved[n].deps \cap (D \ f[i]) = {}
      <4>1. D \ f[i] # {} /\ D \ f[i] \in SUBSET D
        BY <1>4, <3>1, <3>2
      <4> QED BY <1>7, <4>1
    <3>5. n \in f[i + 1]
      <4>1. resolved[n].deps \cap D \subseteq f[i]
        BY <3>4
      <4> QED BY <1>5, <3>4, <4>1
    <3>6. IsFiniteSet(f[i + 1]) /\ IsFiniteSet(f[i])
      BY <1>1, <3>2, PackagesAssumption, FS_Subset
    <3>7. f[i] \cup {n} \subseteq f[i + 1] /\ n \notin f[i]
      BY <3>2, <3>4, <3>5
    <3>8. /\ Cardinality(f[i] \cup {n}) = Cardinality(f[i]) + 1
          /\ Cardinality(f[i]) \in Nat /\ Cardinality(f[i + 1]) \in Nat
      BY <3>6, <3>7, FS_AddElement, FS_CardinalityType
    <3>9. Cardinality(f[i] \cup {n}) <= Cardinality(f[i + 1])
      BY <3>6, <3>7, FS_Subset
    <3> QED BY <3>3, <3>8, <3>9
  <2>6. K \in Grow
    <3> HIDE DEF Grow
    <3> QED BY <1>1, <2>4, <2>5, Induct
  <2>7. CASE f[K] # D
    <3>1. Cardinality(f[K]) >= Cardinality(Names)
      BY <1>1, <2>6, <2>7 DEF K
    <3>2. f[K] \subseteq Names /\ IsFiniteSet(Names) /\ f[K] \subseteq D
      BY <1>1, <1>4, <1>6, PackagesAssumption
    <3>3. /\ Cardinality(f[K]) <= Cardinality(Names)
          /\ Cardinality(f[K]) = Cardinality(Names) => f[K] = Names
      BY <3>2, FS_Subset
    <3>4. Cardinality(f[K]) \in Nat /\ Cardinality(Names) \in Nat
      BY <3>2, FS_Subset, FS_CardinalityType
    <3>5. f[K] = Names
      BY <3>1, <3>3, <3>4
    <3> QED BY <1>1, <2>7, <3>2, <3>5
  <2> QED BY <2>7
<1> QED BY <1>3, <1>4, <1>6, <1>7

\* A package that is resolved has what it needs, and is needed by none resolved before.
LEMMA FinishPackageInv ==
    ASSUME ResolverInv, FinishPackage
    PROVE  ResolverInv'
<1> PICK k : k = Len(calls)
  OBVIOUS
<1> PICK n : n = calls[k].name
  OBVIOUS
<1> PICK v : v = calls[k].version
  OBVIOUS
<1> PICK needs : needs = DependenciesOf(n, v)
  OBVIOUS
<1>1. /\ mode = "resolving" /\ calls[k].todo = <<>> /\ k > 1 /\ k \in Nat
      /\ calls \in Seq(Visit) /\ calls' = SubSeq(calls, 1, k - 1)
      /\ mode' = mode /\ asked' = asked /\ erased' = erased /\ switched' = switched
      /\ UNCHANGED <<published, manifest, lock, op, remaining>>
  BY DEF FinishPackage, Top, Resolves, project, installation, ResolverInv, PackagesTypeOK
<1>2. resolved' = [m \in DOMAIN resolved \cup {n} |->
                     IF m = n
                     THEN [version |-> v, source |-> calls[k].source,
                           deps |-> {d.name : d \in Range(DependenciesOf(m, v))}]
                     ELSE resolved[m]]
  BY DEF FinishPackage, Top
<1>3. /\ k \in Frames /\ n \in Names /\ n \notin DOMAIN resolved
      /\ v \in Version /\ calls[k].source \in Origins
  <2>1. k \in Frames /\ calls[k] \in Visit
    BY <1>1 DEF Frames
  <2>2. v \in Version /\ calls[k].source \in Origins
    BY <2>1 DEF Visit
  <2> QED BY <2>1, <2>2 DEF ResolverInv, StackInv
<1>4. /\ DOMAIN resolved' = DOMAIN resolved \cup {n}
      /\ \A m \in DOMAIN resolved : resolved'[m] = resolved[m]
      /\ resolved'[n].version = v
      /\ resolved'[n].deps = {d.name : d \in Range(needs)}
      /\ resolved'[n].source = calls[k].source
  BY <1>2, <1>3
<1>5. needs \in Seq(Requirement) /\ \A d \in Range(needs) : d.name \in Names
  <2>1. needs \in Seq(Requirement)
    BY DependenciesType DEF ResolverInv
  <2>2. \A j \in DOMAIN needs : needs[j] \in Requirement
    BY <2>1
  <2>3. \A d \in Range(needs) : d \in Requirement
    BY <2>2 DEF Range
  <2> QED BY <2>1, <2>3 DEF Requirement
<1>6. /\ calls' \in Seq(Visit) /\ Len(calls') = k - 1 /\ calls' # <<>>
      /\ \A i \in 1..k - 1 : calls'[i] = calls[i]
  <2>1. k - 1 \in Nat /\ k - 1 <= Len(calls) /\ k - 1 >= 1 /\ k = Len(calls)
    BY <1>1
  <2>2. calls' \in Seq(Visit) /\ Len(calls') = k - 1
    BY <1>1, <2>1
  <2>3. \A i \in 1..k - 1 : calls'[i] = calls[i]
    BY <1>1, <2>1
  <2> QED BY <2>1, <2>2, <2>3
<1>7. Frames = Frames' \cup {k} /\ Frames' = 2..k - 1 /\ k \notin Frames'
  BY <1>1, <1>6 DEF Frames
<1>8. InProgress = InProgress' \cup {n}
  <2>1. /\ InProgress = {calls[i].name : i \in Frames}
        /\ InProgress' = {calls'[i].name : i \in Frames'}
    BY DEF InProgress, Frames
  <2>2. \A i \in Frames' : calls'[i].name = calls[i].name
    BY <1>6, <1>7
  <2> QED BY <1>7, <2>1, <2>2
<1>9. Covered' = Covered
  BY <1>4, <1>8 DEF Covered
<1>10. \A i \in 1..k - 1 : WantedBy(i)' = WantedBy(i)
  BY <1>1, <1>6 DEF WantedBy, DependenciesOf, Direct
<1>11. WantedBy(k) = needs
  BY <1>1 DEF WantedBy
<1>12. Underway /\ Underway'
  BY <1>1 DEF Underway
<1>13. Range(calls[k].todo) = {}
  BY <1>1 DEF Range
<1>14. PackagesTypeOK'
  <2>1. resolved' \in [DOMAIN resolved' -> ResolvedPackage]
    <3>1. [version |-> v, source |-> calls[k].source,
           deps |-> {d.name : d \in Range(needs)}] \in ResolvedPackage
      BY <1>3, <1>5 DEF ResolvedPackage
    <3>2. resolved \in [DOMAIN resolved -> ResolvedPackage]
      BY DEF ResolverInv, PackagesTypeOK
    <3> QED BY <1>2, <3>1, <3>2
  <2>2. DOMAIN resolved' \subseteq Names
    BY <1>3, <1>4 DEF ResolverInv, PackagesTypeOK
  <2> QED BY <1>6, <2>1, <2>2
          DEF FinishPackage, Resolves, project, installation, PackagesTypeOK, ResolverInv
<1>16. StackInv'
  <2>1. \A i \in Frames' : calls'[i].name = calls[i].name /\ i \in Frames /\ i # k
    BY <1>6, <1>7
  <2>2. /\ \A i \in Frames : calls[i].name \in Names /\ calls[i].name \notin DOMAIN resolved
        /\ \A i, j \in Frames : calls[i].name = calls[j].name => i = j
    BY DEF ResolverInv, StackInv
  <2>3. \A i \in Frames' : calls'[i].name \in Names /\ calls'[i].name \notin DOMAIN resolved'
    BY <1>3, <1>4, <2>1, <2>2
  <2>4. \A i, j \in Frames' : calls'[i].name = calls'[j].name => i = j
    BY <2>1, <2>2
  <2> QED BY <1>1, <1>6, <2>3, <2>4 DEF StackInv
<1>17. TargetsInv'
  <2>1. calls'[1] = calls[1]
    BY <1>1, <1>6
  <2> QED BY <1>1, <1>9, <2>1 DEF TargetsInv, ResolverInv
<1>18. CoveredInv'
  <2>1. \A i \in 1..k : \A d \in Range(WantedBy(i)) :
            d \in Range(calls[i].todo) \/ d.name \in Covered
    BY <1>12 DEF CoveredInv, ResolverInv
  <2>2. ASSUME NEW i \in 1..Len(calls'), NEW d \in Range(WantedBy(i)')
        PROVE  d \in Range(calls'[i].todo) \/ d.name \in Covered'
    <3>1. i \in 1..k - 1 /\ i \in 1..k
      BY <1>1, <1>6
    <3> QED BY <1>6, <1>9, <1>10, <2>1, <2>2, <3>1
  <2>3. \A d \in Range(needs) : d.name \in Covered
    BY <1>1, <1>11, <1>13, <2>1
  <2>4. ASSUME NEW m \in DOMAIN resolved', m \notin switched'
        PROVE  \A d \in Range(DependenciesOf(m, resolved[m].version)') : d.name \in Covered'
    <3>1. DependenciesOf(m, resolved[m].version)' = DependenciesOf(m, resolved'[m].version)
      BY <1>1 DEF DependenciesOf
    <3>2. CASE m = n
      BY <1>4, <1>9, <2>3, <3>1, <3>2
    <3>3. CASE m # n
      <4>1. m \in DOMAIN resolved \ switched /\ resolved'[m] = resolved[m]
        BY <1>1, <1>4, <2>4, <3>3
      <4> QED BY <1>9, <1>12, <3>1, <4>1 DEF CoveredInv, ResolverInv
    <3> QED BY <3>2, <3>3
  <2> QED BY <2>2, <2>4 DEF CoveredInv
<1>19. AskedInv'
  <2> SUFFICES ASSUME ~erased' PROVE AskedInv'
    BY DEF AskedInv
  <2>1. /\ \A m \in Names \ Covered : asked[m] = {}
        /\ \A m \in DOMAIN resolved : \A c \in asked[m] : Satisfies(resolved[m].version, c)
        /\ \A i \in Frames : \A c \in asked[calls[i].name] : Satisfies(calls[i].version, c)
    BY <1>1, <1>12 DEF AskedInv, ResolverInv
  <2>2. \A m \in Names \ Covered' : asked'[m] = {}
    BY <1>1, <1>9, <2>1
  <2>3. \A c \in asked[n] : Satisfies(v, c)
    BY <1>3, <2>1
  <2>4. \A m \in DOMAIN resolved' : \A c \in asked'[m] : Satisfies(resolved'[m].version, c)
    BY <1>1, <1>4, <2>1, <2>3
  <2>5. \A i \in Frames' : \A c \in asked'[calls'[i].name] : Satisfies(calls'[i].version, c)
    <3> SUFFICES ASSUME NEW i \in Frames'
                 PROVE  \A c \in asked'[calls'[i].name] : Satisfies(calls'[i].version, c)
      OBVIOUS
    <3>1. i \in Frames /\ calls'[i] = calls[i]
      BY <1>6, <1>7
    <3> QED BY <1>1, <2>1, <3>1
  <2> QED BY <2>2, <2>4, <2>5 DEF AskedInv
<1>20. OrderInv'
  <2> SUFFICES ASSUME ~erased' PROVE OrderInv'
    BY DEF OrderInv
  <2> PICK D : D = DOMAIN resolved
    OBVIOUS
  <2>1. /\ \A m \in D : resolved[m].deps \subseteq D
        /\ \A X \in SUBSET D : X # {} => \E m \in X : resolved[m].deps \cap X = {}
        /\ \A i \in Frames : \A d \in Range(WantedBy(i)) :
            \/ d \in Range(calls[i].todo) \/ d.name \in D
            \/ i < k /\ d.name = calls[i + 1].name
    BY <1>1, <1>12 DEF OrderInv, ResolverInv
  <2>2. resolved'[n].deps \subseteq D
    <3>1. \A d \in Range(needs) : d.name \in D
      BY <1>1, <1>3, <1>11, <1>13, <2>1
    <3> QED BY <1>4, <3>1
  <2>3. \A m \in D : resolved'[m].deps \subseteq D
    BY <1>4, <2>1
  <2>4. \A m \in DOMAIN resolved' : resolved'[m].deps \subseteq DOMAIN resolved'
    BY <1>4, <2>2, <2>3
  <2>5. ASSUME NEW X \in SUBSET DOMAIN resolved', X # {}
        PROVE  \E m \in X : resolved'[m].deps \cap X = {}
    <3>1. X \subseteq D \cup {n} /\ n \notin D
      BY <1>3, <1>4, <2>5
    <3>2. CASE X \cap D = {}
      <4>1. n \in X /\ X \subseteq {n}
        BY <2>5, <3>1, <3>2
      <4> QED BY <2>2, <3>1, <4>1
    <3>3. CASE X \cap D # {}
      <4>1. PICK m \in X \cap D : resolved[m].deps \cap (X \cap D) = {}
        BY <2>1, <3>3
      <4>2. resolved'[m].deps \subseteq D /\ resolved'[m].deps = resolved[m].deps
        BY <1>4, <2>3, <4>1
      <4>3. resolved'[m].deps \cap X = {}
        BY <4>1, <4>2
      <4> QED BY <4>1, <4>3
    <3> QED BY <3>2, <3>3
  <2>6. ASSUME NEW i \in Frames', NEW d \in Range(WantedBy(i)')
        PROVE  \/ d \in Range(calls'[i].todo) \/ d.name \in DOMAIN resolved'
               \/ i < Len(calls') /\ d.name = calls'[i + 1].name
    <3>1. i \in Frames /\ i \in 1..k - 1 /\ d \in Range(WantedBy(i)) /\ calls'[i] = calls[i]
      BY <1>6, <1>7, <1>10, <2>6
    <3>2. \/ d \in Range(calls[i].todo) \/ d.name \in D
          \/ i < k /\ d.name = calls[i + 1].name
      BY <2>1, <3>1
    <3>3. CASE d.name = calls[i + 1].name
      <4>1. CASE i + 1 = k
        BY <1>4, <3>3, <4>1
      <4>2. CASE i + 1 # k
        <5>1. i + 1 \in 1..k - 1 /\ i < k - 1
          BY <1>1, <3>1, <4>2
        <5> QED BY <1>6, <3>3, <5>1
      <4> QED BY <4>1, <4>2
    <3> QED BY <1>4, <3>1, <3>2, <3>3
  <2> QED BY <2>4, <2>5, <2>6 DEF OrderInv
<1> QED BY <1>14, <1>16, <1>17, <1>18, <1>19, <1>20 DEF ResolverInv

\* Where no resolution is under way there is little to keep.
LEMMA AtRest ==
    ASSUME PackagesTypeOK', ~Underway',
           Frames' = {} \/ (ResolverInv /\ calls' = calls /\ resolved' = resolved),
           mode' = "installing" => remaining' \subseteq DOMAIN resolved'
    PROVE  ResolverInv'
<1>1. \A i \in Frames' : calls'[i].name \in Names /\ calls'[i].name \notin DOMAIN resolved'
  BY DEF ResolverInv, StackInv, Frames
<1>2. \A i, j \in Frames' : calls'[i].name = calls'[j].name => i = j
  BY DEF ResolverInv, StackInv, Frames
<1>3. StackInv' /\ TargetsInv'
  BY <1>1, <1>2 DEF StackInv, TargetsInv, Underway
<1>4. CoveredInv' /\ AskedInv' /\ OrderInv'
  BY DEF CoveredInv, AskedInv, OrderInv
<1> QED BY <1>3, <1>4 DEF ResolverInv

\* A failed resolution leaves what it had.
LEMMA GiveUpInv ==
    ASSUME ResolverInv, GiveUp
    PROVE  ResolverInv'
<1>1. PackagesTypeOK'
  BY DEF GiveUp, Resolves, project, installation, resolution, ResolverInv, PackagesTypeOK
<1> QED BY <1>1, AtRest DEF GiveUp, resolution, Underway

\* A resolution that is done has nothing left in progress.
LEMMA FinishResolutionInv ==
    ASSUME ResolverInv, FinishResolution
    PROVE  ResolverInv'
<1>1. /\ mode = "resolving" /\ calls[1].todo = <<>> /\ Len(calls) = 1
      /\ mode' = IF op = "package" THEN "installing" ELSE "locking"
      /\ UNCHANGED <<published, manifest, strategy, lock, settled, dirs, tomls, records, op,
                     remaining, commands, calls, resolved, asked, backtracks, erased, switched>>
  BY DEF FinishResolution, Top, Resolves, resolution, project, installation
<1>2. PackagesTypeOK'
  BY <1>1 DEF ResolverInv, PackagesTypeOK
<1>4. Frames = {} /\ InProgress = {} /\ Covered = DOMAIN resolved
  <2>1. Frames = {}
    BY <1>1 DEF Frames
  <2>2. InProgress = {}
    BY <2>1 DEF InProgress, Frames
  <2> QED BY <2>1, <2>2 DEF Covered
<1>5. CASE op = "package"
  <2>1. remaining \subseteq DOMAIN resolved
    BY <1>1, <1>4, <1>5 DEF ResolverInv, TargetsInv, Range
  <2> QED BY <1>1, <1>2, <1>5, <2>1, AtRest DEF Underway
<1>6. CASE op # "package"
  <2>1. mode' = "locking" /\ Underway /\ Underway'
    BY <1>1, <1>6 DEF Underway
  <2>2. Frames' = Frames /\ InProgress' = InProgress /\ Covered' = Covered
    BY <1>1 DEF Frames, InProgress, Covered
  <2>3. \A i : WantedBy(i)' = WantedBy(i)
    BY <1>1 DEF WantedBy, DependenciesOf, Direct
  <2>4. \A n : DependenciesOf(n, resolved[n].version)' = DependenciesOf(n, resolved[n].version)
    BY <1>1 DEF DependenciesOf
  <2>5. StackInv'
    BY <1>1, <1>6, <2>1, <2>2 DEF ResolverInv, StackInv
  <2>6. TargetsInv'
    BY <2>1 DEF TargetsInv
  <2>7. CoveredInv'
    BY <1>1, <2>1, <2>2, <2>3, <2>4 DEF ResolverInv, CoveredInv
  <2>8. AskedInv'
    BY <1>1, <2>1, <2>2 DEF ResolverInv, AskedInv
  <2>9. OrderInv'
    BY <1>1, <2>1, <2>2, <2>3 DEF ResolverInv, OrderInv
  <2> QED BY <1>2, <2>5, <2>6, <2>7, <2>8, <2>9 DEF ResolverInv
<1> QED BY <1>5, <1>6

\* A resolution begins with the dependencies of the manifest, or with one package.
LEMMA BeginsInv ==
    ASSUME ResolverInv, NEW command \in Commands, NEW deps \in Seq(Requirement),
           NEW targets \in SUBSET Names, Begins(command, deps, targets),
           records' \in [DOMAIN records' -> {"cached", "installed", "failed"}],
           command # "package" => deps = Direct,
           command = "package" => \A n \in targets : \E d \in Range(deps) : d.name = n
    PROVE  ResolverInv'
<1>1. /\ commands < MaxCommands /\ commands' = commands + 1 /\ op' = command /\ mode' = "resolving"
      /\ calls' = <<[name |-> "root", version |-> V(0, 0, 0), source |-> "path", todo |-> deps]>>
      /\ resolved' = Nothing /\ asked' = [n \in Names |-> {}] /\ backtracks' = 0
      /\ erased' = FALSE /\ switched' = {} /\ remaining' = targets
      /\ UNCHANGED <<published, manifest, strategy, lock, settled, dirs, tomls>>
  BY DEF Begins, project
<1>2. DOMAIN resolved' = {} /\ resolved' \in [DOMAIN resolved' -> ResolvedPackage]
  BY <1>1 DEF Nothing
<1>3. Len(calls') = 1 /\ calls'[1].todo = deps /\ calls' # <<>> /\ Frames' = {} /\ InProgress' = {}
  BY <1>1 DEF Frames, InProgress
<1>4. Covered' = {}
  BY <1>2, <1>3 DEF Covered
<1>5. PackagesTypeOK'
  <2>1. calls' \in Seq(Visit)
    <3>1. [name |-> "root", version |-> V(0, 0, 0), source |-> "path", todo |-> deps] \in Visit
      BY DEF Visit, V, Version, Origins
    <3> QED BY <1>1, <3>1
  <2>2. commands' \in 0..MaxCommands /\ backtracks' \in 0..BacktrackLimit
    BY <1>1, PackagesAssumption DEF ResolverInv, PackagesTypeOK
  <2>3. asked' \in [Names -> SUBSET Constraint]
    BY <1>1
  <2> QED BY <1>1, <1>2, <2>1, <2>2, <2>3 DEF ResolverInv, PackagesTypeOK
<1>7. StackInv'
  BY <1>1, <1>3 DEF StackInv
<1>8. TargetsInv'
  BY <1>1, <1>3 DEF TargetsInv
<1>9. CoveredInv'
  <2>1. WantedBy(1)' = IF command = "package" THEN <<>> ELSE Direct
    BY <1>1 DEF WantedBy, Direct
  <2>2. \A d \in Range(WantedBy(1)') : d \in Range(calls'[1].todo)
    BY <1>3, <2>1 DEF Range
  <2>3. \A i \in 1..Len(calls') : i = 1
    BY <1>3
  <2> QED BY <1>2, <2>2, <2>3 DEF CoveredInv
<1>10. AskedInv'
  BY <1>1, <1>2, <1>3 DEF AskedInv
<1>11. OrderInv'
  BY <1>2, <1>3 DEF OrderInv
<1> QED BY <1>5, <1>7, <1>8, <1>9, <1>10, <1>11 DEF ResolverInv

\* The commands that resolve.
LEMMA CommandsInv ==
    ASSUME ResolverInv, Install \/ Update \/ InstallPackage
    PROVE  ResolverInv'
<1>1. Direct \in Seq(Requirement)
  BY MandatoryType DEF Direct, ResolverInv, PackagesTypeOK, Manifest
<1>2. Nothing \in [DOMAIN Nothing -> {"cached", "installed", "failed"}]
  BY DEF Nothing
<1>3. CASE Install
  BY <1>1, <1>2, <1>3, BeginsInv DEF Install, Commands
<1>4. CASE Update
  BY <1>1, <1>2, <1>4, BeginsInv DEF Update, Commands
<1>5. CASE InstallPackage
  <2>1. PICK e \in Edits : Begins("package", <<e.dep>>, {e.dep.name}) /\ records' = records
    BY <1>5 DEF InstallPackage
  <2>2. e.dep \in Requirement /\ e.dep.name \in Names
    BY PackagesAssumption DEF Requirement
  <2>3. <<e.dep>> \in Seq(Requirement) /\ e.dep \in Range(<<e.dep>>)
    BY <2>2 DEF Range
  <2>4. records' \in [DOMAIN records' -> {"cached", "installed", "failed"}]
    BY <2>1 DEF ResolverInv, PackagesTypeOK
  <2>5. \A n \in {e.dep.name} : \E d \in Range(<<e.dep>>) : d.name = n
    BY <2>3
  <2>6. "package" \in Commands /\ {e.dep.name} \in SUBSET Names
    BY <2>2 DEF Commands
  <2> PICK deps : deps = <<e.dep>>
    OBVIOUS
  <2> PICK targets : targets = {e.dep.name}
    OBVIOUS
  <2>7. /\ deps \in Seq(Requirement) /\ targets \in SUBSET Names
        /\ Begins("package", deps, targets)
    BY <2>1, <2>3, <2>6
  <2>8. \A n \in targets : \E d \in Range(deps) : d.name = n
    BY <2>5
  <2> QED BY <2>4, <2>6, <2>7, <2>8, BeginsInv
<1> QED BY <1>3, <1>4, <1>5

\* A lock of resolved packages pins their versions.
LEMMA LockOfType ==
    ASSUME ResolverInv, NEW ns \in SUBSET DOMAIN resolved
    PROVE  /\ DOMAIN LockOf(ns) = ns /\ ns \subseteq Names
           /\ LockOf(ns) \in [ns -> Locked]
<1>1. \A n \in ns : /\ LockOf(ns)[n].version = resolved[n].version
                    /\ LockOf(ns)[n].source = resolved[n].source
                    /\ resolved[n] \in ResolvedPackage /\ n \in Names
  BY DEF LockOf, ResolverInv, PackagesTypeOK
<1>2. \A n \in ns : [version |-> resolved[n].version, source |-> resolved[n].source] \in Locked
  BY <1>1 DEF ResolvedPackage, Locked
<1>3. LockOf(ns) \in [ns -> Locked]
  BY <1>2 DEF LockOf
<1>4. DOMAIN LockOf(ns) = ns
  BY DEF LockOf
<1> QED BY <1>1, <1>3, <1>4

\* The lock is written from what is resolved.
LEMMA WriteLockInv ==
    ASSUME ResolverInv, WriteLock
    PROVE  ResolverInv'
<1>1. /\ lock' = LockOf(LockOrder) /\ mode' = "installing" /\ remaining' = DOMAIN resolved
      /\ settled' = (~erased /\ switched = {} /\ InRegistry(resolved))
      /\ UNCHANGED <<published, manifest, strategy, dirs, tomls, records, op, calls, resolved,
                     asked, backtracks, erased, switched, commands>>
  BY DEF WriteLock, installation, resolution
<1>2. LockOrder \in SUBSET DOMAIN resolved
  BY LockOrderFacts DEF ResolverInv
<1>3. DOMAIN lock' \subseteq Names /\ lock' \in [DOMAIN lock' -> Locked]
  BY <1>1, <1>2, LockOfType
<1>4. PackagesTypeOK'
  <2>1. settled' \in BOOLEAN
    BY <1>1
  <2> QED BY <1>1, <1>3, <2>1 DEF ResolverInv, PackagesTypeOK
<1> QED BY <1>1, <1>4, AtRest DEF Underway

\* What goes into the cache has a name and a version.
LEMMA InstallInv ==
    ASSUME ResolverInv, InstallCached \/ InstallOne
    PROVE  ResolverInv'
<1>1. PICK n \in remaining, status \in {"cached", "installed", "failed"} :
         /\ mode = "installing" /\ Installs(n, status)
         /\ \/ UNCHANGED <<dirs, tomls>>
            \/ /\ dirs' = dirs \cup {<<n, resolved[n].version>>}
               /\ tomls' \subseteq tomls \cup {<<n, resolved[n].version>>}
  BY DEF InstallCached, InstallOne
<1>2. /\ remaining' = remaining \ {n}
      /\ records' = [m \in DOMAIN records \cup {n} |-> IF m = n THEN status ELSE records[m]]
      /\ UNCHANGED <<published, manifest, strategy, lock, settled, op, mode, calls, resolved,
                     asked, backtracks, erased, switched, commands>>
  BY <1>1 DEF Installs, project, resolution
<1>3. n \in DOMAIN resolved /\ <<n, resolved[n].version>> \in Names \X Version
  BY <1>1 DEF ResolverInv, TargetsInv, PackagesTypeOK, ResolvedPackage
<1>4. tomls' \subseteq dirs' /\ dirs' \subseteq Names \X Version
  BY <1>1, <1>3 DEF ResolverInv, PackagesTypeOK
<1>5. records' \in [DOMAIN records' -> {"cached", "installed", "failed"}]
  BY <1>2 DEF ResolverInv, PackagesTypeOK
<1>6. PackagesTypeOK'
  BY <1>2, <1>4, <1>5 DEF ResolverInv, PackagesTypeOK
<1>8. remaining' \subseteq DOMAIN resolved'
  BY <1>1, <1>2 DEF ResolverInv, TargetsInv
<1> QED BY <1>1, <1>2, <1>6, <1>8, AtRest DEF Underway

\* At the end of a command, or of the process, nothing is resolved any more.
LEMMA EndsInv ==
    ASSUME ResolverInv, Ends, settled' \in BOOLEAN, published' \subseteq DOMAIN Requires,
           records' \in [DOMAIN records' -> {"cached", "installed", "failed"}],
           DOMAIN lock' \subseteq Names, lock' \in [DOMAIN lock' -> Locked]
    PROVE  ResolverInv'
<1>1. /\ mode' = "idle" /\ calls' = <<>> /\ resolved' = Nothing
      /\ asked' = [n \in Names |-> {}] /\ backtracks' = 0 /\ erased' = FALSE
      /\ switched' = {} /\ remaining' = {}
      /\ UNCHANGED <<manifest, strategy, dirs, tomls, op, commands>>
  BY DEF Ends
<1>2. /\ DOMAIN resolved' = {} /\ resolved' \in [DOMAIN resolved' -> ResolvedPackage]
      /\ Frames' = {} /\ calls' \in Seq(Visit) /\ asked' \in [Names -> SUBSET Constraint]
      /\ 0 \in 0..BacktrackLimit
  BY <1>1, PackagesAssumption DEF Nothing, Frames
<1>3. PackagesTypeOK'
  BY <1>1, <1>2 DEF ResolverInv, PackagesTypeOK
<1> QED BY <1>1, <1>2, <1>3, AtRest DEF Underway

\* What a version reads as when its text is cut short is a version.
LEMMA CutVersionsType ==
    ASSUME NEW v \in Version
    PROVE  CutVersions(v) \subseteq Version
<1>1. \A k \in Nat : Beginnings(k) \subseteq Nat
  BY DEF Beginnings
<1>2. v.major \in Nat /\ v.minor \in Nat /\ v.patch \in Nat /\ v.pre \in Nat
  BY DEF Version
<1>3. \A k, l, n \in Nat : V(k, l, n) \in Version
  BY DEF V, Version
<1>4. \A t \in 1..v.pre : [v EXCEPT !.pre = t] \in Version
  BY <1>2 DEF Version
<1>5. \A k \in Nat : \A h \in Beginnings(k) : h \in Nat
  BY <1>1
<1>6. /\ {V(0, 0, 0), v} \subseteq Version
      /\ {V(h, 0, 0) : h \in Beginnings(v.major)} \subseteq Version
      /\ {V(v.major, h, 0) : h \in Beginnings(v.minor)} \subseteq Version
      /\ {V(v.major, v.minor, h) : h \in Beginnings(v.patch)} \subseteq Version
      /\ {[v EXCEPT !.pre = tag] : tag \in 1..v.pre} \subseteq Version
  BY <1>2, <1>3, <1>4, <1>5
<1> QED BY <1>6 DEF CutVersions

\* A lock file that was cut pins versions of packages, if not always those resolved.
LEMMA CutLockType ==
    ASSUME ResolverInv, CutLock
    PROVE  DOMAIN lock' \subseteq Names /\ lock' \in [DOMAIN lock' -> Locked]
<1>1. LockOrder \in SUBSET DOMAIN resolved
  BY LockOrderFacts DEF ResolverInv
<1>2. PICK ns \in SUBSET LockOrder :
         \/ lock' = LockOf(ns)
         \/ \E n \in LockOrder \ ns : \E p \in CutRecord(n) : lock' = WithCut(ns, p)
  BY DEF CutLock
<1>3. /\ DOMAIN LockOf(ns) = ns /\ ns \subseteq Names /\ LockOf(ns) \in [ns -> Locked]
  BY <1>1, LockOfType
<1>4. ASSUME NEW n \in LockOrder \ ns, NEW p \in CutRecord(n), lock' = WithCut(ns, p)
      PROVE  DOMAIN lock' \subseteq Names /\ lock' \in [DOMAIN lock' -> Locked]
  <2>1. n \in Names /\ resolved[n].version \in Version
    BY <1>1 DEF ResolverInv, PackagesTypeOK, ResolvedPackage
  <2>2. Shorter[n] \subseteq Names /\ V(0, 0, 0) \in Version
    BY <2>1, PackagesAssumption DEF V, Version
  <2>3. p[1] \in Names /\ p[2] \in Version
    BY <2>1, <2>2, CutVersionsType DEF CutRecord
  <2> PICK entry : entry = [version |-> p[2], source |-> "registry"]
    OBVIOUS
  <2>4. entry \in Locked
    BY <2>3 DEF Locked, Origins
  <2>5. lock' = [m \in ns \cup {p[1]} |-> IF m = p[1] THEN entry ELSE LockOf(ns)[m]]
    BY <1>4 DEF WithCut
  <2> QED BY <1>3, <2>3, <2>4, <2>5
<1> QED BY <1>2, <1>3, <1>4

\* The command is done, or the process ends.
LEMMA FinishInv ==
    ASSUME ResolverInv, Finish \/ Crash
    PROVE  ResolverInv'
<1>1. /\ settled \in BOOLEAN /\ published \subseteq DOMAIN Requires
      /\ records \in [DOMAIN records -> {"cached", "installed", "failed"}]
      /\ DOMAIN lock \subseteq Names /\ lock \in [DOMAIN lock -> Locked]
  BY DEF ResolverInv, PackagesTypeOK
<1>2. CASE Finish
  BY <1>1, <1>2, EndsInv DEF Finish
<1>3. CASE Crash
  <2>1. Ends /\ published' \in Registries /\ records' = Nothing
    BY <1>3 DEF Crash
  <2>2. /\ published' \subseteq DOMAIN Requires
        /\ records' \in [DOMAIN records' -> {"cached", "installed", "failed"}]
    BY <2>1, PackagesAssumption DEF Nothing
  <2>3. settled' \in BOOLEAN
    BY <1>1, <1>3 DEF Crash, InRegistry
  <2>4. DOMAIN lock' \subseteq Names /\ lock' \in [DOMAIN lock' -> Locked]
    BY <1>1, <1>3, CutLockType DEF Crash
  <2> QED BY <2>1, <2>2, <2>3, <2>4, EndsInv
<1> QED BY <1>2, <1>3

\* Other commands come between the resolutions.
LEMMA BetweenInv ==
    ASSUME ResolverInv, Between, manifest' \in Manifest, lock' = lock,
           published' \subseteq DOMAIN Requires,
           settled' \in BOOLEAN, tomls' \subseteq dirs', dirs' \subseteq Names \X Version,
           records' = records
    PROVE  ResolverInv'
<1>1. /\ mode \in {"idle", "failed"} /\ commands < MaxCommands /\ commands' = commands + 1
      /\ UNCHANGED <<strategy, op, mode, calls, resolved, asked, backtracks, erased, switched,
                     remaining>>
  BY DEF Between, resolution
<1>2. commands' \in 0..MaxCommands
  BY <1>1, PackagesAssumption DEF ResolverInv, PackagesTypeOK
<1>3. PackagesTypeOK'
  BY <1>1, <1>2 DEF ResolverInv, PackagesTypeOK
<1> QED BY <1>1, <1>3, AtRest DEF Underway

\* A manifest that is written and read again is one, whatever dependency it got.
LEMMA WrittenType ==
    ASSUME NEW m \in Manifest
    PROVE  Written(m) \in Manifest
<1> DEFINE plain(deps) == [i \in DOMAIN deps |-> [deps[i] EXCEPT !.optional = FALSE]]
<1>1. ASSUME NEW deps \in Seq(Requirement) PROVE plain(deps) \in Seq(Requirement)
  <2>1. \A i \in 1..Len(deps) : deps[i] \in Requirement
    OBVIOUS
  <2>2. \A r \in Requirement : [r EXCEPT !.optional = FALSE] \in Requirement
    BY DEF Requirement
  <2>3. DOMAIN deps = 1..Len(deps) /\ Len(deps) \in Nat
    OBVIOUS
  <2>4. plain(deps) \in [1..Len(deps) -> Requirement]
    BY <2>1, <2>2, <2>3
  <2> HIDE DEF plain
  <2> QED BY <2>3, <2>4
<1>2. m.normal \in Seq(Requirement) /\ m.dev \in Seq(Requirement)
  BY DEF Manifest
<1>3. plain(m.normal) \in Seq(Requirement) /\ plain(m.dev) \in Seq(Requirement)
  <2> HIDE DEF plain
  <2> QED BY <1>1, <1>2
<1>4. Written(m) = [normal |-> plain(m.normal), dev |-> plain(m.dev), build |-> <<>>]
  BY DEF Written
<1> HIDE DEF plain
<1> QED BY <1>3, <1>4 DEF Manifest

\* A dependency that is set is appended, or gives its constraint to one of its name.
LEMMA SetDependencyType ==
    ASSUME NEW deps \in Seq(Requirement), NEW d \in Requirement
    PROVE  SetDependency(deps, d) \in Seq(Requirement)
<1>1. CASE Places(deps, d.name) = {}
  BY <1>1 DEF SetDependency
<1>2. CASE Places(deps, d.name) # {}
  <2> DEFINE i == CHOOSE i \in Places(deps, d.name) : \A j \in Places(deps, d.name) : i <= j
  <2>1. SetDependency(deps, d) = [deps EXCEPT ![i].con = d.con]
    BY <1>2 DEF SetDependency
  <2> HIDE DEF i
  <2>2. [deps EXCEPT ![i].con = d.con] = [deps EXCEPT ![i] = [deps[i] EXCEPT !.con = d.con]]
    OBVIOUS
  <2>3. CASE i \in 1..Len(deps)
    <3>1. [deps[i] EXCEPT !.con = d.con] \in Requirement
      <4>1. deps[i] \in Requirement
        BY <2>3
      <4> QED BY <4>1 DEF Requirement
    <3> QED BY <2>1, <2>2, <2>3, <3>1
  <2>4. CASE i \notin 1..Len(deps)
    <3>1. [deps EXCEPT ![i] = [deps[i] EXCEPT !.con = d.con]] = deps
      BY <2>4
    <3> QED BY <2>1, <2>2, <3>1
  <2> QED BY <2>3, <2>4
<1> QED BY <1>1, <1>2

\* The commands that do not resolve.
LEMMA OthersInv ==
    ASSUME ResolverInv,
           PublishVersion \/ AddDependency \/ RemoveDependency \/ UpdatePackage \/ Clean
    PROVE  ResolverInv'
<1>1. /\ manifest \in Manifest /\ published \subseteq DOMAIN Requires /\ settled \in BOOLEAN
      /\ tomls \subseteq dirs /\ dirs \subseteq Names \X Version
  BY DEF ResolverInv, PackagesTypeOK
<1>2. CASE PublishVersion
  BY <1>1, <1>2, BetweenInv DEF PublishVersion, installation
<1>3. CASE AddDependency
  <2>1. PICK e \in Edits :
           /\ Rewrites([manifest EXCEPT ![e.kind] = SetDependency(@, e.dep)]) /\ Between
           /\ UNCHANGED <<published, lock, dirs, tomls, records>>
    BY <1>3 DEF AddDependency, installation
  <2>2. e.kind \in {"normal", "dev", "build"} /\ e.dep \in Requirement
    BY PackagesAssumption
  <2>3. manifest[e.kind] \in Seq(Requirement)
    BY <1>1, <2>2 DEF Manifest
  <2> PICK s : s = SetDependency(manifest[e.kind], e.dep)
    OBVIOUS
  <2>4. s \in Seq(Requirement)
    BY <2>2, <2>3, SetDependencyType
  <2>5. [manifest EXCEPT ![e.kind] = s] \in Manifest
    BY <1>1, <2>2, <2>4 DEF Manifest
  <2>6. manifest' = Written([manifest EXCEPT ![e.kind] = s]) /\ settled' = FALSE
    BY <2>1 DEF Rewrites
  <2>7. manifest' \in Manifest
    BY <2>5, <2>6, WrittenType
  <2> QED BY <1>1, <2>1, <2>6, <2>7, BetweenInv
<1>4. CASE RemoveDependency
  <2>1. PICK n \in Names :
           /\ \/ Rewrites([kind \in DOMAIN manifest |-> Without(manifest[kind], n)])
              \/ UNCHANGED <<manifest, settled>>
           /\ dirs' = {p \in dirs : p[1] # n} /\ tomls' = {p \in tomls : p[1] # n}
           /\ Between /\ UNCHANGED <<published, lock, records>>
    BY <1>4 DEF RemoveDependency
  <2>2. ASSUME NEW s \in Seq(Requirement) PROVE Without(s, n) \in Seq(Requirement)
    BY FilteredType DEF Without
  <2>3. [kind \in DOMAIN manifest |-> Without(manifest[kind], n)] \in Manifest
    <3>1. /\ DOMAIN manifest = {"normal", "dev", "build"}
          /\ manifest["normal"] \in Seq(Requirement) /\ manifest["dev"] \in Seq(Requirement)
          /\ manifest["build"] \in Seq(Requirement)
      BY <1>1 DEF Manifest
    <3>2. /\ Without(manifest["normal"], n) \in Seq(Requirement)
          /\ Without(manifest["dev"], n) \in Seq(Requirement)
          /\ Without(manifest["build"], n) \in Seq(Requirement)
      BY <2>2, <3>1
    <3>3. [kind \in DOMAIN manifest |-> Without(manifest[kind], n)]
             = [normal |-> Without(manifest["normal"], n), dev |-> Without(manifest["dev"], n),
                build |-> Without(manifest["build"], n)]
      BY <3>1
    <3> QED BY <3>2, <3>3 DEF Manifest
  <2>4. manifest' \in Manifest /\ settled' \in BOOLEAN
    BY <1>1, <2>1, <2>3, WrittenType DEF Rewrites
  <2>5. tomls' \subseteq dirs' /\ dirs' \subseteq Names \X Version
    BY <1>1, <2>1
  <2> QED BY <1>1, <2>1, <2>4, <2>5, BetweenInv
<1>5. CASE UpdatePackage
  <2>1. PICK n \in Names :
           /\ Versions(n) # {} /\ dirs' = dirs \cup {<<n, Newest(Versions(n))>>}
           /\ Between /\ UNCHANGED <<published, manifest, lock, settled, tomls, records>>
    BY <1>5 DEF UpdatePackage
  <2>2. Newest(Versions(n)) \in Versions(n)
    BY <2>1, VersionsType, Extremes DEF ResolverInv
  <2>3. <<n, Newest(Versions(n))>> \in published
    BY <2>2, VersionsType DEF ResolverInv
  <2>4. dirs' \subseteq Names \X Version /\ tomls' \subseteq dirs'
    BY <1>1, <2>1, <2>3, PackagesAssumption
  <2> QED BY <1>1, <2>1, <2>4, BetweenInv
<1>6. CASE Clean
  BY <1>1, <1>6, BetweenInv DEF Clean
<1> QED BY <1>2, <1>3, <1>4, <1>5, <1>6

\* At first nothing is resolved, and nothing is locked.
LEMMA PackagesInitInv == PackagesInit => ResolverInv
<1> SUFFICES ASSUME PackagesInit PROVE ResolverInv
  OBVIOUS
<1>1. /\ published \in Registries /\ manifest \in Manifests /\ strategy \in Strategies
      /\ lock = Nothing /\ settled = FALSE /\ dirs = {} /\ tomls = {} /\ records = Nothing
      /\ op = "install" /\ mode = "idle" /\ calls = <<>> /\ resolved = Nothing
      /\ asked = [n \in Names |-> {}] /\ backtracks = 0 /\ remaining = {} /\ commands = 0
      /\ erased = FALSE /\ switched = {}
  BY DEF PackagesInit
<1>2. DOMAIN Nothing = {} /\ \A S : Nothing \in [DOMAIN Nothing -> S]
  BY DEF Nothing
<1>3. Frames = {} /\ calls \in Seq(Visit) /\ asked \in [Names -> SUBSET Constraint]
  BY <1>1 DEF Frames
<1>4. PackagesTypeOK
  <2>1. /\ published \subseteq DOMAIN Requires /\ manifest \in Manifest
        /\ 0 \in 0..BacktrackLimit /\ 0 \in 0..MaxCommands
    BY <1>1, PackagesAssumption
  <2>2. /\ lock \in [DOMAIN lock -> Locked] /\ DOMAIN lock = {}
        /\ resolved \in [DOMAIN resolved -> ResolvedPackage] /\ DOMAIN resolved = {}
        /\ records \in [DOMAIN records -> {"cached", "installed", "failed"}]
    BY <1>1, <1>2
  <2> QED BY <1>1, <1>3, <2>1, <2>2 DEF PackagesTypeOK, Commands
<1>6. StackInv /\ TargetsInv
  BY <1>1, <1>3 DEF StackInv, TargetsInv, Underway
<1>7. CoveredInv /\ AskedInv /\ OrderInv
  BY <1>1 DEF CoveredInv, AskedInv, OrderInv, Underway
<1> QED BY <1>4, <1>6, <1>7 DEF ResolverInv

\* A step that changes nothing.
LEMMA PackagesStutters == ResolverInv /\ UNCHANGED pkgVars => ResolverInv'
<1> SUFFICES ASSUME ResolverInv, UNCHANGED pkgVars PROVE ResolverInv'
  OBVIOUS
<1>1. /\ UNCHANGED <<published, manifest, strategy, lock, dirs, tomls, records, op, mode>>
      /\ UNCHANGED <<calls, resolved, asked, backtracks, remaining, commands>>
      /\ UNCHANGED <<erased, switched, settled>>
  BY DEF pkgVars
<1>2. /\ Frames' = Frames /\ InProgress' = InProgress /\ Covered' = Covered
      /\ Underway' = Underway /\ \A i : WantedBy(i)' = WantedBy(i)
      /\ \A n : DependenciesOf(n, resolved[n].version)' = DependenciesOf(n, resolved[n].version)
  BY <1>1 DEF Frames, InProgress, Covered, Underway, WantedBy, DependenciesOf, Direct
<1>3. PackagesTypeOK' /\ StackInv' /\ TargetsInv'
  BY <1>1, <1>2 DEF ResolverInv, PackagesTypeOK, StackInv, TargetsInv
<1>4. CoveredInv'
  BY <1>1, <1>2 DEF ResolverInv, CoveredInv
<1>5. AskedInv'
  BY <1>1, <1>2 DEF ResolverInv, AskedInv
<1>6. OrderInv'
  BY <1>1, <1>2 DEF ResolverInv, OrderInv
<1> QED BY <1>3, <1>4, <1>5, <1>6 DEF ResolverInv

\* The calls under way are of different packages: there are not more than packages.
LEMMA StackIsShallow ==
    ASSUME PackagesTypeOK, StackInv
    PROVE  Len(calls) <= Cardinality(Names) + 1
<1> PICK k : k = Len(calls)
  OBVIOUS
<1>1. k \in Nat /\ Frames = 2..k
  BY DEF PackagesTypeOK, Frames
<1>2. PICK f : f = [i \in 2..k |-> calls[i].name]
  OBVIOUS
<1>3. f \in Injection(2..k, Names)
  <2>1. \A i \in 2..k : calls[i].name \in Names
    BY <1>1 DEF StackInv
  <2>2. \A i, j \in 2..k : calls[i].name = calls[j].name => i = j
    BY <1>1 DEF StackInv
  <2>3. f \in [2..k -> Names] /\ \A i, j \in 2..k : f[i] = f[j] => i = j
    BY <1>2, <2>1, <2>2
  <2> QED BY <2>3 DEF Injection, IsInjective
<1>4. Cardinality(2..k) <= Cardinality(Names)
  BY <1>3, PackagesAssumption, FS_Injection
<1>5. IsFiniteSet(Names) /\ Cardinality(Names) \in Nat
  BY PackagesAssumption, FS_CardinalityType
<1>6. Cardinality(2..k) = IF 2 > k THEN 0 ELSE k - 2 + 1
  <2>1. 2 \in Int /\ k \in Int
    BY <1>1
  <2> QED BY <2>1, FS_Interval, Zenon
<1> QED BY <1>1, <1>4, <1>5, <1>6

\* A resolution that is done leaves out none of the dependencies, and what was not
\* erased meets the constraints and has an order.
LEMMA InvIsSound == ResolverInv => ResolutionSound
<1>0. ResolverInv => Len(calls) <= Cardinality(Names) + 1
  BY StackIsShallow DEF ResolverInv
<1> SUFFICES ASSUME ResolverInv, mode = "locking" PROVE ResolutionSound
  BY <1>0 DEF ResolutionSound
<1>1. Underway /\ Len(calls) = 1 /\ calls[1].todo = <<>> /\ op # "package"
  BY DEF Underway, ResolverInv, StackInv
<1>2. Covered = DOMAIN resolved /\ Range(calls[1].todo) = {} /\ WantedBy(1) = Direct
  <2>1. InProgress = {}
    BY <1>1 DEF InProgress
  <2>2. Range(calls[1].todo) = {}
    BY <1>1 DEF Range
  <2> QED BY <1>1, <2>1, <2>2 DEF Covered, WantedBy
<1>3. \A d \in Range(Direct) : d.name \in DOMAIN resolved
  BY <1>1, <1>2 DEF ResolverInv, CoveredInv
<1>4. \A n \in DOMAIN resolved \ switched :
         \A d \in Range(DependenciesOf(n, resolved[n].version)) : d.name \in DOMAIN resolved
  BY <1>1, <1>2 DEF ResolverInv, CoveredInv
<1>5. ASSUME ~erased
      PROVE  /\ LockOrder = DOMAIN resolved
             /\ \A n \in DOMAIN resolved : \A c \in asked[n] : Satisfies(resolved[n].version, c)
  <2>1. \A X \in SUBSET DOMAIN resolved : X # {} => \E n \in X : resolved[n].deps \cap X = {}
    BY <1>1, <1>5 DEF ResolverInv, OrderInv
  <2>2. LockOrder = DOMAIN resolved
    BY <2>1, LockOrderFacts DEF ResolverInv
  <2> QED BY <1>1, <1>5, <2>2 DEF ResolverInv, AskedInv
<1> QED BY <1>0, <1>3, <1>4, <1>5 DEF ResolutionSound

\* Every step of the package manager keeps the invariant.
LEMMA PackagesStep == ResolverInv /\ [PackagesNext]_pkgVars => ResolverInv'
<1> SUFFICES ASSUME ResolverInv, [PackagesNext]_pkgVars PROVE ResolverInv'
  OBVIOUS
<1>1. CASE Install \/ Update \/ InstallPackage
  BY <1>1, CommandsInv
<1>2. CASE Resolving
  BY <1>2, AlreadyResolvedInv, SwitchVersionInv, ChooseVersionInv, FinishPackageInv, GiveUpInv,
     FinishResolutionInv DEF Resolving
<1>3. CASE WriteLock
  BY <1>3, WriteLockInv
<1>4. CASE InstallCached \/ InstallOne
  BY <1>4, InstallInv
<1>5. CASE Finish \/ Crash
  BY <1>5, FinishInv
<1>6. CASE PublishVersion \/ AddDependency \/ RemoveDependency \/ UpdatePackage \/ Clean
  BY <1>6, OthersInv
<1>7. CASE UNCHANGED pkgVars
  BY <1>7, PackagesStutters
<1> QED BY <1>1, <1>2, <1>3, <1>4, <1>5, <1>6, <1>7 DEF PackagesNext

\* A resolution that succeeds has a version for every dependency of the project, and of
\* every package that kept the version it was resolved with; without an erasure every
\* version meets every constraint and no cycle keeps a package out of the lock
\* (resolve_package, resolve_with_config, get_ordered_packages).
THEOREM ResolutionIsSound == PackagesSpec => []ResolutionSound
<1>1. PackagesSpec => []ResolverInv
  BY PackagesInitInv, PackagesStep, PTL DEF PackagesSpec
<1> QED BY <1>1, InvIsSound, PTL

\* A state of the resolver is a stack of calls c and what is resolved, r. The call
\* on top goes on to its next dependency.
Passes(c) == [c EXCEPT ![Len(c)].todo = Tail(@)]

\* The steps that a lock lk leaves no choice in: what is resolved will do, the pinned
\* version is taken, a package is done.
Keeps(c, r, c2, r2) ==
    LET d == Head(c[Len(c)].todo)
    IN  /\ d.name \in DOMAIN r /\ Satisfies(r[d.name].version, d.con)
        /\ c2 = Passes(c) /\ r2 = r

Pins(c, r, c2, r2, lk) ==
    LET d == Head(c[Len(c)].todo)
    IN  /\ d.name \notin DOMAIN r /\ d.name \in DOMAIN lk
        /\ Satisfies(lk[d.name].version, d.con)
        /\ c2 = Append(Passes(c),
                       [name |-> d.name, version |-> lk[d.name].version,
                        source |-> lk[d.name].source,
                        todo |-> Mandatory(Requires[<<d.name, lk[d.name].version>>])])
        /\ r2 = r

Completes(c, r, c2, r2) ==
    LET top == c[Len(c)]
    IN  /\ c2 = SubSeq(c, 1, Len(c) - 1)
        /\ r2 = [n \in DOMAIN r \cup {top.name} |->
                   IF n = top.name
                   THEN [version |-> top.version, source |-> top.source,
                         deps |-> {d.name : d \in Range(Mandatory(Requires[<<n, top.version>>]))}]
                   ELSE r[n]]

Leads(c, r, c2, r2, lk) ==
    \/ /\ c[Len(c)].todo # <<>> /\ Len(c) <= MaxDepth
       /\ Head(c[Len(c)].todo).name \notin {c[i].name : i \in 2..Len(c)}
       /\ Keeps(c, r, c2, r2) \/ Pins(c, r, c2, r2, lk)
    \/ c[Len(c)].todo = <<>> /\ Len(c) > 1 /\ Completes(c, r, c2, r2)

\* The states in S are those on the way that the lock lk gives from b to c and r.
Replays(S, lk, b, c, r) ==
    /\ <<b, Nothing>> \in S
    /\ \A c1, r1 : <<c1, r1>> \in S =>
          \/ c1 = c /\ r1 = r
          \/ \E c2, r2 : <<c2, r2>> \in S /\ Leads(c1, r1, c2, r2, lk)

\* A lock that pins what another one does, as that one does.
Agrees(lk, lk2) ==
    \A n \in DOMAIN lk :
       n \in DOMAIN lk2 /\ lk2[n].version = lk[n].version /\ lk2[n].source = lk[n].source

\* What one lock leads to, a lock that pins more leads to as well.
LEMMA AgreesLeads ==
    ASSUME NEW c, NEW r, NEW c2, NEW r2, NEW lk, NEW lk2,
           Agrees(lk, lk2), Leads(c, r, c2, r2, lk)
    PROVE  Leads(c, r, c2, r2, lk2)
<1>1. ASSUME Pins(c, r, c2, r2, lk) PROVE Pins(c, r, c2, r2, lk2)
  BY <1>1 DEF Pins, Agrees
<1> QED BY <1>1 DEF Leads

\* The way goes on: one step more, with a lock that pins what the step took.
LEMMA OneStepMore ==
    ASSUME NEW S, NEW lk, NEW b, NEW c, NEW r, NEW c2, NEW r2, NEW lk2,
           Replays(S, lk, b, c, r), Agrees(lk, lk2), Leads(c, r, c2, r2, lk2)
    PROVE  \E T : Replays(T, lk2, b, c2, r2)
<1> DEFINE T == S \cup {<<c2, r2>>}
<1>1. \A c1, r1 : <<c1, r1>> \in S =>
          \/ c1 = c /\ r1 = r
          \/ \E c3, r3 : <<c3, r3>> \in S /\ Leads(c1, r1, c3, r3, lk2)
  BY AgreesLeads DEF Replays
<1>2. ASSUME NEW c1, NEW r1, <<c1, r1>> \in T
      PROVE  \/ c1 = c2 /\ r1 = r2
             \/ \E c3, r3 : <<c3, r3>> \in T /\ Leads(c1, r1, c3, r3, lk2)
  <2>1. CASE <<c1, r1>> = <<c2, r2>>
    BY <2>1
  <2>2. CASE c1 = c /\ r1 = r
    BY <2>2
  <2> QED BY <1>1, <1>2, <2>1, <2>2
<1>3. <<b, Nothing>> \in T
  BY DEF Replays
<1>4. Replays(T, lk2, b, c2, r2)
  BY <1>2, <1>3 DEF Replays
<1> QED BY <1>4

\* The way stays one under a lock that pins more.
LEMMA AgreesReplays ==
    ASSUME NEW S, NEW lk, NEW b, NEW c, NEW r, NEW lk2,
           Replays(S, lk, b, c, r), Agrees(lk, lk2)
    PROVE  Replays(S, lk2, b, c, r)
  BY AgreesLeads DEF Replays

Beginning ==
    <<[name |-> "root", version |-> V(0, 0, 0), source |-> "path", todo |-> Direct]>>

\* A lock that pins what has been taken so far.
TakenIs(lk) ==
    /\ DOMAIN lk = Covered
    /\ \A n \in DOMAIN resolved :
          lk[n].version = resolved[n].version /\ lk[n].source = resolved[n].source
    /\ \A i \in Frames :
          /\ lk[calls[i].name].version = calls[i].version
          /\ lk[calls[i].name].source = calls[i].source

\* The registry has all that is resolved or being resolved.
AllRegistered ==
    InRegistry(resolved) /\ \A i \in Frames : <<calls[i].name, calls[i].version>> \in published

\* A resolution without conflicts, of what the registry has, is the one that what it
\* took leads to.
RunsInv ==
    Underway /\ op # "package" /\ ~erased /\ switched = {} /\ AllRegistered =>
        \E S, lk : Replays(S, lk, Beginning, calls, resolved) /\ TakenIs(lk)

\* Where a settled lock leads, from the manifest.
LeadsTo(S, c, r) ==
    /\ Replays(S, lock, Beginning, c, r)
    /\ Len(c) = 1 /\ c[1].todo = <<>>
    /\ DOMAIN r = DOMAIN lock /\ \A n \in DOMAIN lock : r[n].version = lock[n].version

\* An installation with a settled lock is on that way, and does not fail.
LockInv ==
    settled =>
        /\ InRegistry(lock)
        /\ \E S, c, r : /\ LeadsTo(S, c, r)
                        /\ op = "install" /\ Underway => <<calls, resolved>> \in S
        /\ op = "install" => mode # "failed" /\ (Underway => AllRegistered)

ReplayInv == ResolverInv /\ RunsInv /\ LockInv

\* What was published has the dependencies that its manifest says.
LEMMA PublishedDependencies ==
    ASSUME NEW n, NEW v, <<n, v>> \in published
    PROVE  DependenciesOf(n, v) = Mandatory(Requires[<<n, v>>])
  BY DEF DependenciesOf

\* A package that is resolved, as the way has it.
LEMMA FinishPackageCompletes ==
    ASSUME ResolverInv, FinishPackage, AllRegistered
    PROVE  Completes(calls, resolved, calls', resolved')
<1> DEFINE top == calls[Len(calls)]
<1>1. /\ calls' = SubSeq(calls, 1, Len(calls) - 1)
      /\ resolved' = [n \in DOMAIN resolved \cup {top.name} |->
                       IF n = top.name
                       THEN [version |-> top.version, source |-> top.source,
                             deps |-> {d.name : d \in Range(DependenciesOf(n, top.version))}]
                       ELSE resolved[n]]
  BY DEF FinishPackage, Top
<1>2. <<top.name, top.version>> \in published
  <2>1. Len(calls) \in Frames
    BY DEF FinishPackage, Frames, ResolverInv, PackagesTypeOK
  <2> QED BY <2>1 DEF AllRegistered
<1>3. DependenciesOf(top.name, top.version) = Mandatory(Requires[<<top.name, top.version>>])
  BY <1>2, PublishedDependencies
<1> PICK t : t = top
  OBVIOUS
<1>4. resolved' = [n \in DOMAIN resolved \cup {t.name} |->
                       IF n = t.name
                       THEN [version |-> t.version, source |-> t.source,
                             deps |-> {d.name : d \in Range(Mandatory(Requires[<<n, t.version>>]))}]
                       ELSE resolved[n]]
  BY <1>1, <1>3
<1> QED BY <1>1, <1>4 DEF Completes

\* Nothing is taken away from what is resolved when a package without a version gets one.
LEMMA RestrictSame ==
    ASSUME PackagesTypeOK, NEW n, n \notin DOMAIN resolved
    PROVE  Restrict(resolved, DOMAIN resolved \ {n}) = resolved
<1>1. DOMAIN resolved \ {n} = DOMAIN resolved
  OBVIOUS
<1> QED BY <1>1 DEF Restrict, PackagesTypeOK

\* The state of a resolution that goes on after what was resolved already.
LEMMA AlreadyResolvedKeeps ==
    ASSUME ResolverInv, AlreadyResolved, NEW lk
    PROVE  Leads(calls, resolved, calls', resolved', lk)
<1>1. /\ calls[Len(calls)].todo # <<>> /\ ~Circular /\ ~TooDeep /\ Meets
      /\ calls' = Passes(calls) /\ resolved' = resolved
  BY DEF AlreadyResolved, Visiting, Top, Passes, Passed
<1>2. Len(calls) <= MaxDepth
  BY <1>1, PackagesAssumption DEF TooDeep, ResolverInv, PackagesTypeOK
<1>3. Keeps(calls, resolved, calls', resolved')
  BY <1>1 DEF Keeps, Meets, IsResolved, MeetsThis, Dependency, Top
<1> QED BY <1>1, <1>2, <1>3 DEF Leads, Circular, InProgress, Dependency, Top

\* The state after a version was chosen, for a lock that pins it.
LEMMA ChooseVersionPins ==
    ASSUME ResolverInv, ChooseVersion, ~IsResolved, NEW lk,
           Dependency.name \in DOMAIN lk,
           lk[Dependency.name].version = Chosen.version,
           lk[Dependency.name].source = Chosen.source,
           <<Dependency.name, Chosen.version>> \in published
    PROVE  Leads(calls, resolved, calls', resolved', lk) /\ resolved' = resolved
<1>1. /\ Visiting /\ calls[Len(calls)].todo # <<>> /\ ~Circular /\ ~TooDeep
      /\ Pinned \/ Candidates # {}
      /\ calls' = Append(Passes(calls),
                         [name |-> Dependency.name, version |-> Chosen.version,
                          source |-> Chosen.source,
                          todo |-> DependenciesOf(Dependency.name, Chosen.version)])
      /\ resolved' = Restrict(resolved, DOMAIN resolved \ {Dependency.name})
  BY DEF ChooseVersion, Visiting, Top, Passes, Passed
<1>2. Len(calls) <= MaxDepth
  BY <1>1, PackagesAssumption DEF TooDeep, ResolverInv, PackagesTypeOK
<1>3. Satisfies(Chosen.version, Dependency.con)
  BY <1>1, ChosenFacts DEF MeetsThis
<1>4. DependenciesOf(Dependency.name, Chosen.version)
         = Mandatory(Requires[<<Dependency.name, Chosen.version>>])
  BY PublishedDependencies
<1>5. resolved' = resolved
  BY <1>1, RestrictSame DEF IsResolved, ResolverInv
<1>6. Dependency = Head(calls[Len(calls)].todo)
  BY DEF Dependency, Top
<1>7. Pins(calls, resolved, calls', resolved', lk)
  BY <1>1, <1>3, <1>4, <1>5, <1>6 DEF Pins, IsResolved
<1> QED BY <1>1, <1>2, <1>5, <1>6, <1>7 DEF Leads, Circular, InProgress

\* The version chosen for a package without one is all that may not be in the registry.
LEMMA ChooseVersionRegistered ==
    ASSUME ResolverInv, ChooseVersion, ~IsResolved
    PROVE  AllRegistered' <=> AllRegistered /\ <<Dependency.name, Chosen.version>> \in published
<1> PICK n : n = Dependency.name
  OBVIOUS
<1> PICK v : v = Chosen.version
  OBVIOUS
<1> PICK k : k = Len(calls)
  OBVIOUS
<1> PICK call : call = [name |-> n, version |-> v, source |-> Chosen.source,
                        todo |-> DependenciesOf(n, v)]
  OBVIOUS
<1>1. /\ Visiting /\ calls' = Append(Passed, call) /\ published' = published
      /\ resolved' = Restrict(resolved, DOMAIN resolved \ {n}) /\ call.name = n
      /\ call.version = v
  BY DEF ChooseVersion, Resolves, project
<1>2. resolved' = resolved
  BY <1>1, RestrictSame DEF IsResolved, ResolverInv
<1>3. /\ k \in Nat /\ k >= 1 /\ Passed \in Seq(Visit) /\ Len(Passed) = k
      /\ \A i \in 1..k : Passed[i].name = calls[i].name /\ Passed[i].version = calls[i].version
  BY <1>1, PassedFacts DEF ResolverInv
<1>4. Len(calls') = k + 1 /\ calls'[k + 1] = call /\ \A i \in 1..k : calls'[i] = Passed[i]
  BY <1>1, <1>3
<1>5. Frames' = Frames \cup {k + 1} /\ Frames \subseteq 1..k
  BY <1>3, <1>4 DEF Frames
<1>6. \A i \in Frames : calls'[i].name = calls[i].name /\ calls'[i].version = calls[i].version
  BY <1>3, <1>4, <1>5
<1>7. InRegistry(resolved)' <=> InRegistry(resolved)
  BY <1>1, <1>2 DEF InRegistry
<1>8. (\A i \in Frames' : <<calls'[i].name, calls'[i].version>> \in published)
         <=> /\ \A i \in Frames : <<calls[i].name, calls[i].version>> \in published
             /\ <<n, v>> \in published
  <2>1. <<calls'[k + 1].name, calls'[k + 1].version>> = <<n, v>>
    BY <1>1, <1>4
  <2> QED BY <1>5, <1>6, <2>1
<1> QED BY <1>1, <1>7, <1>8 DEF AllRegistered

\* A package that is done is in the registry if it was before.
LEMMA FinishPackageRegistered ==
    ASSUME ResolverInv, FinishPackage
    PROVE  AllRegistered' <=> AllRegistered
<1> PICK k : k = Len(calls)
  OBVIOUS
<1> PICK top : top = calls[k]
  OBVIOUS
<1>1. /\ k > 1 /\ calls' = SubSeq(calls, 1, k - 1) /\ calls \in Seq(Visit) /\ k \in Nat
      /\ published' = published
  BY DEF FinishPackage, Resolves, project, ResolverInv, PackagesTypeOK
<1>2. /\ DOMAIN resolved' = DOMAIN resolved \cup {top.name}
      /\ \A n \in DOMAIN resolved : n # top.name => resolved'[n] = resolved[n]
      /\ resolved'[top.name].version = top.version
  BY DEF FinishPackage, Top
<1>3. Len(calls') = k - 1 /\ \A i \in 1..k - 1 : calls'[i] = calls[i]
  <2>1. k - 1 \in Nat /\ k - 1 <= Len(calls) /\ k - 1 >= 1
    BY <1>1
  <2> QED BY <1>1, <2>1
<1>4. Frames = Frames' \cup {k} /\ Frames' \subseteq 1..k - 1
  BY <1>1, <1>3 DEF Frames
<1>5. top.name \notin DOMAIN resolved
  BY <1>4 DEF ResolverInv, StackInv
<1>6. InRegistry(resolved)' <=> InRegistry(resolved) /\ <<top.name, top.version>> \in published
  BY <1>1, <1>2, <1>5 DEF InRegistry
<1>7. (\A i \in Frames : <<calls[i].name, calls[i].version>> \in published)
         <=> /\ \A i \in Frames' : <<calls'[i].name, calls'[i].version>> \in published
             /\ <<top.name, top.version>> \in published
  BY <1>3, <1>4
<1> QED BY <1>1, <1>6, <1>7 DEF AllRegistered

\* So is what stays resolved.
LEMMA AlreadyResolvedRegistered ==
    ASSUME ResolverInv, AlreadyResolved
    PROVE  AllRegistered' <=> AllRegistered
<1>1. /\ Visiting /\ calls' = Passed /\ resolved' = resolved /\ published' = published
  BY DEF AlreadyResolved, Resolves, project
<1>2. /\ Len(calls') = Len(calls)
      /\ \A i \in 1..Len(calls) : /\ calls'[i].name = calls[i].name
                                  /\ calls'[i].version = calls[i].version
  BY <1>1, PassedFacts DEF ResolverInv
<1>3. Frames' = Frames /\ Frames \subseteq 1..Len(calls)
  BY <1>2 DEF Frames
<1> QED BY <1>1, <1>2, <1>3 DEF AllRegistered, InRegistry

\* A resolution that has just begun is on the way from there.
LEMMA BeginsRuns ==
    ASSUME calls' = Beginning', resolved' = Nothing
    PROVE  RunsInv'
<1>1. Replays({<<calls', Nothing>>}, Nothing, Beginning', calls', resolved')
  BY DEF Replays
<1>2. TakenIs(Nothing)'
  <2>1. DOMAIN Nothing = {} /\ DOMAIN resolved' = {}
    BY DEF Nothing
  <2>2. Frames' = {}
    BY DEF Beginning, Frames
  <2>3. Covered' = {}
    BY <2>1 DEF Covered, InProgress, Beginning
  <2>4. Nothing' = Nothing
    BY DEF Nothing
  <2> QED BY <2>1, <2>2, <2>3, <2>4 DEF TakenIs
<1> QED BY <1>1, <1>2 DEF RunsInv

\* Every step of a resolution without conflicts goes on.
LEMMA ResolvingRuns ==
    ASSUME ResolverInv, ResolverInv', RunsInv, Resolving
    PROVE  RunsInv'
<1> SUFFICES ASSUME Underway', op' # "package", ~erased', switched' = {}, AllRegistered'
             PROVE  \E S, lk : Replays(S, lk, Beginning', calls', resolved') /\ TakenIs(lk)'
  BY DEF RunsInv
<1>1. /\ op' = op /\ manifest' = manifest /\ Beginning' = Beginning /\ mode = "resolving"
      /\ Underway
  <2>1. op' = op /\ manifest' = manifest /\ mode = "resolving"
    BY DEF Resolving, AlreadyResolved, SwitchVersion, ChooseVersion, FinishPackage, GiveUp,
           FinishResolution, Resolves, project, Visiting
  <2> QED BY <2>1 DEF Beginning, Direct, Underway
<1>2. CASE AlreadyResolved
  <2>1. erased' = erased /\ switched' = switched /\ resolved' = resolved /\ calls' = Passed
    BY <1>2 DEF AlreadyResolved
  <2>2. PICK S, lk : Replays(S, lk, Beginning, calls, resolved) /\ TakenIs(lk)
    BY <1>1, <1>2, <2>1, AlreadyResolvedRegistered DEF RunsInv
  <2>3. Leads(calls, resolved, calls', resolved', lk)
    BY <1>2, AlreadyResolvedKeeps
  <2>4. \E T : Replays(T, lk, Beginning, calls', resolved')
    BY <2>2, <2>3, OneStepMore DEF Agrees
  <2>5. TakenIs(lk)'
    <3>1. /\ Len(calls') = Len(calls)
          /\ \A i \in 1..Len(calls) : /\ calls'[i].name = calls[i].name
                                      /\ calls'[i].version = calls[i].version
                                      /\ calls'[i].source = calls[i].source
      BY <1>2, <2>1, PassedFacts DEF AlreadyResolved, ResolverInv
    <3>2. Frames' = Frames /\ Frames \subseteq 1..Len(calls) /\ Covered' = Covered
      BY <2>1, <3>1 DEF Frames, Covered, InProgress
    <3> QED BY <2>1, <2>2, <3>1, <3>2 DEF TakenIs
  <2> QED BY <1>1, <2>4, <2>5
<1>3. CASE SwitchVersion
  BY <1>3 DEF SwitchVersion
<1>4. CASE ChooseVersion
  <2> PICK n : n = Dependency.name
    OBVIOUS
  <2> PICK k : k = Len(calls)
    OBVIOUS
  <2>1. /\ ~erased /\ switched = {} /\ ~IsResolved /\ Visiting /\ ~Circular
        /\ calls' = Append(Passed, [name |-> n, version |-> Chosen.version,
                            source |-> Chosen.source, todo |-> DependenciesOf(n, Chosen.version)])
    BY <1>4 DEF ChooseVersion
  <2>2. PICK S, lk : Replays(S, lk, Beginning, calls, resolved) /\ TakenIs(lk)
    BY <1>1, <1>4, <2>1, ChooseVersionRegistered DEF RunsInv
  <2> PICK pin : pin = [version |-> Chosen.version, source |-> Chosen.source]
    OBVIOUS
  <2> PICK lk2 : lk2 = [m \in Covered \cup {n} |-> IF m = n THEN pin ELSE lk[m]]
    OBVIOUS
  <2>3. n \notin Covered
    BY <2>1 DEF Covered, IsResolved, Circular
  <2>4. /\ DOMAIN lk2 = Covered \cup {n} /\ lk2[n] = pin
        /\ pin.version = Chosen.version /\ pin.source = Chosen.source
        /\ \A m \in Covered : lk2[m] = lk[m]
    BY <2>3
  <2>5. Agrees(lk, lk2)
    BY <2>2, <2>4 DEF Agrees, TakenIs
  <2>6. Leads(calls, resolved, calls', resolved', lk2) /\ resolved' = resolved
    <3>1. n \in DOMAIN lk2 /\ lk2[n].version = Chosen.version /\ lk2[n].source = Chosen.source
      BY <2>4
    <3>2. <<n, Chosen.version>> \in published
      BY <1>4, <2>1, ChooseVersionRegistered
    <3> QED BY <1>4, <2>1, <3>1, <3>2, ChooseVersionPins
  <2>7. \E T : Replays(T, lk2, Beginning, calls', resolved')
    <3>1. Replays(S, lk, Beginning, calls, resolved)
      BY <2>2
    <3>2. \A c2, r2 : Leads(calls, resolved, c2, r2, lk2)
                        => \E T : Replays(T, lk2, Beginning, c2, r2)
      BY <2>5, <3>1, OneStepMore
    <3> QED BY <2>6, <3>2
  <2>8. TakenIs(lk2)'
    <3>1. /\ Len(calls') = k + 1 /\ k \in Nat /\ k >= 1
          /\ \A i \in 1..k : /\ calls'[i].name = calls[i].name
                             /\ calls'[i].version = calls[i].version
                             /\ calls'[i].source = calls[i].source
          /\ calls'[k + 1] = [name |-> n, version |-> Chosen.version,
                            source |-> Chosen.source, todo |-> DependenciesOf(n, Chosen.version)]
      <4> PICK call : call = [name |-> n, version |-> Chosen.version,
                            source |-> Chosen.source, todo |-> DependenciesOf(n, Chosen.version)]
        OBVIOUS
      <4>1. calls' = Append(Passed, call)
        BY <2>1
      <4>2. /\ k \in Nat /\ k >= 1 /\ Passed \in Seq(Visit) /\ Len(Passed) = k
            /\ \A i \in 1..k : /\ Passed[i].name = calls[i].name
                               /\ Passed[i].version = calls[i].version
                               /\ Passed[i].source = calls[i].source
        BY <2>1, PassedFacts DEF ResolverInv
      <4>3. Len(calls') = k + 1 /\ calls'[k + 1] = call /\ \A i \in 1..k : calls'[i] = Passed[i]
        BY <4>1, <4>2
      <4> QED BY <4>2, <4>3
    <3>2. Frames' = Frames \cup {k + 1} /\ Frames \subseteq 1..k
      BY <3>1 DEF Frames
    <3>3. calls'[k + 1].name = n /\ calls'[k + 1].version = Chosen.version
          /\ calls'[k + 1].source = Chosen.source
      BY <3>1
    <3>4. InProgress' = InProgress \cup {n}
      <4>1. InProgress = {calls[i].name : i \in Frames}
            /\ InProgress' = {calls'[i].name : i \in Frames'}
        BY DEF InProgress, Frames
      <4>2. \A i \in Frames : calls'[i].name = calls[i].name
        BY <3>1, <3>2
      <4>3. \A i \in Frames' : calls'[i].name \in InProgress \cup {n}
        BY <3>2, <3>3, <4>1, <4>2
      <4>4. \A i \in Frames : calls[i].name \in InProgress'
        BY <3>2, <4>1, <4>2
      <4>5. n \in InProgress'
        BY <3>2, <3>3, <4>1
      <4> QED BY <4>1, <4>3, <4>4, <4>5
    <3>5. Covered' = Covered \cup {n}
      BY <2>6, <3>4 DEF Covered
    <3>6. \A m \in DOMAIN resolved' :
            lk2[m].version = resolved'[m].version /\ lk2[m].source = resolved'[m].source
      <4>1. \A m \in DOMAIN resolved : m \in Covered /\ lk2[m] = lk[m]
        BY <2>4 DEF Covered
      <4>2. \A m \in DOMAIN resolved :
              lk[m].version = resolved[m].version /\ lk[m].source = resolved[m].source
        BY <2>2 DEF TakenIs
      <4> QED BY <2>6, <4>1, <4>2
    <3>7. \A i \in Frames' : /\ lk2[calls'[i].name].version = calls'[i].version
                             /\ lk2[calls'[i].name].source = calls'[i].source
      <4> SUFFICES ASSUME NEW i \in Frames'
                   PROVE  /\ lk2[calls'[i].name].version = calls'[i].version
                          /\ lk2[calls'[i].name].source = calls'[i].source
        OBVIOUS
      <4>1. CASE i = k + 1
        BY <2>4, <3>3, <4>1
      <4>2. CASE i # k + 1
        <5>1. i \in Frames /\ i \in 1..k
          BY <3>2, <4>2
        <5>2. calls[i].name \in Covered
          BY <5>1 DEF Covered, InProgress, Frames
        <5> QED BY <2>2, <2>4, <3>1, <5>1, <5>2 DEF TakenIs
      <4> QED BY <4>1, <4>2
    <3> QED BY <2>4, <3>5, <3>6, <3>7 DEF TakenIs
  <2> QED BY <1>1, <2>7, <2>8
<1>5. CASE FinishPackage
  <2> PICK k : k = Len(calls)
    OBVIOUS
  <2>1. /\ erased' = erased /\ switched' = switched /\ calls[k].todo = <<>> /\ k > 1
        /\ calls' = SubSeq(calls, 1, k - 1) /\ calls \in Seq(Visit) /\ k \in Nat
    BY <1>5 DEF FinishPackage, Top, ResolverInv, PackagesTypeOK
  <2>2. PICK S, lk : Replays(S, lk, Beginning, calls, resolved) /\ TakenIs(lk)
    BY <1>1, <1>5, <2>1, FinishPackageRegistered DEF RunsInv
  <2>3. Leads(calls, resolved, calls', resolved', lk)
    BY <1>5, <2>1, FinishPackageRegistered, FinishPackageCompletes DEF Leads
  <2>4. \E T : Replays(T, lk, Beginning, calls', resolved')
    BY <2>2, <2>3, OneStepMore DEF Agrees
  <2>5. TakenIs(lk)'
    <3> PICK top : top = calls[k]
      OBVIOUS
    <3>1. /\ DOMAIN resolved' = DOMAIN resolved \cup {top.name}
          /\ \A n \in DOMAIN resolved : n # top.name => resolved'[n] = resolved[n]
          /\ resolved'[top.name].version = top.version /\ resolved'[top.name].source = top.source
      BY <1>5 DEF FinishPackage, Top
    <3>2. Len(calls') = k - 1 /\ \A i \in 1..k - 1 : calls'[i] = calls[i]
      <4>1. k - 1 \in Nat /\ k - 1 <= Len(calls) /\ k - 1 >= 1
        BY <2>1
      <4> QED BY <2>1, <4>1
    <3>3. Frames = Frames' \cup {k} /\ Frames' \subseteq 1..k - 1
      BY <2>1, <3>2 DEF Frames
    <3>4. InProgress = InProgress' \cup {top.name}
      <4>1. InProgress = {calls[i].name : i \in Frames}
            /\ InProgress' = {calls'[i].name : i \in Frames'}
        BY DEF InProgress, Frames
      <4>2. \A i \in Frames' : calls'[i].name = calls[i].name
        BY <3>2, <3>3
      <4> QED BY <3>3, <4>1, <4>2
    <3>5. Covered' = Covered
      BY <3>1, <3>4 DEF Covered
    <3>6. \A n \in DOMAIN resolved' :
            lk[n].version = resolved'[n].version /\ lk[n].source = resolved'[n].source
      BY <2>2, <3>1, <3>3 DEF TakenIs
    <3>7. \A i \in Frames' : /\ lk[calls'[i].name].version = calls'[i].version
                             /\ lk[calls'[i].name].source = calls'[i].source
      BY <2>2, <3>2, <3>3 DEF TakenIs
    <3> QED BY <2>2, <3>5, <3>6, <3>7 DEF TakenIs
  <2> QED BY <1>1, <2>4, <2>5
<1>6. CASE GiveUp
  BY <1>6 DEF GiveUp, Underway
<1>7. CASE FinishResolution
  <2>1. /\ calls' = calls /\ resolved' = resolved /\ erased' = erased /\ switched' = switched
        /\ published' = published
    BY <1>7 DEF FinishResolution, resolution, Resolves, project
  <2>2. PICK S, lk : Replays(S, lk, Beginning, calls, resolved) /\ TakenIs(lk)
    BY <1>1, <2>1 DEF RunsInv, AllRegistered, InRegistry, Frames
  <2>3. TakenIs(lk)'
    BY <2>1, <2>2 DEF TakenIs, Covered, InProgress, Frames
  <2> QED BY <1>1, <2>1, <2>2, <2>3
<1> QED BY <1>2, <1>3, <1>4, <1>5, <1>6, <1>7 DEF Resolving

\* Under a lock that pins the next step, an installation takes it.
LEMMA PinnedStep ==
    ASSUME ResolverInv, op = "install", mode = "resolving", Resolving,
           InRegistry(lock), AllRegistered, NEW c2, NEW r2, Leads(calls, resolved, c2, r2, lock)
    PROVE  calls' = c2 /\ resolved' = r2 /\ mode' = "resolving" /\ AllRegistered'
<1> DEFINE todo == calls[Len(calls)].todo
<1>1. Top = calls[Len(calls)] /\ Dependency = Head(todo)
  BY DEF Top, Dependency
<1>2. Len(calls) \in Nat /\ MaxDepth \in Nat
  BY PackagesAssumption DEF ResolverInv, PackagesTypeOK
<1>3. ASSUME todo # <<>> PROVE Visiting
  BY <1>3 DEF Visiting, Top
<1>4. CASE /\ todo # <<>> /\ Len(calls) <= MaxDepth
           /\ Head(todo).name \notin {calls[i].name : i \in 2..Len(calls)}
           /\ Keeps(calls, resolved, c2, r2)
  <2>1. Visiting /\ ~Circular /\ ~TooDeep /\ Meets /\ IsResolved
    BY <1>1, <1>2, <1>3, <1>4
       DEF Circular, InProgress, TooDeep, Meets, IsResolved, MeetsThis, Keeps
  <2>2. AlreadyResolved
    BY <1>1, <1>4, <2>1
       DEF Resolving, SwitchVersion, ChooseVersion, FinishPackage, GiveUp, FinishResolution,
           Erases, Stuck
  <2>3. c2 = Passed /\ r2 = resolved
    BY <1>4 DEF Keeps, Passes, Passed
  <2>4. AllRegistered'
    BY <2>2, AlreadyResolvedRegistered
  <2> QED BY <2>2, <2>3, <2>4 DEF AlreadyResolved, Visiting
<1>5. CASE /\ todo # <<>> /\ Len(calls) <= MaxDepth
           /\ Head(todo).name \notin {calls[i].name : i \in 2..Len(calls)}
           /\ Pins(calls, resolved, c2, r2, lock)
  <2>1. /\ Visiting /\ ~Circular /\ ~TooDeep /\ ~IsResolved /\ Pinned
        /\ Dependency.name \in DOMAIN lock
    <3>1. /\ Dependency.name \notin DOMAIN resolved /\ Dependency.name \in DOMAIN lock
          /\ Satisfies(lock[Dependency.name].version, Dependency.con)
      BY <1>1, <1>5 DEF Pins
    <3>2. Visiting /\ ~Circular /\ ~TooDeep
      BY <1>1, <1>2, <1>3, <1>5 DEF Circular, InProgress, TooDeep
    <3> QED BY <3>1, <3>2 DEF IsResolved, MeetsThis, Pinned
  <2>2. ChooseVersion
    BY <1>1, <1>5, <2>1
       DEF Resolving, AlreadyResolved, Meets, SwitchVersion, FinishPackage, GiveUp,
           FinishResolution, Stuck
  <2>3. /\ Chosen.version = lock[Dependency.name].version
        /\ Chosen.source = lock[Dependency.name].source
    BY <2>1 DEF Chosen
  <2>4. <<Dependency.name, Chosen.version>> \in published
    BY <2>1, <2>3 DEF InRegistry
  <2>5. DependenciesOf(Dependency.name, Chosen.version)
           = Mandatory(Requires[<<Dependency.name, Chosen.version>>])
    BY <2>4, PublishedDependencies
  <2>6. c2 = Append(Passed, [name |-> Dependency.name, version |-> Chosen.version,
                             source |-> Chosen.source,
                             todo |-> DependenciesOf(Dependency.name, Chosen.version)])
        /\ r2 = resolved
    BY <1>1, <1>5, <2>3, <2>5 DEF Pins, Passes, Passed
  <2>7. resolved' = resolved
    BY <2>1, <2>2, RestrictSame DEF ChooseVersion, IsResolved, ResolverInv
  <2>8. AllRegistered'
    BY <2>1, <2>2, <2>4, ChooseVersionRegistered
  <2> QED BY <2>2, <2>6, <2>7, <2>8 DEF ChooseVersion
<1>6. CASE todo = <<>> /\ Len(calls) > 1 /\ Completes(calls, resolved, c2, r2)
  <2>1. FinishPackage
    BY <1>1, <1>2, <1>6
       DEF Resolving, AlreadyResolved, SwitchVersion, ChooseVersion, Visiting, GiveUp,
           FinishResolution
  <2>2. Completes(calls, resolved, calls', resolved')
    BY <2>1, FinishPackageCompletes
  <2>3. calls' = c2 /\ resolved' = r2
    BY <1>6, <2>2 DEF Completes
  <2>4. AllRegistered'
    BY <2>1, FinishPackageRegistered
  <2> QED BY <2>1, <2>3, <2>4 DEF FinishPackage
<1> QED BY <1>4, <1>5, <1>6 DEF Leads

\* A step of the resolver leaves a settled installation on its way.
LEMMA ResolvingLock ==
    ASSUME ReplayInv, Resolving
    PROVE  LockInv'
<1>1. /\ lock' = lock /\ settled' = settled /\ manifest' = manifest /\ op' = op
      /\ published' = published /\ mode = "resolving" /\ Underway
  BY DEF Resolving, AlreadyResolved, SwitchVersion, ChooseVersion, FinishPackage, GiveUp,
         FinishResolution, Resolves, project, Visiting, Underway
<1>2. Beginning' = Beginning
  BY <1>1 DEF Beginning, Direct
<1> SUFFICES ASSUME settled PROVE LockInv'
  BY <1>1 DEF LockInv
<1>3. PICK S, c, r : /\ LeadsTo(S, c, r)
                     /\ op = "install" => <<calls, resolved>> \in S
  BY <1>1 DEF ReplayInv, LockInv
<1>4. LeadsTo(S, c, r)'
  BY <1>1, <1>2, <1>3 DEF LeadsTo
<1>5. InRegistry(lock) /\ InRegistry(lock)'
  BY <1>1 DEF ReplayInv, LockInv, InRegistry
<1>6. ASSUME op = "install" PROVE <<calls', resolved'>> \in S /\ mode' # "failed" /\ AllRegistered'
  <2>0. AllRegistered
    BY <1>1, <1>6 DEF ReplayInv, LockInv
  <2>1. CASE calls = c /\ resolved = r
    <3>1. Len(calls) = 1 /\ calls[1].todo = <<>>
      BY <1>3, <2>1 DEF LeadsTo
    <3>2. Top.todo = <<>> /\ ~Visiting /\ ~FinishPackage
      BY <3>1 DEF Top, Visiting, FinishPackage
    <3>3. FinishResolution
      BY <3>2 DEF Resolving, AlreadyResolved, SwitchVersion, ChooseVersion, GiveUp
    <3>4. calls' = calls /\ resolved' = resolved /\ mode' # "failed"
      BY <3>3 DEF FinishResolution, resolution
    <3>5. AllRegistered'
      BY <1>1, <2>0, <3>4 DEF AllRegistered, InRegistry, Frames
    <3> QED BY <1>3, <1>6, <3>4, <3>5
  <2>2. CASE ~(calls = c /\ resolved = r)
    <3>1. PICK c2, r2 : <<c2, r2>> \in S /\ Leads(calls, resolved, c2, r2, lock)
      BY <1>3, <1>6, <2>2 DEF LeadsTo, Replays
    <3>2. calls' = c2 /\ resolved' = r2 /\ mode' = "resolving" /\ AllRegistered'
      BY <1>1, <1>5, <1>6, <2>0, <3>1, PinnedStep DEF ReplayInv
    <3> QED BY <3>1, <3>2
  <2> QED BY <2>1, <2>2
<1> QED BY <1>1, <1>4, <1>5, <1>6 DEF LockInv

\* A settled lock leads from the manifest to what it pins, whatever command begins.
LEMMA BeginsLock ==
    ASSUME ReplayInv, NEW command, NEW deps, NEW targets, Begins(command, deps, targets),
           command # "package" => deps = Direct
    PROVE  RunsInv' /\ LockInv'
<1>1. /\ lock' = lock /\ settled' = settled /\ manifest' = manifest /\ op' = command
      /\ published' = published /\ mode' = "resolving" /\ resolved' = Nothing
      /\ calls' = <<[name |-> "root", version |-> V(0, 0, 0), source |-> "path", todo |-> deps]>>
  BY DEF Begins, project
<1>2. Beginning' = Beginning /\ (command # "package" => calls' = Beginning)
  BY <1>1 DEF Beginning, Direct
<1>3. RunsInv'
  <2>1. CASE command = "package"
    BY <1>1, <2>1 DEF RunsInv
  <2>2. CASE command # "package"
    BY <1>1, <1>2, <2>2, BeginsRuns
  <2> QED BY <2>1, <2>2
<1>4. ASSUME settled PROVE LockInv'
  <2>1. PICK S, c, r : LeadsTo(S, c, r)
    BY <1>4 DEF ReplayInv, LockInv
  <2>2. LeadsTo(S, c, r)'
    BY <1>1, <1>2, <2>1 DEF LeadsTo
  <2>3. op' = "install" => <<calls', resolved'>> \in S
    BY <1>1, <1>2, <2>1 DEF LeadsTo, Replays
  <2>4. InRegistry(lock)'
    BY <1>1, <1>4 DEF ReplayInv, LockInv, InRegistry
  <2>5. AllRegistered'
    BY <1>1 DEF AllRegistered, InRegistry, Nothing, Frames
  <2> QED BY <1>1, <2>2, <2>3, <2>4, <2>5 DEF LockInv
<1> QED BY <1>1, <1>3, <1>4 DEF LockInv

\* The lock that a resolution without conflicts writes leads to what it resolved.
LEMMA WriteLockLock ==
    ASSUME ReplayInv, WriteLock
    PROVE  LockInv'
<1>1. /\ mode = "locking" /\ lock' = LockOf(LockOrder)
      /\ settled' = (~erased /\ switched = {} /\ InRegistry(resolved))
      /\ mode' = "installing" /\ manifest' = manifest /\ published' = published
  BY DEF WriteLock
<1> SUFFICES ASSUME ~erased, switched = {}, InRegistry(resolved) PROVE LockInv'
  BY <1>1 DEF LockInv
<1>2. Underway /\ op # "package" /\ Len(calls) = 1 /\ calls[1].todo = <<>>
  BY <1>1 DEF Underway, ReplayInv, ResolverInv, StackInv
<1>3. PICK S, lk : Replays(S, lk, Beginning, calls, resolved) /\ TakenIs(lk)
  <2>1. AllRegistered
    BY <1>2 DEF AllRegistered, Frames
  <2> QED BY <1>2, <2>1 DEF ReplayInv, RunsInv
<1>4. LockOrder = DOMAIN resolved
  BY <1>2, LockOrderFacts DEF ReplayInv, ResolverInv, OrderInv
<1>5. Covered = DOMAIN resolved
  <2>1. InProgress = {}
    BY <1>2 DEF InProgress
  <2> QED BY <2>1 DEF Covered
<1>6. /\ DOMAIN lock' = DOMAIN resolved
      /\ \A n \in DOMAIN resolved : /\ lock'[n].version = resolved[n].version
                                    /\ lock'[n].source = resolved[n].source
  BY <1>1, <1>4 DEF LockOf
<1>7. Agrees(lk, lock')
  BY <1>3, <1>5, <1>6 DEF Agrees, TakenIs
<1>8. Replays(S, lock', Beginning, calls, resolved)
  BY <1>3, <1>7, AgreesReplays
<1>9. Beginning' = Beginning
  BY <1>1 DEF Beginning, Direct
<1> PICK c : c = calls
  OBVIOUS
<1> PICK r : r = resolved
  OBVIOUS
<1>10. LeadsTo(S, c, r)'
  BY <1>2, <1>6, <1>8, <1>9 DEF LeadsTo
<1>11. InRegistry(lock)'
  BY <1>1, <1>6 DEF InRegistry
<1> QED BY <1>1, <1>10, <1>11 DEF LockInv, Underway

\* Where nothing is resolved the lock stays as it was, or is not settled any more.
LEMMA RestLock ==
    ASSUME ReplayInv, ~Underway',
           \/ settled' = FALSE
           \/ /\ lock' = lock /\ (settled' => settled /\ InRegistry(lock)')
              /\ manifest' = manifest /\ op' = op /\ (mode' = "failed" => mode = "failed")
    PROVE  RunsInv' /\ LockInv'
<1>1. RunsInv'
  BY DEF RunsInv
<1>2. CASE settled' = FALSE
  BY <1>1, <1>2 DEF LockInv
<1>3. CASE /\ lock' = lock /\ manifest' = manifest /\ op' = op
           /\ (mode' = "failed" => mode = "failed") /\ settled /\ InRegistry(lock)'
  <2>1. PICK S, c, r : LeadsTo(S, c, r)
    BY <1>3 DEF ReplayInv, LockInv
  <2>2. Beginning' = Beginning
    BY <1>3 DEF Beginning, Direct
  <2>3. LeadsTo(S, c, r)'
    BY <1>3, <2>1, <2>2 DEF LeadsTo
  <2>4. op' = "install" => mode' # "failed"
    BY <1>3 DEF ReplayInv, LockInv
  <2> QED BY <1>1, <1>3, <2>3, <2>4 DEF LockInv
<1>4. CASE ~settled'
  BY <1>1, <1>4 DEF LockInv
<1> QED BY <1>2, <1>3, <1>4

\* Every step keeps the settled lock a way through the resolver.
LEMMA ReplayStep == ReplayInv /\ [PackagesNext]_pkgVars => ReplayInv'
<1> SUFFICES ASSUME ReplayInv, [PackagesNext]_pkgVars PROVE ReplayInv'
  OBVIOUS
<1>1. ResolverInv /\ ResolverInv' /\ RunsInv /\ LockInv
  BY PackagesStep DEF ReplayInv
<1> SUFFICES RunsInv' /\ LockInv'
  BY <1>1 DEF ReplayInv
<1>2. CASE Install
  BY <1>2, BeginsLock DEF Install
<1>3. CASE Update
  BY <1>3, BeginsLock DEF Update
<1>4. CASE InstallPackage
  <2>1. PICK e \in Edits : Begins("package", <<e.dep>>, {e.dep.name})
    BY <1>4 DEF InstallPackage
  <2> PICK deps : deps = <<e.dep>>
    OBVIOUS
  <2> PICK targets : targets = {e.dep.name}
    OBVIOUS
  <2>2. Begins("package", deps, targets)
    BY <2>1
  <2> QED BY <2>2, BeginsLock
<1>5. CASE Resolving
  BY <1>1, <1>5, ResolvingRuns, ResolvingLock
<1>6. CASE WriteLock
  <2>1. RunsInv'
    BY <1>6 DEF WriteLock, RunsInv, Underway
  <2> QED BY <1>6, <2>1, WriteLockLock
<1>7. CASE InstallCached \/ InstallOne
  <2>1. /\ mode = "installing" /\ mode' = mode /\ op' = op /\ lock' = lock /\ settled' = settled
        /\ manifest' = manifest /\ published' = published
    BY <1>7 DEF InstallCached, InstallOne, Installs, project
  <2>2. settled' => InRegistry(lock)'
    BY <1>1, <2>1 DEF LockInv, InRegistry
  <2> QED BY <2>1, <2>2, RestLock DEF Underway
<1>8. CASE Finish
  <2>1. /\ mode' = "idle" /\ op' = op /\ lock' = lock /\ settled' = settled /\ manifest' = manifest
        /\ published' = published
    BY <1>8 DEF Finish, Ends
  <2>2. settled' => InRegistry(lock)'
    BY <1>1, <2>1 DEF LockInv, InRegistry
  <2> QED BY <2>1, <2>2, RestLock DEF Underway
<1>9. CASE Crash
  <2>1. /\ mode' = "idle" /\ op' = op /\ manifest' = manifest
        /\ settled' = FALSE \/ (lock' = lock /\ (settled' => settled /\ InRegistry(lock)'))
    BY <1>9 DEF Crash, Ends
  <2> QED BY <2>1, RestLock DEF Underway
<1>10. CASE PublishVersion \/ AddDependency \/ RemoveDependency \/ UpdatePackage \/ Clean
  <2>1. Between /\ lock' = lock /\ (settled' = FALSE \/ UNCHANGED <<manifest, settled>>)
    BY <1>10 DEF PublishVersion, AddDependency, RemoveDependency, UpdatePackage, Clean, Rewrites
  <2>2. mode \in {"idle", "failed"} /\ mode' = mode /\ op' = op
    BY <2>1 DEF Between
  <2>3. published \subseteq published'
    BY <1>10 DEF PublishVersion, AddDependency, RemoveDependency, UpdatePackage, Clean
  <2>4. settled' => settled /\ InRegistry(lock)'
    BY <1>1, <2>1, <2>3 DEF LockInv, InRegistry
  <2> QED BY <2>1, <2>2, <2>4, RestLock DEF Underway
<1>11. CASE UNCHANGED pkgVars
  <2>1. /\ calls' = calls /\ resolved' = resolved /\ lock' = lock /\ settled' = settled
        /\ manifest' = manifest /\ op' = op /\ mode' = mode /\ erased' = erased
        /\ switched' = switched /\ published' = published
    BY <1>11 DEF pkgVars
  <2>2. Beginning' = Beginning /\ Underway' = Underway
    BY <2>1 DEF Beginning, Direct, Underway
  <2>3. \A lk : TakenIs(lk)' <=> TakenIs(lk)
    BY <2>1 DEF TakenIs, Covered, InProgress, Frames
  <2>4. RunsInv'
    BY <1>1, <2>1, <2>2, <2>3 DEF RunsInv, AllRegistered, InRegistry, Frames
  <2>5. LockInv'
    BY <1>1, <2>1, <2>2 DEF LockInv, LeadsTo, AllRegistered, InRegistry, Frames
  <2> QED BY <2>4, <2>5
<1> QED BY <1>2, <1>3, <1>4, <1>5, <1>6, <1>7, <1>8, <1>9, <1>10, <1>11 DEF PackagesNext

\* At first there is no lock to follow.
LEMMA ReplayInit == PackagesInit => ReplayInv
  BY PackagesInitInv DEF ReplayInv, RunsInv, LockInv, PackagesInit, Underway

\* An installation that follows a settled lock to its end has what the lock pins.
LEMMA InvReproduces == ReplayInv => LockReproduces
<1> SUFFICES ASSUME ReplayInv, settled, op = "install" PROVE LockReproduces
  BY DEF LockReproduces
<1>1. mode # "failed"
  BY DEF ReplayInv, LockInv
<1>2. ASSUME mode = "locking"
      PROVE  /\ DOMAIN resolved = DOMAIN lock
             /\ \A n \in DOMAIN lock : resolved[n].version = lock[n].version
  <2>1. Underway /\ Len(calls) = 1 /\ calls[1].todo = <<>>
    BY <1>2 DEF Underway, ReplayInv, ResolverInv, StackInv
  <2>2. PICK S, c, r : LeadsTo(S, c, r) /\ <<calls, resolved>> \in S
    BY <2>1 DEF ReplayInv, LockInv
  <2>3. \A c2, r2 : ~Leads(calls, resolved, c2, r2, lock)
    BY <2>1 DEF Leads
  <2>4. resolved = r
    BY <2>2, <2>3 DEF LeadsTo, Replays
  <2> QED BY <2>2, <2>4 DEF LeadsTo
<1> QED BY <1>1, <1>2 DEF LockReproduces

\* An installation with a lock that a resolution without conflicts wrote for the same
\* manifest never fails, and takes every version that is pinned and no other package,
\* whatever was published since (resolve_package, update_lockfile).
THEOREM LockIsFollowed == PackagesSpec => []LockReproduces
<1>1. PackagesSpec => []ReplayInv
  BY ReplayInit, ReplayStep, PTL DEF PackagesSpec
<1> QED BY <1>1, InvReproduces, PTL

(***************************** The language server ***************************)

\* What the server has: documents, symbols, and what it has told the editor to show.
State == [documents |-> documents, symbols |-> symbols, shown |-> shown]

\* What it has once it has read a message.
Opened(s, u, t) ==
    LET found == IF Ast[t] = Unreadable THEN {} ELSE GenerateDiagnostics(t)
    IN  [documents |-> Stored(s.documents, u, [text |-> t, diagnostics |-> found]),
         symbols |-> IF Ast[t] = Unreadable THEN s.symbols
                     ELSE Stored(s.symbols, u, ExtractSymbols(t)),
         shown |-> IF Ast[t] = Unreadable THEN s.shown
                   ELSE Stored(s.shown, u, GenerateDiagnostics(t))]

Closed(s, u) ==
    [documents |-> Erased(s.documents, u), symbols |-> Erased(s.symbols, u), shown |-> s.shown]

AfterMessage(s, m) ==
    IF m.kind = "didOpen" \/ (m.kind = "didChange" /\ m.text /= <<>>) THEN Opened(s, m.uri, m.text)
    ELSE IF m.kind = "didClose" THEN Closed(s, m.uri)
    ELSE s

\* It has what the editor has in v: of each document the last text that was not empty,
\* and the symbols and diagnostics of the last the lexer took.
Knows(s, v, u) ==
    /\ s.documents[u].text = v[u].kept
    /\ v[u].read = Unreadable => u \notin DOMAIN s.symbols
    /\ v[u].read /= Unreadable =>
          /\ u \in DOMAIN s.symbols /\ s.symbols[u] = ExtractSymbols(v[u].read)
          /\ u \in DOMAIN s.shown /\ s.shown[u] = GenerateDiagnostics(v[u].read)

Synced(s, v) ==
    /\ DOMAIN s.documents = DOMAIN v /\ DOMAIN s.symbols \subseteq DOMAIN v
    /\ \A u \in DOMAIN v : Knows(s, v, u)

\* The states it goes through as it reads what is in the pipe: at every request it
\* has what the editor had, and in the end what the editor has.
Reading(h) ==
    /\ DOMAIN h = 0..Len(stdin) /\ h[0] = State
    /\ \A i \in 1..Len(stdin) :
          /\ h[i] = AfterMessage(h[i - 1], stdin[i])
          /\ stdin[i].kind = "request" => Synced(h[i - 1], stdin[i].view)
    /\ Synced(h[Len(stdin)], view)

PipeInv == (\E M : stdin \in Seq(M)) /\ \E h : Reading(h)

\* A text that is opened, or changed to another that is not empty.
LEMMA OpenedKnows ==
    ASSUME NEW s, NEW v, NEW u, NEW t, NEW d, Synced(s, v), t # Unreadable,
           d.kept = t,
           d.read = IF Ast[t] # Unreadable THEN t
                    ELSE IF u \in DOMAIN v THEN v[u].read ELSE Unreadable
    PROVE  Synced(Opened(s, u, t), Stored(v, u, d))
<1> PICK w : w = Stored(v, u, d)
  OBVIOUS
<1> PICK o : o = Opened(s, u, t)
  OBVIOUS
<1>1. DOMAIN w = DOMAIN v \cup {u} /\ w[u] = d /\ \A x \in DOMAIN v : x # u => w[x] = v[x]
  BY DEF Stored
<1>2. /\ DOMAIN o.documents = DOMAIN v \cup {u} /\ o.documents[u].text = t
      /\ \A x \in DOMAIN v : x # u => o.documents[x] = s.documents[x]
  BY DEF Stored, Opened, Synced
<1>3. CASE Ast[t] = Unreadable
  <2>1. o.symbols = s.symbols /\ o.shown = s.shown
    BY <1>3 DEF Opened
  <2>2. Knows(o, w, u)
    BY <1>1, <1>2, <1>3, <2>1 DEF Knows, Synced
  <2>3. \A x \in DOMAIN v : x # u => Knows(o, w, x)
    BY <1>1, <1>2, <2>1 DEF Knows, Synced
  <2> QED BY <1>1, <1>2, <2>1, <2>2, <2>3 DEF Synced
<1>4. CASE Ast[t] # Unreadable
  <2>1. o.symbols = Stored(s.symbols, u, ExtractSymbols(t))
        /\ o.shown = Stored(s.shown, u, GenerateDiagnostics(t))
    BY <1>4 DEF Opened
  <2>2. /\ DOMAIN o.symbols = DOMAIN s.symbols \cup {u} /\ o.symbols[u] = ExtractSymbols(t)
        /\ \A x \in DOMAIN s.symbols : x # u => o.symbols[x] = s.symbols[x]
    BY <2>1 DEF Stored
  <2>3. /\ DOMAIN o.shown = DOMAIN s.shown \cup {u} /\ o.shown[u] = GenerateDiagnostics(t)
        /\ \A x \in DOMAIN s.shown : x # u => o.shown[x] = s.shown[x]
    BY <2>1 DEF Stored
  <2>4. Knows(o, w, u)
    BY <1>1, <1>2, <1>4, <2>2, <2>3 DEF Knows
  <2>5. \A x \in DOMAIN v : x # u => Knows(o, w, x)
    BY <1>1, <1>2, <2>2, <2>3 DEF Knows, Synced
  <2> QED BY <1>1, <1>2, <2>2, <2>4, <2>5 DEF Synced
<1> QED BY <1>3, <1>4

\* A document that is closed.
LEMMA ClosedKnows ==
    ASSUME NEW s, NEW v, NEW u, Synced(s, v)
    PROVE  Synced(Closed(s, u), Erased(v, u))
<1> PICK w : w = Erased(v, u)
  OBVIOUS
<1> PICK o : o = Closed(s, u)
  OBVIOUS
<1>1. DOMAIN w = DOMAIN v \ {u} /\ \A x \in DOMAIN v : x # u => w[x] = v[x]
  BY DEF Erased, Restrict
<1>2. /\ o.documents = Erased(s.documents, u) /\ o.symbols = Erased(s.symbols, u)
      /\ o.shown = s.shown
  BY DEF Closed
<1>3. /\ DOMAIN o.documents = DOMAIN s.documents \ {u}
      /\ \A x \in DOMAIN s.documents : x # u => o.documents[x] = s.documents[x]
  BY <1>2 DEF Erased, Restrict
<1>4. /\ DOMAIN o.symbols = DOMAIN s.symbols \ {u}
      /\ \A x \in DOMAIN s.symbols : x # u => o.symbols[x] = s.symbols[x]
  BY <1>2 DEF Erased, Restrict
<1>5. \A x \in DOMAIN w : Knows(o, w, x)
  BY <1>1, <1>2, <1>3, <1>4 DEF Knows, Synced
<1> QED BY <1>1, <1>3, <1>4, <1>5 DEF Synced

\* One more message in the pipe.
LEMMA SentKeeps ==
    ASSUME PipeInv, NEW m, stdin' = Append(stdin, m), State' = State,
           m.kind = "request" => m.view = view,
           \A s : Synced(s, view) => Synced(AfterMessage(s, m), view')
    PROVE  PipeInv'
<1> PICK M : stdin \in Seq(M)
  BY DEF PipeInv
<1> PICK h : Reading(h)
  BY DEF PipeInv
<1> PICK k : k = Len(stdin)
  OBVIOUS
<1> PICK g : g = [i \in 0..(k + 1) |-> IF i = k + 1 THEN AfterMessage(h[k], m) ELSE h[i]]
  OBVIOUS
<1>1. stdin \in Seq(M \cup {m}) /\ k \in Nat
  OBVIOUS
<1>2. /\ stdin' \in Seq(M \cup {m}) /\ Len(stdin') = k + 1
      /\ stdin'[k + 1] = m /\ \A i \in 1..k : stdin'[i] = stdin[i]
  BY <1>1
<1>3. DOMAIN g = 0..(k + 1) /\ g[k + 1] = AfterMessage(h[k], m) /\ \A i \in 0..k : g[i] = h[i]
  BY <1>1
<1>4. h[0] = State /\ Synced(h[k], view)
  BY DEF Reading
<1>5. ASSUME NEW i \in 1..(k + 1)
      PROVE  /\ g[i] = AfterMessage(g[i - 1], stdin'[i])
             /\ stdin'[i].kind = "request" => Synced(g[i - 1], stdin'[i].view)
  <2>1. CASE i = k + 1
    <3>1. g[i - 1] = h[k] /\ stdin'[i] = m /\ g[i] = AfterMessage(h[k], m)
      BY <1>1, <1>2, <1>3, <2>1
    <3> QED BY <1>4, <3>1
  <2>2. CASE i # k + 1
    <3>1. i \in 1..k /\ i - 1 \in 0..k /\ i \in 0..k
      BY <1>1, <2>2
    <3>2. g[i - 1] = h[i - 1] /\ stdin'[i] = stdin[i] /\ g[i] = h[i]
      BY <1>2, <1>3, <3>1
    <3>3. /\ h[i] = AfterMessage(h[i - 1], stdin[i])
          /\ stdin[i].kind = "request" => Synced(h[i - 1], stdin[i].view)
      BY <3>1 DEF Reading
    <3> QED BY <3>2, <3>3
  <2> QED BY <2>1, <2>2
<1>6. Reading(g)'
  <2>1. g[0] = State'
    BY <1>1, <1>3, <1>4
  <2>2. Synced(g[k + 1], view')
    BY <1>3, <1>4
  <2> QED BY <1>2, <1>3, <1>5, <2>1, <2>2 DEF Reading
<1> QED BY <1>2, <1>6 DEF PipeInv

\* One message less.
LEMMA ReadKeeps ==
    ASSUME PipeInv, stdin # <<>>, stdin' = Tail(stdin), view' = view,
           State' = AfterMessage(State, Head(stdin))
    PROVE  PipeInv'
<1> PICK M : stdin \in Seq(M)
  BY DEF PipeInv
<1> PICK h : Reading(h)
  BY DEF PipeInv
<1> PICK k : k = Len(stdin) - 1
  OBVIOUS
<1> PICK g : g = [i \in 0..k |-> h[i + 1]]
  OBVIOUS
<1>1. k \in Nat /\ Len(stdin) = k + 1 /\ stdin[1] = Head(stdin)
  OBVIOUS
<1>2. stdin' \in Seq(M) /\ Len(stdin') = k /\ \A i \in 1..k : stdin'[i] = stdin[i + 1]
  BY <1>1
<1>3. DOMAIN g = 0..k /\ \A i \in 0..k : g[i] = h[i + 1]
  OBVIOUS
<1>4. h[0] = State /\ h[1] = AfterMessage(h[0], stdin[1]) /\ Synced(h[k + 1], view)
  BY <1>1 DEF Reading
<1>5. g[0] = State'
  BY <1>1, <1>3, <1>4
<1>6. ASSUME NEW i \in 1..k
      PROVE  /\ g[i] = AfterMessage(g[i - 1], stdin'[i])
             /\ stdin'[i].kind = "request" => Synced(g[i - 1], stdin'[i].view)
  <2>1. i + 1 \in 1..(k + 1) /\ i - 1 \in 0..k /\ i \in 0..k /\ (i + 1) - 1 = i
    BY <1>1
  <2>2. g[i] = h[i + 1] /\ g[i - 1] = h[i] /\ stdin'[i] = stdin[i + 1]
    BY <1>2, <1>3, <2>1
  <2>3. /\ h[i + 1] = AfterMessage(h[i], stdin[i + 1])
        /\ stdin[i + 1].kind = "request" => Synced(h[i], stdin[i + 1].view)
    BY <1>1, <2>1 DEF Reading
  <2> QED BY <2>2, <2>3
<1>7. Synced(g[k], view')
  <2>1. k \in 0..k /\ g[k] = h[k + 1]
    BY <1>1, <1>3
  <2> QED BY <1>4, <2>1
<1> QED BY <1>2, <1>3, <1>5, <1>6, <1>7 DEF PipeInv, Reading

\* Nothing is read or written.
LEMMA IdleKeeps ==
    ASSUME PipeInv, UNCHANGED <<stdin, view>>, State' = State
    PROVE  PipeInv'
  BY DEF PipeInv, Reading

\* Every step of the editor.
LEMMA EditorKeeps ==
    ASSUME PipeInv, Editor
    PROVE  PipeInv'
<1>0. ASSUME NEW m, Sends(m), m.kind = "request" => m.view = view,
             \A s : Synced(s, view) => Synced(AfterMessage(s, m), view')
      PROVE  PipeInv'
  <2>1. stdin' = Append(stdin, m) /\ State' = State
    BY <1>0 DEF Sends, State
  <2> QED BY <1>0, <2>1, SentKeeps
<1>1. ASSUME NEW u \in Uris, NEW t \in Sources, OpenDocument(u, t) PROVE PipeInv'
  <2> PICK d : d = [text |-> t, kept |-> t,
                    read |-> IF Ast[t] = Unreadable THEN Unreadable ELSE t]
    OBVIOUS
  <2> PICK m : m = [kind |-> "didOpen", uri |-> u, text |-> t]
    OBVIOUS
  <2>1. u \notin DOMAIN view /\ view' = Stored(view, u, d) /\ Sends(m)
    BY <1>1 DEF OpenDocument
  <2>2. \A s : AfterMessage(s, m) = Opened(s, u, t)
    BY DEF AfterMessage
  <2>3. t # Unreadable /\ d.kept = t /\ d.read = IF Ast[t] # Unreadable THEN t ELSE Unreadable
    BY LspAssumption
  <2>4. ASSUME NEW s, Synced(s, view) PROVE Synced(AfterMessage(s, m), view')
    BY <2>1, <2>2, <2>3, <2>4, OpenedKnows
  <2> QED BY <1>0, <2>1, <2>4
<1>2. ASSUME NEW u \in Uris, NEW t \in Sources, EditDocument(u, t) PROVE PipeInv'
  <2> PICK d : d = Changed(view[u], t)
    OBVIOUS
  <2> PICK m : m = [kind |-> "didChange", uri |-> u, text |-> t]
    OBVIOUS
  <2>1. u \in DOMAIN view /\ view' = Stored(view, u, d) /\ Sends(m)
    BY <1>2 DEF EditDocument
  <2>2. \A s : AfterMessage(s, m) = IF t = <<>> THEN s ELSE Opened(s, u, t)
    BY DEF AfterMessage
  <2>3. ASSUME NEW s, Synced(s, view) PROVE Synced(AfterMessage(s, m), view')
    <3>1. CASE t = <<>>
      <4>1. d.kept = view[u].kept /\ d.read = view[u].read
        BY <3>1 DEF Changed
      <4>2. DOMAIN view' = DOMAIN view
            /\ \A x \in DOMAIN view : /\ view'[x].kept = view[x].kept
                                      /\ view'[x].read = view[x].read
        BY <2>1, <4>1 DEF Stored
      <4>3. AfterMessage(s, m) = s
        BY <2>2, <3>1
      <4> QED BY <2>3, <4>2, <4>3 DEF Synced, Knows
    <3>2. CASE t # <<>>
      <4>1. /\ t # Unreadable /\ d.kept = t
            /\ d.read = IF Ast[t] # Unreadable THEN t ELSE view[u].read
        BY <3>2, LspAssumption DEF Changed
      <4> QED BY <2>1, <2>2, <2>3, <3>2, <4>1, OpenedKnows
    <3> QED BY <3>1, <3>2
  <2> QED BY <1>0, <2>1, <2>3
<1>3. ASSUME NEW u \in Uris, SaveDocument(u) PROVE PipeInv'
  <2> PICK m : m = [kind |-> "didSave", uri |-> u]
    OBVIOUS
  <2>1. view' = view /\ Sends(m)
    BY <1>3 DEF SaveDocument
  <2>2. m.kind # "request" /\ \A s : AfterMessage(s, m) = s
    BY DEF AfterMessage
  <2> QED BY <1>0, <2>1, <2>2
<1>4. ASSUME NEW u \in Uris, CloseDocument(u) PROVE PipeInv'
  <2> PICK m : m = [kind |-> "didClose", uri |-> u]
    OBVIOUS
  <2>1. view' = Erased(view, u) /\ Sends(m)
    BY <1>4 DEF CloseDocument
  <2>2. m.kind # "request" /\ \A s : AfterMessage(s, m) = Closed(s, u)
    BY DEF AfterMessage
  <2> QED BY <1>0, <2>1, <2>2, ClosedKnows
<1>5. CASE AskServer
  <2> PICK m : m = [kind |-> "request", view |-> view]
    OBVIOUS
  <2>1. view' = view /\ Sends(m)
    BY <1>5 DEF AskServer
  <2>2. m.view = view /\ \A s : AfterMessage(s, m) = s
    BY DEF AfterMessage
  <2> QED BY <1>0, <2>1, <2>2
<1>6. CASE HangUp
  BY <1>6, IdleKeeps DEF HangUp, State
<1> QED BY <1>1, <1>2, <1>3, <1>4, <1>5, <1>6 DEF Editor

\* Every step of the server: it comes to what its messages make of what it had.
LEMMA ServerKeeps ==
    ASSUME PipeInv,
           \/ DidOpen \/ DidChange \/ DidSave \/ DidClose \/ EndOfInput
           \/ stdin /= <<>> /\ Message.kind = "request" /\ HandleRequest
    PROVE  PipeInv'
<1>0. ASSUME stdin # <<>>, stdin' = Tail(stdin), view' = view,
             State' = AfterMessage(State, Message)
      PROVE  PipeInv'
  BY <1>0, ReadKeeps DEF Message
<1>1. ASSUME NEW u, NEW t, ParseDocument(u, t) PROVE State' = Opened(State, u, t)
  BY <1>1 DEF ParseDocument, Opened, State
<1>2. CASE DidOpen
  <2>1. /\ stdin # <<>> /\ Message.kind = "didOpen" /\ stdin' = Tail(stdin) /\ view' = view
        /\ ParseDocument(Message.uri, Message.text)
    BY <1>2 DEF DidOpen, Reads, Message, editorVars
  <2>2. AfterMessage(State, Message) = Opened(State, Message.uri, Message.text)
    BY <2>1 DEF AfterMessage
  <2> QED BY <1>0, <1>1, <2>1, <2>2
<1>3. CASE DidChange
  <2>1. /\ stdin # <<>> /\ Message.kind = "didChange" /\ stdin' = Tail(stdin) /\ view' = view
        /\ IF Message.text = <<>> THEN UNCHANGED <<documents, symbols, shown>>
           ELSE ParseDocument(Message.uri, Message.text)
    BY <1>3 DEF DidChange, Reads, Message, editorVars
  <2>2. AfterMessage(State, Message) =
          IF Message.text = <<>> THEN State ELSE Opened(State, Message.uri, Message.text)
    BY <2>1 DEF AfterMessage
  <2>3. CASE Message.text = <<>>
    <3>1. State' = State
      BY <2>1, <2>3 DEF State
    <3> QED BY <1>0, <2>1, <2>2, <2>3, <3>1
  <2>4. CASE Message.text # <<>>
    BY <1>0, <1>1, <2>1, <2>2, <2>4
  <2> QED BY <2>3, <2>4
<1>4. CASE DidSave
  <2>1. /\ stdin # <<>> /\ Message.kind = "didSave" /\ stdin' = Tail(stdin) /\ view' = view
        /\ State' = State
    BY <1>4 DEF DidSave, Reads, Message, editorVars, State
  <2>2. AfterMessage(State, Message) = State
    BY <2>1 DEF AfterMessage
  <2> QED BY <1>0, <2>1, <2>2
<1>5. CASE DidClose
  <2>1. /\ stdin # <<>> /\ Message.kind = "didClose" /\ stdin' = Tail(stdin) /\ view' = view
        /\ State' = Closed(State, Message.uri)
    BY <1>5 DEF DidClose, Reads, Message, editorVars, State, Closed
  <2>2. AfterMessage(State, Message) = Closed(State, Message.uri)
    BY <2>1 DEF AfterMessage
  <2> QED BY <1>0, <2>1, <2>2
<1>6. CASE EndOfInput
  BY <1>6, IdleKeeps DEF EndOfInput, State, editorVars
<1>7. CASE stdin /= <<>> /\ Message.kind = "request" /\ HandleRequest
  <2>1. stdin' = Tail(stdin) /\ view' = view /\ State' = State
    <3>1. ASSUME NEW method, NEW u, NEW p, NEW content, Replies(method, u, p, content)
          PROVE  stdin' = Tail(stdin) /\ view' = view /\ State' = State
      BY <3>1 DEF Replies, Reads, State, editorVars
    <3> QED BY <1>7, <3>1 DEF HandleRequest, Completion, DocumentSymbol, InlayHint, SemanticTokens,
               DocumentFormatting, Hover, Definition, References, Rename, RangeFormatting,
               WorkspaceSymbol, Shutdown
  <2>2. AfterMessage(State, Message) = State
    BY <1>7 DEF AfterMessage
  <2> QED BY <1>0, <1>7, <2>1, <2>2
<1> QED BY <1>2, <1>3, <1>4, <1>5, <1>6, <1>7

\* Nothing is open, nothing sent.
LEMMA PipeStart == LspInit => PipeInv
<1> SUFFICES ASSUME LspInit PROVE PipeInv
  OBVIOUS
<1> PICK h : h = [i \in 0..0 |-> State]
  OBVIOUS
<1>1. stdin = <<>> /\ Len(stdin) = 0 /\ stdin \in Seq({})
  BY DEF LspInit
<1>2. DOMAIN h = 0..0 /\ h[0] = State
  OBVIOUS
<1>3. Synced(State, view)
  BY DEF LspInit, Synced, State
<1> QED BY <1>1, <1>2, <1>3 DEF PipeInv, Reading

\* When the server comes to a request it has the documents the editor had when it asked,
\* whatever was opened, changed, closed and saved on the way, however many messages are
\* in the pipe: of each the last text that was not empty, and the symbols and diagnostics
\* of the last one the lexer took (handleNotification, parseDocument).
THEOREM ServerInStep == LspSpec => []InStep
<1>1. PipeInv /\ [LspNext]_lspVars => PipeInv'
  <2> SUFFICES ASSUME PipeInv, [LspNext]_lspVars PROVE PipeInv'
    OBVIOUS
  <2>1. CASE UNCHANGED lspVars
    BY <2>1, IdleKeeps DEF lspVars, State
  <2> QED BY <2>1, EditorKeeps, ServerKeeps DEF LspNext
<1>2. PipeInv => InStep
  <2> SUFFICES ASSUME PipeInv, stdin # <<>>, Message.kind = "request" PROVE InStep
    BY DEF InStep
  <2> PICK M : stdin \in Seq(M)
    BY DEF PipeInv
  <2> PICK h : Reading(h)
    BY DEF PipeInv
  <2>1. 1 \in 1..Len(stdin) /\ stdin[1] = Message
    BY DEF Message
  <2>2. Synced(State, Message.view)
    BY <2>1 DEF Reading
  <2> QED BY <2>2 DEF InStep, Synced, Knows, State
<1> QED BY <1>1, <1>2, PipeStart, PTL DEF LspSpec

-----------------------------------------------------------------------------
(* The streams.                                                                *)

USE StreamsAssumption

(************************** Sequences of values ******************************)

Value == Seq(Nat)
Values == Seq(Value)

\* Every number of S is before every one of T.
Precedes(S, T) == \A x \in S, y \in T : x < y

\* A value is a sequence by itself, of one.
LEMMA OneValue ==
    ASSUME NEW v \in Value
    PROVE  /\ <<v>> \in Values /\ Numbers(<<v>>) = Range(v)
           /\ Distinct(<<v>>) <=> \A a, b \in DOMAIN v : v[a] = v[b] => a = b
           /\ Increasing(<<v>>) <=> \A a, b \in DOMAIN v : a < b => v[a] < v[b]
<1> DEFINE s == <<v>>
<1>1. s \in Values /\ DOMAIN s = {1} /\ s[1] = v
  BY DEF Values
<1> HIDE DEF s
<1>2. Numbers(s) = Range(v)
  BY <1>1 DEF Numbers
<1>3. Distinct(s) <=> \A a, b \in DOMAIN v : v[a] = v[b] => a = b
  BY <1>1 DEF Distinct
<1>4. Increasing(s) <=> \A a, b \in DOMAIN v : a < b => v[a] < v[b]
  BY <1>1 DEF Increasing
<1> QED BY <1>1, <1>2, <1>3, <1>4 DEF s

\* The items of two sequences put together.
LEMMA JoinedItems ==
    ASSUME NEW S, NEW s \in Seq(S), NEW t \in Seq(S)
    PROVE  /\ s \o t \in Seq(S) /\ Len(s \o t) = Len(s) + Len(t)
           /\ Len(s) \in Nat /\ Len(t) \in Nat
           /\ \A i \in 1..Len(s) : (s \o t)[i] = s[i]
           /\ \A i \in 1..Len(t) : (s \o t)[Len(s) + i] = t[i]
  OBVIOUS

\* A place in the two is one in the first, or one in the second, and the other way round.
LEMMA JoinedPlaces ==
    ASSUME NEW S, NEW s \in Seq(S), NEW t \in Seq(S)
    PROVE  /\ Len(s) \in Nat /\ DOMAIN (s \o t) \subseteq Int
           /\ \A i \in DOMAIN s :
                 i \in DOMAIN (s \o t) /\ (s \o t)[i] = s[i] /\ i \in Int /\ i <= Len(s)
           /\ \A i \in DOMAIN t : /\ Len(s) + i \in DOMAIN (s \o t)
                                  /\ (s \o t)[Len(s) + i] = t[i] /\ i \in Int /\ i > 0
           /\ \A i \in DOMAIN (s \o t) :
                 \/ i \in DOMAIN s /\ (s \o t)[i] = s[i] /\ i <= Len(s)
                 \/ i - Len(s) \in DOMAIN t /\ (s \o t)[i] = t[i - Len(s)] /\ i > Len(s)
<1> DEFINE u == s \o t
           m == Len(s)
           n == Len(t)
<1>1. /\ m \in Nat /\ n \in Nat /\ Len(u) = m + n
      /\ DOMAIN s = 1..m /\ DOMAIN t = 1..n /\ DOMAIN u = 1..Len(u)
      /\ (\A i \in 1..m : u[i] = s[i]) /\ \A i \in 1..n : u[m + i] = t[i]
  BY JoinedItems
<1> HIDE DEF u, m, n
<1>2. ASSUME NEW i \in DOMAIN u
      PROVE  \/ i \in DOMAIN s /\ u[i] = s[i] /\ i <= m
             \/ i - m \in DOMAIN t /\ u[i] = t[i - m] /\ i > m
  <2>1. CASE i <= m
    BY <1>1, <2>1
  <2>2. CASE i > m
    <3>1. i - m \in 1..n /\ m + (i - m) = i
      BY <1>1, <2>2
    <3> QED BY <1>1, <2>2, <3>1
  <2> QED BY <1>1, <2>1, <2>2
<1>3. /\ m \in Nat /\ DOMAIN u \subseteq Int
      /\ \A i \in DOMAIN s : i \in DOMAIN u /\ u[i] = s[i] /\ i \in Int /\ i <= m
      /\ \A i \in DOMAIN t : m + i \in DOMAIN u /\ u[m + i] = t[i] /\ i \in Int /\ i > 0
  BY <1>1
<1> QED BY <1>2, <1>3 DEF u, m

\* Numbers of two sequences put together.
LEMMA JoinedNumbers ==
    ASSUME NEW s \in Values, NEW t \in Values
    PROVE  s \o t \in Values /\ Numbers(s \o t) = Numbers(s) \cup Numbers(t)
<1>1. s \o t \in Values
  BY DEF Values
<1>2. Numbers(s \o t) \subseteq Numbers(s) \cup Numbers(t)
  <2>1. \A i \in DOMAIN (s \o t) :
           \/ i \in DOMAIN s /\ (s \o t)[i] = s[i]
           \/ i - Len(s) \in DOMAIN t /\ (s \o t)[i] = t[i - Len(s)]
    BY JoinedPlaces DEF Values
  <2> QED BY <2>1 DEF Numbers
<1>3. Numbers(s) \subseteq Numbers(s \o t)
  <2>1. \A i \in DOMAIN s : i \in DOMAIN (s \o t) /\ (s \o t)[i] = s[i]
    BY JoinedPlaces DEF Values
  <2> QED BY <2>1 DEF Numbers
<1>4. Numbers(t) \subseteq Numbers(s \o t)
  <2>1. \A i \in DOMAIN t : Len(s) + i \in DOMAIN (s \o t) /\ (s \o t)[Len(s) + i] = t[i]
    BY JoinedPlaces DEF Values
  <2> QED BY <2>1 DEF Numbers
<1> QED BY <1>1, <1>2, <1>3, <1>4

\* A number of a sequence is at a place of a value at a place of it.
LEMMA NumberAt ==
    ASSUME NEW s, NEW i \in DOMAIN s, NEW a \in DOMAIN s[i]
    PROVE  s[i][a] \in Numbers(s)
  BY DEF Numbers, Range

\* A number of a sequence is in one of its values.
LEMMA NumberPlace ==
    ASSUME NEW s, NEW x \in Numbers(s)
    PROVE  \E i \in DOMAIN s : \E a \in DOMAIN s[i] : s[i][a] = x
  BY DEF Numbers, Range

\* No number is twice in two sequences put together, if none is in either, nor in both.
LEMMA JoinedDistinct ==
    ASSUME NEW s \in Values, NEW t \in Values
    PROVE  Distinct(s \o t) <=> Distinct(s) /\ Distinct(t) /\ Apart(s, t)
<1> DEFINE u == s \o t
           m == Len(s)
<1>1. /\ m \in Nat /\ DOMAIN u \subseteq Int
      /\ \A i \in DOMAIN s : i \in DOMAIN u /\ u[i] = s[i] /\ i \in Int /\ i <= m
      /\ \A i \in DOMAIN t : m + i \in DOMAIN u /\ u[m + i] = t[i] /\ i \in Int /\ i > 0
  BY JoinedPlaces DEF Values
<1>2. \A i \in DOMAIN u : \/ i \in DOMAIN s /\ u[i] = s[i] /\ i <= m
                          \/ i - m \in DOMAIN t /\ u[i] = t[i - m] /\ i > m
  BY JoinedPlaces DEF Values
<1> HIDE DEF u, m
<1>3. ASSUME Distinct(u) PROVE Distinct(s)
  BY <1>1, <1>3 DEF Distinct
<1>4. ASSUME Distinct(u) PROVE Distinct(t)
  <2> SUFFICES ASSUME NEW i \in DOMAIN t, NEW j \in DOMAIN t,
                      NEW a \in DOMAIN t[i], NEW b \in DOMAIN t[j], t[i][a] = t[j][b]
               PROVE  i = j /\ a = b
    BY DEF Distinct
  <2>1. m + i \in DOMAIN u /\ m + j \in DOMAIN u /\ u[m + i] = t[i] /\ u[m + j] = t[j]
    BY <1>1
  <2>2. m + i = m + j /\ a = b
    BY <1>4, <2>1 DEF Distinct
  <2> QED BY <1>1, <2>2
<1>5. ASSUME Distinct(u) PROVE Apart(s, t)
  <2> SUFFICES ASSUME NEW x \in Numbers(s), x \in Numbers(t) PROVE FALSE
    BY DEF Apart
  <2>1. PICK i \in DOMAIN s : \E a \in DOMAIN s[i] : s[i][a] = x
    BY NumberPlace
  <2>2. PICK j \in DOMAIN t : \E b \in DOMAIN t[j] : t[j][b] = x
    BY NumberPlace
  <2>3. i \in DOMAIN u /\ m + j \in DOMAIN u /\ u[i] = s[i] /\ u[m + j] = t[j]
    BY <1>1
  <2>4. i = m + j
    BY <1>5, <2>1, <2>2, <2>3 DEF Distinct
  <2> QED BY <1>1, <2>4
<1>6. ASSUME Distinct(s), Distinct(t), Apart(s, t) PROVE Distinct(u)
  <2> SUFFICES ASSUME NEW i \in DOMAIN u, NEW j \in DOMAIN u,
                      NEW a \in DOMAIN u[i], NEW b \in DOMAIN u[j], u[i][a] = u[j][b]
               PROVE  i = j /\ a = b
    BY DEF Distinct
  <2>1. CASE i <= m /\ j <= m
    BY <1>1, <1>2, <1>6, <2>1 DEF Distinct
  <2>2. CASE i > m /\ j > m
    <3>1. i - m \in DOMAIN t /\ j - m \in DOMAIN t /\ u[i] = t[i - m] /\ u[j] = t[j - m]
      BY <1>1, <1>2, <2>2
    <3>2. i - m = j - m /\ a = b
      BY <1>6, <3>1 DEF Distinct
    <3> QED BY <1>1, <3>2
  <2>3. CASE i <= m /\ j > m
    <3>1. i \in DOMAIN s /\ u[i] = s[i] /\ j - m \in DOMAIN t /\ u[j] = t[j - m]
      BY <1>1, <1>2, <2>3
    <3>2. u[i][a] \in Numbers(s) /\ u[j][b] \in Numbers(t)
      BY <3>1, NumberAt
    <3> QED BY <1>6, <3>2 DEF Apart
  <2>4. CASE i > m /\ j <= m
    <3>1. j \in DOMAIN s /\ u[j] = s[j] /\ i - m \in DOMAIN t /\ u[i] = t[i - m]
      BY <1>1, <1>2, <2>4
    <3>2. u[i][a] \in Numbers(t) /\ u[j][b] \in Numbers(s)
      BY <3>1, NumberAt
    <3> QED BY <1>6, <3>2 DEF Apart
  <2>5. (i <= m \/ i > m) /\ (j <= m \/ j > m)
    BY <1>1
  <2> QED BY <2>1, <2>2, <2>3, <2>4, <2>5
<1>7. Distinct(u) <=> Distinct(s) /\ Distinct(t) /\ Apart(s, t)
  BY <1>3, <1>4, <1>5, <1>6
<1> QED BY <1>7 DEF u

\* They are in order, if each is and the numbers of one are before those of the other.
LEMMA JoinedIncreasing ==
    ASSUME NEW s \in Values, NEW t \in Values
    PROVE  Increasing(s \o t) <=>
               Increasing(s) /\ Increasing(t) /\ Precedes(Numbers(s), Numbers(t))
<1> DEFINE u == s \o t
           m == Len(s)
<1>1. /\ m \in Nat /\ DOMAIN u \subseteq Int
      /\ \A i \in DOMAIN s : i \in DOMAIN u /\ u[i] = s[i] /\ i \in Int /\ i <= m
      /\ \A i \in DOMAIN t : m + i \in DOMAIN u /\ u[m + i] = t[i] /\ i \in Int /\ i > 0
  BY JoinedPlaces DEF Values
<1>2. \A i \in DOMAIN u : \/ i \in DOMAIN s /\ u[i] = s[i] /\ i <= m
                          \/ i - m \in DOMAIN t /\ u[i] = t[i - m] /\ i > m
  BY JoinedPlaces DEF Values
<1> HIDE DEF u, m
<1>3. ASSUME Increasing(u) PROVE Increasing(s)
  BY <1>1, <1>3 DEF Increasing
<1>4. ASSUME Increasing(u) PROVE Increasing(t)
  <2> SUFFICES ASSUME NEW i \in DOMAIN t, NEW j \in DOMAIN t,
                      NEW a \in DOMAIN t[i], NEW b \in DOMAIN t[j],
                      i < j \/ (i = j /\ a < b)
               PROVE  t[i][a] < t[j][b]
    BY DEF Increasing
  <2>1. m + i \in DOMAIN u /\ m + j \in DOMAIN u /\ u[m + i] = t[i] /\ u[m + j] = t[j]
    BY <1>1
  <2>2. m + i < m + j \/ (m + i = m + j /\ a < b)
    BY <1>1
  <2> QED BY <1>4, <2>1, <2>2 DEF Increasing
<1>5. ASSUME Increasing(u) PROVE Precedes(Numbers(s), Numbers(t))
  <2> SUFFICES ASSUME NEW x \in Numbers(s), NEW y \in Numbers(t) PROVE x < y
    BY DEF Precedes
  <2>1. PICK i \in DOMAIN s : \E a \in DOMAIN s[i] : s[i][a] = x
    BY NumberPlace
  <2>2. PICK j \in DOMAIN t : \E b \in DOMAIN t[j] : t[j][b] = y
    BY NumberPlace
  <2>3. i \in DOMAIN u /\ m + j \in DOMAIN u /\ u[i] = s[i] /\ u[m + j] = t[j]
    BY <1>1
  <2>4. i < m + j
    BY <1>1
  <2> QED BY <1>5, <2>1, <2>2, <2>3, <2>4 DEF Increasing
<1>6. ASSUME Increasing(s), Increasing(t), Precedes(Numbers(s), Numbers(t)) PROVE Increasing(u)
  <2> SUFFICES ASSUME NEW i \in DOMAIN u, NEW j \in DOMAIN u,
                      NEW a \in DOMAIN u[i], NEW b \in DOMAIN u[j],
                      i < j \/ (i = j /\ a < b)
               PROVE  u[i][a] < u[j][b]
    BY DEF Increasing
  <2>1. CASE i <= m /\ j <= m
    <3>1. i \in DOMAIN s /\ j \in DOMAIN s /\ u[i] = s[i] /\ u[j] = s[j]
      BY <1>1, <1>2, <2>1
    <3> QED BY <1>6, <3>1 DEF Increasing
  <2>2. CASE i > m /\ j > m
    <3>1. i - m \in DOMAIN t /\ j - m \in DOMAIN t /\ u[i] = t[i - m] /\ u[j] = t[j - m]
      BY <1>1, <1>2, <2>2
    <3>2. i - m < j - m \/ (i - m = j - m /\ a < b)
      BY <1>1
    <3> QED BY <1>6, <3>1, <3>2 DEF Increasing
  <2>3. CASE i <= m /\ j > m
    <3>1. i \in DOMAIN s /\ u[i] = s[i] /\ j - m \in DOMAIN t /\ u[j] = t[j - m]
      BY <1>1, <1>2, <2>3
    <3>2. u[i][a] \in Numbers(s) /\ u[j][b] \in Numbers(t)
      BY <3>1, NumberAt
    <3> QED BY <1>6, <3>2 DEF Precedes
  <2>4. CASE i > m /\ j <= m
    BY <1>1, <2>4
  <2>5. (i <= m \/ i > m) /\ (j <= m \/ j > m)
    BY <1>1
  <2> QED BY <2>1, <2>2, <2>3, <2>4, <2>5
<1>7. Increasing(u) <=> Increasing(s) /\ Increasing(t) /\ Precedes(Numbers(s), Numbers(t))
  BY <1>3, <1>4, <1>5, <1>6
<1> QED BY <1>7 DEF u

\* One value made of two.
LEMMA JoinedRange ==
    ASSUME NEW v \in Value, NEW w \in Value
    PROVE  v \o w \in Value /\ \A x \in Range(v \o w) : x \in Range(v) \/ x \in Range(w)
  BY JoinedPlaces DEF Value, Range

\* No number is in it twice, and they are in order, if that is so of each and of both.
LEMMA JoinedValue ==
    ASSUME NEW v \in Value, NEW w \in Value
    PROVE  /\ Distinct(<<v>>) /\ Distinct(<<w>>) /\ Range(v) \cap Range(w) = {}
                => Distinct(<<v \o w>>)
           /\ Increasing(<<v>>) /\ Increasing(<<w>>) /\ Precedes(Range(v), Range(w))
                => Increasing(<<v \o w>>)
<1> DEFINE u == v \o w
           m == Len(v)
<1>1. /\ m \in Nat /\ DOMAIN u \subseteq Int
      /\ \A i \in DOMAIN u :
            \/ i \in DOMAIN v /\ u[i] = v[i] /\ i <= m
            \/ i - m \in DOMAIN w /\ u[i] = w[i - m] /\ i > m
  BY JoinedPlaces DEF Value
<1>2. u \in Value
  BY DEF Value
<1>3. \A i \in DOMAIN v : i \in Int
  BY DEF Value
<1> HIDE DEF u, m
<1>4. ASSUME Distinct(<<v>>), Distinct(<<w>>), Range(v) \cap Range(w) = {}
      PROVE  Distinct(<<u>>)
  <2> SUFFICES ASSUME NEW a \in DOMAIN u, NEW b \in DOMAIN u, u[a] = u[b] PROVE a = b
    BY <1>2, OneValue
  <2>1. /\ \A i, j \in DOMAIN v : v[i] = v[j] => i = j
        /\ \A i, j \in DOMAIN w : w[i] = w[j] => i = j
    BY <1>4, OneValue
  <2>2. \A i \in DOMAIN v, j \in DOMAIN w : v[i] # w[j]
    BY <1>4 DEF Range
  <2>3. CASE a > m /\ b > m
    <3>1. a - m \in DOMAIN w /\ b - m \in DOMAIN w /\ w[a - m] = w[b - m]
      BY <1>1, <2>3
    <3>2. a - m = b - m
      BY <2>1, <3>1
    <3> QED BY <1>1, <3>2
  <2> QED BY <1>1, <2>1, <2>2, <2>3
<1>5. ASSUME Increasing(<<v>>), Increasing(<<w>>), Precedes(Range(v), Range(w))
      PROVE  Increasing(<<u>>)
  <2> SUFFICES ASSUME NEW a \in DOMAIN u, NEW b \in DOMAIN u, a < b PROVE u[a] < u[b]
    BY <1>2, OneValue
  <2>1. /\ \A i, j \in DOMAIN v : i < j => v[i] < v[j]
        /\ \A i, j \in DOMAIN w : i < j => w[i] < w[j]
    BY <1>5, OneValue
  <2>2. \A i \in DOMAIN v, j \in DOMAIN w : v[i] < w[j]
    BY <1>5 DEF Precedes, Range
  <2>3. CASE a > m /\ b > m
    <3>1. a - m \in DOMAIN w /\ b - m \in DOMAIN w /\ u[a] = w[a - m] /\ u[b] = w[b - m]
      BY <1>1, <2>3
    <3>2. a - m < b - m
      BY <1>1
    <3> QED BY <2>1, <3>1, <3>2
  <2>4. CASE a <= m /\ b > m
    BY <1>1, <2>2, <2>4
  <2>5. CASE a <= m /\ b <= m
    BY <1>1, <2>1, <2>5
  <2>6. (a <= m \/ a > m) /\ (b <= m \/ b > m) /\ ~(a > m /\ b <= m)
    BY <1>1
  <2> QED BY <2>3, <2>4, <2>5, <2>6
<1> QED BY <1>4, <1>5 DEF u

\* What FlattenSeq defines of a sequence.
Flattens(s, f) == f = [i \in 1..Len(s) |-> IF i = 1 THEN s[i] ELSE f[i - 1] \o s[i]]

\* What FlattenSeq gives is what the last call of that function gives.
LEMMA FlattenIs ==
    ASSUME NEW s
    PROVE  FlattenSeq(s) = IF Len(s) = 0 THEN s ELSE (CHOOSE f : Flattens(s, f))[Len(s)]
  BY DEF FlattenSeq, Flattens

\* There is such a function: it is built for one more value at a time.
LEMMA FlattenExists ==
    ASSUME NEW s \in Values
    PROVE  Flattens(s, CHOOSE f : Flattens(s, f))
<1> DEFINE Step(f, i) == IF i = 1 THEN s[i] ELSE f[i - 1] \o s[i]
           Good == {n \in Nat : \E f : f = [i \in 1..n |-> Step(f, i)]}
<1>1. 0 \in Good
  <2>1. \E f : f = [i \in 1..0 |-> Step(f, i)]
    <3> DEFINE f == [i \in 1..0 |-> 0]
    <3>1. f = [i \in 1..0 |-> Step(f, i)]
      OBVIOUS
    <3> HIDE DEF f
    <3> QED BY <3>1
  <2> QED BY <2>1
<1>2. ASSUME NEW n \in Nat, n \in Good PROVE n + 1 \in Good
  <2>1. PICK f : f = [i \in 1..n |-> Step(f, i)]
    BY <1>2
  <2> DEFINE h == [i \in 1..n + 1 |-> Step(f, i)]
  <2>2. ASSUME NEW i \in 1..n + 1 PROVE Step(f, i) = Step(h, i)
    <3>1. CASE i = 1
      BY <3>1
    <3>2. CASE i # 1
      <4>1. i - 1 \in 1..n /\ i - 1 \in 1..n + 1
        BY <3>2
      <4>2. f[i - 1] = Step(f, i - 1) /\ h[i - 1] = Step(f, i - 1)
        BY <2>1, <4>1
      <4> QED BY <4>2, <3>2
    <3> QED BY <3>1, <3>2
  <2>3. h = [i \in 1..n + 1 |-> Step(h, i)]
    BY <2>2
  <2>4. \E g : g = [i \in 1..n + 1 |-> Step(g, i)]
    <3> HIDE DEF h
    <3> QED BY <2>3
  <2> HIDE DEF Step
  <2>5. n + 1 \in Nat
    OBVIOUS
  <2> QED BY <2>4, <2>5, Zenon
<1>3. Len(s) \in Good
  <2> HIDE DEF Good
  <2>1. Len(s) \in Nat
    BY DEF Values
  <2> QED BY <1>1, <1>2, <2>1, Induct
<1>4. \E f : Flattens(s, f)
  BY <1>3 DEF Flattens
<1> QED BY <1>4

\* A value made of the first n of a sequence, in their order, with nothing else in it.
Gathers(s, n, v) ==
    /\ v \in Value /\ \A x \in Range(v) : \E i \in 1..n : x \in Range(s[i])
    /\ Distinct(s) => Distinct(<<v>>)
    /\ Increasing(s) => Increasing(<<v>>)

\* FlattenSeq makes one value of several.
LEMMA FlattenGathers ==
    ASSUME NEW s \in Values
    PROVE  /\ FlattenSeq(s) \in Value /\ Range(FlattenSeq(s)) \subseteq Numbers(s)
           /\ Distinct(s) => Distinct(<<FlattenSeq(s)>>)
           /\ Increasing(s) => Increasing(<<FlattenSeq(s)>>)
<1> DEFINE f == CHOOSE f : Flattens(s, f)
           m == Len(s)
           Good == {n \in Nat : n + 1 <= m => Gathers(s, n + 1, f[n + 1])}
<1>1. m \in Nat /\ DOMAIN s = 1..m /\ \A i \in 1..m : s[i] \in Value
  BY DEF Values
<1>2. \A i \in 1..m : f[i] = IF i = 1 THEN s[i] ELSE f[i - 1] \o s[i]
  <2>1. Flattens(s, f)
    BY FlattenExists
  <2> HIDE DEF f
  <2> QED BY <2>1 DEF Flattens
<1> HIDE DEF f, m
<1>3. ASSUME NEW i \in 1..m
      PROVE  /\ Distinct(s) => Distinct(<<s[i]>>)
             /\ Increasing(s) => Increasing(<<s[i]>>)
  <2>1. s[i] \in Value
    BY <1>1
  <2>2. ASSUME Distinct(s) PROVE \A a, b \in DOMAIN s[i] : s[i][a] = s[i][b] => a = b
    BY <1>1, <2>2 DEF Distinct
  <2>3. ASSUME Increasing(s) PROVE \A a, b \in DOMAIN s[i] : a < b => s[i][a] < s[i][b]
    BY <1>1, <2>3 DEF Increasing
  <2> QED BY <2>1, <2>2, <2>3, OneValue
<1>4. 0 \in Good
  <2> SUFFICES ASSUME 1 <= m PROVE Gathers(s, 1, f[1])
    OBVIOUS
  <2>1. 1 \in 1..m /\ 1 \in 1..1
    BY <1>1
  <2>2. f[1] = s[1] /\ s[1] \in Value
    BY <1>1, <1>2, <2>1
  <2> QED BY <1>3, <2>1, <2>2 DEF Gathers
<1>5. ASSUME NEW n \in Nat, n \in Good PROVE n + 1 \in Good
  <2> SUFFICES ASSUME n + 1 + 1 <= m PROVE Gathers(s, n + 1 + 1, f[n + 1 + 1])
    BY <1>5
  <2> DEFINE k == n + 1
             v == f[k]
             w == s[k + 1]
  <2>1. k \in 1..m /\ k + 1 \in 1..m /\ k + 1 # 1 /\ (k + 1) - 1 = k
    BY <1>1
  <2>2. Gathers(s, k, v)
    BY <1>1, <1>5
  <2>3. f[k + 1] = v \o w /\ w \in Value
    BY <1>1, <1>2, <2>1
  <2> HIDE DEF v, w
  <2>4. v \in Value /\ v \o w \in Value
    BY <2>2, <2>3 DEF Gathers, Value
  <2>5. ASSUME NEW x \in Range(v \o w) PROVE x \in Range(v) \/ x \in Range(w)
    BY <2>3, <2>4, JoinedRange
  <2>6. \A x \in Range(v \o w) : \E i \in 1..k + 1 : x \in Range(s[i])
    <3>1. \A x \in Range(v) : \E i \in 1..k + 1 : x \in Range(s[i])
      <4>1. 1..k \subseteq 1..k + 1
        BY <2>1
      <4> QED BY <2>2, <4>1 DEF Gathers
    <3>2. \A x \in Range(w) : \E i \in 1..k + 1 : x \in Range(s[i])
      <4>1. k + 1 \in 1..k + 1
        BY <2>1
      <4> QED BY <4>1 DEF w
    <3> QED BY <2>5, <3>1, <3>2
  <2>7. ASSUME Distinct(s) PROVE Distinct(<<v \o w>>)
    <3>1. Range(v) \cap Range(w) = {}
      <4> SUFFICES ASSUME NEW x \in Range(v), x \in Range(w) PROVE FALSE
        OBVIOUS
      <4>1. PICK i \in 1..k : x \in Range(s[i])
        BY <2>2 DEF Gathers
      <4>2. i \in DOMAIN s /\ k + 1 \in DOMAIN s /\ i # k + 1
        BY <1>1, <2>1
      <4> QED BY <2>7, <4>1, <4>2 DEF Distinct, Range, w
    <3>2. Distinct(<<v>>) /\ Distinct(<<w>>)
      BY <1>3, <2>1, <2>2, <2>7 DEF Gathers, w
    <3> QED BY <2>3, <2>4, <3>1, <3>2, JoinedValue
  <2>8. ASSUME Increasing(s) PROVE Increasing(<<v \o w>>)
    <3>1. Precedes(Range(v), Range(w))
      <4> SUFFICES ASSUME NEW x \in Range(v), NEW y \in Range(w) PROVE x < y
        BY DEF Precedes
      <4>1. PICK i \in 1..k : x \in Range(s[i])
        BY <2>2 DEF Gathers
      <4>2. i \in DOMAIN s /\ k + 1 \in DOMAIN s /\ i < k + 1
        BY <1>1, <2>1
      <4> QED BY <2>8, <4>1, <4>2 DEF Increasing, Range, w
    <3>2. Increasing(<<v>>) /\ Increasing(<<w>>)
      BY <1>3, <2>1, <2>2, <2>8 DEF Gathers, w
    <3> QED BY <2>3, <2>4, <3>1, <3>2, JoinedValue
  <2> QED BY <2>3, <2>4, <2>6, <2>7, <2>8 DEF Gathers
<1>6. Nat \subseteq Good
  <2> HIDE DEF Good
  <2> QED BY <1>4, <1>5, Induct
<1>7. CASE m = 0
  <2>1. FlattenSeq(s) = <<>> /\ <<>> \in Value
    BY <1>1, <1>7, FlattenIs DEF m, Values, Value
  <2>2. Range(<<>>) = {} /\ Distinct(<<<<>>>>) /\ Increasing(<<<<>>>>)
    BY <2>1, OneValue DEF Range
  <2> QED BY <2>1, <2>2
<1>8. CASE m # 0
  <2>1. FlattenSeq(s) = f[m]
    BY <1>1, <1>8, FlattenIs DEF m, f
  <2>2. Gathers(s, m, f[m])
    <3>1. m - 1 \in Nat /\ (m - 1) + 1 = m
      BY <1>1, <1>8
    <3> QED BY <1>1, <1>6, <3>1
  <2>3. Range(f[m]) \subseteq Numbers(s)
    BY <1>1, <2>2 DEF Gathers, Numbers
  <2> QED BY <2>1, <2>2, <2>3 DEF Gathers
<1> QED BY <1>7, <1>8

\* Division of natural numbers.
LEMMA NotNegative ==
    ASSUME NEW a \in Nat
    PROVE  (a + Batch - 1) \div Batch \in Nat
<1>1. Batch \in Nat \ {0} /\ a + Batch - 1 \in Nat
  OBVIOUS
<1> QED BY <1>1

\* The items of a part of a sequence.
LEMMA SubSeqItems ==
    ASSUME NEW S, NEW s \in Seq(S), NEW a \in Nat \ {0}, NEW b \in Int, b <= Len(s)
    PROVE  /\ SubSeq(s, a, b) \in Seq(S)
           /\ \A k \in DOMAIN SubSeq(s, a, b) :
                 k \in Nat /\ k > 0 /\ a + k - 1 <= b /\ SubSeq(s, a, b)[k] = s[a + k - 1]
  OBVIOUS

\* The values of the n-th batch, which end where the next one begins.
Part(q, n) ==
    SubSeq(q, (n - 1) * Batch + 1, IF n * Batch < Len(q) THEN n * Batch ELSE Len(q))

\* The items of a part of a sequence that begins after the m-th.
LEMMA PartItems ==
    ASSUME NEW q \in Values, NEW n \in Nat \ {0}
    PROVE  /\ Part(q, n) \in Values
           /\ \A k \in DOMAIN Part(q, n) :
                 \E i \in DOMAIN q : /\ i = (n - 1) * Batch + k /\ i <= n * Batch
                                   /\ Part(q, n)[k] = q[i]
<1> DEFINE lo == (n - 1) * Batch
           up == n * Batch
           hi == IF up < Len(q) THEN up ELSE Len(q)
           p == SubSeq(q, lo + 1, hi)
<1>1. lo \in Nat /\ up \in Nat /\ Len(q) \in Nat /\ DOMAIN q = 1..Len(q)
  BY DEF Values
<1> HIDE DEF lo, up
<1>2. hi \in Nat /\ hi <= Len(q) /\ hi <= up
  BY <1>1
<1> HIDE DEF hi
<1>3. /\ p \in Values
      /\ \A k \in DOMAIN p :
            k \in Nat /\ k > 0 /\ (lo + 1) + k - 1 <= hi /\ p[k] = q[(lo + 1) + k - 1]
  <2>1. lo + 1 \in Nat \ {0} /\ hi \in Int /\ hi <= Len(q)
    BY <1>1, <1>2
  <2> QED BY <2>1, SubSeqItems DEF Values
<1> HIDE DEF p
<1>4. ASSUME NEW k \in DOMAIN p
      PROVE  lo + k \in DOMAIN q /\ lo + k <= up /\ p[k] = q[lo + k]
  <2>1. (lo + 1) + k - 1 = lo + k
    BY <1>1, <1>3
  <2> QED BY <1>1, <1>2, <1>3, <2>1
<1>5. Part(q, n) = p
  BY DEF Part, p, lo, up, hi
<1>6. \A k \in DOMAIN p : \E i \in DOMAIN q : i = lo + k /\ i <= up /\ p[k] = q[i]
  BY <1>4
<1> QED BY <1>3, <1>5, <1>6 DEF lo, up

\* What is in a batch.
LEMMA BatchItems ==
    ASSUME NEW q \in Values, NEW n \in DOMAIN Batches(q)
    PROVE  /\ n \in Nat \ {0} /\ Batches(q)[n] \in Value
           /\ \A x \in Range(Batches(q)[n]) :
                 \E i \in DOMAIN q : /\ (n - 1) * Batch < i /\ i <= n * Batch
                                   /\ x \in Range(q[i])
           /\ Distinct(q) => Distinct(<<Batches(q)[n]>>)
           /\ Increasing(q) => Increasing(<<Batches(q)[n]>>)
<1> DEFINE p == Part(q, n)
           c == (n - 1) * Batch
<1>1. n \in Nat \ {0} /\ Batches(q)[n] = FlattenSeq(p)
  BY DEF Batches, Part
<1>2. /\ p \in Values /\ c \in Int
      /\ \A k \in DOMAIN p :
            \E i \in DOMAIN q : i = c + k /\ i <= n * Batch /\ p[k] = q[i]
  BY <1>1, PartItems
<1>3. \A k \in DOMAIN p : k \in Nat /\ k > 0
  BY <1>2 DEF Values
<1> HIDE DEF p, c
<1>4. Distinct(q) => Distinct(p)
  BY <1>2, <1>3 DEF Distinct
<1>5. Increasing(q) => Increasing(p)
  <2> SUFFICES ASSUME Increasing(q), NEW k \in DOMAIN p, NEW l \in DOMAIN p,
                      NEW a \in DOMAIN p[k], NEW b \in DOMAIN p[l],
                      k < l \/ (k = l /\ a < b)
               PROVE  p[k][a] < p[l][b]
    BY DEF Increasing
  <2>1. /\ c + k \in DOMAIN q /\ p[k] = q[c + k] /\ c + l \in DOMAIN q /\ p[l] = q[c + l]
    BY <1>2
  <2>2. c + k < c + l \/ (c + k = c + l /\ a < b)
    BY <1>2, <1>3
  <2> QED BY <2>1, <2>2 DEF Increasing
<1>6. /\ FlattenSeq(p) \in Value /\ Range(FlattenSeq(p)) \subseteq Numbers(p)
      /\ Distinct(p) => Distinct(<<FlattenSeq(p)>>)
      /\ Increasing(p) => Increasing(<<FlattenSeq(p)>>)
  BY <1>2, FlattenGathers
<1>7. ASSUME NEW x \in Numbers(p)
      PROVE  \E i \in DOMAIN q : c < i /\ i <= n * Batch /\ x \in Range(q[i])
  <2>1. PICK k \in DOMAIN p : x \in Range(p[k])
    BY DEF Numbers
  <2>2. PICK i \in DOMAIN q : i = c + k /\ i <= n * Batch /\ p[k] = q[i]
    BY <1>2
  <2> QED BY <1>2, <1>3, <2>1, <2>2
<1> QED BY <1>1, <1>4, <1>5, <1>6, <1>7 DEF c

\* Batches have no number that was not there, once and in the same order.
LEMMA BatchesKeep ==
    ASSUME NEW q \in Values
    PROVE  /\ Batches(q) \in Values /\ Numbers(Batches(q)) \subseteq Numbers(q)
           /\ Distinct(q) => Distinct(Batches(q))
           /\ Increasing(q) => Increasing(Batches(q))
<1> DEFINE s == Batches(q)
           Within(n, i) == (n - 1) * Batch < i /\ i <= n * Batch
<1>1. \A n \in DOMAIN s :
         /\ n \in Nat \ {0} /\ s[n] \in Value
         /\ \A x \in Range(s[n]) : \E i \in DOMAIN q : Within(n, i) /\ x \in Range(q[i])
         /\ Distinct(q) => Distinct(<<s[n]>>)
         /\ Increasing(q) => Increasing(<<s[n]>>)
  BY BatchItems
<1>2. s \in Values
  <2>1. Len(q) \in Nat
    BY DEF Values
  <2>2. (Len(q) + Batch - 1) \div Batch \in Nat
    BY <2>1, NotNegative
  <2>3. DOMAIN s = 1..((Len(q) + Batch - 1) \div Batch)
    BY DEF Batches
  <2>4. s = [n \in 1..((Len(q) + Batch - 1) \div Batch) |-> s[n]]
    BY <2>3 DEF Batches
  <2> DEFINE c == (Len(q) + Batch - 1) \div Batch
  <2>5. c \in Nat /\ s = [n \in 1..c |-> s[n]] /\ \A n \in 1..c : s[n] \in Value
    BY <1>1, <2>2, <2>3, <2>4
  <2> HIDE DEF s, c
  <2> QED BY <2>5 DEF Values
<1>3. ASSUME NEW n \in Nat \ {0}, NEW m \in Nat \ {0}, n < m,
             NEW i \in DOMAIN q, NEW j \in DOMAIN q, Within(n, i), Within(m, j)
      PROVE  i < j
  <2>1. i \in Int /\ j \in Int
    BY DEF Values
  <2>2. n * Batch <= (m - 1) * Batch
    BY <1>3
  <2>3. n * Batch \in Int /\ (m - 1) * Batch \in Int
    BY <1>3
  <2> QED BY <1>3, <2>1, <2>2, <2>3
<1> HIDE DEF s, Within
<1>4. Numbers(s) \subseteq Numbers(q)
  BY <1>1 DEF Numbers
<1>5. ASSUME Distinct(q) PROVE Distinct(s)
  <2> SUFFICES ASSUME NEW n \in DOMAIN s, NEW m \in DOMAIN s,
                      NEW a \in DOMAIN s[n], NEW b \in DOMAIN s[m], s[n][a] = s[m][b]
               PROVE  n = m /\ a = b
    BY DEF Distinct
  <2>1. n = m
    <3>1. PICK i \in DOMAIN q : Within(n, i) /\ s[n][a] \in Range(q[i])
      BY <1>1 DEF Range
    <3>2. PICK j \in DOMAIN q : Within(m, j) /\ s[m][b] \in Range(q[j])
      BY <1>1 DEF Range
    <3>3. i = j
      BY <1>5, <3>1, <3>2 DEF Distinct, Range
    <3>4. n \in Nat \ {0} /\ m \in Nat \ {0} /\ i \in Int
      <4>1. DOMAIN q \subseteq Int
        BY DEF Values
      <4> QED BY <1>1, <4>1
    <3>5. ~(n < m)
      BY <1>3, <3>1, <3>2, <3>3, <3>4
    <3>6. ~(m < n)
      BY <1>3, <3>1, <3>2, <3>3, <3>4
    <3> QED BY <3>4, <3>5, <3>6
  <2>2. Distinct(<<s[n]>>) /\ s[n] \in Value
    BY <1>1, <1>5
  <2> QED BY <2>1, <2>2, OneValue
<1>6. ASSUME Increasing(q) PROVE Increasing(s)
  <2> SUFFICES ASSUME NEW n \in DOMAIN s, NEW m \in DOMAIN s,
                      NEW a \in DOMAIN s[n], NEW b \in DOMAIN s[m],
                      n < m \/ (n = m /\ a < b)
               PROVE  s[n][a] < s[m][b]
    BY DEF Increasing
  <2>1. CASE n < m
    <3>1. PICK i \in DOMAIN q : Within(n, i) /\ s[n][a] \in Range(q[i])
      BY <1>1 DEF Range
    <3>2. PICK j \in DOMAIN q : Within(m, j) /\ s[m][b] \in Range(q[j])
      BY <1>1 DEF Range
    <3>3. i < j
      BY <1>1, <1>3, <2>1, <3>1, <3>2
    <3> QED BY <1>6, <3>1, <3>2, <3>3 DEF Increasing, Range
  <2>2. CASE n = m /\ a < b
    <3>1. Increasing(<<s[n]>>) /\ s[n] \in Value
      BY <1>1, <1>6
    <3> QED BY <2>2, <3>1, OneValue
  <2> QED BY <2>1, <2>2
<1> QED BY <1>2, <1>4, <1>5, <1>6 DEF s

(******************************* Where values are *****************************)

AChannel == [queue : Values, capacity : Nat, closed : BOOLEAN]
AFrame == [base : Nat, locals : {1}]
ABuiltin == [kind : {"map", "filter"}, from : Chans, out : Chans, todo : Values, depth : Nat,
             saved : Nat \ {0}, top : Nat, result : Value, phase : {"next", "body", "result"}]

StreamsTyped ==
    /\ chan \in [Chans -> AChannel] /\ got \in [Chans -> Values]
    /\ live \subseteq Chans /\ mixed \subseteq Chans
    /\ frames \in Seq(AFrame) /\ frames # <<>> /\ Len(frames) <= MaxFrames
    /\ stackTop \in Nat /\ running \in BOOLEAN
    /\ builtin \in Seq(ABuiltin)
    /\ sends \in Nat /\ failures \in Nat /\ misdelivered \in Nat

\* A stream operator's output is its own, unbounded, and nothing was received from it.
OutputsOwned ==
    \A i \in DOMAIN builtin :
        LET o == builtin[i].out
        IN  /\ o \in live /\ chan[o].capacity = 0 /\ got[o] = <<>>
            /\ \A j \in DOMAIN builtin \ {i} : builtin[j].out # o

WithinCapacity ==
    \A c \in Chans : chan[c].capacity > 0 => Len(chan[c].queue) <= chan[c].capacity

Queue(c) == IF c \in live THEN chan[c].queue ELSE <<>>
Todo(i) == builtin[i].todo
InGot(c) == Numbers(got[c])
InQueue(c) == Numbers(Queue(c))
InTodo(i) == Numbers(Todo(i))

\* The numbers were sent.
AllSent ==
    /\ \A c \in Chans : InGot(c) \cup InQueue(c) \subseteq 1..sends
    /\ \A i \in DOMAIN builtin : InTodo(i) \subseteq 1..sends

\* None is in two places.
ChannelsApart ==
    \A c, d \in Chans :
        /\ InGot(c) \cap InQueue(d) = {}
        /\ c # d => InGot(c) \cap InGot(d) = {} /\ InQueue(c) \cap InQueue(d) = {}

TodoApart ==
    \A i \in DOMAIN builtin :
        /\ \A c \in Chans : InTodo(i) \cap InGot(c) = {} /\ InTodo(i) \cap InQueue(c) = {}
        /\ \A j \in DOMAIN builtin : i # j => InTodo(i) \cap InTodo(j) = {}

\* None is twice in a place.
AllDistinct ==
    /\ \A c \in Chans : Distinct(got[c]) /\ Distinct(Queue(c))
    /\ \A i \in DOMAIN builtin : Distinct(Todo(i))

\* They are in order, downstream of no stream_merge; what a stream operator has
\* still to do comes after what it has done.
ChannelsOrdered ==
    \A c \in Chans \ mixed :
        Increasing(got[c]) /\ Increasing(Queue(c)) /\ Precedes(InGot(c), InQueue(c))

TodoOrdered ==
    \A i \in DOMAIN builtin :
        builtin[i].out \notin mixed =>
            Increasing(Todo(i)) /\ Precedes(InQueue(builtin[i].out), InTodo(i))

DataInv ==
    /\ OutputsOwned /\ WithinCapacity /\ AllSent /\ ChannelsApart /\ TodoApart
    /\ AllDistinct /\ ChannelsOrdered /\ TodoOrdered

(********************************* The stack **********************************)

\* The stream operators below the innermost one are in a closure; one that is not
\* finds the stack as it left it; and one that has a result had a value to give.
BuiltinsNested ==
    /\ \A i \in DOMAIN builtin :
          /\ builtin[i].top >= 2
          /\ i < Len(builtin) => builtin[i].phase = "body"
          /\ builtin[i].phase # "next" => builtin[i].todo # <<>>
          /\ builtin[i].phase = "result" => builtin[i].result \in {Nil, Head(builtin[i].todo)}
    /\ builtin # <<>> /\ B.phase # "body" => stackTop = B.top

\* While no closure has failed, the i-th stream operator was called from the i-th
\* frame, two values above what its caller has; each closure adds a frame of one.
StackRegular ==
    failures = 0 =>
        /\ misdelivered = 0
        /\ \A i \in DOMAIN builtin :
              /\ builtin[i].top = 3 * i /\ builtin[i].depth = i
              /\ builtin[i].phase = "body" => builtin[i].saved = i
              /\ builtin[i].phase = "result" => builtin[i].result = Nil
        /\ \A i \in DOMAIN frames : frames[i].base = 3 * (i - 1)
        /\ IF builtin # <<>> /\ B.phase # "body"
           THEN Len(frames) = Len(builtin)
           ELSE Len(frames) = Len(builtin) + 1 /\ stackTop = 3 * Len(builtin) + 1

StreamsInv == StreamsTyped /\ DataInv /\ BuiltinsNested /\ StackRegular

\* A sequence with another item on top, without the one on top, and with one more.
LEMMA TopReplaced ==
    ASSUME NEW S, NEW s \in Seq(S), s # <<>>, NEW x \in S
    PROVE  /\ [s EXCEPT ![Len(s)] = x] \in Seq(S) /\ Len([s EXCEPT ![Len(s)] = x]) = Len(s)
           /\ Len(s) \in Nat \ {0} /\ Last(s) = s[Len(s)] /\ Last(s) \in S
           /\ [s EXCEPT ![Len(s)] = x] # <<>> /\ [s EXCEPT ![Len(s)] = x][Len(s)] = x
           /\ \A i \in 1..Len(s) : i # Len(s) => [s EXCEPT ![Len(s)] = x][i] = s[i]
  BY DEF Last

\* What is left of a sequence without its last item.
LEMMA TopRemoved ==
    ASSUME NEW S, NEW s \in Seq(S), s # <<>>
    PROVE  /\ Front(s) \in Seq(S) /\ Len(Front(s)) = Len(s) - 1 /\ Len(s) \in Nat \ {0}
           /\ Last(s) = s[Len(s)] /\ Last(s) \in S
           /\ \A i \in 1..Len(s) - 1 : Front(s)[i] = s[i]
<1>1. Len(s) \in Nat \ {0} /\ s[Len(s)] \in S
  OBVIOUS
<1>2. Front(s) \in Seq(S) /\ Len(Front(s)) = Len(s) - 1
  BY DEF Front
<1>3. \A i \in 1..Len(s) - 1 : Front(s)[i] = s[i]
  BY DEF Front
<1> QED BY <1>1, <1>2, <1>3 DEF Last

\* What is added to a sequence at its end is its last item.
LEMMA TopAdded ==
    ASSUME NEW S, NEW s \in Seq(S), NEW x \in S
    PROVE  /\ Append(s, x) \in Seq(S) /\ Len(Append(s, x)) = Len(s) + 1 /\ Len(s) \in Nat
           /\ Append(s, x) # <<>> /\ Append(s, x)[Len(s) + 1] = x
           /\ \A i \in 1..Len(s) : Append(s, x)[i] = s[i]
  OBVIOUS

\* The innermost stream operator, whatever becomes of it.
LEMMA TopBuiltin ==
    ASSUME StreamsTyped, builtin # <<>>
    PROVE  /\ B = builtin[Len(builtin)] /\ B \in ABuiltin /\ Len(builtin) \in DOMAIN builtin
           /\ Len(builtin) \in Nat \ {0} /\ DOMAIN builtin = 1..Len(builtin)
<1> DEFINE s == builtin
<1>1. s \in Seq(ABuiltin) /\ s # <<>>
  BY DEF StreamsTyped
<1> HIDE DEF s
<1>2. Last(s) = s[Len(s)] /\ Last(s) \in ABuiltin /\ Len(s) \in Nat \ {0}
  BY <1>1, TopRemoved
<1>3. DOMAIN s = 1..Len(s)
  BY <1>1
<1> QED BY <1>2, <1>3 DEF B, s

\* A value the innermost one has to give, and what is left after it.
LEMMA HeadValue ==
    ASSUME NEW q \in Values, q # <<>>
    PROVE  /\ Head(q) \in Value /\ Tail(q) \in Values /\ q = <<Head(q)>> \o Tail(q)
  BY DEF Values

\* What values and channels are made of.
LEMMA ValueFacts ==
    /\ <<>> \in Value /\ <<>> \in Values /\ Nil \in Value
    /\ \A n \in Nat : <<n>> \in Value
    /\ \A s \in Values : /\ \A v \in Value : Append(s, v) \in Values
                        /\ \A t \in Values : s \o t \in Values
<1>1. <<>> \in Value /\ <<>> \in Values /\ \A n \in Nat : <<n>> \in Value
  BY DEF Value, Values
<1>2. ASSUME NEW s \in Values
      PROVE  (\A v \in Value : Append(s, v) \in Values) /\ \A t \in Values : s \o t \in Values
  BY DEF Values
<1> QED BY <1>1, <1>2 DEF Nil

\* A channel with another queue is a channel of the same capacity.
LEMMA ChannelFacts ==
    ASSUME NEW ch \in AChannel, NEW q \in Values
    PROVE  /\ ch.queue \in Values /\ ch.capacity \in Nat
           /\ [ch EXCEPT !.queue = q] \in AChannel
           /\ [ch EXCEPT !.queue = q].queue = q /\ [ch EXCEPT !.queue = q].capacity = ch.capacity
  BY DEF AChannel

\* A new channel is empty, and of the capacity asked for.
LEMMA NewChannel ==
    ASSUME NEW cap \in Nat
    PROVE  /\ ANewChannel(cap) \in AChannel /\ ANewChannel(cap).queue = <<>>
           /\ ANewChannel(cap).capacity = cap
  BY ValueFacts DEF AChannel, ANewChannel

\* The values of the variables stay of their kinds.
LEMMA TypedStep ==
    ASSUME StreamsTyped, BuiltinsNested, [StreamsNext]_streamVars
    PROVE  StreamsTyped'
<1>0. CASE UNCHANGED streamVars
  BY <1>0 DEF StreamsTyped, streamVars
<1>1. ASSUME NEW c \in Chans, NEW cap \in Capacities, Channel(c, cap) PROVE StreamsTyped'
  <2>1. ANewChannel(cap) \in AChannel /\ <<>> \in Values
    BY NewChannel, ValueFacts
  <2> QED BY <1>1, <2>1 DEF StreamsTyped, Channel, Acquired, control
<1>2. ASSUME NEW c \in Chans, DropChannel(c) PROVE StreamsTyped'
  BY <1>2 DEF StreamsTyped, DropChannel, control
<1>3. ASSUME NEW c \in Chans, Send(c) PROVE StreamsTyped'
  <2>1. chan[c] \in AChannel /\ sends + 1 \in Nat
    BY DEF StreamsTyped
  <2>2. [chan[c] EXCEPT !.queue = Append(@, <<sends + 1>>)] \in AChannel
    <3>1. chan[c].queue \in Values
      BY <2>1, ValueFacts, ChannelFacts
    <3>2. Append(chan[c].queue, <<sends + 1>>) \in Values
      BY <2>1, <3>1, ValueFacts
    <3> QED BY <2>1, <3>2, ChannelFacts
  <2>3. chan' \in [Chans -> AChannel]
    BY <1>3, <2>2 DEF Send, Enqueued, StreamsTyped
  <2> QED BY <1>3, <2>3 DEF StreamsTyped, Send, control
<1>4. ASSUME NEW c \in Chans, Recv(c) PROVE StreamsTyped'
  <2>1. chan[c] \in AChannel /\ chan[c].queue \in Values /\ got[c] \in Values
    BY DEF StreamsTyped, AChannel
  <2>2. CASE chan[c].queue = <<>>
    BY <1>4, <2>2 DEF StreamsTyped, Recv, control
  <2>3. CASE chan[c].queue # <<>>
    <3>1. Head(chan[c].queue) \in Value /\ Tail(chan[c].queue) \in Values
      BY <2>1, <2>3, HeadValue
    <3>2. [chan[c] EXCEPT !.queue = Tail(@)] \in AChannel
      BY <2>1, <3>1, ChannelFacts
    <3>3. Append(got[c], Head(chan[c].queue)) \in Values
      BY <2>1, <3>1, ValueFacts
    <3> QED BY <1>4, <2>3, <3>2, <3>3 DEF StreamsTyped, Recv, control
  <2> QED BY <2>2, <2>3
<1>5. ASSUME NEW c \in Chans, CloseChannel(c) PROVE StreamsTyped'
  <2>1. chan[c] \in AChannel
    BY DEF StreamsTyped
  <2>2. [chan[c] EXCEPT !.closed = TRUE] \in AChannel
    BY <2>1 DEF AChannel
  <2> QED BY <1>5, <2>2 DEF StreamsTyped, CloseChannel, control
<1>6. ASSUME NEW c \in Chans, NEW out \in Chans, NEW kind \in {"map", "filter"},
             StreamBegin(kind, c, out)
      PROVE  StreamsTyped'
  <2>1. chan[c] \in AChannel /\ chan[c].queue \in Values
    BY DEF StreamsTyped, AChannel
  <2>2. Emptied(c) \in AChannel /\ ANewChannel(0) \in AChannel /\ <<>> \in Values
    BY <2>1, NewChannel, ChannelFacts, ValueFacts DEF Emptied
  <2> DEFINE b == [kind |-> kind, from |-> c, out |-> out,
                   todo |-> chan[c].queue, depth |-> Len(frames),
                   saved |-> Len(frames), top |-> stackTop + 2, result |-> Nil,
                   phase |-> "next"]
  <2>3. Len(frames) \in Nat \ {0}
    BY DEF StreamsTyped
  <2>4. b \in ABuiltin
    BY <2>1, <2>3, ValueFacts DEF ABuiltin, StreamsTyped
  <2>5. builtin' = Append(builtin, b)
    BY <1>6 DEF StreamBegin
  <2> HIDE DEF b
  <2>6. builtin' \in Seq(ABuiltin)
    BY <2>4, <2>5 DEF StreamsTyped
  <2> QED BY <1>6, <2>2, <2>6 DEF StreamsTyped, StreamBegin, Acquired
<1>7. ASSUME NEW c \in Chans, NEW out \in Chans, StreamBuffer(c, out) PROVE StreamsTyped'
  <2>1. chan[c] \in AChannel /\ chan[c].queue \in Values
    BY DEF StreamsTyped, AChannel
  <2>2. Batches(chan[c].queue) \in Values /\ <<>> \in Values
    BY <2>1, BatchesKeep, ValueFacts
  <2>3. Emptied(c) \in AChannel
        /\ [ANewChannel(0) EXCEPT !.queue = Batches(chan[c].queue)] \in AChannel
    BY <2>1, <2>2, NewChannel, ChannelFacts DEF Emptied
  <2> QED BY <1>7, <2>2, <2>3 DEF StreamsTyped, StreamBuffer, Acquired
<1>8. ASSUME NEW c \in Chans, NEW d \in Chans, NEW out \in Chans, StreamMerge(c, d, out)
      PROVE  StreamsTyped'
  <2> DEFINE second == IF d = c THEN <<>> ELSE chan[d].queue
  <2>1. chan[c] \in AChannel /\ chan[c].queue \in Values /\ chan[d] \in AChannel
        /\ second \in Values
    BY ValueFacts DEF StreamsTyped, AChannel
  <2>2. chan[c].queue \o second \in Values /\ <<>> \in Values
    BY <2>1, ValueFacts
  <2> HIDE DEF second
  <2>3. /\ Emptied(c) \in AChannel /\ Emptied(d) \in AChannel
        /\ [ANewChannel(0) EXCEPT !.queue = chan[c].queue \o second] \in AChannel
    BY <2>1, <2>2, NewChannel, ChannelFacts DEF Emptied
  <2>4. chan' = [chan EXCEPT ![c] = Emptied(c), ![d] = Emptied(d),
                     ![out] = [ANewChannel(0) EXCEPT !.queue = chan[c].queue \o second]]
    BY <1>8 DEF StreamMerge, second
  <2>5. chan' \in [Chans -> AChannel]
    BY <2>3, <2>4 DEF StreamsTyped
  <2> QED BY <1>8, <2>2, <2>5 DEF StreamsTyped, StreamMerge, Acquired
<1> DEFINE n == Len(builtin)
<1>9. ASSUME builtin # <<>>, NEW b \in ABuiltin, Becomes(b) PROVE builtin' \in Seq(ABuiltin)
  <2>1. builtin \in Seq(ABuiltin)
    BY DEF StreamsTyped
  <2> QED BY <1>9, <2>1, TopReplaced DEF Becomes
<1>10. CASE CallClosure
  <2>1. builtin # <<>> /\ B \in ABuiltin /\ Len(frames) \in Nat \ {0}
    BY <1>10, TopBuiltin DEF CallClosure, StreamsTyped
  <2>2. CASE Len(frames) >= MaxFrames
    <3>1. [B EXCEPT !.phase = "result", !.result = Nil] \in ABuiltin
      BY <2>1, ValueFacts DEF ABuiltin
    <3>2. builtin' \in Seq(ABuiltin)
      BY <1>9, <1>10, <2>1, <2>2, <3>1 DEF CallClosure
    <3>3. /\ running' = FALSE /\ failures' = failures + 1
          /\ UNCHANGED <<chan, live, sends, got, mixed, misdelivered, frames, stackTop>>
      BY <1>10, <2>2 DEF CallClosure
    <3>4. failures + 1 \in Nat
      BY DEF StreamsTyped
    <3> QED BY <3>2, <3>3, <3>4 DEF StreamsTyped
  <2>3. CASE ~(Len(frames) >= MaxFrames)
    <3>1. [B EXCEPT !.phase = "body", !.saved = Len(frames)] \in ABuiltin
      BY <2>1 DEF ABuiltin
    <3>2. builtin' \in Seq(ABuiltin)
      BY <1>9, <1>10, <2>1, <2>3, <3>1 DEF CallClosure
    <3>3. [base |-> stackTop, locals |-> 1] \in AFrame
      BY DEF AFrame, StreamsTyped
    <3>4. frames' \in Seq(AFrame) /\ frames' # <<>> /\ Len(frames') <= MaxFrames
      <4>1. frames \in Seq(AFrame) /\ Len(frames) + 1 <= MaxFrames
        BY <2>1, <2>3 DEF StreamsTyped
      <4>2. frames' = Append(frames, [base |-> stackTop, locals |-> 1])
        BY <1>10, <2>3 DEF CallClosure
      <4> QED BY <3>3, <4>1, <4>2, TopAdded
    <3> QED BY <1>10, <2>3, <3>2, <3>4 DEF StreamsTyped, CallClosure
  <2> QED BY <2>2, <2>3
<1>11. CASE FailInBuiltin
  <2>1. builtin # <<>> /\ B \in ABuiltin /\ B.phase = "body" /\ B.todo \in Values
    BY <1>11, TopBuiltin DEF FailInBuiltin, InProgram, B, ABuiltin
  <2>2. B.todo # <<>>
    BY <2>1, TopBuiltin DEF BuiltinsNested
  <2>3. ResultOf(Frame.base, stackTop, Head(B.todo)) \in Value
    BY <2>1, <2>2, HeadValue, ValueFacts DEF ResultOf
  <2>4. [B EXCEPT !.phase = "result",
                  !.result = ResultOf(Frame.base, stackTop, Head(B.todo))] \in ABuiltin
    BY <2>1, <2>3 DEF ABuiltin
  <2>5. builtin' \in Seq(ABuiltin)
    BY <1>9, <1>11, <2>1, <2>4 DEF FailInBuiltin
  <2>6. /\ UNCHANGED <<chan, live, frames, running, sends, got, mixed, misdelivered>>
        /\ stackTop' = B.top /\ failures' = failures + 1
    BY <1>11 DEF FailInBuiltin
  <2>7. B.top \in Nat
    BY <2>1 DEF ABuiltin
  <2> QED BY <2>5, <2>6, <2>7 DEF StreamsTyped
<1>12. ASSUME NEW isNil \in BOOLEAN, ReturnToBuiltin(isNil) PROVE StreamsTyped'
  <2>1. /\ builtin # <<>> /\ B \in ABuiltin /\ B.phase = "body" /\ B.todo \in Values
        /\ Len(frames) = B.saved + 1
    BY <1>12, TopBuiltin DEF ReturnToBuiltin, InProgram, AtHome, B, ABuiltin
  <2>2. B.todo # <<>>
    BY <2>1, TopBuiltin DEF BuiltinsNested
  <2> DEFINE top == TopAfterReturn(Front(frames))
             v == IF isNil THEN Nil ELSE Head(B.todo)
             b == [B EXCEPT !.phase = "result", !.result = ResultOf(Frame.base, top, v)]
  <2>3. ResultOf(Frame.base, top, v) \in Value
    BY <2>1, <2>2, HeadValue, ValueFacts DEF ResultOf
  <2>4. b \in ABuiltin
    BY <2>1, <2>3 DEF ABuiltin
  <2>5. Becomes(b) /\ frames' = Front(frames)
    BY <1>12 DEF ReturnToBuiltin
  <2> HIDE DEF b
  <2>6. builtin' \in Seq(ABuiltin)
    BY <1>9, <2>1, <2>4, <2>5
  <2>7. frames' \in Seq(AFrame) /\ frames' # <<>> /\ Len(frames') <= MaxFrames
    <3>1. frames \in Seq(AFrame) /\ frames # <<>> /\ Len(frames) <= MaxFrames
      BY DEF StreamsTyped
    <3>2. /\ Front(frames) \in Seq(AFrame) /\ Len(Front(frames)) = Len(frames) - 1
      BY <3>1, TopRemoved
    <3>3. B.saved \in Nat \ {0}
      BY <2>1 DEF ABuiltin
    <3> QED BY <2>1, <2>5, <3>1, <3>2, <3>3
  <2> QED BY <1>12, <2>1, <2>6, <2>7 DEF StreamsTyped, ReturnToBuiltin, ABuiltin
<1>13. CASE TakeResult
  <2>1. /\ builtin # <<>> /\ B \in ABuiltin /\ B.phase = "result" /\ B.todo \in Values
        /\ B.result \in Value /\ B.out \in Chans
    BY <1>13, TopBuiltin DEF TakeResult, ABuiltin
  <2>2. B.todo # <<>>
    BY <2>1, TopBuiltin DEF BuiltinsNested
  <2>3. Head(B.todo) \in Value /\ Tail(B.todo) \in Values
    BY <2>1, <2>2, HeadValue
  <2>4. [B EXCEPT !.phase = "next", !.todo = Tail(@)] \in ABuiltin
    BY <2>1, <2>3 DEF ABuiltin
  <2>5. builtin' \in Seq(ABuiltin)
    BY <1>9, <1>13, <2>1, <2>4 DEF TakeResult
  <2>6. ASSUME NEW v \in Value PROVE [chan[B.out] EXCEPT !.queue = Append(@, v)] \in AChannel
    <3>1. chan[B.out] \in AChannel /\ chan[B.out].queue \in Values
      BY <2>1 DEF StreamsTyped, AChannel
    <3> QED BY <3>1, ChannelFacts, ValueFacts
  <2>7. chan' \in [Chans -> AChannel]
    BY <1>13, <2>1, <2>3, <2>6 DEF TakeResult, StreamsTyped
  <2> QED BY <1>13, <2>5, <2>7 DEF StreamsTyped, TakeResult
<1>14. CASE StreamEnd
  <2>1. /\ builtin # <<>> /\ B \in ABuiltin /\ stackTop = B.top /\ B.top >= 2 /\ B.top \in Nat
    BY <1>14, TopBuiltin DEF StreamEnd, BuiltinsNested, ABuiltin
  <2>2. builtin' \in Seq(ABuiltin)
    <3>1. builtin \in Seq(ABuiltin)
      BY DEF StreamsTyped
    <3> QED BY <1>14, <2>1, <3>1, TopRemoved DEF StreamEnd
  <2>3. stackTop' \in Nat /\ live' \subseteq Chans /\ misdelivered' \in Nat
    BY <1>14, <2>1 DEF StreamEnd, StreamsTyped
  <2> QED BY <1>14, <2>2, <2>3 DEF StreamsTyped, StreamEnd
<1>15. CASE ReturnLate
  <2>1. frames \in Seq(AFrame) /\ frames # <<>> /\ Len(frames) > 1 /\ Len(frames) <= MaxFrames
    BY <1>15 DEF ReturnLate, StreamsTyped
  <2>2. Front(frames) \in Seq(AFrame) /\ Len(Front(frames)) = Len(frames) - 1
    BY <2>1, TopRemoved
  <2>3. Front(frames) # <<>> /\ Len(Front(frames)) <= MaxFrames
    BY <2>1, <2>2
  <2>4. Last(Front(frames)) \in AFrame
    BY <2>2, <2>3, TopRemoved
  <2>5. TopAfterReturn(Front(frames)) - 1 \in Nat
    BY <2>4 DEF TopAfterReturn, AFrame
  <2> QED BY <1>15, <2>2, <2>3, <2>5 DEF StreamsTyped, ReturnLate
<1>16. CASE StreamProgramEnds
  BY <1>16 DEF StreamsTyped, StreamProgramEnds
<1> QED
  BY <1>0, <1>1, <1>2, <1>3, <1>4, <1>5, <1>6, <1>7, <1>8, <1>10, <1>11, <1>12, <1>13, <1>14,
     <1>15, <1>16 DEF StreamsNext

\* The stream operators stay nested, and find the stack as they left it.
LEMMA NestedStep ==
    ASSUME StreamsTyped, BuiltinsNested, [StreamsNext]_streamVars, StreamsTyped'
    PROVE  BuiltinsNested'
<1> DEFINE n == Len(builtin)
           Good(b) ==
               /\ b.top >= 2
               /\ b.phase # "next" => b.todo # <<>>
               /\ b.phase = "result" => b.result \in {Nil, Head(b.todo)}
<1>0. /\ builtin \in Seq(ABuiltin) /\ n \in Nat /\ DOMAIN builtin = 1..n
      /\ builtin' \in Seq(ABuiltin) /\ DOMAIN builtin' = 1..Len(builtin')
  BY DEF StreamsTyped
<1>1. ASSUME UNCHANGED <<builtin, stackTop>> PROVE BuiltinsNested'
  BY <1>1 DEF BuiltinsNested, B
<1>2. \A i \in 1..n : Good(builtin[i]) /\ (i < n => builtin[i].phase = "body")
  BY <1>0 DEF BuiltinsNested
<1>3. ASSUME builtin # <<>>, NEW b \in ABuiltin, Becomes(b), Good(b),
             b.phase # "body" => stackTop' = b.top
      PROVE  BuiltinsNested'
  <2>1. /\ Len(builtin') = n /\ builtin'[n] = b /\ n \in Nat \ {0}
        /\ \A i \in 1..n : i # n => builtin'[i] = builtin[i]
    <3> DEFINE s == builtin
    <3>1. s \in Seq(ABuiltin) /\ s # <<>> /\ builtin' = [s EXCEPT ![Len(s)] = b]
      BY <1>0, <1>3 DEF Becomes
    <3> HIDE DEF s
    <3>2. /\ Len(builtin') = Len(s) /\ builtin'[Len(s)] = b /\ Len(s) \in Nat \ {0}
          /\ \A i \in 1..Len(s) : i # Len(s) => builtin'[i] = s[i]
      BY <3>1, TopReplaced
    <3> QED BY <3>2 DEF s
  <2>2. \A i \in 1..n : Good(builtin'[i]) /\ (i < n => builtin'[i].phase = "body")
    <3> HIDE DEF Good
    <3> QED BY <1>2, <1>3, <2>1
  <2>3. B' = b
    BY <2>1 DEF B, Last
  <2> QED BY <1>0, <1>3, <2>1, <2>2, <2>3 DEF BuiltinsNested
<1>4. ASSUME NEW c \in Chans, NEW out \in Chans, NEW kind \in {"map", "filter"},
             StreamBegin(kind, c, out)
      PROVE  BuiltinsNested'
  <2> DEFINE b == [kind |-> kind, from |-> c, out |-> out,
                   todo |-> chan[c].queue, depth |-> Len(frames),
                   saved |-> Len(frames), top |-> stackTop + 2, result |-> Nil,
                   phase |-> "next"]
  <2>1. builtin' = Append(builtin, b) /\ stackTop' = stackTop + 2 /\ InProgram
    BY <1>4 DEF StreamBegin
  <2>2. Good(b) /\ b.top = stackTop + 2
    BY DEF StreamsTyped
  <2>3. \A i \in 1..n : builtin[i].phase = "body"
    BY <1>0, <1>2, <2>1 DEF InProgram, Last
  <2> HIDE DEF b
  <2>4. /\ Len(builtin') = n + 1 /\ builtin'[n + 1] = b
        /\ \A i \in 1..n : builtin'[i] = builtin[i]
    <3>1. builtin' \in Seq({builtin[i] : i \in 1..n} \cup {b})
      <4>1. builtin \in Seq({builtin[i] : i \in 1..n} \cup {b})
        BY <1>0
      <4> QED BY <2>1, <4>1
    <3>2. builtin \in Seq({builtin[i] : i \in 1..n} \cup {b})
      BY <1>0
    <3> QED BY <2>1, <3>2, TopAdded
  <2>5. \A i \in 1..n + 1 : /\ Good(builtin'[i])
                            /\ i < n + 1 => builtin'[i].phase = "body"
    <3> HIDE DEF Good
    <3>1. \A i \in 1..n + 1 : i = n + 1 \/ i \in 1..n
      BY <1>0
    <3> QED BY <1>0, <1>2, <2>2, <2>3, <2>4, <3>1
  <2>6. B' = b
    BY <2>4 DEF B, Last
  <2> QED BY <1>0, <2>1, <2>2, <2>4, <2>5, <2>6 DEF BuiltinsNested
<1>5. CASE CallClosure
  <2>1. /\ builtin # <<>> /\ B \in ABuiltin /\ B.todo # <<>> /\ B.phase = "next"
        /\ Good(B) /\ stackTop = B.top
    BY <1>2, <1>5, TopBuiltin DEF CallClosure, BuiltinsNested
  <2>2. CASE Len(frames) >= MaxFrames
    <3> DEFINE b == [B EXCEPT !.phase = "result", !.result = Nil]
    <3>1. b \in ABuiltin /\ b.phase = "result" /\ b.result = Nil /\ b.top = B.top
          /\ b.todo = B.todo
      BY <2>1, ValueFacts DEF ABuiltin
    <3>2. Becomes(b) /\ stackTop' = stackTop
      BY <1>5, <2>2 DEF CallClosure
    <3> HIDE DEF b
    <3> QED BY <1>3, <2>1, <3>1, <3>2
  <2>3. CASE ~(Len(frames) >= MaxFrames)
    <3> DEFINE b == [B EXCEPT !.phase = "body", !.saved = Len(frames)]
    <3>0. Len(frames) \in Nat \ {0}
      BY DEF StreamsTyped
    <3>1. b \in ABuiltin /\ b.phase = "body" /\ b.top = B.top /\ b.todo = B.todo
      BY <2>1, <3>0 DEF ABuiltin
    <3>2. Becomes(b)
      BY <1>5, <2>3 DEF CallClosure
    <3> HIDE DEF b
    <3> QED BY <1>3, <2>1, <3>1, <3>2
  <2> QED BY <2>2, <2>3
<1>6. ASSUME builtin # <<>>, B.phase = "body", stackTop' = B.top,
             NEW r \in {Nil, Head(B.todo)},
             Becomes([B EXCEPT !.phase = "result", !.result = r])
      PROVE  BuiltinsNested'
  <2>1. B \in ABuiltin /\ Good(B)
    BY <1>2, <1>6, TopBuiltin
  <2>2. B.todo # <<>> /\ B.todo \in Values
    BY <1>6, <2>1 DEF ABuiltin
  <2>3. r \in Value
    BY <2>2, HeadValue, ValueFacts
  <2> DEFINE b == [B EXCEPT !.phase = "result", !.result = r]
  <2>4. b \in ABuiltin /\ b.phase = "result" /\ b.result = r /\ b.top = B.top /\ b.todo = B.todo
    BY <2>1, <2>3 DEF ABuiltin
  <2>5. Becomes(b)
    BY <1>6
  <2> HIDE DEF b
  <2> QED BY <1>3, <1>6, <2>1, <2>2, <2>4, <2>5
<1>7. CASE FailInBuiltin
  <2>1. /\ builtin # <<>> /\ B.phase = "body" /\ stackTop' = B.top
        /\ Becomes([B EXCEPT !.phase = "result",
                             !.result = ResultOf(Frame.base, stackTop, Head(B.todo))])
    BY <1>7 DEF FailInBuiltin, InProgram, B
  <2>2. ResultOf(Frame.base, stackTop, Head(B.todo)) \in {Nil, Head(B.todo)}
    BY DEF ResultOf
  <2> QED BY <1>6, <2>1, <2>2
<1>8. ASSUME NEW isNil \in BOOLEAN, ReturnToBuiltin(isNil) PROVE BuiltinsNested'
  <2> DEFINE top == TopAfterReturn(Front(frames))
             v == IF isNil THEN Nil ELSE Head(B.todo)
  <2>1. /\ builtin # <<>> /\ B.phase = "body" /\ stackTop' = B.top
        /\ Becomes([B EXCEPT !.phase = "result", !.result = ResultOf(Frame.base, top, v)])
    BY <1>8 DEF ReturnToBuiltin, InProgram, B
  <2>2. ResultOf(Frame.base, top, v) \in {Nil, Head(B.todo)}
    BY DEF ResultOf
  <2> QED BY <1>6, <2>1, <2>2
<1>9. CASE TakeResult
  <2>1. /\ builtin # <<>> /\ B \in ABuiltin /\ B.phase = "result" /\ Good(B)
        /\ stackTop = B.top /\ stackTop' = stackTop
        /\ Becomes([B EXCEPT !.phase = "next", !.todo = Tail(@)])
    BY <1>2, <1>9, TopBuiltin DEF TakeResult, BuiltinsNested
  <2>2. B.todo # <<>> /\ B.todo \in Values
    BY <2>1 DEF ABuiltin
  <2>3. Tail(B.todo) \in Values
    BY <2>2, HeadValue
  <2> DEFINE b == [B EXCEPT !.phase = "next", !.todo = Tail(@)]
  <2>4. b \in ABuiltin /\ b.phase = "next" /\ b.top = B.top
    BY <2>1, <2>3 DEF ABuiltin
  <2>5. Becomes(b)
    BY <2>1
  <2> HIDE DEF b
  <2> QED BY <1>3, <2>1, <2>4, <2>5
<1>10. CASE StreamEnd
  <2>1. builtin # <<>> /\ builtin' = Front(builtin)
    BY <1>10 DEF StreamEnd
  <2>2. /\ Len(builtin') = n - 1 /\ n \in Nat \ {0}
        /\ \A i \in 1..n - 1 : builtin'[i] = builtin[i]
    BY <1>0, <2>1, TopRemoved
  <2>3. \A i \in 1..n - 1 : Good(builtin'[i]) /\ builtin'[i].phase = "body"
    <3>1. \A i \in 1..n - 1 : i \in 1..n /\ i < n
      BY <1>0
    <3> HIDE DEF Good
    <3> QED BY <1>2, <2>2, <3>1
  <2>4. builtin' # <<>> => B'.phase = "body"
    BY <1>0, <2>2, <2>3 DEF B, Last
  <2> QED BY <1>0, <2>2, <2>3, <2>4 DEF BuiltinsNested
<1>11. CASE ReturnLate
  <2>1. builtin' = builtin /\ (builtin # <<>> => B.phase = "body")
    BY <1>11 DEF ReturnLate, InProgram, B
  <2>2. B' = B
    BY <2>1 DEF B
  <2> QED BY <2>1, <2>2 DEF BuiltinsNested
<1>12. CASE UNCHANGED streamVars
  BY <1>1, <1>12 DEF streamVars
<1>13. ASSUME NEW c \in Chans,
              \/ \E cap \in Capacities : Channel(c, cap)
              \/ DropChannel(c) \/ Send(c) \/ Recv(c) \/ CloseChannel(c)
       PROVE  BuiltinsNested'
  BY <1>1, <1>13 DEF Channel, DropChannel, Send, Recv, CloseChannel, control
<1>14. ASSUME NEW c \in Chans, NEW d \in Chans, NEW out \in Chans,
              StreamBuffer(c, out) \/ StreamMerge(c, d, out)
       PROVE  BuiltinsNested'
  BY <1>1, <1>14 DEF StreamBuffer, StreamMerge
<1>15. CASE StreamProgramEnds
  BY <1>1, <1>15 DEF StreamProgramEnds
<1> QED
  BY <1>4, <1>5, <1>7, <1>8, <1>9, <1>10, <1>11, <1>12, <1>13, <1>14, <1>15 DEF StreamsNext

\* While no closure has failed the stack and the frames stay regular: a closure's
\* frame begins above the height its RET leaves, so that it gives nil.
LEMMA RegularStep ==
    ASSUME StreamsTyped, BuiltinsNested, StackRegular, [StreamsNext]_streamVars, BuiltinsNested',
           StreamsTyped'
    PROVE  StackRegular'
<1> SUFFICES ASSUME failures' = 0 PROVE StackRegular'
  BY DEF StackRegular
<1> DEFINE n == Len(builtin)
           m == Len(frames)
           Level(b, i) == /\ b.top = 3 * i /\ b.depth = i
                          /\ b.phase = "body" => b.saved = i
                          /\ b.phase = "result" => b.result = Nil
           Outside == builtin = <<>> \/ B.phase = "body"
<1>0. /\ builtin \in Seq(ABuiltin) /\ n \in Nat /\ DOMAIN builtin = 1..n
      /\ builtin' \in Seq(ABuiltin) /\ DOMAIN builtin' = 1..Len(builtin')
      /\ frames \in Seq(AFrame) /\ m \in Nat \ {0} /\ DOMAIN frames = 1..m
      /\ frames' \in Seq(AFrame) /\ DOMAIN frames' = 1..Len(frames')
      /\ failures \in Nat /\ (builtin = <<>> <=> n = 0)
  BY DEF StreamsTyped
<1>1. failures = 0 => /\ misdelivered = 0
                      /\ \A i \in 1..n : Level(builtin[i], i)
                      /\ \A i \in 1..m : frames[i].base = 3 * (i - 1)
                      /\ ~Outside => m = n
                      /\ Outside => m = n + 1 /\ stackTop = 3 * n + 1
  BY <1>0 DEF StackRegular
<1>2. ASSUME misdelivered' = 0,
             \A i \in 1..Len(builtin') : Level(builtin'[i], i),
             \A i \in 1..Len(frames') : frames'[i].base = 3 * (i - 1),
             ~Outside' => Len(frames') = Len(builtin'),
             Outside' => Len(frames') = Len(builtin') + 1 /\ stackTop' = 3 * Len(builtin') + 1
      PROVE  StackRegular'
  BY <1>0, <1>2 DEF StackRegular
<1>3. ASSUME UNCHANGED <<frames, stackTop, builtin, failures, misdelivered>> PROVE StackRegular'
  BY <1>3 DEF StackRegular, B
<1>4. ASSUME failures = 0, builtin # <<>>, NEW b \in ABuiltin, Becomes(b), Level(b, n)
      PROVE  /\ Len(builtin') = n /\ builtin' # <<>> /\ B' = b
             /\ \A i \in 1..n : Level(builtin'[i], i)
  <2> DEFINE s == builtin
  <2>1. s \in Seq(ABuiltin) /\ s # <<>> /\ builtin' = [s EXCEPT ![Len(s)] = b]
    BY <1>0, <1>4 DEF Becomes
  <2> HIDE DEF s
  <2>2. /\ Len(builtin') = Len(s) /\ builtin'[Len(s)] = b /\ Len(s) \in Nat \ {0}
        /\ \A i \in 1..Len(s) : i # Len(s) => builtin'[i] = s[i]
    BY <2>1, TopReplaced
  <2>3. /\ Len(builtin') = n /\ builtin'[n] = b /\ n \in Nat \ {0}
        /\ \A i \in 1..n : i # n => builtin'[i] = builtin[i]
    BY <2>2 DEF s
  <2>4. \A i \in 1..n : Level(builtin'[i], i)
    <3> HIDE DEF Level
    <3> QED BY <1>1, <1>4, <2>3
  <2>5. B' = b /\ builtin' # <<>>
    BY <1>0, <2>3 DEF B, Last
  <2> QED BY <2>3, <2>4, <2>5
<1>t. ASSUME failures = 0, builtin # <<>>
      PROVE  /\ n \in 1..n /\ Level(B, n) /\ misdelivered = 0
             /\ B.phase = "body" => m = n + 1
             /\ B.phase # "body" => m = n /\ stackTop = 3 * n
  <2>1. B = builtin[n] /\ n \in 1..n
    BY <1>0, <1>t, TopBuiltin
  <2>2. Level(B, n)
    BY <1>1, <1>t, <2>1
  <2>3. misdelivered = 0 /\ (B.phase = "body" => m = n + 1) /\ (B.phase # "body" => m = n)
    <3> HIDE DEF n, m
    <3> QED BY <1>1, <1>t
  <2>4. B.phase # "body" => stackTop = 3 * n
    BY <1>t, <2>2 DEF BuiltinsNested
  <2> HIDE DEF Level
  <2> QED BY <2>1, <2>2, <2>3, <2>4
<1>5. ASSUME NEW c \in Chans, NEW out \in Chans, NEW kind \in {"map", "filter"},
             StreamBegin(kind, c, out)
      PROVE  StackRegular'
  <2> DEFINE b == [kind |-> kind, from |-> c, out |-> out,
                   todo |-> chan[c].queue, depth |-> Len(frames),
                   saved |-> Len(frames), top |-> stackTop + 2, result |-> Nil,
                   phase |-> "next"]
  <2>1. /\ builtin' = Append(builtin, b) /\ frames' = frames /\ Outside
        /\ failures' = failures /\ misdelivered' = misdelivered
    BY <1>5 DEF StreamBegin, InProgram, B
  <2>2. m = n + 1 /\ stackTop = 3 * n + 1
    BY <1>1, <2>1
  <2>3. stackTop + 2 = 3 * (n + 1)
    BY <1>0, <2>2
  <2>4. Level(b, n + 1) /\ b.phase = "next"
    BY <2>2, <2>3
  <2> HIDE DEF b
  <2>5. /\ Len(builtin') = n + 1 /\ builtin'[n + 1] = b
        /\ \A i \in 1..n : builtin'[i] = builtin[i]
    <3>1. builtin \in Seq(ABuiltin \cup {b})
      BY <1>0
    <3> QED BY <2>1, <3>1, TopAdded
  <2>6. \A i \in 1..n + 1 : Level(builtin'[i], i)
    <3> HIDE DEF Level
    <3>1. \A i \in 1..n + 1 : i = n + 1 \/ i \in 1..n
      BY <1>0
    <3> QED BY <1>1, <2>1, <2>4, <2>5, <3>1
  <2>7. ~Outside'
    BY <1>0, <2>4, <2>5 DEF B, Last
  <2> HIDE DEF Level, Outside
  <2> QED BY <1>1, <1>2, <2>1, <2>2, <2>5, <2>6, <2>7
<1>6. CASE CallClosure
  <2>1. /\ builtin # <<>> /\ B \in ABuiltin /\ B.phase = "next" /\ stackTop = B.top
        /\ B = builtin[n] /\ n \in Nat \ {0} /\ misdelivered' = misdelivered
    BY <1>6, TopBuiltin DEF CallClosure, BuiltinsNested
  <2>2. ~(m >= MaxFrames) /\ failures = 0
    <3>1. m >= MaxFrames => failures' = failures + 1
      BY <1>6 DEF CallClosure
    <3>2. ~(m >= MaxFrames) => failures' = failures
      BY <1>6 DEF CallClosure
    <3> QED BY <1>0, <3>1, <3>2
  <2>3. m = n /\ stackTop = 3 * n /\ Level(B, n)
    <3> HIDE DEF Level, n, m
    <3> QED BY <1>t, <2>1, <2>2
  <2> DEFINE b == [B EXCEPT !.phase = "body", !.saved = Len(frames)]
             f == [base |-> stackTop, locals |-> 1]
  <2>4. b \in ABuiltin /\ b.phase = "body" /\ b.saved = n /\ b.top = B.top /\ b.depth = B.depth
    BY <1>0, <2>1, <2>3 DEF ABuiltin
  <2>5. Becomes(b) /\ frames' = Append(frames, f) /\ stackTop' = 3 * n + 1
    BY <1>6, <2>2, <2>3 DEF CallClosure
  <2>6. f.base = 3 * n
    BY <2>3
  <2> HIDE DEF b, f
  <2>7. Level(b, n)
    BY <2>3, <2>4
  <2>8. /\ Len(builtin') = n /\ builtin' # <<>> /\ B' = b
        /\ \A i \in 1..n : Level(builtin'[i], i)
    BY <1>4, <2>1, <2>2, <2>4, <2>5, <2>7
  <2>9. /\ Len(frames') = n + 1 /\ frames'[n + 1] = f
        /\ \A i \in 1..n : frames'[i] = frames[i]
    <3>1. frames \in Seq({frames[i] : i \in 1..m} \cup {f})
      BY <1>0
    <3> QED BY <2>3, <2>5, <3>1, TopAdded
  <2>10. \A i \in 1..n + 1 : frames'[i].base = 3 * (i - 1)
    <3>1. \A i \in 1..n + 1 : i = n + 1 \/ i \in 1..n
      BY <1>0
    <3>2. 3 * ((n + 1) - 1) = 3 * n
      BY <1>0
    <3> QED BY <1>1, <2>2, <2>3, <2>6, <2>9, <3>1, <3>2
  <2>11. Outside' /\ Len(frames') = Len(builtin') + 1 /\ stackTop' = 3 * Len(builtin') + 1
    BY <2>4, <2>5, <2>8, <2>9
  <2>12. misdelivered' = 0
    BY <1>1, <2>1, <2>2
  <2> HIDE DEF Level, Outside
  <2> QED BY <1>2, <2>8, <2>9, <2>10, <2>11, <2>12
<1>7. ASSUME NEW isNil \in BOOLEAN, ReturnToBuiltin(isNil) PROVE StackRegular'
  <2> DEFINE top == TopAfterReturn(Front(frames))
             v == IF isNil THEN Nil ELSE Head(B.todo)
             b == [B EXCEPT !.phase = "result", !.result = ResultOf(Frame.base, top, v)]
  <2>1. /\ builtin # <<>> /\ B \in ABuiltin /\ B.phase = "body" /\ B = builtin[n]
        /\ n \in Nat \ {0} /\ misdelivered' = misdelivered /\ failures' = failures
        /\ Becomes(b) /\ frames' = Front(frames) /\ stackTop' = B.top
    BY <1>7, TopBuiltin DEF ReturnToBuiltin, InProgram, B
  <2>2. m = n + 1 /\ Level(B, n) /\ misdelivered' = 0 /\ failures = 0
    <3> HIDE DEF Level, n, m
    <3> QED BY <1>t, <2>1
  <2>3. /\ Len(frames') = n /\ \A i \in 1..n : frames'[i] = frames[i]
    <3>1. /\ Len(Front(frames)) = m - 1 /\ \A i \in 1..m - 1 : Front(frames)[i] = frames[i]
      <4>1. frames \in Seq(AFrame) /\ frames # <<>>
        BY DEF StreamsTyped
      <4> QED BY <4>1, TopRemoved
    <3>2. m - 1 = n
      <4> HIDE DEF n, m
      <4> QED BY <1>0, <2>2
    <3> QED BY <2>1, <3>1, <3>2
  <2>4. Frame.base = 3 * n
    <3>1. Frame = frames[n + 1] /\ n + 1 \in 1..m
      BY <1>0, <2>2 DEF Frame, Last
    <3>2. 3 * ((n + 1) - 1) = 3 * n
      BY <1>0
    <3> QED BY <1>1, <2>2, <3>1, <3>2
  <2>5. top = 3 * n - 1
    <3>1. Last(Front(frames)) = frames[n] /\ n \in 1..m
      BY <1>0, <2>1, <2>2, <2>3 DEF Last
    <3>2. frames[n].base = 3 * (n - 1)
      BY <1>1, <2>2, <3>1
    <3>3. frames[n].locals = 1
      <4>1. frames[n] \in AFrame
        BY <1>0, <3>1
      <4> QED BY <4>1 DEF AFrame
    <3> QED BY <2>1, <3>1, <3>2, <3>3 DEF TopAfterReturn
  <2>6. ResultOf(Frame.base, top, v) = Nil
    <3>1. ~(top > Frame.base)
      BY <2>1, <2>4, <2>5
    <3> QED BY <3>1 DEF ResultOf
  <2>7. b = [B EXCEPT !.phase = "result", !.result = Nil]
    BY <2>6
  <2>8. /\ b \in ABuiltin /\ b.phase = "result" /\ b.result = Nil /\ b.top = B.top
        /\ b.depth = B.depth
    BY <2>1, <2>7, ValueFacts DEF ABuiltin
  <2> HIDE DEF b, top, v
  <2>9. Level(b, n)
    BY <2>2, <2>8
  <2>10. /\ Len(builtin') = n /\ builtin' # <<>> /\ B' = b
         /\ \A i \in 1..n : Level(builtin'[i], i)
    BY <1>4, <2>1, <2>2, <2>8, <2>9
  <2>11. \A i \in 1..n : frames'[i].base = 3 * (i - 1)
    <3>1. 1..n \subseteq 1..m
      <4> HIDE DEF n, m
      <4> QED BY <1>0, <2>2
    <3> QED BY <1>1, <2>2, <2>3, <3>1
  <2>12. ~Outside'
    BY <2>8, <2>10
  <2> HIDE DEF Level, Outside
  <2> QED BY <1>2, <2>2, <2>3, <2>10, <2>11, <2>12
<1>8. CASE TakeResult
  <2>1. /\ builtin # <<>> /\ B \in ABuiltin /\ B.phase = "result" /\ B = builtin[n]
        /\ n \in Nat \ {0} /\ frames' = frames /\ failures = 0 /\ misdelivered' = misdelivered
        /\ Becomes([B EXCEPT !.phase = "next", !.todo = Tail(@)])
    BY <1>8, TopBuiltin DEF TakeResult
  <2>2. B.todo \in Values /\ B.todo # <<>>
    BY <2>1, TopBuiltin DEF ABuiltin, BuiltinsNested
  <2>3. Tail(B.todo) \in Values
    BY <2>2, HeadValue
  <2> DEFINE b == [B EXCEPT !.phase = "next", !.todo = Tail(@)]
  <2>4. b \in ABuiltin /\ b.phase = "next" /\ b.top = B.top /\ b.depth = B.depth
    BY <2>1, <2>3 DEF ABuiltin
  <2>5. Becomes(b)
    BY <2>1
  <2> HIDE DEF b
  <2>6. m = n /\ Level(B, n) /\ misdelivered' = 0
    <3> HIDE DEF Level, n, m
    <3> QED BY <1>t, <2>1
  <2>7. Level(b, n)
    BY <2>4, <2>6
  <2>8. /\ Len(builtin') = n /\ builtin' # <<>> /\ B' = b
        /\ \A i \in 1..n : Level(builtin'[i], i)
    BY <1>4, <2>1, <2>4, <2>5, <2>7
  <2>9. ~Outside'
    BY <2>4, <2>8
  <2> HIDE DEF Level, Outside
  <2> QED BY <1>1, <1>2, <2>1, <2>6, <2>8, <2>9
<1>9. CASE StreamEnd
  <2>1. /\ builtin # <<>> /\ B \in ABuiltin /\ B.phase = "next" /\ B = builtin[n]
        /\ n \in Nat \ {0} /\ frames' = frames /\ failures = 0 /\ builtin' = Front(builtin)
    BY <1>9, TopBuiltin DEF StreamEnd
  <2>2. m = n /\ Level(B, n) /\ misdelivered = 0 /\ stackTop = 3 * n
    <3> HIDE DEF Level, n, m
    <3> QED BY <1>t, <2>1
  <2>3. misdelivered' = 0 /\ stackTop' = 3 * (n - 1) + 1
    BY <1>9, <2>1, <2>2 DEF StreamEnd
  <2>4. Len(builtin') = n - 1 /\ \A i \in 1..n - 1 : builtin'[i] = builtin[i]
    BY <1>0, <2>1, TopRemoved
  <2>5. \A i \in 1..n - 1 : Level(builtin'[i], i)
    <3> HIDE DEF Level
    <3>1. 1..n - 1 \subseteq 1..n
      BY <1>0
    <3> QED BY <1>1, <2>1, <2>4, <3>1
  <2>6. Outside'
    <3>1. CASE n = 1
      BY <1>0, <2>4, <3>1
    <3>2. CASE n # 1
      <4>1. n - 1 \in 1..n /\ n - 1 < n
        <5> HIDE DEF n
        <5> QED BY <2>1, <3>2
      <4>2. builtin[n - 1].phase = "body"
        BY <1>0, <4>1 DEF BuiltinsNested
      <4>3. B' = builtin[n - 1]
        BY <2>1, <2>4, <3>2, <4>1 DEF B, Last
      <4> QED BY <4>2, <4>3
    <3> QED BY <3>1, <3>2
  <2>7. Len(frames') = Len(builtin') + 1 /\ stackTop' = 3 * Len(builtin') + 1
    BY <2>1, <2>2, <2>3, <2>4
  <2>8. \A i \in 1..Len(frames') : frames'[i].base = 3 * (i - 1)
    BY <1>1, <2>1
  <2> HIDE DEF Level, Outside
  <2> QED BY <1>2, <2>3, <2>4, <2>5, <2>6, <2>7, <2>8
<1>10. CASE FailInBuiltin
  BY <1>0, <1>10 DEF FailInBuiltin
<1>11. CASE ReturnLate
  <2>1. Outside /\ ~AtHome /\ failures = 0
    BY <1>11 DEF ReturnLate, InProgram, B
  <2>2. m = n + 1
    BY <1>1, <2>1
  <2>3. CASE builtin = <<>>
    BY <1>0, <2>1, <2>2, <2>3 DEF AtHome
  <2>4. CASE builtin # <<>>
    <3>1. B = builtin[n] /\ n \in 1..n
      BY <1>0, <2>4, TopBuiltin
    <3>2. B.saved = n
      BY <1>1, <2>1, <2>4, <3>1
    <3> QED BY <2>1, <2>2, <2>4, <3>2 DEF AtHome, B
  <2> QED BY <2>3, <2>4
<1>12. CASE UNCHANGED streamVars
  BY <1>3, <1>12 DEF streamVars
<1>13. ASSUME NEW c \in Chans,
              \/ \E cap \in Capacities : Channel(c, cap)
              \/ DropChannel(c) \/ Send(c) \/ Recv(c) \/ CloseChannel(c)
       PROVE  StackRegular'
  BY <1>3, <1>13 DEF Channel, DropChannel, Send, Recv, CloseChannel, control
<1>14. ASSUME NEW c \in Chans, NEW d \in Chans, NEW out \in Chans,
              StreamBuffer(c, out) \/ StreamMerge(c, d, out)
       PROVE  StackRegular'
  BY <1>3, <1>14 DEF StreamBuffer, StreamMerge
<1>15. CASE StreamProgramEnds
  BY <1>3, <1>15 DEF StreamProgramEnds
<1> QED
  BY <1>5, <1>6, <1>7, <1>8, <1>9, <1>10, <1>11, <1>12, <1>13, <1>14, <1>15 DEF StreamsNext

\* A step moves the numbers of R, or sends them: they are not where they were any
\* more, but in one place, of those given.
Moves(R, g, q, t) ==
    /\ \A c \in Chans :
          InGot(c)' \subseteq InGot(c) \cup R /\ (c \notin g => InGot(c)' \cap R = {})
    /\ \A c \in Chans :
          InQueue(c)' \subseteq InQueue(c) \cup R /\ (c \notin q => InQueue(c)' \cap R = {})
    /\ \A i \in DOMAIN builtin' :
          /\ i \in DOMAIN builtin => InTodo(i)' \subseteq InTodo(i) \cup R
          /\ i \notin DOMAIN builtin => InTodo(i)' \subseteq R
          /\ i \notin t => InTodo(i)' \cap R = {}

OneTarget(g, q, t) ==
    \/ g = {} /\ q = {} /\ \A i, j \in t : i = j
    \/ g = {} /\ t = {} /\ \A c, d \in q : c = d
    \/ q = {} /\ t = {} /\ \A c, d \in g : c = d

\* Of two sets without a common number, which have got some of R but not both of them.
LEMMA StayApart ==
    ASSUME NEW S, NEW T, NEW S2, NEW T2, NEW R, S \cap T = {},
           S2 \subseteq S \cup R, T2 \subseteq T \cup R, S2 \cap R = {} \/ T2 \cap R = {}
    PROVE  S2 \cap T2 = {}
  OBVIOUS

\* Numbers that move to one place are in one place, and only sent ones are anywhere.
LEMMA MovesKeep ==
    ASSUME ChannelsApart, TodoApart, AllSent,
           NEW R, NEW g, NEW q, NEW t, OneTarget(g, q, t), Moves(R, g, q, t),
           1..sends \subseteq 1..sends', R \subseteq 1..sends'
    PROVE  AllSent' /\ ChannelsApart' /\ TodoApart'
<1>1. \A c \in Chans : InGot(c)' \subseteq InGot(c) \cup R /\ (c \notin g => InGot(c)' \cap R = {})
  BY DEF Moves
<1>2. \A c \in Chans :
         InQueue(c)' \subseteq InQueue(c) \cup R /\ (c \notin q => InQueue(c)' \cap R = {})
  BY DEF Moves
<1> DEFINE Was(i) == IF i \in DOMAIN builtin THEN InTodo(i) ELSE {}
<1>3. \A i \in DOMAIN builtin' :
         InTodo(i)' \subseteq Was(i) \cup R /\ (i \notin t => InTodo(i)' \cap R = {})
  BY DEF Moves
<1>4. AllSent'
  <2>1. ASSUME NEW c \in Chans PROVE InGot(c)' \cup InQueue(c)' \subseteq 1..sends'
    <3>1. InGot(c) \cup InQueue(c) \subseteq 1..sends'
      BY DEF AllSent
    <3> QED BY <1>1, <1>2, <3>1
  <2>2. ASSUME NEW i \in DOMAIN builtin' PROVE InTodo(i)' \subseteq 1..sends'
    <3>1. Was(i) \subseteq 1..sends'
      BY DEF AllSent
    <3> QED BY <1>3, <3>1
  <2> QED BY <2>1, <2>2 DEF AllSent
<1>5. ChannelsApart'
  <2> SUFFICES ASSUME NEW c \in Chans, NEW d \in Chans
               PROVE  /\ InGot(c)' \cap InQueue(d)' = {}
                      /\ c # d => /\ InGot(c)' \cap InGot(d)' = {}
                                  /\ InQueue(c)' \cap InQueue(d)' = {}
    BY DEF ChannelsApart
  <2>1. /\ InGot(c) \cap InQueue(d) = {}
        /\ c # d => InGot(c) \cap InGot(d) = {} /\ InQueue(c) \cap InQueue(d) = {}
    BY DEF ChannelsApart
  <2>2. /\ c \notin g \/ d \notin q
        /\ c # d => (c \notin g \/ d \notin g) /\ (c \notin q \/ d \notin q)
    BY DEF OneTarget
  <2>3. InGot(c)' \cap InQueue(d)' = {}
    BY <1>1, <1>2, <2>1, <2>2, StayApart
  <2>4. ASSUME c # d PROVE InGot(c)' \cap InGot(d)' = {}
    BY <1>1, <2>1, <2>2, <2>4, StayApart
  <2>5. ASSUME c # d PROVE InQueue(c)' \cap InQueue(d)' = {}
    BY <1>2, <2>1, <2>2, <2>5, StayApart
  <2> QED BY <2>3, <2>4, <2>5
<1>6. TodoApart'
  <2>1. ASSUME NEW i \in DOMAIN builtin', NEW c \in Chans
        PROVE  InTodo(i)' \cap InGot(c)' = {} /\ InTodo(i)' \cap InQueue(c)' = {}
    <3>1. Was(i) \cap InGot(c) = {} /\ Was(i) \cap InQueue(c) = {}
      BY DEF TodoApart
    <3>2. (i \notin t \/ c \notin g) /\ (i \notin t \/ c \notin q)
      BY DEF OneTarget
    <3> HIDE DEF Was
    <3>3. InTodo(i)' \cap InGot(c)' = {}
      BY <1>1, <1>3, <3>1, <3>2, StayApart
    <3>4. InTodo(i)' \cap InQueue(c)' = {}
      BY <1>2, <1>3, <3>1, <3>2, StayApart
    <3> QED BY <3>3, <3>4
  <2>2. ASSUME NEW i \in DOMAIN builtin', NEW j \in DOMAIN builtin', i # j
        PROVE  InTodo(i)' \cap InTodo(j)' = {}
    <3>1. Was(i) \cap Was(j) = {}
      BY <2>2 DEF TodoApart
    <3>2. i \notin t \/ j \notin t
      BY <2>2 DEF OneTarget
    <3> HIDE DEF Was
    <3> QED BY <1>3, <3>1, <3>2, StayApart
  <2> QED BY <2>1, <2>2 DEF TodoApart
<1> QED BY <1>4, <1>5, <1>6

\* The numbers and the order of a sequence with one value more, and of one taken apart.
LEMMA OneMore ==
    ASSUME NEW s \in Values, NEW v \in Value
    PROVE  /\ Append(s, v) \in Values /\ Numbers(Append(s, v)) = Numbers(s) \cup Range(v)
           /\ Distinct(Append(s, v)) <=>
                  Distinct(s) /\ Distinct(<<v>>) /\ Numbers(s) \cap Range(v) = {}
           /\ Increasing(Append(s, v)) <=>
                  Increasing(s) /\ Increasing(<<v>>) /\ Precedes(Numbers(s), Range(v))
<1> DEFINE w == <<v>>
<1>1. Append(s, v) = s \o w /\ Append(s, v) \in Values
  BY DEF Values
<1>2. w \in Values /\ Numbers(w) = Range(v)
  BY OneValue
<1> HIDE DEF w
<1>3. Numbers(s \o w) = Numbers(s) \cup Range(v)
  BY <1>2, JoinedNumbers
<1>4. Distinct(s \o w) <=> Distinct(s) /\ Distinct(w) /\ Numbers(s) \cap Range(v) = {}
  BY <1>2, JoinedDistinct DEF Apart
<1>5. Increasing(s \o w) <=> Increasing(s) /\ Increasing(w) /\ Precedes(Numbers(s), Range(v))
  BY <1>2, JoinedIncreasing
<1> QED BY <1>1, <1>3, <1>4, <1>5 DEF w

\* A sequence without its first value: its numbers, once and in order, come after.
LEMMA FirstLess ==
    ASSUME NEW s \in Values, s # <<>>
    PROVE  /\ Head(s) \in Value /\ Tail(s) \in Values
           /\ Numbers(s) = Range(Head(s)) \cup Numbers(Tail(s))
           /\ Distinct(s) => /\ Distinct(<<Head(s)>>) /\ Distinct(Tail(s))
                             /\ Range(Head(s)) \cap Numbers(Tail(s)) = {}
           /\ Increasing(s) => /\ Increasing(<<Head(s)>>) /\ Increasing(Tail(s))
                               /\ Precedes(Range(Head(s)), Numbers(Tail(s)))
<1> DEFINE v == <<Head(s)>>
           w == Tail(s)
<1>1. Head(s) \in Value /\ w \in Values /\ s = v \o w
  BY HeadValue
<1>2. v \in Values /\ Numbers(v) = Range(Head(s))
  BY <1>1, OneValue
<1> HIDE DEF v, w
<1>3. Numbers(v \o w) = Range(Head(s)) \cup Numbers(w)
  BY <1>1, <1>2, JoinedNumbers
<1>4. Distinct(v \o w) => Distinct(v) /\ Distinct(w) /\ Range(Head(s)) \cap Numbers(w) = {}
  BY <1>1, <1>2, JoinedDistinct DEF Apart
<1>5. Increasing(v \o w) =>
         Increasing(v) /\ Increasing(w) /\ Precedes(Range(Head(s)), Numbers(w))
  BY <1>1, <1>2, JoinedIncreasing
<1> QED BY <1>1, <1>3, <1>4, <1>5 DEF v, w

\* The empty sequence has no number.
LEMMA NoValue ==
    /\ <<>> \in Values /\ Numbers(<<>>) = {} /\ Distinct(<<>>) /\ Increasing(<<>>)
  BY ValueFacts DEF Numbers, Distinct, Increasing

\* Nil is a value without a number.
LEMMA NilValue ==
    /\ Range(Nil) = {} /\ Distinct(<<Nil>>) /\ Increasing(<<Nil>>)
<1>1. Nil \in Value /\ DOMAIN Nil = {}
  BY ValueFacts DEF Nil
<1> QED BY <1>1, OneValue DEF Range

\* A value just sent.
LEMMA SentValue ==
    ASSUME NEW k \in Nat
    PROVE  /\ <<k>> \in Value /\ Range(<<k>>) = {k} /\ Distinct(<<<<k>>>>)
           /\ Increasing(<<<<k>>>>)
<1>1. <<k>> \in Value /\ DOMAIN <<k>> = {1} /\ <<k>>[1] = k
  BY ValueFacts
<1> QED BY <1>1, OneValue DEF Range

\* A channel that is as it was.
SameChannel(c) ==
    /\ chan'[c].queue = chan[c].queue /\ chan'[c].capacity = chan[c].capacity
    /\ got'[c] = got[c] /\ Queue(c)' = Queue(c)
    /\ (c \in mixed' <=> c \in mixed) /\ (c \in live' <=> c \in live)

\* One that is changed, as far as it is concerned itself.
SoundChannel(c) ==
    /\ chan'[c].capacity > 0 => Len(chan'[c].queue) <= chan'[c].capacity
    /\ Distinct(got'[c]) /\ Distinct(Queue(c)')
    /\ c \notin mixed' => /\ Increasing(got'[c]) /\ Increasing(Queue(c)')
                         /\ Precedes(InGot(c)', InQueue(c)')

\* What moves in the channels X is in none of the others, nor in a stream operator.
MovesInside(X, R, g, q) ==
    /\ g \subseteq X /\ q \subseteq X /\ OneTarget(g, q, {})
    /\ \A c \in X : InGot(c)' \subseteq InGot(c) \cup R /\ (c \notin g => InGot(c)' \cap R = {})
    /\ \A c \in X :
          InQueue(c)' \subseteq InQueue(c) \cup R /\ (c \notin q => InQueue(c)' \cap R = {})
    /\ \A c \in Chans \ X : InGot(c) \cap R = {} /\ InQueue(c) \cap R = {}
    /\ \A i \in DOMAIN builtin : InTodo(i) \cap R = {}

\* Each channel is bounded, and its values are once and in order in it.
LEMMA EachChannel ==
    ASSUME DataInv, \A c \in Chans : SameChannel(c) \/ SoundChannel(c)
    PROVE  /\ WithinCapacity' /\ ChannelsOrdered'
           /\ \A c \in Chans : Distinct(got'[c]) /\ Distinct(Queue(c)')
<1>1. ASSUME NEW c \in Chans
      PROVE  /\ chan'[c].capacity > 0 => Len(chan'[c].queue) <= chan'[c].capacity
             /\ Distinct(got'[c]) /\ Distinct(Queue(c)')
             /\ c \notin mixed' => /\ Increasing(got'[c]) /\ Increasing(Queue(c)')
                                  /\ Precedes(InGot(c)', InQueue(c)')
  <2>1. CASE SoundChannel(c)
    BY <2>1 DEF SoundChannel
  <2>2. CASE SameChannel(c)
    <3>1. InGot(c)' = InGot(c) /\ InQueue(c)' = InQueue(c)
      BY <2>2 DEF SameChannel, InGot, InQueue
    <3>2. chan'[c].capacity > 0 => Len(chan'[c].queue) <= chan'[c].capacity
      BY <2>2 DEF SameChannel, DataInv, WithinCapacity
    <3>3. Distinct(got'[c]) /\ Distinct(Queue(c)')
      BY <2>2 DEF SameChannel, DataInv, AllDistinct
    <3>4. c \notin mixed' => /\ Increasing(got'[c]) /\ Increasing(Queue(c)')
                            /\ Precedes(InGot(c)', InQueue(c)')
      BY <2>2, <3>1 DEF SameChannel, DataInv, ChannelsOrdered
    <3> QED BY <3>2, <3>3, <3>4
  <2> QED BY <2>1, <2>2
<1>2. WithinCapacity'
  BY <1>1 DEF WithinCapacity
<1>3. ChannelsOrdered'
  BY <1>1 DEF ChannelsOrdered
<1> QED BY <1>1, <1>2, <1>3

\* A step that changes some channels, none of them the output of a stream operator,
\* and no stream operator.
LEMMA ChannelsStep ==
    ASSUME StreamsTyped, DataInv, UNCHANGED builtin,
           NEW X, X \subseteq Chans, \A i \in DOMAIN builtin : builtin[i].out \notin X,
           \A c \in Chans \ X : SameChannel(c), \A c \in X : SoundChannel(c),
           NEW R, NEW g, NEW q, MovesInside(X, R, g, q),
           1..sends \subseteq 1..sends', R \subseteq 1..sends'
    PROVE  DataInv'
<1>0. \A i \in DOMAIN builtin : builtin[i].out \in Chans /\ SameChannel(builtin[i].out)
  <2>1. \A i \in DOMAIN builtin : builtin[i] \in ABuiltin
    BY DEF StreamsTyped
  <2> QED BY <2>1 DEF ABuiltin
<1>1. \A i \in DOMAIN builtin : Todo(i)' = Todo(i) /\ InTodo(i)' = InTodo(i)
  BY DEF Todo, InTodo
<1>2. \A c \in Chans \ X : InGot(c)' = InGot(c) /\ InQueue(c)' = InQueue(c)
  BY DEF SameChannel, InGot, InQueue
<1>3. OutputsOwned'
  BY <1>0 DEF DataInv, OutputsOwned, SameChannel
<1>4. /\ WithinCapacity' /\ ChannelsOrdered'
      /\ \A c \in Chans : Distinct(got'[c]) /\ Distinct(Queue(c)')
  <2>1. \A c \in Chans : SameChannel(c) \/ SoundChannel(c)
    OBVIOUS
  <2> QED BY <2>1, EachChannel
<1>5. Moves(R, g, q, {})
  <2>1. ASSUME NEW c \in Chans
        PROVE  InGot(c)' \subseteq InGot(c) \cup R /\ (c \notin g => InGot(c)' \cap R = {})
    BY <1>2 DEF MovesInside
  <2>2. ASSUME NEW c \in Chans
        PROVE  InQueue(c)' \subseteq InQueue(c) \cup R /\ (c \notin q => InQueue(c)' \cap R = {})
    BY <1>2 DEF MovesInside
  <2>3. ASSUME NEW i \in DOMAIN builtin'
        PROVE  /\ i \in DOMAIN builtin => InTodo(i)' \subseteq InTodo(i) \cup R
               /\ i \notin DOMAIN builtin => InTodo(i)' \subseteq R
               /\ i \notin {} => InTodo(i)' \cap R = {}
    BY <1>1 DEF MovesInside
  <2> QED BY <2>1, <2>2, <2>3 DEF Moves
<1>6. AllSent' /\ ChannelsApart' /\ TodoApart'
  <2>1. OneTarget(g, q, {})
    BY DEF MovesInside
  <2> QED BY <1>5, <2>1, MovesKeep DEF DataInv
<1>7. AllDistinct'
  <2>1. \A i \in DOMAIN builtin' : Distinct(Todo(i)')
    BY <1>1 DEF DataInv, AllDistinct
  <2> QED BY <1>4, <2>1 DEF AllDistinct
<1>9. TodoOrdered'
  <2> SUFFICES ASSUME NEW i \in DOMAIN builtin, builtin[i].out \notin mixed'
               PROVE  Increasing(Todo(i)') /\ Precedes(InQueue(builtin[i].out)', InTodo(i)')
    BY DEF TodoOrdered
  <2> DEFINE o == builtin[i].out
  <2>1. o \in Chans \ X /\ o \notin mixed
    BY <1>0 DEF SameChannel
  <2>2. Increasing(Todo(i)) /\ Precedes(InQueue(o), InTodo(i))
    BY <2>1 DEF DataInv, TodoOrdered
  <2>3. InQueue(o)' = InQueue(o)
    BY <1>2, <2>1
  <2> QED BY <1>1, <2>2, <2>3
<1> QED BY <1>3, <1>4, <1>6, <1>7, <1>9 DEF DataInv

\* What the invariant says of one channel, and of the kinds of what is in it.
LEMMA ChannelSound ==
    ASSUME StreamsTyped, DataInv, NEW c \in Chans
    PROVE  /\ chan[c] \in AChannel /\ chan[c].queue \in Values /\ chan[c].capacity \in Nat
           /\ got[c] \in Values /\ Queue(c) \in Values
           /\ chan[c].capacity > 0 => Len(chan[c].queue) <= chan[c].capacity
           /\ Distinct(got[c]) /\ Distinct(Queue(c))
           /\ c \notin mixed => /\ Increasing(got[c]) /\ Increasing(Queue(c))
                                /\ Precedes(InGot(c), InQueue(c))
           /\ InGot(c) \subseteq 1..sends /\ InQueue(c) \subseteq 1..sends
           /\ InGot(c) \cap InQueue(c) = {}
<1>1. chan[c] \in AChannel /\ got[c] \in Values
  BY DEF StreamsTyped
<1>2. chan[c].queue \in Values /\ chan[c].capacity \in Nat
  BY <1>1 DEF AChannel
<1>3. Queue(c) \in Values
  BY <1>2, NoValue DEF Queue
<1>4. /\ chan[c].capacity > 0 => Len(chan[c].queue) <= chan[c].capacity
      /\ Distinct(got[c]) /\ Distinct(Queue(c))
  BY DEF DataInv, WithinCapacity, AllDistinct
<1>5. c \notin mixed => /\ Increasing(got[c]) /\ Increasing(Queue(c))
                       /\ Precedes(InGot(c), InQueue(c))
  BY DEF DataInv, ChannelsOrdered
<1>6. InGot(c) \subseteq 1..sends /\ InQueue(c) \subseteq 1..sends
  BY DEF DataInv, AllSent
<1>7. InGot(c) \cap InQueue(c) = {}
  BY DEF DataInv, ChannelsApart
<1> QED BY <1>1, <1>2, <1>3, <1>4, <1>5, <1>6, <1>7

\* What is in one channel is in no other and in no stream operator.
LEMMA ElsewhereNot ==
    ASSUME DataInv, NEW c \in Chans
    PROVE  /\ \A d \in Chans \ {c} :
                 InGot(d) \cap InQueue(c) = {} /\ InQueue(d) \cap InQueue(c) = {}
           /\ \A i \in DOMAIN builtin : InTodo(i) \cap InQueue(c) = {}
<1>1. ASSUME NEW d \in Chans \ {c}
      PROVE  InGot(d) \cap InQueue(c) = {} /\ InQueue(d) \cap InQueue(c) = {}
  BY DEF DataInv, ChannelsApart
<1>2. ASSUME NEW i \in DOMAIN builtin PROVE InTodo(i) \cap InQueue(c) = {}
  BY DEF DataInv, TodoApart
<1> QED BY <1>1, <1>2

\* channel(): the pool hands out an object nobody refers to, emptied.
LEMMA ChannelData ==
    ASSUME StreamsTyped, DataInv, NEW c \in Chans, NEW cap \in Capacities, Channel(c, cap)
    PROVE  DataInv'
<1>1. /\ c \notin live /\ live' = live \cup {c} /\ got' = [got EXCEPT ![c] = <<>>]
      /\ mixed' = mixed \ {c} /\ chan' = [chan EXCEPT ![c] = ANewChannel(cap)]
      /\ builtin' = builtin /\ sends' = sends
  BY DEF Channel, Acquired, control
<1>2. \A d \in Chans \ {c} : SameChannel(d)
  BY <1>1 DEF SameChannel, Queue, StreamsTyped
<1>3. /\ got'[c] = <<>> /\ chan'[c] = ANewChannel(cap) /\ Queue(c)' = <<>> /\ Queue(c) = <<>>
  BY <1>1, NewChannel DEF Queue, StreamsTyped
<1>4. InGot(c)' = {} /\ InQueue(c)' = {}
  BY <1>3, NoValue DEF InGot, InQueue
<1>5. SoundChannel(c)
  <2>1. chan'[c].capacity > 0 => Len(chan'[c].queue) <= chan'[c].capacity
    <3>1. cap \in Nat
      OBVIOUS
    <3>2. ANewChannel(cap).queue = <<>> /\ ANewChannel(cap).capacity = cap
      BY <3>1, NewChannel
    <3>3. chan'[c].queue = <<>> /\ chan'[c].capacity = cap
      BY <1>3, <3>2
    <3>4. Len(chan'[c].queue) = 0
      BY <3>3
    <3> QED BY <3>1, <3>3, <3>4
  <2>2. /\ Distinct(got'[c]) /\ Distinct(Queue(c)') /\ Increasing(got'[c])
        /\ Increasing(Queue(c)')
    BY <1>3, NoValue
  <2>3. Precedes(InGot(c)', InQueue(c)')
    BY <1>4 DEF Precedes
  <2> QED BY <2>1, <2>2, <2>3 DEF SoundChannel
<1>6. \A i \in DOMAIN builtin : builtin[i].out \notin {c}
  BY <1>1 DEF DataInv, OutputsOwned
<1>7. MovesInside({c}, {}, {}, {})
  BY <1>4 DEF MovesInside, OneTarget
<1> QED BY <1>1, <1>2, <1>5, <1>6, <1>7, ChannelsStep

\* A channel dropped takes what is in it away.
LEMMA DropData ==
    ASSUME StreamsTyped, DataInv, NEW c \in Chans, DropChannel(c)
    PROVE  DataInv'
<1>1. /\ live' = live \ {c} /\ got' = got /\ mixed' = mixed /\ chan' = chan
      /\ builtin' = builtin /\ sends' = sends /\ c \in Known
  BY DEF DropChannel, control
<1>2. \A d \in Chans \ {c} : SameChannel(d)
  BY <1>1 DEF SameChannel, Queue
<1>3. Queue(c)' = <<>>
  BY <1>1 DEF Queue
<1>4. InGot(c)' = InGot(c) /\ InQueue(c)' = {}
  BY <1>1, <1>3, NoValue DEF InGot, InQueue
<1>5. SoundChannel(c)
  BY <1>1, <1>3, <1>4, ChannelSound, NoValue DEF SoundChannel, Precedes
<1>6. \A i \in DOMAIN builtin : builtin[i].out \notin {c}
  BY <1>1 DEF Known
<1>7. MovesInside({c}, {}, {}, {})
  BY <1>4 DEF MovesInside, OneTarget
<1> QED BY <1>1, <1>2, <1>5, <1>6, <1>7, ChannelsStep

\* Closing a channel leaves what is in it.
LEMMA CloseData ==
    ASSUME StreamsTyped, DataInv, NEW c \in Chans, CloseChannel(c)
    PROVE  DataInv'
<1>1. /\ live' = live /\ got' = got /\ mixed' = mixed /\ builtin' = builtin /\ sends' = sends
      /\ chan' = [chan EXCEPT ![c].closed = TRUE]
  BY DEF CloseChannel, control
<1>2. \A d \in Chans : chan'[d].queue = chan[d].queue /\ chan'[d].capacity = chan[d].capacity
  <2>1. chan[c] \in AChannel
    BY DEF StreamsTyped
  <2> QED BY <1>1, <2>1 DEF StreamsTyped, AChannel
<1>3. \A d \in Chans \ {} : SameChannel(d)
  BY <1>1, <1>2 DEF SameChannel, Queue
<1>4. MovesInside({}, {}, {}, {})
  BY DEF MovesInside, OneTarget
<1> QED BY <1>1, <1>3, <1>4, ChannelsStep

\* A value sent is new, and goes to the end of one queue or is refused.
LEMMA SendData ==
    ASSUME StreamsTyped, DataInv, NEW c \in Chans, Send(c)
    PROVE  DataInv'
<1> DEFINE k == sends + 1
<1>1. /\ live' = live /\ got' = got /\ mixed' = mixed /\ builtin' = builtin /\ sends' = k
      /\ c \in live /\ c \in Known
      /\ IF Refuses(c) THEN chan' = chan
         ELSE chan' = [chan EXCEPT ![c].queue = Append(@, <<k>>)]
  BY DEF Send, control, Known, Enqueued
<1>2. k \in Nat /\ k \notin 1..sends /\ 1..sends \subseteq 1..k /\ {k} \subseteq 1..k
  BY DEF StreamsTyped
<1> HIDE DEF k
<1>3. \A i \in DOMAIN builtin : builtin[i].out \notin {c}
  BY <1>1 DEF Known
<1>4. \A d \in Chans \ {c} : SameChannel(d)
  BY <1>1 DEF SameChannel, Queue, StreamsTyped
<1>5. \A d \in Chans : InGot(d) \cap {k} = {} /\ InQueue(d) \cap {k} = {}
  BY <1>2 DEF DataInv, AllSent
<1>6. \A i \in DOMAIN builtin : InTodo(i) \cap {k} = {}
  BY <1>2 DEF DataInv, AllSent
<1>7. InGot(c)' = InGot(c)
  BY <1>1 DEF InGot
<1>8. CASE Refuses(c)
  <2>1. Queue(c)' = Queue(c) /\ InQueue(c)' = InQueue(c)
    BY <1>1, <1>8 DEF Queue, InQueue
  <2>2. SoundChannel(c)
    BY <1>1, <1>7, <1>8, <2>1, ChannelSound DEF SoundChannel
  <2>3. MovesInside({c}, {k}, {}, {})
    BY <1>5, <1>6, <1>7, <2>1 DEF MovesInside, OneTarget
  <2> QED BY <1>1, <1>2, <1>3, <1>4, <2>2, <2>3, ChannelsStep
<1>9. CASE ~Refuses(c)
  <2> DEFINE q == chan[c].queue
  <2>1. q \in Values /\ Queue(c) = q /\ chan[c].capacity \in Nat
    BY <1>1, ChannelSound DEF Queue
  <2>2. /\ chan'[c].queue = Append(q, <<k>>) /\ chan'[c].capacity = chan[c].capacity
        /\ Queue(c)' = Append(q, <<k>>)
    <3>1. chan[c] \in AChannel
      BY DEF StreamsTyped
    <3> QED BY <1>1, <1>9, <3>1 DEF StreamsTyped, AChannel, Queue
  <2>3. chan[c].capacity > 0 => Len(q) < chan[c].capacity
    BY <1>9, <2>1 DEF Refuses, Values
  <2>4. chan'[c].capacity > 0 => Len(chan'[c].queue) <= chan'[c].capacity
    <3>1. Len(Append(q, <<k>>)) = Len(q) + 1 /\ Len(q) \in Nat
      BY <2>1 DEF Values
    <3> QED BY <2>1, <2>2, <2>3, <3>1
  <2>5. /\ <<k>> \in Value /\ Range(<<k>>) = {k} /\ Distinct(<<<<k>>>>)
        /\ Increasing(<<<<k>>>>)
    BY <1>2, SentValue
  <2>6. /\ Numbers(Append(q, <<k>>)) = Numbers(q) \cup {k}
        /\ Distinct(q) /\ Numbers(q) \cap {k} = {} => Distinct(Append(q, <<k>>))
        /\ Increasing(q) /\ Precedes(Numbers(q), {k}) => Increasing(Append(q, <<k>>))
    <3> DEFINE v == <<k>>
    <3>1. v \in Value /\ Range(v) = {k} /\ Distinct(<<v>>) /\ Increasing(<<v>>)
      BY <2>5
    <3> HIDE DEF v, q
    <3>2. /\ Numbers(Append(q, v)) = Numbers(q) \cup Range(v)
          /\ Distinct(Append(q, v)) <=>
                 Distinct(q) /\ Distinct(<<v>>) /\ Numbers(q) \cap Range(v) = {}
          /\ Increasing(Append(q, v)) <=>
                 Increasing(q) /\ Increasing(<<v>>) /\ Precedes(Numbers(q), Range(v))
      BY <2>1, <3>1, OneMore
    <3> QED BY <3>1, <3>2 DEF v
  <2>7. InQueue(c) = Numbers(q) /\ InQueue(c)' = InQueue(c) \cup {k}
    BY <2>1, <2>2, <2>6 DEF InQueue
  <2>8. Precedes(InQueue(c), {k}) /\ Precedes(InGot(c), {k})
    <3>1. InQueue(c) \subseteq 1..sends /\ InGot(c) \subseteq 1..sends
      BY ChannelSound
    <3>2. \A x \in 1..sends : x < k
      BY DEF k, StreamsTyped
    <3> QED BY <3>1, <3>2 DEF Precedes
  <2>9. SoundChannel(c)
    <3>1. Distinct(got'[c]) /\ Distinct(Queue(c)')
      BY <1>1, <1>5, <2>1, <2>2, <2>6, <2>7, ChannelSound
    <3>2. ASSUME c \notin mixed'
          PROVE  /\ Increasing(got'[c]) /\ Increasing(Queue(c)')
                 /\ Precedes(InGot(c)', InQueue(c)')
      <4>1. Increasing(got[c]) /\ Increasing(q) /\ Precedes(InGot(c), InQueue(c))
        BY <1>1, <2>1, <3>2, ChannelSound
      <4>2. Precedes(InGot(c), InQueue(c) \cup {k})
        BY <2>8, <4>1 DEF Precedes
      <4> QED BY <1>1, <1>7, <2>2, <2>6, <2>7, <2>8, <4>1, <4>2
    <3> QED BY <2>4, <3>1, <3>2 DEF SoundChannel
  <2>10. MovesInside({c}, {k}, {}, {c})
    <3>1. OneTarget({}, {c}, {})
      BY DEF OneTarget
    <3> QED BY <1>5, <1>6, <1>7, <2>7, <3>1 DEF MovesInside
  <2> QED BY <1>1, <1>2, <1>3, <1>4, <2>9, <2>10, ChannelsStep
<1> QED BY <1>8, <1>9

\* A value received is taken from the front of the queue, and was in no other place.
LEMMA RecvData ==
    ASSUME StreamsTyped, DataInv, NEW c \in Chans, Recv(c)
    PROVE  DataInv'
<1> DEFINE q == chan[c].queue
           R == Range(Head(q))
<1>1. /\ live' = live /\ mixed' = mixed /\ builtin' = builtin /\ sends' = sends
      /\ c \in live /\ c \in Known
  BY DEF Recv, control, Known
<1>2. \A i \in DOMAIN builtin : builtin[i].out \notin {c}
  BY <1>1 DEF Known
<1>3. CASE q = <<>>
  <2>1. chan' = chan /\ got' = got
    BY <1>3 DEF Recv
  <2>2. \A d \in Chans \ {} : SameChannel(d)
    BY <1>1, <2>1 DEF SameChannel, Queue
  <2>3. MovesInside({}, {}, {}, {})
    BY DEF MovesInside, OneTarget
  <2> QED BY <1>1, <2>2, <2>3, ChannelsStep
<1>4. CASE q # <<>>
  <2>1. /\ chan' = [chan EXCEPT ![c].queue = Tail(q)]
        /\ got' = [got EXCEPT ![c] = Append(@, Head(q))]
    BY <1>4 DEF Recv
  <2>2. /\ q \in Values /\ Queue(c) = q /\ got[c] \in Values /\ chan[c].capacity \in Nat
        /\ chan[c].capacity > 0 => Len(q) <= chan[c].capacity
    BY <1>1, ChannelSound DEF Queue
  <2>3. /\ chan'[c].queue = Tail(q) /\ chan'[c].capacity = chan[c].capacity
        /\ Queue(c)' = Tail(q) /\ got'[c] = Append(got[c], Head(q))
    <3>1. chan[c] \in AChannel
      BY DEF StreamsTyped
    <3> QED BY <1>1, <2>1, <3>1 DEF StreamsTyped, AChannel, Queue
  <2>4. \A d \in Chans \ {c} : SameChannel(d)
    BY <1>1, <2>1 DEF SameChannel, Queue, StreamsTyped
  <2>5. /\ Head(q) \in Value /\ Tail(q) \in Values
        /\ Numbers(q) = R \cup Numbers(Tail(q))
        /\ Distinct(q) => /\ Distinct(<<Head(q)>>) /\ Distinct(Tail(q))
                          /\ R \cap Numbers(Tail(q)) = {}
        /\ Increasing(q) => /\ Increasing(<<Head(q)>>) /\ Increasing(Tail(q))
                            /\ Precedes(R, Numbers(Tail(q)))
    BY <1>4, <2>2, FirstLess
  <2>6. /\ Numbers(Append(got[c], Head(q))) = Numbers(got[c]) \cup R
        /\ Distinct(Append(got[c], Head(q))) <=>
               Distinct(got[c]) /\ Distinct(<<Head(q)>>) /\ Numbers(got[c]) \cap R = {}
        /\ Increasing(Append(got[c], Head(q))) <=>
               Increasing(got[c]) /\ Increasing(<<Head(q)>>) /\ Precedes(Numbers(got[c]), R)
    BY <2>2, <2>5, OneMore
  <2>7. Len(Tail(q)) <= Len(q) /\ Len(q) \in Nat /\ Len(Tail(q)) \in Nat
    BY <1>4, <2>2 DEF Values
  <2> HIDE DEF q, R
  <2>8. /\ Distinct(q) /\ Distinct(got[c]) /\ InQueue(c) = Numbers(q)
        /\ InGot(c) = Numbers(got[c]) /\ InGot(c) \cap InQueue(c) = {}
    BY <2>2, ChannelSound DEF InQueue, InGot
  <2>9. InQueue(c)' = Numbers(Tail(q)) /\ InGot(c)' = InGot(c) \cup R /\ R \subseteq InQueue(c)
    BY <2>3, <2>5, <2>6, <2>8 DEF InQueue, InGot
  <2>10. SoundChannel(c)
    <3>1. chan'[c].capacity > 0 => Len(chan'[c].queue) <= chan'[c].capacity
      BY <2>2, <2>3, <2>7
    <3>2. Distinct(got'[c]) /\ Distinct(Queue(c)')
      <4>1. Numbers(got[c]) \cap R = {}
        BY <2>8, <2>9
      <4> QED BY <2>3, <2>5, <2>6, <2>8, <4>1
    <3>3. ASSUME c \notin mixed'
          PROVE  /\ Increasing(got'[c]) /\ Increasing(Queue(c)')
                 /\ Precedes(InGot(c)', InQueue(c)')
      <4>1. Increasing(got[c]) /\ Increasing(q) /\ Precedes(InGot(c), InQueue(c))
        BY <1>1, <2>2, <3>3, ChannelSound
      <4>2. Precedes(Numbers(got[c]), R)
        BY <2>8, <2>9, <4>1 DEF Precedes
      <4>3. Precedes(InGot(c) \cup R, Numbers(Tail(q)))
        BY <2>5, <2>8, <4>1 DEF Precedes
      <4> QED BY <2>3, <2>5, <2>6, <2>9, <4>1, <4>2, <4>3
    <3> QED BY <3>1, <3>2, <3>3 DEF SoundChannel
  <2>11. MovesInside({c}, R, {c}, {})
    <3>1. OneTarget({c}, {}, {})
      BY DEF OneTarget
    <3>2. InQueue(c)' \subseteq InQueue(c) /\ InQueue(c)' \cap R = {}
      BY <2>5, <2>8, <2>9
    <3>3. /\ \A d \in Chans \ {c} : InGot(d) \cap R = {} /\ InQueue(d) \cap R = {}
          /\ \A i \in DOMAIN builtin : InTodo(i) \cap R = {}
      BY <2>9, ElsewhereNot
    <3> QED BY <2>9, <3>1, <3>2, <3>3 DEF MovesInside
  <2>12. R \subseteq 1..sends' /\ 1..sends \subseteq 1..sends'
    BY <1>1, <2>9, ChannelSound
  <2> QED BY <1>1, <1>2, <2>4, <2>10, <2>11, <2>12, ChannelsStep
<1> QED BY <1>3, <1>4

\* A new channel is given what was in two, which may be one and the same.
GivesTo(c, d, out, w) ==
    /\ live' = live \cup {out} /\ got' = [got EXCEPT ![out] = <<>>]
    /\ builtin' = builtin /\ sends' = sends
    /\ \A x \in Chans \ {out} : x \in mixed' <=> x \in mixed
    /\ \A x \in Chans \ {c, d, out} : chan'[x] = chan[x]
    /\ \A x \in {c, d} : chan'[x].queue = <<>> /\ chan'[x].capacity = chan[x].capacity
    /\ chan'[out].queue = w /\ chan'[out].capacity = 0

\* What stream_buffer and stream_merge put in the new channel is sound, and was in the
\* others.
LEMMA GivenData ==
    ASSUME StreamsTyped, DataInv, NEW c \in Known, NEW d \in Known, NEW out \in Chans \ live,
           NEW w \in Values, GivesTo(c, d, out, w),
           Numbers(w) \subseteq InQueue(c) \cup InQueue(d), Distinct(w),
           out \in mixed' \/ Increasing(w)
    PROVE  DataInv'
<1> DEFINE X == {c, d, out}
           R == InQueue(c) \cup InQueue(d)
<1>1. /\ c \in Chans /\ d \in Chans /\ c \in live /\ d \in live /\ c # out /\ d # out
      /\ out \in Chans /\ out \notin live /\ X \subseteq Chans
      /\ \A i \in DOMAIN builtin : builtin[i].out \notin {c, d}
  BY DEF Known, StreamsTyped
<1>2. \A i \in DOMAIN builtin : builtin[i].out \notin X
  BY <1>1 DEF DataInv, OutputsOwned
<1>3. /\ got'[out] = <<>> /\ \A x \in Chans \ {out} : got'[x] = got[x]
  BY <1>1 DEF GivesTo, StreamsTyped
<1>4. \A x \in Chans \ X : SameChannel(x)
  BY <1>3 DEF GivesTo, SameChannel, Queue
<1>5. ASSUME NEW x \in {c, d}
      PROVE  /\ Queue(x)' = <<>> /\ InQueue(x)' = {} /\ InGot(x)' = InGot(x)
             /\ InGot(x) \cap R = {} /\ SoundChannel(x)
  <2>1. /\ x \in Chans /\ x # out /\ chan'[x].queue = <<>> /\ x \in live'
        /\ got'[x] = got[x] /\ (x \in mixed' <=> x \in mixed)
    BY <1>1, <1>3 DEF GivesTo
  <2>2. Queue(x)' = <<>>
    BY <2>1 DEF Queue
  <2>3. InQueue(x)' = {} /\ InGot(x)' = InGot(x)
    BY <2>1, <2>2, NoValue DEF InQueue, InGot
  <2>4. InGot(x) \cap R = {}
    BY <1>1, <2>1 DEF DataInv, ChannelsApart
  <2>5. chan'[x].capacity > 0 => Len(chan'[x].queue) <= chan'[x].capacity
    <3>1. chan'[x].capacity = chan[x].capacity /\ chan[x].capacity \in Nat
      BY <2>1, ChannelSound DEF GivesTo
    <3> QED BY <2>1, <3>1
  <2>6. SoundChannel(x)
    <3>1. Distinct(got'[x]) /\ Distinct(Queue(x)') /\ Increasing(Queue(x)')
      BY <2>1, <2>2, ChannelSound, NoValue
    <3>2. x \notin mixed' => Increasing(got'[x])
      BY <2>1, ChannelSound
    <3> QED BY <2>3, <2>5, <3>1, <3>2 DEF SoundChannel, Precedes
  <2> QED BY <2>2, <2>3, <2>4, <2>6
<1>6. Queue(out)' = w /\ InQueue(out)' = Numbers(w) /\ InGot(out)' = {}
  <2>1. Queue(out)' = w
    BY DEF GivesTo, Queue
  <2> QED BY <1>3, <2>1, NoValue DEF InQueue, InGot
<1>7. SoundChannel(out)
  <2>1. chan'[out].capacity = 0
    BY DEF GivesTo
  <2>2. Distinct(got'[out]) /\ Distinct(Queue(out)') /\ Increasing(got'[out])
    BY <1>3, <1>6, NoValue
  <2>3. out \notin mixed' => Increasing(Queue(out)')
    BY <1>6
  <2> QED BY <1>6, <2>1, <2>2, <2>3 DEF SoundChannel, Precedes
<1>8. \A x \in X : SoundChannel(x)
  BY <1>5, <1>7
<1>9. MovesInside(X, R, {}, {out})
  <2>1. OneTarget({}, {out}, {})
    BY DEF OneTarget
  <2>2. \A x \in X : InGot(x)' \subseteq InGot(x) \cup R /\ InGot(x)' \cap R = {}
    BY <1>5, <1>6
  <2>3. \A x \in X : /\ InQueue(x)' \subseteq InQueue(x) \cup R
                     /\ x \notin {out} => InQueue(x)' \cap R = {}
    BY <1>5, <1>6
  <2>4. \A x \in Chans \ X : InGot(x) \cap R = {} /\ InQueue(x) \cap R = {}
    BY <1>1, ElsewhereNot
  <2>5. \A i \in DOMAIN builtin : InTodo(i) \cap R = {}
    BY <1>1, ElsewhereNot
  <2> QED BY <2>1, <2>2, <2>3, <2>4, <2>5 DEF MovesInside
<1>10. /\ builtin' = builtin /\ sends' = sends /\ R \subseteq 1..sends'
       /\ 1..sends \subseteq 1..sends'
  BY <1>1, ChannelSound DEF GivesTo
<1> QED BY <1>1, <1>2, <1>4, <1>8, <1>9, <1>10, ChannelsStep

\* stream_buffer: batches of what was in the channel.
LEMMA BufferData ==
    ASSUME StreamsTyped, DataInv, NEW c \in Chans, NEW out \in Chans, StreamBuffer(c, out)
    PROVE  DataInv'
<1> DEFINE q == chan[c].queue
           w == Batches(q)
<1>1. /\ c \in Known /\ c \in live /\ out \notin live /\ live' = live \cup {out}
      /\ mixed' = (IF c \in mixed THEN mixed \cup {out} ELSE mixed \ {out})
      /\ got' = [got EXCEPT ![out] = <<>>] /\ builtin' = builtin /\ sends' = sends
      /\ chan' = [chan EXCEPT ![c] = Emptied(c), ![out] = [ANewChannel(0) EXCEPT !.queue = w]]
  BY DEF StreamBuffer, Acquired, Known
<1>2. /\ q \in Values /\ Queue(c) = q /\ Distinct(q)
      /\ c \notin mixed => Increasing(q)
  BY <1>1, ChannelSound DEF Queue
<1>3. /\ w \in Values /\ Numbers(w) \subseteq Numbers(q) /\ Distinct(w)
      /\ c \notin mixed => Increasing(w)
  BY <1>2, BatchesKeep
<1>4. GivesTo(c, c, out, w)
  <2>1. chan[c] \in AChannel /\ <<>> \in Values
    BY NoValue DEF StreamsTyped
  <2>2. Emptied(c).queue = <<>> /\ Emptied(c).capacity = chan[c].capacity
    BY <2>1, ChannelFacts DEF Emptied
  <2>3. /\ [ANewChannel(0) EXCEPT !.queue = w].queue = w
        /\ [ANewChannel(0) EXCEPT !.queue = w].capacity = 0
    BY DEF ANewChannel
  <2> HIDE DEF w
  <2>4. /\ chan'[c] = Emptied(c) /\ chan'[out] = [ANewChannel(0) EXCEPT !.queue = w]
        /\ \A x \in Chans \ {c, out} : chan'[x] = chan[x]
    BY <1>1 DEF StreamsTyped
  <2> QED BY <1>1, <2>2, <2>3, <2>4 DEF GivesTo
<1>5. Numbers(w) \subseteq InQueue(c) \cup InQueue(c) /\ (out \in mixed' \/ Increasing(w))
  BY <1>1, <1>2, <1>3 DEF InQueue
<1> HIDE DEF w
<1> QED BY <1>1, <1>3, <1>4, <1>5, GivenData

\* stream_merge: what was in the first channel, then what was in the second.
LEMMA MergeData ==
    ASSUME StreamsTyped, DataInv, NEW c \in Chans, NEW d \in Chans, NEW out \in Chans,
           StreamMerge(c, d, out)
    PROVE  DataInv'
<1> DEFINE q == chan[c].queue
           second == IF d = c THEN <<>> ELSE chan[d].queue
           w == q \o second
<1>1. /\ c \in Known /\ d \in Known /\ c \in live /\ d \in live /\ out \notin live
      /\ live' = live \cup {out} /\ mixed' = mixed \cup {out}
      /\ got' = [got EXCEPT ![out] = <<>>] /\ builtin' = builtin /\ sends' = sends
      /\ chan' = [chan EXCEPT ![c] = Emptied(c), ![d] = Emptied(d),
                              ![out] = [ANewChannel(0) EXCEPT !.queue = w]]
  BY DEF StreamMerge, Acquired, Known
<1>2. /\ q \in Values /\ Queue(c) = q /\ Distinct(q) /\ Numbers(q) = InQueue(c)
      /\ second \in Values /\ Distinct(second) /\ Numbers(second) \subseteq InQueue(d)
      /\ d # c => Numbers(second) = InQueue(d)
  BY <1>1, ChannelSound, NoValue DEF Queue, InQueue
<1>3. w \in Values /\ Numbers(w) = Numbers(q) \cup Numbers(second)
  BY <1>2, JoinedNumbers
<1>4. Distinct(w)
  <2>1. Apart(q, second)
    <3>1. CASE d = c
      BY <3>1, NoValue DEF Apart
    <3>2. CASE d # c
      BY <1>2, <3>2 DEF Apart, DataInv, ChannelsApart
    <3> QED BY <3>1, <3>2
  <2> HIDE DEF q, second
  <2> QED BY <1>2, <2>1, JoinedDistinct
<1>5. GivesTo(c, d, out, w)
  <2>1. chan[c] \in AChannel /\ chan[d] \in AChannel /\ <<>> \in Values
    BY NoValue DEF StreamsTyped
  <2>2. \A x \in {c, d} : Emptied(x).queue = <<>> /\ Emptied(x).capacity = chan[x].capacity
    BY <2>1, ChannelFacts DEF Emptied
  <2>3. /\ [ANewChannel(0) EXCEPT !.queue = w].queue = w
        /\ [ANewChannel(0) EXCEPT !.queue = w].capacity = 0
    BY DEF ANewChannel
  <2> HIDE DEF w
  <2>4. /\ chan'[c] = Emptied(c) /\ chan'[d] = Emptied(d)
        /\ chan'[out] = [ANewChannel(0) EXCEPT !.queue = w]
        /\ \A x \in Chans \ {c, d, out} : chan'[x] = chan[x]
    BY <1>1 DEF StreamsTyped
  <2> QED BY <1>1, <2>2, <2>3, <2>4 DEF GivesTo
<1>6. Numbers(w) \subseteq InQueue(c) \cup InQueue(d) /\ out \in mixed'
  BY <1>1, <1>2, <1>3
<1> HIDE DEF w
<1> QED BY <1>1, <1>3, <1>4, <1>5, <1>6, GivenData

\* stream_map and stream_filter take what is in the channel: it is what they have to do.
LEMMA BeginData ==
    ASSUME StreamsTyped, DataInv, StreamsTyped', NEW kind \in {"map", "filter"},
           NEW c \in Chans, NEW out \in Chans, StreamBegin(kind, c, out)
    PROVE  DataInv'
<1> DEFINE q == chan[c].queue
           R == InQueue(c)
           b == [kind |-> kind, from |-> c, out |-> out, todo |-> chan[c].queue,
                 depth |-> Len(frames), saved |-> Len(frames), top |-> stackTop + 2,
                 result |-> Nil, phase |-> "next"]
<1>1. /\ c \in Known /\ c \in live /\ out \notin live /\ c # out /\ live' = live \cup {out}
      /\ mixed' = (IF c \in mixed THEN mixed \cup {out} ELSE mixed \ {out})
      /\ got' = [got EXCEPT ![out] = <<>>] /\ builtin' = Append(builtin, b) /\ sends' = sends
      /\ chan' = [chan EXCEPT ![c] = Emptied(c), ![out] = ANewChannel(0)]
  BY DEF StreamBegin, Acquired, Known
<1>2. /\ q \in Values /\ Queue(c) = q /\ Distinct(q) /\ R = Numbers(q)
      /\ R \subseteq 1..sends /\ sends \in Nat
  BY <1>1, ChannelSound DEF Queue, InQueue, StreamsTyped
<1>3. c \notin mixed => Increasing(q)
  BY <1>2, ChannelSound
<1>4. b.out = out /\ b.todo = q
  OBVIOUS
<1> HIDE DEF b
<1>5. PICK n \in Nat :
         /\ DOMAIN builtin = 1..n /\ DOMAIN builtin' = 1..n + 1
         /\ builtin'[n + 1] = b /\ n + 1 \notin 1..n
         /\ \A i \in 1..n : builtin'[i] = builtin[i] /\ i \in 1..n + 1
  <2>1. builtin \in Seq(ABuiltin \cup {b}) /\ Len(builtin) \in Nat
    BY DEF StreamsTyped
  <2>2. /\ DOMAIN builtin = 1..Len(builtin) /\ DOMAIN builtin' = 1..Len(builtin) + 1
        /\ builtin'[Len(builtin) + 1] = b /\ Len(builtin) + 1 \notin 1..Len(builtin)
        /\ \A i \in 1..Len(builtin) : builtin'[i] = builtin[i] /\ i \in 1..Len(builtin) + 1
    BY <1>1, <2>1
  <2> QED BY <2>1, <2>2
<1>6. \A i \in 1..n + 1 : i \in 1..n \/ i = n + 1
  BY <1>5
<1>7. /\ chan'[out].queue = <<>> /\ chan'[out].capacity = 0
      /\ chan'[c].queue = <<>> /\ chan'[c].capacity = chan[c].capacity
      /\ \A x \in Chans \ {c, out} : chan'[x] = chan[x]
  <2>1. chan[c] \in AChannel /\ <<>> \in Values
    BY NoValue DEF StreamsTyped
  <2>2. Emptied(c).queue = <<>> /\ Emptied(c).capacity = chan[c].capacity
    BY <2>1, ChannelFacts DEF Emptied
  <2>3. ANewChannel(0).queue = <<>> /\ ANewChannel(0).capacity = 0
    BY NewChannel
  <2> QED BY <1>1, <2>2, <2>3 DEF StreamsTyped
<1>8. got'[out] = <<>> /\ \A x \in Chans \ {out} : got'[x] = got[x]
  BY <1>1 DEF StreamsTyped
<1>9. \A x \in Chans \ {c, out} : SameChannel(x)
  <2>1. \A x \in Chans \ {c, out} :
           /\ x \in mixed' <=> x \in mixed
           /\ x \in live' <=> x \in live
           /\ got'[x] = got[x] /\ chan'[x] = chan[x]
    BY <1>1, <1>7, <1>8
  <2> QED BY <2>1 DEF SameChannel, Queue
<1>10. /\ Queue(c)' = <<>> /\ Queue(out)' = <<>> /\ InQueue(c)' = {} /\ InQueue(out)' = {}
       /\ InGot(c)' = InGot(c) /\ InGot(out)' = {}
  <2>1. Queue(c)' = <<>> /\ Queue(out)' = <<>>
    BY <1>7 DEF Queue
  <2> QED BY <1>1, <1>8, <2>1, NoValue DEF InQueue, InGot
<1>11. SoundChannel(c) /\ SoundChannel(out)
  <2>1. /\ chan'[c].capacity > 0 => Len(chan'[c].queue) <= chan'[c].capacity
        /\ chan'[out].capacity > 0 => Len(chan'[out].queue) <= chan'[out].capacity
    BY <1>7, ChannelSound
  <2>2. /\ Distinct(got'[c]) /\ Distinct(got'[out]) /\ Increasing(got'[out])
        /\ c \notin mixed' => Increasing(got'[c])
    BY <1>1, <1>8, ChannelSound, NoValue
  <2> QED BY <1>10, <2>1, <2>2, NoValue DEF SoundChannel, Precedes
<1>12. /\ WithinCapacity' /\ ChannelsOrdered'
       /\ \A x \in Chans : Distinct(got'[x]) /\ Distinct(Queue(x)')
  <2>1. \A x \in Chans : SameChannel(x) \/ SoundChannel(x)
    BY <1>9, <1>11
  <2> QED BY <2>1, EachChannel
<1>13. \A i \in 1..n : /\ builtin[i].out \in Chans \ {c, out}
                       /\ builtin'[i].out = builtin[i].out /\ Todo(i)' = Todo(i)
                       /\ InTodo(i)' = InTodo(i)
  <2>1. \A i \in 1..n : builtin[i].out # c /\ builtin[i].out \in live
    BY <1>1, <1>5 DEF Known, DataInv, OutputsOwned
  <2> QED BY <1>1, <1>5, <2>1 DEF StreamsTyped, Todo, InTodo
<1>14. builtin'[n + 1].out = out /\ Todo(n + 1)' = q /\ InTodo(n + 1)' = R
  BY <1>2, <1>4, <1>5 DEF Todo, InTodo
<1>15. OutputsOwned'
  <2>1. ASSUME NEW i \in 1..n
        PROVE  LET o == builtin[i].out
               IN  /\ o \in live' /\ chan'[o].capacity = 0 /\ got'[o] = <<>>
                   /\ \A j \in 1..n \ {i} : builtin[j].out # o
    BY <1>1, <1>5, <1>7, <1>8, <1>13 DEF DataInv, OutputsOwned
  <2>2. out \in live' /\ chan'[out].capacity = 0 /\ got'[out] = <<>>
    BY <1>1, <1>7, <1>8
  <2> QED BY <1>5, <1>6, <1>13, <1>14, <2>1, <2>2 DEF OutputsOwned
<1>16. Moves(R, {}, {}, {n + 1})
  <2>1. \A x \in Chans : InGot(x)' \subseteq InGot(x) /\ InGot(x) \cap R = {}
    <3>1. \A x \in Chans : x \notin {c, out} => InGot(x)' = InGot(x)
      BY <1>9 DEF SameChannel, InGot
    <3>2. \A x \in Chans : InGot(x) \cap R = {}
      BY DEF DataInv, ChannelsApart
    <3> QED BY <1>10, <3>1, <3>2
  <2>2. \A x \in Chans : InQueue(x)' \subseteq InQueue(x) /\ InQueue(x)' \cap R = {}
    <3>1. \A x \in Chans : x \notin {c, out} => InQueue(x)' = InQueue(x)
      BY <1>9 DEF SameChannel, InQueue
    <3>2. \A x \in Chans \ {c} : InQueue(x) \cap R = {}
      BY ElsewhereNot
    <3> QED BY <1>10, <3>1, <3>2
  <2>3. \A i \in 1..n : InTodo(i)' \subseteq InTodo(i) /\ InTodo(i)' \cap R = {}
    BY <1>5, <1>13, ElsewhereNot
  <2> QED BY <1>5, <1>6, <1>14, <2>1, <2>2, <2>3 DEF Moves
<1>17. AllSent' /\ ChannelsApart' /\ TodoApart'
  <2>1. OneTarget({}, {}, {n + 1})
    BY DEF OneTarget
  <2>2. 1..sends \subseteq 1..sends' /\ R \subseteq 1..sends'
    BY <1>1, <1>2
  <2> QED BY <1>16, <2>1, <2>2, MovesKeep DEF DataInv
<1>18. AllDistinct'
  <2>1. \A i \in DOMAIN builtin' : Distinct(Todo(i)')
    BY <1>2, <1>5, <1>6, <1>13, <1>14 DEF DataInv, AllDistinct
  <2> QED BY <1>12, <2>1 DEF AllDistinct
<1>19. TodoOrdered'
  <2>1. ASSUME NEW i \in 1..n, builtin[i].out \notin mixed'
        PROVE  Increasing(Todo(i)') /\ Precedes(InQueue(builtin[i].out)', InTodo(i)')
    <3> DEFINE o == builtin[i].out
    <3>1. SameChannel(o) /\ o \notin mixed
      BY <1>9, <1>13, <2>1 DEF SameChannel
    <3>2. Increasing(Todo(i)) /\ Precedes(InQueue(o), InTodo(i))
      BY <1>5, <3>1 DEF DataInv, TodoOrdered
    <3>3. InQueue(o)' = Numbers(Queue(o)') /\ InQueue(o) = Numbers(Queue(o))
      BY <1>1, <1>5 DEF InQueue
    <3>4. InQueue(o)' = InQueue(o)
      BY <3>1, <3>3 DEF SameChannel
    <3> QED BY <1>13, <3>2, <3>4
  <2>2. out \notin mixed' => Increasing(q)
    BY <1>1, <1>3
  <2>3. Precedes(InQueue(out)', R)
    BY <1>10 DEF Precedes
  <2> QED BY <1>5, <1>6, <1>13, <1>14, <2>1, <2>2, <2>3 DEF TodoOrdered
<1> QED BY <1>12, <1>15, <1>17, <1>18, <1>19 DEF DataInv

\* One channel at most is given what leaves a stream operator: its output.
OutputStep(n, o, R, v) ==
    /\ builtin[n].out = o /\ DOMAIN builtin' = DOMAIN builtin
    /\ \A i \in DOMAIN builtin :
          builtin'[i].out = builtin[i].out /\ (i # n => Todo(i)' = Todo(i))
    /\ Numbers(Todo(n)) = R \cup Numbers(Todo(n)')
    /\ R \cap Numbers(Todo(n)') = {} /\ Distinct(Todo(n)')
    /\ o \notin mixed => Increasing(Todo(n)') /\ Precedes(R, Numbers(Todo(n)'))
    /\ live' = live /\ got' = got /\ mixed' = mixed /\ sends' = sends
    /\ \A x \in Chans \ {o} : chan'[x] = chan[x]
    /\ chan'[o].capacity = chan[o].capacity
    /\ Range(v) \subseteq R
    /\ chan'[o].queue \in
           {chan[o].queue, Append(chan[o].queue, v)}

\* What leaves a stream operator leaves it for the end of its output.
LEMMA OutputData ==
    ASSUME StreamsTyped, DataInv, NEW n \in DOMAIN builtin, NEW v \in Value, NEW R, NEW o,
           Distinct(<<v>>), o \in mixed \/ Increasing(<<v>>), OutputStep(n, o, R, v)
    PROVE  DataInv'
<1> DEFINE q == chan[o].queue
<1>1. /\ DOMAIN builtin' = DOMAIN builtin /\ builtin[n].out = o
      /\ \A i \in DOMAIN builtin : builtin'[i].out = builtin[i].out
      /\ \A i \in DOMAIN builtin : i # n => Todo(i)' = Todo(i)
      /\ live' = live /\ got' = got /\ mixed' = mixed /\ sends' = sends
      /\ \A x \in Chans \ {o} : chan'[x] = chan[x]
      /\ chan'[o].capacity = chan[o].capacity
  BY DEF OutputStep
<1>2. /\ InTodo(n) = R \cup Numbers(Todo(n)') /\ R \cap Numbers(Todo(n)') = {}
      /\ Distinct(Todo(n)') /\ Range(v) \subseteq R
  BY DEF OutputStep, InTodo
<1>3. o \notin mixed => Increasing(Todo(n)') /\ Precedes(R, Numbers(Todo(n)'))
  BY DEF OutputStep
<1>4. o \in Chans /\ o \in live /\ chan[o].capacity = 0 /\ got[o] = <<>>
  BY <1>1 DEF StreamsTyped, ABuiltin, DataInv, OutputsOwned
<1>5. /\ q \in Values /\ Queue(o) = q /\ Distinct(q) /\ InQueue(o) = Numbers(q)
      /\ o \notin mixed => Increasing(q) /\ Precedes(Numbers(q), InTodo(n)) /\ Increasing(Todo(n))
  BY <1>1, <1>4, ChannelSound DEF Queue, InQueue, DataInv, TodoOrdered
<1>6. InTodo(n) \cap Numbers(q) = {}
  BY <1>4, <1>5 DEF DataInv, TodoApart
<1>7. Queue(o)' = chan'[o].queue /\ chan'[o].queue \in {q, Append(q, v)}
  BY <1>1, <1>4 DEF Queue, OutputStep
<1> HIDE DEF q
<1>8. /\ Numbers(Append(q, v)) = Numbers(q) \cup Range(v)
      /\ Distinct(Append(q, v)) <=>
             Distinct(q) /\ Distinct(<<v>>) /\ Numbers(q) \cap Range(v) = {}
      /\ Increasing(Append(q, v)) <=>
             Increasing(q) /\ Increasing(<<v>>) /\ Precedes(Numbers(q), Range(v))
  BY <1>5, OneMore
<1>9. /\ InQueue(o)' \subseteq InQueue(o) \cup Range(v) /\ Distinct(Queue(o)')
      /\ o \notin mixed => Increasing(Queue(o)')
  <2>1. InQueue(o)' = Numbers(Queue(o)')
    BY <1>1, <1>4 DEF InQueue
  <2>2. Numbers(Queue(o)') \subseteq Numbers(q) \cup Range(v)
    BY <1>7, <1>8
  <2>3. Distinct(Queue(o)')
    BY <1>2, <1>5, <1>6, <1>7, <1>8
  <2>4. o \notin mixed => Precedes(Numbers(q), Range(v))
    BY <1>2, <1>5 DEF Precedes
  <2>5. o \notin mixed => Increasing(Queue(o)')
    BY <1>5, <1>7, <1>8, <2>4
  <2> QED BY <1>5, <2>1, <2>2, <2>3, <2>5
<1>10. \A x \in Chans \ {o} : SameChannel(x)
  BY <1>1 DEF SameChannel, Queue
<1>11. \A x \in Chans : InGot(x)' = InGot(x)
  BY <1>1 DEF InGot
<1>12. SoundChannel(o)
  <2>1. got'[o] = <<>> /\ InGot(o)' = {}
    BY <1>1, <1>4, <1>11, NoValue DEF InGot
  <2> QED BY <1>1, <1>4, <1>9, <2>1, NoValue DEF SoundChannel, Precedes
<1>13. /\ WithinCapacity' /\ ChannelsOrdered'
       /\ \A x \in Chans : Distinct(got'[x]) /\ Distinct(Queue(x)')
  <2>1. \A x \in Chans : SameChannel(x) \/ SoundChannel(x)
    BY <1>10, <1>12
  <2> QED BY <2>1, EachChannel
<1>14. \A x \in Chans \ {o} : InQueue(x)' = InQueue(x)
  BY <1>10 DEF SameChannel, InQueue
<1>15. \A i \in DOMAIN builtin : i # n => InTodo(i)' = InTodo(i) /\ InTodo(i) \cap R = {}
  <2>1. \A i \in DOMAIN builtin : i # n => InTodo(i) \cap InTodo(n) = {}
    BY DEF DataInv, TodoApart
  <2> QED BY <1>1, <1>2, <2>1 DEF InTodo
<1>16. InTodo(n)' = Numbers(Todo(n)')
  BY DEF InTodo
<1>17. OutputsOwned'
  <2>1. \A i \in DOMAIN builtin :
           /\ builtin[i].out \in Chans /\ builtin[i].out \in live
           /\ chan'[builtin[i].out].capacity = 0 /\ got[builtin[i].out] = <<>>
    BY <1>1, <1>4 DEF StreamsTyped, ABuiltin, DataInv, OutputsOwned
  <2>2. \A i, j \in DOMAIN builtin : i # j => builtin[i].out # builtin[j].out
    BY DEF DataInv, OutputsOwned
  <2> QED BY <1>1, <2>1, <2>2 DEF OutputsOwned
<1>18. AllSent' /\ ChannelsApart' /\ TodoApart'
  <2>1. Moves(R, {}, {o}, {})
    <3>1. \A x \in Chans : InGot(x) \cap R = {} /\ InQueue(x) \cap R = {}
      BY <1>2 DEF DataInv, TodoApart
    <3>2. \A x \in Chans : InGot(x)' \subseteq InGot(x) \cup R /\ InGot(x)' \cap R = {}
      BY <1>11, <3>1
    <3>3. \A x \in Chans : /\ InQueue(x)' \subseteq InQueue(x) \cup R
                           /\ x \notin {o} => InQueue(x)' \cap R = {}
      BY <1>2, <1>9, <1>14, <3>1
    <3>4. \A i \in DOMAIN builtin : InTodo(i)' \subseteq InTodo(i) /\ InTodo(i)' \cap R = {}
      BY <1>2, <1>15, <1>16
    <3> QED BY <1>1, <3>2, <3>3, <3>4 DEF Moves
  <2>2. OneTarget({}, {o}, {})
    BY DEF OneTarget
  <2>3. 1..sends \subseteq 1..sends' /\ R \subseteq 1..sends'
    BY <1>1, <1>2 DEF DataInv, AllSent
  <2> QED BY <2>1, <2>2, <2>3, MovesKeep DEF DataInv
<1>19. AllDistinct'
  <2>1. \A i \in DOMAIN builtin' : Distinct(Todo(i)')
    BY <1>1, <1>2 DEF DataInv, AllDistinct
  <2> QED BY <1>13, <2>1 DEF AllDistinct
<1>20. TodoOrdered'
  <2>1. ASSUME NEW i \in DOMAIN builtin, i # n, builtin[i].out \notin mixed
        PROVE  Increasing(Todo(i)') /\ Precedes(InQueue(builtin[i].out)', InTodo(i)')
    <3>1. Increasing(Todo(i)) /\ Precedes(InQueue(builtin[i].out), InTodo(i))
      BY <2>1 DEF DataInv, TodoOrdered
    <3>2. builtin[i].out \in Chans /\ builtin[i].out # o
      BY <1>1, <2>1 DEF StreamsTyped, ABuiltin, DataInv, OutputsOwned
    <3>3. InQueue(builtin[i].out)' = InQueue(builtin[i].out)
      <4>1. \A x \in Chans \ {o} : Queue(x)' = Queue(x)
        BY <1>10 DEF SameChannel
      <4>2. builtin'[i].out = builtin[i].out
        BY <1>1
      <4> QED BY <3>2, <4>1, <4>2 DEF InQueue
    <3> QED BY <1>1, <1>15, <2>1, <3>1, <3>3
  <2>2. o \notin mixed => Increasing(Todo(n)') /\ Precedes(InQueue(o)', InTodo(n)')
    <3>1. o \notin mixed => /\ Precedes(InQueue(o), InTodo(n))
                            /\ Precedes(R, InTodo(n)')
      BY <1>3, <1>5, <1>16
    <3>2. InTodo(n)' \subseteq InTodo(n)
      BY <1>2, <1>16
    <3>3. InQueue(o)' \subseteq InQueue(o) \cup R
      BY <1>2, <1>9
    <3> QED BY <1>3, <3>1, <3>2, <3>3 DEF Precedes
  <2> QED BY <1>1, <2>1, <2>2 DEF TodoOrdered
<1> QED BY <1>13, <1>17, <1>18, <1>19, <1>20 DEF DataInv

\* The result of a closure, or what it let pass, goes to the output; one value less to do.
LEMMA TakeData ==
    ASSUME StreamsTyped, DataInv, BuiltinsNested, TakeResult
    PROVE  DataInv'
<1> DEFINE todo == B.todo
           v == IF B.kind = "map" THEN B.result ELSE Head(todo)
           b == [B EXCEPT !.phase = "next", !.todo = Tail(todo)]
<1>1. /\ builtin # <<>> /\ B.phase = "result" /\ Becomes(b)
      /\ live' = live /\ got' = got /\ mixed' = mixed /\ sends' = sends
      /\ chan' = [chan EXCEPT ![B.out].queue = Append(@, v)] \/ chan' = chan
  BY DEF TakeResult
<1>2. PICK n \in DOMAIN builtin : n = Len(builtin) /\ B = builtin[n] /\ B \in ABuiltin
  BY <1>1, TopBuiltin
<1>3. todo \in Values /\ todo # <<>> /\ B.result \in {Nil, Head(todo)}
  BY <1>1, <1>2 DEF ABuiltin, BuiltinsNested
<1>4. b.out = B.out /\ b.todo = Tail(todo) /\ b \in ABuiltin
  <2>1. Tail(todo) \in Values
    BY <1>3, HeadValue
  <2> HIDE DEF todo
  <2> QED BY <1>2, <2>1 DEF ABuiltin
<1> HIDE DEF b
<1>5. /\ DOMAIN builtin' = DOMAIN builtin /\ builtin'[n] = b
      /\ \A i \in DOMAIN builtin : i # n => builtin'[i] = builtin[i]
  BY <1>1, <1>2, <1>4 DEF Becomes, StreamsTyped
<1>6. /\ Head(todo) \in Value
      /\ Numbers(todo) = Range(Head(todo)) \cup Numbers(Tail(todo))
      /\ Distinct(todo) => /\ Distinct(<<Head(todo)>>) /\ Distinct(Tail(todo))
                           /\ Range(Head(todo)) \cap Numbers(Tail(todo)) = {}
      /\ Increasing(todo) => /\ Increasing(<<Head(todo)>>) /\ Increasing(Tail(todo))
                             /\ Precedes(Range(Head(todo)), Numbers(Tail(todo)))
  BY <1>3, FirstLess
<1>7. PICK o \in Chans : o = B.out
  BY <1>2 DEF ABuiltin
<1>8. Todo(n) = todo /\ Todo(n)' = Tail(todo)
  BY <1>2, <1>4, <1>5 DEF Todo
<1>9. Distinct(todo)
  BY <1>8 DEF DataInv, AllDistinct
<1>10. o \notin mixed => Increasing(todo)
  BY <1>2, <1>7, <1>8 DEF DataInv, TodoOrdered
<1>11. /\ \A x \in Chans \ {o} : chan'[x] = chan[x]
       /\ chan'[o].capacity = chan[o].capacity
       /\ chan'[o].queue \in {chan[o].queue, Append(chan[o].queue, v)}
  <2>1. chan[o] \in AChannel
    BY DEF StreamsTyped
  <2> HIDE DEF v
  <2> QED BY <1>1, <1>7, <2>1 DEF StreamsTyped, AChannel
<1>12. v \in {Nil, Head(todo)}
  BY <1>3
<1> HIDE DEF v, todo
<1>13. v \in Value /\ Range(v) \subseteq Range(Head(todo)) /\ Distinct(<<v>>)
  BY <1>6, <1>9, <1>12, NilValue, ValueFacts
<1>14. ASSUME o \notin mixed PROVE Increasing(<<v>>)
  BY <1>6, <1>10, <1>12, <1>14, NilValue
<1>15. OutputStep(n, o, Range(Head(todo)), v)
  BY <1>1, <1>2, <1>4, <1>5, <1>6, <1>7, <1>8, <1>9, <1>10, <1>11, <1>13
     DEF OutputStep, Todo
<1> QED
  <2>1. o \in mixed \/ Increasing(<<v>>)
    BY <1>14
  <2> QED BY <1>13, <1>15, <2>1, OutputData

\* A stream operator is over: its output is the program's, or nobody's.
LEMMA EndData ==
    ASSUME StreamsTyped, DataInv, StreamEnd
    PROVE  DataInv'
<1>1. /\ builtin # <<>> /\ builtin' = Front(builtin) /\ chan' = chan /\ got' = got
      /\ mixed' = mixed /\ sends' = sends /\ live' \in {live, live \ {B.out}}
  BY DEF StreamEnd
<1>2. PICK n \in DOMAIN builtin :
         /\ B = builtin[n] /\ DOMAIN builtin' = DOMAIN builtin \ {n}
         /\ \A i \in DOMAIN builtin' : builtin'[i] = builtin[i]
  <2>1. /\ B = builtin[Len(builtin)] /\ Len(builtin) \in DOMAIN builtin
        /\ Len(builtin) \in Nat \ {0} /\ DOMAIN builtin = 1..Len(builtin)
    BY <1>1, TopBuiltin
  <2>2. /\ builtin' \in Seq(ABuiltin) /\ Len(builtin') = Len(builtin) - 1
        /\ \A i \in 1..Len(builtin) - 1 : builtin'[i] = builtin[i]
    BY <1>1, TopRemoved DEF StreamsTyped
  <2>3. DOMAIN builtin' = 1..Len(builtin) - 1
    BY <2>2
  <2> QED BY <2>1, <2>2, <2>3
<1>3. \A i \in DOMAIN builtin' :
         /\ i \in DOMAIN builtin /\ builtin'[i] = builtin[i] /\ Todo(i)' = Todo(i)
         /\ InTodo(i)' = InTodo(i) /\ builtin[i].out # B.out /\ builtin[i].out \in live'
  <2>1. \A i \in DOMAIN builtin' : i \in DOMAIN builtin \ {n} /\ builtin'[i] = builtin[i]
    BY <1>2
  <2>2. \A i \in DOMAIN builtin \ {n} : builtin[i].out # B.out /\ builtin[i].out \in live
    BY <1>2 DEF DataInv, OutputsOwned
  <2> QED BY <1>1, <2>1, <2>2 DEF Todo, InTodo
<1>4. \A x \in Chans : InGot(x)' = InGot(x)
  BY <1>1 DEF InGot
<1>5. \A x \in Chans : x # B.out => Queue(x)' = Queue(x) /\ InQueue(x)' = InQueue(x)
  BY <1>1 DEF Queue, InQueue
<1>6. \A x \in Chans : Queue(x)' \in {Queue(x), <<>>}
  BY <1>1 DEF Queue
<1>7. \A x \in Chans : InQueue(x)' \subseteq InQueue(x) /\ Distinct(Queue(x)')
  BY <1>6, NoValue DEF InQueue, DataInv, AllDistinct
<1>8. OutputsOwned'
  BY <1>1, <1>3 DEF DataInv, OutputsOwned
<1>9. WithinCapacity'
  BY <1>1 DEF DataInv, WithinCapacity
<1>10. AllSent' /\ ChannelsApart' /\ TodoApart'
  <2>1. Moves({}, {}, {}, {})
    BY <1>3, <1>4, <1>7 DEF Moves
  <2>2. OneTarget({}, {}, {})
    BY DEF OneTarget
  <2>3. 1..sends \subseteq 1..sends' /\ {} \subseteq 1..sends'
    BY <1>1
  <2> QED BY <2>1, <2>2, <2>3, MovesKeep DEF DataInv
<1>11. AllDistinct'
  BY <1>1, <1>3, <1>7 DEF DataInv, AllDistinct
<1>12. ChannelsOrdered'
  <2> SUFFICES ASSUME NEW x \in Chans, x \notin mixed
               PROVE  /\ Increasing(got[x]) /\ Increasing(Queue(x)')
                      /\ Precedes(InGot(x)', InQueue(x)')
    BY <1>1 DEF ChannelsOrdered
  <2>1. Increasing(got[x]) /\ Increasing(Queue(x)) /\ Precedes(InGot(x), InQueue(x))
    BY DEF DataInv, ChannelsOrdered
  <2> QED BY <1>4, <1>6, <1>7, <2>1, NoValue DEF Precedes
<1>13. TodoOrdered'
  <2> SUFFICES ASSUME NEW i \in DOMAIN builtin', builtin'[i].out \notin mixed'
               PROVE  /\ Increasing(Todo(i)')
                      /\ Precedes(Numbers(IF builtin'[i].out \in live'
                                          THEN chan'[builtin'[i].out].queue ELSE <<>>),
                                  InTodo(i)')
    BY DEF TodoOrdered, InQueue, Queue
  <2>1. Increasing(Todo(i)) /\ Precedes(InQueue(builtin[i].out), InTodo(i))
    BY <1>1, <1>3 DEF DataInv, TodoOrdered
  <2>2. builtin[i].out \in live /\ builtin[i].out \in live'
    BY <1>3 DEF DataInv, OutputsOwned
  <2> QED BY <1>1, <1>3, <2>1, <2>2 DEF InQueue, Queue
<1> QED BY <1>8, <1>9, <1>10, <1>11, <1>12, <1>13 DEF DataInv

\* A step of the frames and the stack only.
LEMMA QuietData ==
    ASSUME DataInv, UNCHANGED <<chan, got, live, mixed, sends>>,
           DOMAIN builtin' = DOMAIN builtin,
           \A i \in DOMAIN builtin :
               builtin'[i].out = builtin[i].out /\ builtin'[i].todo = builtin[i].todo
    PROVE  DataInv'
<1>1. \A i \in DOMAIN builtin : Todo(i)' = Todo(i) /\ InTodo(i)' = InTodo(i)
  BY DEF Todo, InTodo
<1>2. \A x \in Chans : /\ Queue(x)' = Queue(x) /\ InQueue(x)' = InQueue(x)
                       /\ InGot(x)' = InGot(x)
  BY DEF Queue, InQueue, InGot
<1>3. OutputsOwned'
  BY DEF DataInv, OutputsOwned
<1>4. WithinCapacity'
  BY DEF DataInv, WithinCapacity
<1>5. AllSent'
  BY <1>1, <1>2 DEF DataInv, AllSent
<1>6. ChannelsApart'
  BY <1>2 DEF DataInv, ChannelsApart
<1>7. TodoApart'
  BY <1>1, <1>2 DEF DataInv, TodoApart
<1>8. AllDistinct'
  BY <1>1, <1>2 DEF DataInv, AllDistinct
<1>9. ChannelsOrdered'
  BY <1>2 DEF DataInv, ChannelsOrdered
<1>10. TodoOrdered'
  <2>1. \A i \in DOMAIN builtin : InQueue(builtin[i].out)' = InQueue(builtin[i].out)
    BY DEF InQueue, Queue
  <2> QED BY <1>1, <2>1 DEF DataInv, TodoOrdered
<1> QED BY <1>3, <1>4, <1>5, <1>6, <1>7, <1>8, <1>9, <1>10 DEF DataInv

\* The numbers stay where they were sent to, whatever is done with the channels.
LEMMA DataStep ==
    ASSUME StreamsTyped, DataInv, BuiltinsNested, StreamsTyped', [StreamsNext]_streamVars
    PROVE  DataInv'
<1>1. ASSUME NEW b, Becomes(b), builtin # <<>>, b.out = B.out, b.todo = B.todo,
             UNCHANGED <<chan, got, live, mixed, sends>>
      PROVE  DataInv'
  <2>1. B = builtin[Len(builtin)]
    BY <1>1, TopBuiltin
  <2>2. /\ DOMAIN builtin' = DOMAIN builtin
        /\ \A i \in DOMAIN builtin :
              builtin'[i].out = builtin[i].out /\ builtin'[i].todo = builtin[i].todo
    BY <1>1, <2>1 DEF Becomes
  <2> QED BY <1>1, <2>2, QuietData
<1>2. ASSUME UNCHANGED <<chan, got, live, mixed, sends, builtin>> PROVE DataInv'
  BY <1>2, QuietData
<1>3. ASSUME NEW c \in Chans,
             \/ \E cap \in Capacities : Channel(c, cap)
             \/ DropChannel(c) \/ Send(c) \/ Recv(c) \/ CloseChannel(c)
      PROVE  DataInv'
  BY <1>3, ChannelData, DropData, SendData, RecvData, CloseData
<1>4. ASSUME NEW c \in Chans, NEW out \in Chans,
             \/ \E kind \in {"map", "filter"} : StreamBegin(kind, c, out)
             \/ StreamBuffer(c, out)
             \/ \E d \in Chans : StreamMerge(c, d, out)
      PROVE  DataInv'
  BY <1>4, BeginData, BufferData, MergeData
<1>5. CASE CallClosure
  <2>1. builtin # <<>> /\ B \in ABuiltin /\ UNCHANGED <<chan, got, live, mixed, sends>>
    BY <1>5, TopBuiltin DEF CallClosure
  <2>2. \/ Becomes([B EXCEPT !.phase = "result", !.result = Nil])
        \/ Becomes([B EXCEPT !.phase = "body", !.saved = Len(frames)])
    BY <1>5 DEF CallClosure
  <2>3. CASE Becomes([B EXCEPT !.phase = "result", !.result = Nil])
    BY <1>1, <2>1, <2>3 DEF ABuiltin
  <2>4. CASE Becomes([B EXCEPT !.phase = "body", !.saved = Len(frames)])
    BY <1>1, <2>1, <2>4 DEF ABuiltin
  <2> QED BY <2>2, <2>3, <2>4
<1>6. ASSUME NEW isNil \in BOOLEAN, ReturnToBuiltin(isNil) PROVE DataInv'
  <2>1. builtin # <<>> /\ B \in ABuiltin /\ UNCHANGED <<chan, got, live, mixed, sends>>
    BY <1>6, TopBuiltin DEF ReturnToBuiltin
  <2>2. PICK r : Becomes([B EXCEPT !.phase = "result", !.result = r])
    BY <1>6 DEF ReturnToBuiltin
  <2> QED BY <1>1, <2>1, <2>2 DEF ABuiltin
<1>7. CASE FailInBuiltin
  <2>1. builtin # <<>> /\ B \in ABuiltin /\ UNCHANGED <<chan, got, live, mixed, sends>>
    BY <1>7, TopBuiltin DEF FailInBuiltin
  <2>2. PICK r : Becomes([B EXCEPT !.phase = "result", !.result = r])
    BY <1>7 DEF FailInBuiltin
  <2> QED BY <1>1, <2>1, <2>2 DEF ABuiltin
<1>8. CASE TakeResult
  BY <1>8, TakeData
<1>9. CASE StreamEnd
  BY <1>9, EndData
<1>10. CASE ReturnLate \/ StreamProgramEnds
  BY <1>2, <1>10 DEF ReturnLate, StreamProgramEnds
<1>11. CASE UNCHANGED streamVars
  BY <1>2, <1>11 DEF streamVars
<1> QED
  BY <1>3, <1>4, <1>5, <1>6, <1>7, <1>8, <1>9, <1>10, <1>11 DEF StreamsNext

\* At the start there is no value, no channel in use and one frame.
LEMMA StreamsStart == StreamsInit => StreamsInv
<1> SUFFICES ASSUME StreamsInit PROVE StreamsInv
  OBVIOUS
<1>1. /\ chan = [c \in Chans |-> ANewChannel(0)] /\ live = {} /\ mixed = {}
      /\ frames = <<Main>> /\ stackTop = 1 /\ builtin = <<>> /\ running = TRUE
      /\ sends = 0 /\ failures = 0 /\ misdelivered = 0 /\ got = [c \in Chans |-> <<>>]
  BY DEF StreamsInit, Main
<1>2. /\ ANewChannel(0) \in AChannel /\ ANewChannel(0).queue = <<>>
      /\ ANewChannel(0).capacity = 0
  BY NewChannel
<1>3. /\ <<>> \in Values /\ Numbers(<<>>) = {} /\ Distinct(<<>>) /\ Increasing(<<>>)
  BY NoValue
<1>4. Main \in AFrame /\ Main.base = 0
  BY DEF Main, AFrame
<1>5. /\ frames \in Seq(AFrame) /\ Len(frames) = 1 /\ DOMAIN frames = {1} /\ frames[1] = Main
      /\ frames # <<>> /\ builtin \in Seq(ABuiltin) /\ DOMAIN builtin = {} /\ Len(builtin) = 0
  BY <1>1, <1>4
<1>6. StreamsTyped
  BY <1>1, <1>2, <1>3, <1>5 DEF StreamsTyped
<1>7. \A c \in Chans : /\ got[c] = <<>> /\ Queue(c) = <<>> /\ chan[c].capacity = 0
                       /\ InGot(c) = {} /\ InQueue(c) = {}
  BY <1>1, <1>2, <1>3 DEF Queue, InGot, InQueue
<1>8. OutputsOwned /\ TodoApart /\ TodoOrdered
  BY <1>5 DEF OutputsOwned, TodoApart, TodoOrdered
<1>9. WithinCapacity /\ AllSent /\ ChannelsApart
  BY <1>5, <1>7 DEF WithinCapacity, AllSent, ChannelsApart
<1>10. AllDistinct /\ ChannelsOrdered
  BY <1>3, <1>5, <1>7 DEF AllDistinct, ChannelsOrdered, Precedes
<1>11. BuiltinsNested
  BY <1>1, <1>5 DEF BuiltinsNested
<1>12. StackRegular
  BY <1>1, <1>4, <1>5 DEF StackRegular
<1> QED BY <1>6, <1>8, <1>9, <1>10, <1>11, <1>12 DEF StreamsInv, DataInv

\* What was received from a channel and what is in it are its numbers, once and in order.
LEMMA KeptSound ==
    ASSUME StreamsTyped, DataInv, NEW c \in Chans
    PROVE  /\ Numbers(Kept(c)) = InGot(c) \cup InQueue(c) /\ Distinct(Kept(c))
           /\ c \notin mixed => Increasing(Kept(c))
<1> DEFINE s == got[c]
           t == Queue(c)
<1>1. Kept(c) = s \o t
  BY DEF Kept, Queue
<1>2. /\ s \in Values /\ t \in Values /\ Distinct(s) /\ Distinct(t)
      /\ c \notin mixed => Increasing(s) /\ Increasing(t) /\ Precedes(Numbers(s), Numbers(t))
      /\ Numbers(s) \cap Numbers(t) = {}
  BY ChannelSound DEF InGot, InQueue
<1>3. InGot(c) = Numbers(s) /\ InQueue(c) = Numbers(t)
  BY DEF InGot, InQueue
<1> HIDE DEF s, t
<1>4. Numbers(s \o t) = Numbers(s) \cup Numbers(t)
  BY <1>2, JoinedNumbers
<1>5. Distinct(s \o t)
  BY <1>2, JoinedDistinct DEF Apart
<1>6. c \notin mixed => Increasing(s \o t)
  BY <1>2, JoinedIncreasing
<1> QED BY <1>1, <1>3, <1>4, <1>5, <1>6

\* The invariant is what is promised.
LEMMA StreamsPromised == StreamsInv => StreamsSound
<1> SUFFICES ASSUME StreamsInv PROVE StreamsSound
  OBVIOUS
<1>1. StreamsTyped /\ DataInv /\ BuiltinsNested /\ StackRegular
  BY DEF StreamsInv
<1>2. \A c \in Chans : /\ Numbers(Kept(c)) = InGot(c) \cup InQueue(c) /\ Distinct(Kept(c))
                       /\ c \notin mixed => Increasing(Kept(c))
  BY <1>1, KeptSound
<1>3. StreamsTypeOK
  <2>1. \A i \in DOMAIN frames : frames[i].base \in Nat
    <3>1. \A i \in DOMAIN frames : frames[i] \in AFrame
      BY <1>1 DEF StreamsTyped
    <3> QED BY <3>1 DEF AFrame
  <2>2. Len(frames) \in 1..MaxFrames
    BY <1>1 DEF StreamsTyped
  <2> QED BY <1>1, <2>1, <2>2 DEF StreamsTypeOK, StreamsTyped, DataInv, WithinCapacity
<1>4. AtMostOnce
  <2>1. ASSUME NEW c \in Chans, NEW d \in Chans \ {c} PROVE Apart(Kept(c), Kept(d))
    BY <1>1, <1>2 DEF Apart, DataInv, ChannelsApart
  <2>2. ASSUME NEW i \in DOMAIN builtin
        PROVE  /\ Distinct(builtin[i].todo)
               /\ \A c \in Chans : Apart(builtin[i].todo, Kept(c))
               /\ \A j \in DOMAIN builtin \ {i} : Apart(builtin[i].todo, builtin[j].todo)
    <3>1. Distinct(builtin[i].todo)
      BY <1>1 DEF DataInv, AllDistinct, Todo
    <3>2. \A c \in Chans : Apart(builtin[i].todo, Kept(c))
      BY <1>1, <1>2 DEF Apart, DataInv, TodoApart, InTodo, Todo
    <3>3. \A j \in DOMAIN builtin \ {i} : Apart(builtin[i].todo, builtin[j].todo)
      BY <1>1 DEF Apart, DataInv, TodoApart, InTodo, Todo
    <3> QED BY <3>1, <3>2, <3>3
  <2> QED BY <1>2, <2>1, <2>2 DEF AtMostOnce
<1>5. Ordered
  BY <1>1, <1>2 DEF Ordered, StreamsTyped
<1>6. ClosuresGiveNil
  <2> SUFFICES ASSUME failures = 0 PROVE ClosuresGiveNil
    BY DEF ClosuresGiveNil
  <2>1. /\ misdelivered = 0
        /\ \A i \in DOMAIN builtin : builtin[i].phase = "result" => builtin[i].result = Nil
    BY <1>1 DEF StackRegular
  <2>2. ASSUME builtin = <<>> PROVE Len(frames) = 1 /\ stackTop = Main.locals
    <3>1. Len(frames) = Len(builtin) + 1 /\ stackTop = 3 * Len(builtin) + 1
      BY <1>1, <2>2 DEF StackRegular
    <3> QED BY <2>2, <3>1 DEF Main
  <2> QED BY <2>1, <2>2 DEF ClosuresGiveNil
<1> QED BY <1>3, <1>4, <1>5, <1>6 DEF StreamsSound

\* Whatever programs do with channels, stream operators and closures: what is typed,
\* kept apart, in order and at its height stays so.
THEOREM StreamsInvariance == StreamsSpec => []StreamsInv
<1>1. StreamsInv /\ [StreamsNext]_streamVars => StreamsInv'
  <2> SUFFICES ASSUME StreamsInv, [StreamsNext]_streamVars PROVE StreamsInv'
    OBVIOUS
  <2>1. StreamsTyped /\ DataInv /\ BuiltinsNested /\ StackRegular
    BY DEF StreamsInv
  <2>2. StreamsTyped'
    BY <2>1, TypedStep
  <2>3. BuiltinsNested'
    BY <2>1, <2>2, NestedStep
  <2>4. StackRegular'
    BY <2>1, <2>2, <2>3, RegularStep
  <2>5. DataInv'
    BY <2>1, <2>2, DataStep
  <2> QED BY <2>2, <2>3, <2>4, <2>5 DEF StreamsInv
<1> QED BY <1>1, StreamsStart, PTL DEF StreamsSpec

\* A value sent is received at most once and in the order it was sent, downstream of
\* no stream_merge; channels keep to their capacity; and a program whose closures do
\* not fail finds frames and stack as they were, but gets nil from every closure.
THEOREM StreamsKeepValues == StreamsSpec => []StreamsSound
  BY StreamsInvariance, StreamsPromised, PTL

=============================================================================
