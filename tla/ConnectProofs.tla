---------------------------- MODULE ConnectProofs ----------------------------
(***************************************************************************)
(* What ConnectLoop keeps of coroutines and of the count of connects, for  *)
(* any connections, coroutines and size of the counter.                    *)
(***************************************************************************)
EXTENDS ConnectLoop, FiniteSetTheorems, TLAPS

USE ConnectAssumption

-----------------------------------------------------------------------------
(* Where the VM thread is, and what it is about.                            *)

\* A connect nobody can wait for: not begun, or its future not pushed yet.
Fresh(c) == link[c] = "none" \/ (op = c /\ pc \in Instructions)

VmPlaced ==
    /\ pc \in Instructions \union {"park"} => op \in Conns
    /\ pc \in Instructions \union {"code", "park"} => cur \in Coros
    /\ pc = "park" => link[op] # "none"
    /\ pc \in Instructions => link[op] # "none"
    /\ pc \in {"bind", "test", "setFuture"} => op \notin connectFuture
    /\ late /\ pc \in Instructions => cb[op] = "quiet"

\* A callback that is under way has a connect future, hence a connect.
CbPlaced ==
    \A c \in Conns :
        /\ cb[c] # "quiet" => c \in connectFuture
        /\ c \in connectFuture => link[c] # "none"
        /\ Fresh(c) => waiting[c] = <<>> /\ \A k \in Coros : waitingOn[k] # c

-----------------------------------------------------------------------------
(* Where a coroutine is.                                                   *)

\* Parked on c and not read by its callback; read and not pushed.
Waits(c) == IF cb[c] \in {"push", "clear"} THEN {} ELSE Elements(waiting[c])
Pushed(c) == IF cb[c] = "push" THEN Elements(batch[c]) ELSE {}

\* A coroutine that is parked is in one list, once, and nowhere else.
ParkedOnce ==
    /\ NoRepeats(ready) /\ cur \notin Elements(ready)
    /\ \A c \in Conns :
         /\ cb[c] \notin {"push", "clear"} => NoRepeats(waiting[c])
         /\ cb[c] = "push" => NoRepeats(batch[c])
         /\ (Waits(c) \union Pushed(c)) \intersect (Elements(ready) \union {cur}) = {}
         /\ \A k \in Waits(c) \union Pushed(c) : waitingOn[k] = c

\* What has not been spawned is nowhere.
OnlySpawned ==
    /\ cur \in spawned \union {None} /\ Elements(ready) \subseteq spawned
    /\ \A c \in Conns : Waits(c) \union Pushed(c) \subseteq spawned
    /\ \A k \in Coros \ spawned : waitingOn[k] = None

\* Whoever a callback has found is queued with the value.
ReadResolved == late => \A c \in Conns : cb[c] \in {"read", "push"} => c \in resolved

-----------------------------------------------------------------------------
(* The counter.                                                            *)

\* Connects no callback has finished with, counted or not.
Open == {c \in connectFuture : cb[c] # "forget"}

Uncounted == IF pc \in {"unresolve", "count"} THEN 1 ELSE 0

Begun == {c \in Conns : link[c] # "none" /\ (op = c => pc \notin Instructions)}

\* pending_futures stands for t, which is below zero only in the middle of WT_CONNECT.
Counts(t) ==
    /\ pending = IF t < 0 THEN CounterSize + t ELSE t
    /\ Cardinality(Open) - Uncounted <= t
    /\ t <= Cardinality(Begun)

CounterInv == (\E t \in -1..Cardinality(Conns) : Counts(t)) /\ NoEarlyExit

PlaceInv == TypeOK /\ VmPlaced /\ CbPlaced
CoroInv == ParkedOnce /\ OnlySpawned /\ ReadResolved /\ ResumedWithValue

-----------------------------------------------------------------------------
\* Lists that are emptied are still lists.
LEMMA Emptied ==
    ASSUME NEW f \in [Conns -> Seq(Coros)], NEW c \in Conns
    PROVE  /\ [f EXCEPT ![c] = <<>>] \in [Conns -> Seq(Coros)]
           /\ \A d \in Conns : [f EXCEPT ![c] = <<>>][d] = f[d] \/ [f EXCEPT ![c] = <<>>][d] = <<>>
<1>1. <<>> \in Seq(Coros)
  OBVIOUS
<1> QED BY <1>1

\* What a push of a callback's batch does, whichever of two pushes is lost.
LEMMA PushOutcome ==
    ASSUME TypeOK, NEW c \in Conns, PushReady(c, batch[c])
    PROVE  /\ ready' \in Seq(Coros) /\ batch' \in [Conns -> Seq(Coros)]
           /\ ready' = ready \/ ready' = ready \o batch[c]
           /\ \A d \in Conns : batch'[d] = batch[d] \/ batch'[d] = <<>>
<1>1. ready \in Seq(Coros) /\ batch \in [Conns -> Seq(Coros)]
  BY DEF TypeOK
<1>2. ready \o batch[c] \in Seq(Coros)
  BY <1>1
<1>3. ready' = ready \/ ready' = ready \o batch[c]
  BY DEF PushReady
<1>4. \/ batch' = [batch EXCEPT ![c] = <<>>]
      \/ \E d \in Conns : batch' = [batch EXCEPT ![c] = <<>>, ![d] = <<>>]
  BY DEF PushReady
<1>5. /\ batch' \in [Conns -> Seq(Coros)]
      /\ \A d \in Conns : batch'[d] = batch[d] \/ batch'[d] = <<>>
  <2>1. CASE batch' = [batch EXCEPT ![c] = <<>>]
    BY <1>1, <2>1, Emptied
  <2>2. ASSUME NEW d \in Conns, batch' = [batch EXCEPT ![c] = <<>>, ![d] = <<>>]
        PROVE  /\ batch' \in [Conns -> Seq(Coros)]
               /\ \A e \in Conns : batch'[e] = batch[e] \/ batch'[e] = <<>>
    <3>1. <<>> \in Seq(Coros)
      OBVIOUS
    <3> QED BY <1>1, <2>2, <3>1
  <2> QED BY <1>4, <2>1, <2>2
<1> QED BY <1>1, <1>2, <1>3, <1>5

\* The same for a push of the VM thread.
LEMMA VmPushOutcome ==
    ASSUME TypeOK, NEW k \in Coros, PushReadyVm(k)
    PROVE  /\ ready' \in Seq(Coros) /\ batch' \in [Conns -> Seq(Coros)]
           /\ ready' = ready \/ ready' = Append(ready, k)
           /\ \A d \in Conns : batch'[d] = batch[d] \/ batch'[d] = <<>>
<1>1. ready \in Seq(Coros) /\ batch \in [Conns -> Seq(Coros)]
  BY DEF TypeOK
<1>2. Append(ready, k) \in Seq(Coros)
  BY <1>1
<1>3. ready' = ready \/ ready' = Append(ready, k)
  BY DEF PushReadyVm
<1>4. batch' = batch \/ \E d \in Conns : batch' = [batch EXCEPT ![d] = <<>>]
  BY DEF PushReadyVm
<1>5. /\ batch' \in [Conns -> Seq(Coros)]
      /\ \A d \in Conns : batch'[d] = batch[d] \/ batch'[d] = <<>>
  <2>1. ASSUME NEW c \in Conns, batch' = [batch EXCEPT ![c] = <<>>]
        PROVE  /\ batch' \in [Conns -> Seq(Coros)]
               /\ \A d \in Conns : batch'[d] = batch[d] \/ batch'[d] = <<>>
    BY <1>1, <2>1, Emptied
  <2> QED BY <1>1, <1>4, <2>1
<1> QED BY <1>1, <1>2, <1>3, <1>5

-----------------------------------------------------------------------------
\* Before the program runs.
LEMMA PlaceInit == Init => PlaceInv
<1> SUFFICES ASSUME Init PROVE PlaceInv
  OBVIOUS
<1>1. /\ [c \in Conns |-> <<>>] \in [Conns -> Seq(Coros)]
      /\ [k \in Coros |-> None] \in [Coros -> Conns \union {None}]
      /\ [k \in Coros |-> {}] \in [Coros -> SUBSET Conns]
      /\ [c \in Conns |-> "none"] \in [Conns -> {"none", "handshake", "up", "down"}]
      /\ [c \in Conns |-> "quiet"] \in [Conns -> CbPlaces]
  BY DEF CbPlaces
<1>2. pending \in 0..CounterSize - 1
  <2>1. Cardinality(Conns) \in Nat
    BY FS_CardinalityType
  <2> QED BY <2>1 DEF Init
<1>3. TypeOK
  BY <1>1, <1>2 DEF Init, TypeOK, VmPlaces
<1>4. VmPlaced /\ CbPlaced
  BY DEF Init, VmPlaced, CbPlaced, Instructions
<1> QED BY <1>3, <1>4 DEF PlaceInv

\* ASYNC_CALL
LEMMA SpawnPlace == ASSUME PlaceInv, NEW k \in Coros, Spawn(k) PROVE PlaceInv'
<1>1. /\ spawned' = spawned \union {k} /\ PushReadyVm(k)
      /\ UNCHANGED <<vmVars, waiting, waitingOn, delivered, resolved, pending, wtVars, link, cb>>
  BY DEF Spawn
<1>2. ready' \in Seq(Coros) /\ batch' \in [Conns -> Seq(Coros)]
  BY <1>1, VmPushOutcome DEF PlaceInv
<1>3. TypeOK'
  BY <1>1, <1>2 DEF PlaceInv, TypeOK, vmVars, wtVars
<1>4. VmPlaced' /\ CbPlaced'
  BY <1>1 DEF PlaceInv, VmPlaced, CbPlaced, Fresh, vmVars, wtVars
<1> QED BY <1>3, <1>4 DEF PlaceInv

\* WT_CONNECT begins.
LEMMA ConnectPlace == ASSUME PlaceInv, NEW c \in Conns, StartConnect(c) PROVE PlaceInv'
<1>1. /\ pc = "code" /\ link[c] = "none" /\ pc' = "bind" /\ op' = c
      /\ \/ link' = [link EXCEPT ![c] = "handshake"] /\ closed' = closed
         \/ link' = [link EXCEPT ![c] = "down"] /\ closed' = closed \union {c}
      /\ UNCHANGED <<cur, back, late, ready, waiting, coroVars, resolved, pending,
                     runtimeSet, connectFuture, cb, batch>>
  BY DEF StartConnect
<1>2. /\ link' \in [Conns -> {"none", "handshake", "up", "down"}] /\ closed' \in SUBSET Conns
      /\ link'[c] # "none" /\ \A d \in Conns \ {c} : link'[d] = link[d]
  BY <1>1 DEF PlaceInv, TypeOK
<1>3. TypeOK'
  BY <1>1, <1>2 DEF PlaceInv, TypeOK, VmPlaces, Instructions, coroVars
<1>4. cb[c] = "quiet" /\ c \notin connectFuture /\ cur \in Coros
  BY <1>1 DEF PlaceInv, CbPlaced, VmPlaced
<1>5. VmPlaced'
  BY <1>1, <1>2, <1>4 DEF VmPlaced, Instructions
<1>6. CbPlaced'
  <2>1. \A d \in Conns : Fresh(d)' => Fresh(d)
    BY <1>1, <1>2 DEF Fresh
  <2> QED BY <1>1, <1>2, <2>1 DEF PlaceInv, CbPlaced, coroVars
<1> QED BY <1>3, <1>5, <1>6 DEF PlaceInv

\* The steps of WT_CONNECT after the connection has been started.
LEMMA InstructionPlace ==
    ASSUME PlaceInv, BindRuntime \/ TestClosed \/ SetFuture \/ Unresolve \/ CountUp
    PROVE  PlaceInv'
<1> USE DEF coroVars, wtVars
<1>1. pc \in Instructions /\ op \in Conns /\ cur \in Coros /\ link[op] # "none"
  BY DEF BindRuntime, TestClosed, SetFuture, Unresolve, CountUp, Instructions, PlaceInv, VmPlaced
<1>2. UNCHANGED <<cur, back, late, ready, waiting, coroVars, closed, link, cb, batch>>
  BY DEF BindRuntime, TestClosed, SetFuture, Unresolve, CountUp
<1>3. /\ \/ pc' \in Instructions /\ op' = op
         \/ pc' = "code" /\ op' = None
      /\ \/ connectFuture' = connectFuture
         \/ /\ connectFuture' = connectFuture \union {op}
            /\ pc' \notin {"bind", "test", "setFuture"}
      /\ pc' \in {"bind", "test", "setFuture"} => pc \in {"bind", "test", "setFuture"}
  BY DEF BindRuntime, TestClosed, SetFuture, Unresolve, CountUp, Instructions
<1>8. /\ runtimeSet' \in SUBSET Conns /\ connectFuture' \in SUBSET Conns
      /\ resolved' \in SUBSET Conns
  BY <1>1 DEF BindRuntime, TestClosed, SetFuture, Unresolve, CountUp, PlaceInv, TypeOK
<1>4. pending' \in 0..CounterSize - 1
  <2>1. pending \in 0..CounterSize - 1 /\ CounterSize \in Nat
    BY DEF PlaceInv, TypeOK
  <2>2. (pending + 1) % CounterSize \in 0..CounterSize - 1
    BY <2>1
  <2>3. pending' = pending \/ pending' = (pending + 1) % CounterSize
    BY DEF BindRuntime, TestClosed, SetFuture, Unresolve, CountUp
  <2> QED BY <2>1, <2>2, <2>3
<1>5. TypeOK'
  BY <1>1, <1>2, <1>3, <1>4, <1>8 DEF PlaceInv, TypeOK, VmPlaces
<1>6. VmPlaced'
  BY <1>1, <1>2, <1>3 DEF PlaceInv, VmPlaced, Instructions
<1>7. CbPlaced'
  <2>1. \A c \in Conns : Fresh(c)' => Fresh(c)
    BY <1>1, <1>2, <1>3 DEF Fresh
  <2> QED BY <1>1, <1>2, <1>3, <2>1 DEF PlaceInv, CbPlaced
<1> QED BY <1>5, <1>6, <1>7 DEF PlaceInv

\* CO_AWAIT, in two steps, and the end of a coroutine.
LEMMA AwaitPlace ==
    ASSUME PlaceInv, (\E c \in Conns : Await(c)) \/ Park \/ Finish PROVE PlaceInv'
<1>1. ASSUME NEW c \in Conns, Await(c) PROVE PlaceInv'
  <2>1. /\ pc = "code" /\ link[c] # "none"
        /\ \/ delivered' = [delivered EXCEPT ![cur] = @ \union {c}] /\ pc' = pc /\ op' = op
           \/ pc' = "park" /\ op' = c /\ delivered' = delivered
        /\ UNCHANGED <<cur, back, late, ready, waiting, waitingOn, spawned, resolved,
                       pending, wtVars, link, cb, batch>>
    BY <1>1 DEF Await, Held
  <2>2. delivered' \in [Coros -> SUBSET Conns]
    <3>1. delivered \in [Coros -> SUBSET Conns] /\ cur \in Coros
      BY <2>1 DEF PlaceInv, TypeOK, VmPlaced
    <3>2. delivered[cur] \union {c} \in SUBSET Conns
      BY <3>1
    <3> QED BY <2>1, <3>1, <3>2
  <2>3. TypeOK'
    BY <2>1, <2>2 DEF PlaceInv, TypeOK, VmPlaces, wtVars
  <2>4. VmPlaced' /\ CbPlaced'
    BY <2>1 DEF PlaceInv, VmPlaced, CbPlaced, Fresh, Instructions, wtVars
  <2> QED BY <2>3, <2>4 DEF PlaceInv
<1>2. CASE Park
  <2>1. /\ pc = "park" /\ op \in Conns /\ cur \in Coros /\ link[op] # "none"
        /\ waiting' = [waiting EXCEPT ![op] = Append(@, cur)]
        /\ waitingOn' = [waitingOn EXCEPT ![cur] = op]
        /\ pc' = back /\ cur' = None /\ op' = None
        /\ UNCHANGED <<back, late, ready, spawned, delivered, resolved, pending, wtVars, link,
                       cb, batch>>
    BY <1>2 DEF Park, LeaveCoroutine, PlaceInv, VmPlaced
  <2>2. waiting' \in [Conns -> Seq(Coros)] /\ waitingOn' \in [Coros -> Conns \union {None}]
    <3>1. Append(waiting[op], cur) \in Seq(Coros)
      BY <2>1 DEF PlaceInv, TypeOK
    <3> QED BY <2>1, <3>1 DEF PlaceInv, TypeOK
  <2>3. TypeOK'
    BY <2>1, <2>2 DEF PlaceInv, TypeOK, VmPlaces, wtVars
  <2>4. back \in {"while1", "drain"}
    BY DEF PlaceInv, TypeOK
  <2>5. VmPlaced'
    BY <2>1, <2>4 DEF VmPlaced, Instructions
  <2>6. \A c \in Conns : Fresh(c)' => c # op /\ Fresh(c)
    BY <2>1, <2>4 DEF Fresh, Instructions
  <2>7. CbPlaced'
    BY <2>1, <2>6 DEF PlaceInv, TypeOK, CbPlaced, wtVars
  <2> QED BY <2>3, <2>5, <2>7 DEF PlaceInv
<1>3. CASE Finish
  <2>1. /\ pc = "code" /\ pc' = back /\ cur' = None /\ op' = None
        /\ UNCHANGED <<back, late, ready, waiting, coroVars, resolved, pending, wtVars, link,
                       cb, batch>>
    BY <1>3 DEF Finish, LeaveCoroutine
  <2>2. TypeOK'
    BY <2>1 DEF PlaceInv, TypeOK, VmPlaces, wtVars, coroVars
  <2>3. back \in {"while1", "drain"}
    BY DEF PlaceInv, TypeOK
  <2>4. VmPlaced' /\ CbPlaced'
    BY <2>1, <2>3 DEF PlaceInv, VmPlaced, CbPlaced, Fresh, Instructions, wtVars, coroVars
  <2> QED BY <2>2, <2>4 DEF PlaceInv
<1> QED BY <1>1, <1>2, <1>3

\* The event loop of run_bytecode.
LEMMA LoopPlace ==
    ASSUME PlaceInv, WhileReady \/ WhilePending \/ Resume \/ Drained \/ Poll \/ WakeUp
    PROVE  PlaceInv'
<1>1. CASE WhileReady \/ WhilePending \/ Drained \/ Poll \/ WakeUp
  <2>1. /\ pc \in VmPlaces \ ({"code", "park"} \union Instructions)
        /\ pc' \in VmPlaces \ ({"code", "park"} \union Instructions)
        /\ UNCHANGED <<cur, op, back, late, ready, waiting, coroVars, resolved, pending,
                       wtVars, link, cb, batch>>
    BY <1>1 DEF WhileReady, WhilePending, Drained, Poll, WakeUp, LoopStep, VmPlaces, Instructions
  <2>2. TypeOK'
    BY <2>1 DEF PlaceInv, TypeOK, coroVars, wtVars
  <2>3. VmPlaced' /\ CbPlaced'
    BY <2>1 DEF PlaceInv, VmPlaced, CbPlaced, Fresh, Instructions, coroVars, wtVars
  <2> QED BY <2>2, <2>3 DEF PlaceInv
<1>2. CASE Resume
  <2> DEFINE k == Head(ready)
  <2>1. /\ pc = "drain" /\ ready # <<>> /\ cur' = k /\ ready' = Tail(ready)
        /\ pc' = "code" /\ back' = "drain"
        /\ \/ /\ delivered' = [delivered EXCEPT ![k] = @ \union {waitingOn[k]}]
              /\ waitingOn' = [waitingOn EXCEPT ![k] = None] /\ waitingOn[k] \in resolved
           \/ delivered' = delivered /\ waitingOn' = waitingOn
        /\ UNCHANGED <<op, late, waiting, spawned, resolved, pending, wtVars, link, cb, batch>>
    BY <1>2 DEF Resume
  <2>2. k \in Coros /\ Tail(ready) \in Seq(Coros)
    BY <2>1, TailItems DEF PlaceInv, TypeOK
  <2> HIDE DEF k
  <2>3. delivered' \in [Coros -> SUBSET Conns] /\ waitingOn' \in [Coros -> Conns \union {None}]
        /\ \A j \in Coros : waitingOn'[j] = waitingOn[j] \/ waitingOn'[j] = None
    <3>1. /\ delivered \in [Coros -> SUBSET Conns] /\ resolved \in SUBSET Conns
          /\ waitingOn \in [Coros -> Conns \union {None}]
      BY DEF PlaceInv, TypeOK
    <3>2. waitingOn[k] \in resolved => delivered[k] \union {waitingOn[k]} \in SUBSET Conns
      BY <2>2, <3>1
    <3>3. delivered' \in [Coros -> SUBSET Conns]
      BY <2>1, <3>1, <3>2
    <3>4. /\ waitingOn' \in [Coros -> Conns \union {None}]
          /\ \A j \in Coros : waitingOn'[j] = waitingOn[j] \/ waitingOn'[j] = None
      BY <2>1, <3>1
    <3> QED BY <3>3, <3>4
  <2>4. TypeOK'
    BY <2>1, <2>2, <2>3 DEF PlaceInv, TypeOK, VmPlaces, wtVars
  <2>5. VmPlaced'
    BY <2>1, <2>2 DEF VmPlaced, Instructions
  <2>6. CbPlaced'
    BY <2>1, <2>3 DEF PlaceInv, TypeOK, CbPlaced, Fresh, Instructions, wtVars
  <2> QED BY <2>4, <2>5, <2>6 DEF PlaceInv
<1> QED BY <1>1, <1>2

\* The callbacks of a connection.
LEMMA CallbackPlace ==
    ASSUME PlaceInv, NEW c \in Conns, Connected(c) \/ ShutdownComplete(c) \/ CallbackStep(c)
    PROVE  PlaceInv'
<1>1. CASE Connected(c) \/ ShutdownComplete(c)
  <2>1. /\ Answerable(c) /\ link[c] \in {"handshake", "up"} /\ cb' = [cb EXCEPT ![c] = NextOf(c)]
        /\ \/ link' = [link EXCEPT ![c] = "up"] /\ closed' = closed
           \/ link' = [link EXCEPT ![c] = "down"] /\ closed' = closed \union {c}
        /\ UNCHANGED <<vmVars, ready, waiting, coroVars, resolved, pending,
                       runtimeSet, connectFuture, batch>>
    BY <1>1 DEF Connected, ShutdownComplete, wtVars
  <2>2. NextOf(c) \in CbPlaces /\ (NextOf(c) # "quiet" => c \in connectFuture)
    BY DEF NextOf, CbPlaces
  <2>3. cb' \in [Conns -> CbPlaces] /\ link' \in [Conns -> {"none", "handshake", "up", "down"}]
        /\ closed' \in SUBSET Conns
        /\ \A d \in Conns : link'[d] = "none" <=> link[d] = "none"
    BY <2>1, <2>2 DEF PlaceInv, TypeOK
  <2>4. TypeOK'
    BY <2>1, <2>3 DEF PlaceInv, TypeOK, vmVars, coroVars
  <2>5. VmPlaced'
    <3>1. late /\ pc \in Instructions => op # c
      BY <2>1 DEF Answerable
    <3> QED BY <2>1, <2>3, <3>1 DEF PlaceInv, TypeOK, VmPlaced, vmVars, Instructions
  <2>6. CbPlaced'
    BY <2>1, <2>2, <2>3 DEF PlaceInv, TypeOK, CbPlaced, Fresh, vmVars, coroVars
  <2> QED BY <2>4, <2>5, <2>6 DEF PlaceInv
<1>2. CASE CallbackStep(c)
  <2>1. /\ cb[c] # "quiet" /\ UNCHANGED <<vmVars, coroVars, runtimeSet, closed, link>>
        /\ \E to \in CbPlaces : cb' = [cb EXCEPT ![c] = to] /\ (to = "quiet" => CbForget(c))
    BY <1>2 DEF CallbackStep, CbResolve, CbRead, CbPush, CbClear, CbCheck, CbDecrement, CbForget,
                CbStep, CbPlaces, wtVars
  <2>2. \/ connectFuture' = connectFuture
        \/ connectFuture' = connectFuture \ {c} /\ cb' = [cb EXCEPT ![c] = "quiet"]
    BY <1>2 DEF CallbackStep, CbResolve, CbRead, CbPush, CbClear, CbCheck, CbDecrement, CbForget,
                CbStep, wtVars
  <2>3. /\ resolved' \in SUBSET Conns /\ waiting' \in [Conns -> Seq(Coros)]
        /\ ready' \in Seq(Coros) /\ batch' \in [Conns -> Seq(Coros)]
        /\ \A d \in Conns : waiting'[d] = waiting[d] \/ waiting'[d] = <<>>
    <3>1. CASE CbPush(c)
      BY <3>1, PushOutcome DEF CbPush, PlaceInv, TypeOK
    <3>2. CASE CbRead(c)
      BY <3>2 DEF CbRead, PlaceInv, TypeOK
    <3>3. CASE CbClear(c)
      BY <3>3, Emptied DEF CbClear, PlaceInv, TypeOK
    <3>4. CASE CbResolve(c) \/ CbCheck(c) \/ CbDecrement(c) \/ CbForget(c)
      BY <3>4 DEF CbResolve, CbCheck, CbDecrement, CbForget, PlaceInv, TypeOK
    <3> QED BY <1>2, <3>1, <3>2, <3>3, <3>4 DEF CallbackStep
  <2>4. pending' \in 0..CounterSize - 1
    <3>1. pending \in 0..CounterSize - 1 /\ CounterSize \in Nat
      BY DEF PlaceInv, TypeOK
    <3>2. (pending - 1) % CounterSize \in 0..CounterSize - 1
      BY <3>1
    <3>3. pending' = pending \/ pending' = (pending - 1) % CounterSize
      <4>1. CASE CbDecrement(c)
        BY <4>1 DEF CbDecrement
      <4>2. CASE CbResolve(c) \/ CbRead(c) \/ CbPush(c)
        BY <4>2 DEF CbResolve, CbRead, CbPush
      <4>3. CASE CbClear(c) \/ CbCheck(c) \/ CbForget(c)
        BY <4>3 DEF CbClear, CbCheck, CbForget
      <4> QED BY <1>2, <4>1, <4>2, <4>3 DEF CallbackStep
    <3> QED BY <3>1, <3>2, <3>3
  <2>5. TypeOK'
    <3>1. cb' \in [Conns -> CbPlaces] /\ connectFuture' \in SUBSET Conns
      BY <2>1, <2>2 DEF PlaceInv, TypeOK
    <3> QED BY <2>1, <2>3, <2>4, <3>1 DEF PlaceInv, TypeOK, vmVars, coroVars
  <2>6. VmPlaced'
    BY <2>1, <2>2 DEF PlaceInv, TypeOK, VmPlaced, vmVars, Instructions
  <2>7. CbPlaced'
    <3>1. /\ connectFuture' \subseteq connectFuture /\ cb \in [Conns -> CbPlaces]
          /\ link' = link /\ pc' = pc /\ op' = op /\ waitingOn' = waitingOn
      BY <2>1, <2>2 DEF PlaceInv, TypeOK, vmVars, coroVars
    <3>2. \A d \in Conns : cb'[d] # "quiet" => d \in connectFuture'
      BY <2>1, <2>2, <3>1 DEF PlaceInv, CbPlaced
    <3>3. \A d \in Conns : Fresh(d)' <=> Fresh(d)
      BY <3>1 DEF Fresh
    <3> QED BY <2>3, <3>1, <3>2, <3>3 DEF PlaceInv, CbPlaced
  <2> QED BY <2>5, <2>6, <2>7 DEF PlaceInv
<1> QED BY <1>1, <1>2

\* Every step keeps the types and the places.
LEMMA PlaceStep == PlaceInv /\ [Next]_vars => PlaceInv'
<1> SUFFICES ASSUME PlaceInv, [Next]_vars PROVE PlaceInv'
  OBVIOUS
<1>1. CASE UNCHANGED vars
  BY <1>1 DEF vars, PlaceInv, TypeOK, VmPlaced, CbPlaced, Fresh, vmVars, coroVars, wtVars
<1> QED BY <1>1, SpawnPlace, ConnectPlace, InstructionPlace, AwaitPlace, LoopPlace, CallbackPlace
        DEF Next, VmStep

-----------------------------------------------------------------------------
\* The lists of waiters are lists of coroutines.
LEMMA ListTypes ==
    ASSUME PlaceInv
    PROVE  /\ ready \in Seq(Coros) /\ Elements(ready) \subseteq Coros
           /\ \A c \in Conns : /\ waiting[c] \in Seq(Coros) /\ batch[c] \in Seq(Coros)
                               /\ Waits(c) \subseteq Coros /\ Pushed(c) \subseteq Coros
<1>1. \A s \in Seq(Coros) : Elements(s) \subseteq Coros
  BY DEF Elements
<1>2. /\ ready \in Seq(Coros)
      /\ \A c \in Conns : waiting[c] \in Seq(Coros) /\ batch[c] \in Seq(Coros)
  BY DEF PlaceInv, TypeOK
<1> QED BY <1>1, <1>2 DEF Waits, Pushed

\* A step that moves no coroutine, or only lets the running one go.
LEMMA QuietLists ==
    ASSUME PlaceInv, ParkedOnce, OnlySpawned, cur' = cur \/ cur' = None,
           UNCHANGED <<ready, waiting, waitingOn, spawned, batch>>,
           \A c \in Conns : \/ cb'[c] = cb[c]
                            \/ {cb[c], cb'[c]} \intersect {"push", "clear"} = {}
    PROVE  ParkedOnce' /\ OnlySpawned'
<1>1. \A c \in Conns : Waits(c)' = Waits(c) /\ Pushed(c)' = Pushed(c)
  BY DEF Waits, Pushed
<1>2. \A c \in Conns : /\ cb'[c] \notin {"push", "clear"} => cb[c] \notin {"push", "clear"}
                       /\ cb'[c] = "push" => cb[c] = "push"
  OBVIOUS
<1>3. Elements(ready)' = Elements(ready) /\ None \notin Elements(ready)
  BY ListTypes, ConnectAssumption
<1>4. \A c \in Conns : None \notin Waits(c) \union Pushed(c)
  BY ListTypes, ConnectAssumption
<1>5. ParkedOnce'
  BY <1>1, <1>2, <1>3, <1>4 DEF ParkedOnce, NoRepeats
<1>6. OnlySpawned'
  BY <1>1, <1>3 DEF OnlySpawned
<1> QED BY <1>5, <1>6

\* A new activation is nowhere before it is queued.
LEMMA SpawnLists ==
    ASSUME PlaceInv, ParkedOnce, OnlySpawned, NEW k \in Coros, Spawn(k)
    PROVE  ParkedOnce' /\ OnlySpawned'
<1>1. /\ k \notin spawned /\ spawned' = spawned \union {k} /\ PushReadyVm(k)
      /\ cur' = cur /\ waiting' = waiting /\ waitingOn' = waitingOn /\ cb' = cb
  BY DEF Spawn, vmVars
<1>2. /\ ready' = ready \/ ready' = Append(ready, k)
      /\ \A d \in Conns : batch'[d] = batch[d] \/ batch'[d] = <<>>
  BY <1>1, VmPushOutcome DEF PlaceInv
<1>3. \A c \in Conns : Waits(c)' = Waits(c) /\ Pushed(c)' \subseteq Pushed(c)
  BY <1>1, <1>2, ElementsEmpty DEF Waits, Pushed
<1>4. /\ k \notin Elements(ready) /\ k # cur
      /\ \A c \in Conns : k \notin Waits(c) \union Pushed(c)
  BY <1>1, ConnectAssumption DEF OnlySpawned
<1>5. NoRepeats(ready') /\ Elements(ready)' \subseteq Elements(ready) \union {k}
  <2>1. ready \in Seq(Coros) /\ NoRepeats(ready)
    BY ListTypes DEF ParkedOnce
  <2>2. /\ Elements(Append(ready, k)) = Elements(ready) \union {k}
        /\ NoRepeats(Append(ready, k))
    BY <1>4, <2>1, ElementsAppend, NoRepeatsAppend
  <2> QED BY <1>2, <2>1, <2>2
<1>6. \A c \in Conns : cb'[c] = "push" => NoRepeats(batch'[c])
  BY <1>1, <1>2, ElementsEmpty DEF ParkedOnce
<1>7. \A c \in Conns : cb'[c] \notin {"push", "clear"} => NoRepeats(waiting'[c])
  BY <1>1 DEF ParkedOnce
<1>8. ParkedOnce'
  BY <1>1, <1>3, <1>4, <1>5, <1>6, <1>7 DEF ParkedOnce
<1>9. OnlySpawned'
  BY <1>1, <1>3, <1>5 DEF OnlySpawned
<1> QED BY <1>8, <1>9

\* CO_AWAIT moves the running coroutine to a list, or to none if the callback
\* has read the list and will clear it.
LEMMA ParkLists ==
    ASSUME PlaceInv, ParkedOnce, OnlySpawned, Park PROVE ParkedOnce' /\ OnlySpawned'
<1>1. /\ op \in Conns /\ cur \in Coros
      /\ waiting' = [waiting EXCEPT ![op] = Append(@, cur)]
      /\ waitingOn' = [waitingOn EXCEPT ![cur] = op]
      /\ cur' = None /\ UNCHANGED <<ready, spawned, cb, batch>>
  BY DEF Park, LeaveCoroutine, PlaceInv, VmPlaced
<1>2. /\ waiting \in [Conns -> Seq(Coros)] /\ waitingOn \in [Coros -> Conns \union {None}]
      /\ None \notin Coros
  BY ConnectAssumption DEF PlaceInv, TypeOK
<1>3. /\ Elements(Append(waiting[op], cur)) = Elements(waiting[op]) \union {cur}
      /\ cur \notin Elements(waiting[op]) /\ NoRepeats(waiting[op])
            => NoRepeats(Append(waiting[op], cur))
  BY <1>1, <1>2, ElementsAppend, NoRepeatsAppend
<1>4. /\ waiting'[op] = Append(waiting[op], cur)
      /\ \A c \in Conns \ {op} : waiting'[c] = waiting[c]
      /\ waitingOn'[cur] = op
      /\ \A j \in Coros \ {cur} : waitingOn'[j] = waitingOn[j]
  BY <1>1, <1>2
<1>5. \A c \in Conns : /\ Pushed(c)' = Pushed(c)
                       /\ c # op => Waits(c)' = Waits(c)
                       /\ Waits(c)' \subseteq Waits(c) \union {cur}
                       /\ Waits(c) \subseteq Coros /\ Pushed(c) \subseteq Coros
  BY <1>1, <1>3, <1>4, ListTypes DEF Waits, Pushed
<1>6. \A c \in Conns : /\ cb'[c] = "push" => NoRepeats(batch'[c])
                       /\ cb'[c] \notin {"push", "clear"} => NoRepeats(waiting'[c])
  BY <1>1, <1>3, <1>4 DEF ParkedOnce, Waits
<1>7. None \notin Elements(ready) /\ cur \notin Elements(ready)
  BY <1>2, ListTypes DEF ParkedOnce
<1>8. \A c \in Conns :
        /\ (Waits(c) \union Pushed(c))' \intersect (Elements(ready) \union {None}) = {}
        /\ \A j \in (Waits(c) \union Pushed(c))' : waitingOn'[j] = c
  <2> SUFFICES ASSUME NEW c \in Conns, NEW j \in (Waits(c) \union Pushed(c))'
               PROVE  j \notin Elements(ready) \union {None} /\ waitingOn'[j] = c
    OBVIOUS
  <2>1. CASE j = cur
    <3>1. cur \notin Waits(c) \union Pushed(c)
      BY DEF ParkedOnce
    <3>2. c = op
      BY <1>5, <2>1, <3>1
    <3> QED BY <1>1, <1>2, <1>4, <1>7, <2>1, <3>2
  <2>2. CASE j # cur
    <3>1. j \in Waits(c) \union Pushed(c) /\ j \in Coros
      BY <1>5, <2>2
    <3> QED BY <1>2, <1>4, <2>2, <3>1 DEF ParkedOnce
  <2> QED BY <2>1, <2>2
<1>9. ParkedOnce'
  BY <1>1, <1>6, <1>7, <1>8 DEF ParkedOnce, NoRepeats
<1>10. OnlySpawned'
  <2>1. cur \in spawned
    BY <1>1, <1>2 DEF OnlySpawned
  <2> QED BY <1>1, <1>4, <1>5, <2>1 DEF OnlySpawned
<1> QED BY <1>9, <1>10

\* The oldest ready coroutine runs: it was in the queue once, and is in no list.
LEMMA ResumeLists ==
    ASSUME PlaceInv, ParkedOnce, OnlySpawned, Resume PROVE ParkedOnce' /\ OnlySpawned'
<1> DEFINE k == Head(ready)
<1>1. /\ ready # <<>> /\ cur' = k /\ ready' = Tail(ready)
      /\ waitingOn' = [waitingOn EXCEPT ![k] = None] \/ waitingOn' = waitingOn
      /\ UNCHANGED <<waiting, spawned, cb, batch>>
  BY DEF Resume
<1>2. /\ k \in Coros /\ Elements(ready) = Elements(Tail(ready)) \union {k}
      /\ NoRepeats(Tail(ready)) /\ k \notin Elements(Tail(ready))
  BY <1>1, ListTypes, ElementsTail DEF ParkedOnce
<1> HIDE DEF k
<1>3. \A c \in Conns : /\ Waits(c)' = Waits(c) /\ Pushed(c)' = Pushed(c)
                       /\ Waits(c) \subseteq Coros /\ Pushed(c) \subseteq Coros
  BY <1>1, ListTypes DEF Waits, Pushed
<1>4. \A c \in Conns : k \notin Waits(c) \union Pushed(c)
  BY <1>2 DEF ParkedOnce
<1>5. \A j \in Coros \ {k} : waitingOn'[j] = waitingOn[j]
  BY <1>1, <1>2 DEF PlaceInv, TypeOK
<1>6. \A c \in Conns :
        /\ (Waits(c) \union Pushed(c))' \intersect (Elements(ready') \union {cur'}) = {}
        /\ \A j \in (Waits(c) \union Pushed(c))' : waitingOn'[j] = c
  BY <1>1, <1>2, <1>3, <1>4, <1>5 DEF ParkedOnce
<1>7. \A c \in Conns : /\ cb'[c] = "push" => NoRepeats(batch'[c])
                       /\ cb'[c] \notin {"push", "clear"} => NoRepeats(waiting'[c])
  BY <1>1 DEF ParkedOnce
<1>8. ParkedOnce'
  BY <1>1, <1>2, <1>6, <1>7 DEF ParkedOnce
<1>9. OnlySpawned'
  <2>1. k \in spawned /\ Elements(Tail(ready)) \subseteq spawned
    BY <1>2 DEF OnlySpawned
  <2> QED BY <1>1, <1>3, <1>5, <2>1 DEF OnlySpawned
<1> QED BY <1>8, <1>9

\* The callback reads the list of waiters: its batch takes their place.
LEMMA ReadLists ==
    ASSUME PlaceInv, ParkedOnce, OnlySpawned, NEW c \in Conns, CbRead(c)
    PROVE  ParkedOnce' /\ OnlySpawned'
<1>1. /\ cb[c] = "read" /\ cb' = [cb EXCEPT ![c] = "push"]
      /\ batch' = [batch EXCEPT ![c] = waiting[c]]
      /\ UNCHANGED <<cur, ready, waiting, waitingOn, spawned>>
  BY DEF CbRead, CbStep, vmVars, coroVars
<1>2. /\ cb'[c] = "push" /\ batch'[c] = waiting[c]
      /\ \A d \in Conns \ {c} : cb'[d] = cb[d] /\ batch'[d] = batch[d]
  BY <1>1 DEF PlaceInv, TypeOK
<1>3. \A d \in Conns : (Waits(d) \union Pushed(d))' = Waits(d) \union Pushed(d)
  BY <1>1, <1>2 DEF Waits, Pushed
<1>4. \A d \in Conns : /\ cb'[d] = "push" => NoRepeats(batch'[d])
                       /\ cb'[d] \notin {"push", "clear"} => NoRepeats(waiting'[d])
  BY <1>1, <1>2 DEF ParkedOnce
<1>5. ParkedOnce'
  BY <1>1, <1>3, <1>4 DEF ParkedOnce
<1>6. OnlySpawned'
  BY <1>1, <1>3 DEF OnlySpawned
<1> QED BY <1>5, <1>6

\* The batch is queued, or lost, and the batch of another callback may be.
LEMMA PushLists ==
    ASSUME PlaceInv, ParkedOnce, OnlySpawned, NEW c \in Conns, CbPush(c)
    PROVE  ParkedOnce' /\ OnlySpawned'
<1>1. /\ cb[c] = "push" /\ cb' = [cb EXCEPT ![c] = "clear"] /\ PushReady(c, batch[c])
      /\ UNCHANGED <<cur, waiting, waitingOn, spawned>>
  BY DEF CbPush, CbStep, vmVars, coroVars
<1>2. /\ cb'[c] = "clear" /\ \A d \in Conns \ {c} : cb'[d] = cb[d]
  BY <1>1 DEF PlaceInv, TypeOK
<1>3. /\ ready' = ready \/ ready' = ready \o batch[c]
      /\ \A d \in Conns : batch'[d] = batch[d] \/ batch'[d] = <<>>
  BY <1>1, PushOutcome DEF PlaceInv
<1>4. /\ Waits(c)' = {} /\ Pushed(c)' = {} /\ Pushed(c) = Elements(batch[c])
      /\ \A d \in Conns \ {c} : Waits(d)' = Waits(d) /\ Pushed(d)' \subseteq Pushed(d)
  BY <1>1, <1>2, <1>3, ElementsEmpty DEF Waits, Pushed
<1>5. NoRepeats(ready') /\ Elements(ready') \subseteq Elements(ready) \union Pushed(c)
  <2>1. /\ ready \in Seq(Coros) /\ batch[c] \in Seq(Coros) /\ NoRepeats(ready)
        /\ NoRepeats(batch[c]) /\ Elements(ready) \intersect Elements(batch[c]) = {}
    BY <1>1, <1>4, ListTypes DEF ParkedOnce
  <2>2. /\ Elements(ready \o batch[c]) = Elements(ready) \union Elements(batch[c])
        /\ NoRepeats(ready \o batch[c])
    BY <2>1, ElementsConcat
  <2> QED BY <1>3, <1>4, <2>1, <2>2
<1>6. \A d \in Conns :
        /\ (Waits(d) \union Pushed(d))' \intersect (Elements(ready') \union {cur'}) = {}
        /\ \A j \in (Waits(d) \union Pushed(d))' : waitingOn'[j] = d
  <2> SUFFICES ASSUME NEW d \in Conns, NEW j \in (Waits(d) \union Pushed(d))'
               PROVE  j \notin Elements(ready') \union {cur'} /\ waitingOn'[j] = d
    OBVIOUS
  <2>1. d # c /\ j \in Waits(d) \union Pushed(d)
    BY <1>4
  <2>2. waitingOn[j] = d /\ j \notin Elements(ready) \union {cur}
    BY <2>1 DEF ParkedOnce
  <2>3. j \notin Pushed(c)
    BY <2>1, <2>2 DEF ParkedOnce
  <2> QED BY <1>1, <1>5, <2>2, <2>3
<1>7. \A d \in Conns : /\ cb'[d] = "push" => NoRepeats(batch'[d])
                       /\ cb'[d] \notin {"push", "clear"} => NoRepeats(waiting'[d])
  BY <1>1, <1>2, <1>3, ElementsEmpty DEF ParkedOnce
<1>8. cur' \notin Elements(ready')
  BY <1>1, <1>5 DEF ParkedOnce
<1>9. ParkedOnce'
  BY <1>5, <1>6, <1>7, <1>8 DEF ParkedOnce
<1>10. OnlySpawned'
  <2>1. \A d \in Conns : (Waits(d) \union Pushed(d))' \subseteq Waits(d) \union Pushed(d)
    BY <1>4
  <2> QED BY <1>1, <1>5, <2>1 DEF OnlySpawned
<1> QED BY <1>9, <1>10

\* The callback clears the list it has read.
LEMMA ClearLists ==
    ASSUME PlaceInv, ParkedOnce, OnlySpawned, NEW c \in Conns, CbClear(c)
    PROVE  ParkedOnce' /\ OnlySpawned'
<1>1. /\ cb[c] = "clear" /\ cb' = [cb EXCEPT ![c] = "check"]
      /\ waiting' = [waiting EXCEPT ![c] = <<>>]
      /\ UNCHANGED <<cur, ready, waitingOn, spawned, batch>>
  BY DEF CbClear, CbStep, vmVars, coroVars
<1>2. /\ cb'[c] = "check" /\ waiting'[c] = <<>>
      /\ \A d \in Conns \ {c} : cb'[d] = cb[d] /\ waiting'[d] = waiting[d]
  BY <1>1 DEF PlaceInv, TypeOK
<1>3. \A d \in Conns : (Waits(d) \union Pushed(d))' = Waits(d) \union Pushed(d)
  BY <1>1, <1>2, ElementsEmpty DEF Waits, Pushed
<1>4. \A d \in Conns : /\ cb'[d] = "push" => NoRepeats(batch'[d])
                       /\ cb'[d] \notin {"push", "clear"} => NoRepeats(waiting'[d])
  BY <1>1, <1>2, ElementsEmpty DEF ParkedOnce
<1>5. ParkedOnce'
  BY <1>1, <1>3, <1>4 DEF ParkedOnce
<1>6. OnlySpawned'
  BY <1>1, <1>3 DEF OnlySpawned
<1> QED BY <1>5, <1>6

\* Every step keeps a coroutine in one place.
LEMMA ListsStep ==
    ASSUME PlaceInv, ParkedOnce, OnlySpawned, Next PROVE ParkedOnce' /\ OnlySpawned'
<1>1. ASSUME \/ \E c \in Conns : StartConnect(c) \/ Await(c)
             \/ BindRuntime \/ TestClosed \/ SetFuture \/ Unresolve \/ CountUp \/ Finish
             \/ WhileReady \/ WhilePending \/ Drained \/ Poll \/ WakeUp
      PROVE  ParkedOnce' /\ OnlySpawned'
  <2>1. /\ cur' = cur \/ cur' = None
        /\ UNCHANGED <<ready, waiting, waitingOn, spawned, batch, cb>>
    BY <1>1 DEF StartConnect, Await, BindRuntime, TestClosed, SetFuture, Unresolve, CountUp,
                Finish, LeaveCoroutine, WhileReady, WhilePending, Drained, Poll, WakeUp,
                LoopStep, coroVars
  <2> QED BY <2>1, QuietLists
<1>2. ASSUME NEW c \in Conns,
             \/ Connected(c) \/ ShutdownComplete(c)
             \/ CbResolve(c) \/ CbCheck(c) \/ CbDecrement(c) \/ CbForget(c)
      PROVE  ParkedOnce' /\ OnlySpawned'
  <2>1. UNCHANGED <<cur, ready, waiting, waitingOn, spawned, batch>>
    BY <1>2 DEF Connected, ShutdownComplete, CbResolve, CbCheck, CbDecrement, CbForget,
                vmVars, coroVars
  <2>2. \E to \in CbPlaces \ {"push", "clear"} :
          cb[c] \notin {"push", "clear"} /\ cb' = [cb EXCEPT ![c] = to]
    BY <1>2 DEF Connected, ShutdownComplete, CbResolve, CbCheck, CbDecrement, CbForget,
                CbStep, Answerable, NextOf, CbPlaces
  <2>3. \A d \in Conns : \/ cb'[d] = cb[d]
                         \/ {cb[d], cb'[d]} \intersect {"push", "clear"} = {}
    BY <2>2 DEF PlaceInv, TypeOK
  <2> QED BY <2>1, <2>3, QuietLists
<1>3. ASSUME NEW k \in Coros, Spawn(k) PROVE ParkedOnce' /\ OnlySpawned'
  BY <1>3, SpawnLists
<1>4. CASE Park \/ Resume
  BY <1>4, ParkLists, ResumeLists
<1>5. ASSUME NEW c \in Conns, CbRead(c) \/ CbPush(c) \/ CbClear(c) PROVE ParkedOnce' /\ OnlySpawned'
  BY <1>5, ReadLists, PushLists, ClearLists
<1>6. CASE VmStep
  BY <1>1, <1>3, <1>4, <1>6 DEF VmStep
<1>7. ASSUME NEW c \in Conns, Connected(c) \/ ShutdownComplete(c) \/ CallbackStep(c)
      PROVE  ParkedOnce' /\ OnlySpawned'
  BY <1>2, <1>5, <1>7 DEF CallbackStep
<1> QED BY <1>6, <1>7 DEF Next

-----------------------------------------------------------------------------
\* Unless the answer comes in the middle of WT_CONNECT, no step takes back a
\* resolution somebody has been queued for.
LEMMA ResolvedStep ==
    ASSUME PlaceInv, CoroInv, Next PROVE ReadResolved' /\ ResumedWithValue'
<1> USE DEF CoroInv
<1>1. late' = late
  <2>1. CASE VmStep
    BY <2>1 DEF VmStep, Spawn, StartConnect, Await, BindRuntime, TestClosed, SetFuture, Unresolve,
                CountUp, Park, Finish, LeaveCoroutine, WhileReady, WhilePending, Resume, Drained,
                Poll, WakeUp, LoopStep, vmVars
  <2>2. ASSUME NEW c \in Conns, Connected(c) \/ ShutdownComplete(c) \/ CallbackStep(c)
        PROVE  late' = late
    BY <2>2 DEF Connected, ShutdownComplete, CallbackStep, CbResolve, CbRead, CbPush, CbClear,
                CbCheck, CbDecrement, CbForget, vmVars
  <2> QED BY <2>1, <2>2 DEF Next
<1> SUFFICES ASSUME late
             PROVE  /\ \A c \in Conns : cb'[c] \in {"read", "push"} => c \in resolved'
                    /\ \A k \in Elements(ready') :
                          waitingOn'[k] # None => waitingOn'[k] \in resolved'
  BY <1>1 DEF ReadResolved, ResumedWithValue
<1> DEFINE Found == \A c \in Conns : cb'[c] \in {"read", "push"} => c \in resolved'
           Queued == \A k \in Elements(ready') :
                        waitingOn'[k] # None => waitingOn'[k] \in resolved'
<1>2. /\ \A c \in Conns : cb[c] \in {"read", "push"} => c \in resolved
      /\ \A k \in Elements(ready) : waitingOn[k] # None => waitingOn[k] \in resolved
  BY DEF ReadResolved, ResumedWithValue
<1>3. ASSUME resolved \subseteq resolved', UNCHANGED <<ready, waitingOn>> PROVE Queued
  BY <1>2, <1>3
<1>4. ASSUME UNCHANGED cb, resolved \subseteq resolved' PROVE Found
  BY <1>2, <1>4
<1>5. ASSUME \/ \E c \in Conns : StartConnect(c) \/ Await(c)
             \/ BindRuntime \/ TestClosed \/ SetFuture \/ CountUp \/ Finish
             \/ WhileReady \/ WhilePending \/ Drained \/ Poll \/ WakeUp
      PROVE  Found /\ Queued
  <2>1. UNCHANGED <<ready, waitingOn, cb>> /\ resolved \subseteq resolved'
    BY <1>5 DEF StartConnect, Await, BindRuntime, TestClosed, SetFuture, CountUp, Finish,
                LeaveCoroutine, WhileReady, WhilePending, Drained, Poll, WakeUp, LoopStep, coroVars
  <2> QED BY <1>3, <1>4, <2>1
<1>6. ASSUME Unresolve PROVE Found /\ Queued
  <2>1. /\ op \in Conns /\ pc = "unresolve" /\ cb[op] = "quiet"
        /\ resolved' = resolved \ {op} /\ UNCHANGED <<ready, waitingOn, cb>>
    BY <1>6 DEF Unresolve, PlaceInv, VmPlaced, Instructions, coroVars
  <2>2. \A k \in Coros : waitingOn[k] # op
    BY <2>1 DEF PlaceInv, CbPlaced, Fresh, Instructions
  <2>3. Elements(ready) \subseteq Coros
    BY ListTypes
  <2> QED BY <1>2, <2>1, <2>2, <2>3
<1>7. ASSUME NEW k \in Coros, Spawn(k) PROVE Found /\ Queued
  <2>1. k \notin spawned /\ PushReadyVm(k) /\ UNCHANGED <<waitingOn, resolved, cb>>
    BY <1>7 DEF Spawn
  <2>2. waitingOn[k] = None
    BY <2>1 DEF OnlySpawned
  <2>3. Elements(ready') \subseteq Elements(ready) \union {k}
    BY <2>1, VmPushOutcome, ListTypes, ElementsAppend DEF PlaceInv
  <2> QED BY <1>2, <2>1, <2>2, <2>3
<1>8. ASSUME Park PROVE Found /\ Queued
  <2>1. cur \in Coros /\ waitingOn' = [waitingOn EXCEPT ![cur] = op]
        /\ UNCHANGED <<ready, resolved, cb>>
    BY <1>8 DEF Park, LeaveCoroutine, PlaceInv, VmPlaced
  <2>2. cur \notin Elements(ready) /\ Elements(ready) \subseteq Coros
    BY ListTypes DEF ParkedOnce
  <2>3. \A k \in Elements(ready) : waitingOn'[k] = waitingOn[k]
    BY <2>1, <2>2 DEF PlaceInv, TypeOK
  <2> QED BY <1>2, <2>1, <2>3
<1>9. ASSUME Resume PROVE Found /\ Queued
  <2> DEFINE k == Head(ready)
  <2>1. /\ ready # <<>> /\ ready' = Tail(ready) /\ UNCHANGED <<resolved, cb>>
        /\ waitingOn' = [waitingOn EXCEPT ![k] = None] \/ waitingOn' = waitingOn
    BY <1>9 DEF Resume
  <2>2. /\ Elements(Tail(ready)) \subseteq Elements(ready) /\ k \notin Elements(Tail(ready))
        /\ Elements(ready) \subseteq Coros
    BY <2>1, ListTypes, ElementsTail DEF ParkedOnce
  <2> HIDE DEF k
  <2>3. \A j \in Elements(Tail(ready)) : waitingOn'[j] = waitingOn[j]
    BY <2>1, <2>2 DEF PlaceInv, TypeOK
  <2> QED BY <1>2, <2>1, <2>2, <2>3
<1>10. ASSUME NEW c \in Conns, Connected(c) \/ ShutdownComplete(c) \/ CallbackStep(c), ~CbPush(c)
       PROVE  Found /\ Queued
  <2>1. UNCHANGED <<ready, waitingOn>> /\ resolved \subseteq resolved'
    BY <1>10 DEF Connected, ShutdownComplete, CallbackStep, CbResolve, CbRead, CbClear,
                 CbCheck, CbDecrement, CbForget, coroVars
  <2>2. \E to \in CbPlaces : /\ cb' = [cb EXCEPT ![c] = to]
                             /\ to \in {"read", "push"} => c \in resolved'
    BY <1>2, <1>10 DEF Connected, ShutdownComplete, CallbackStep, CbResolve, CbRead, CbClear,
                       CbCheck, CbDecrement, CbForget, CbStep, CbPlaces, NextOf
  <2>3. Found
    BY <1>2, <2>1, <2>2 DEF PlaceInv, TypeOK
  <2> QED BY <1>3, <2>1, <2>3
<1>11. ASSUME NEW c \in Conns, CbPush(c) PROVE Found /\ Queued
  <2>1. /\ cb[c] = "push" /\ cb' = [cb EXCEPT ![c] = "clear"] /\ PushReady(c, batch[c])
        /\ UNCHANGED <<waitingOn, resolved>>
    BY <1>11 DEF CbPush, CbStep, coroVars
  <2>2. Elements(ready') \subseteq Elements(ready) \union Pushed(c)
    <3>1. ready \in Seq(Coros) /\ batch[c] \in Seq(Coros) /\ Pushed(c) = Elements(batch[c])
      BY <2>1, ListTypes DEF Pushed
    <3>2. Elements(ready \o batch[c]) = Elements(ready) \union Elements(batch[c])
      BY <3>1, ElementsConcat
    <3>3. ready' = ready \/ ready' = ready \o batch[c]
      BY <2>1, PushOutcome DEF PlaceInv
    <3> QED BY <3>1, <3>2, <3>3
  <2>3. c \in resolved /\ \A k \in Pushed(c) : waitingOn[k] = c
    BY <1>2, <2>1 DEF ParkedOnce
  <2>4. Found
    BY <1>2, <2>1 DEF PlaceInv, TypeOK
  <2> QED BY <1>2, <2>1, <2>2, <2>3, <2>4
<1> HIDE DEF Found, Queued
<1>12. ASSUME VmStep PROVE Found /\ Queued
  BY <1>5, <1>6, <1>7, <1>8, <1>9, <1>12 DEF VmStep
<1>13. ASSUME NEW c \in Conns, Connected(c) \/ ShutdownComplete(c) \/ CallbackStep(c)
       PROVE  Found /\ Queued
  BY <1>10, <1>11, <1>13
<1>14. Found /\ Queued
  BY <1>12, <1>13 DEF Next
<1> QED BY <1>14 DEF Found, Queued

\* Before the program runs, no coroutine is queued or parked.
LEMMA CoroInit == Init => CoroInv
<1> SUFFICES ASSUME Init PROVE CoroInv
  OBVIOUS
<1>1. /\ \A c \in Conns : waiting[c] = <<>> /\ batch[c] = <<>> /\ cb[c] = "quiet"
      /\ \A k \in Coros : waitingOn[k] = None
      /\ ready = <<>> /\ cur = Main /\ spawned = {Main}
  BY DEF Init
<1>2. \A c \in Conns : Waits(c) = {} /\ Pushed(c) = {}
  BY <1>1, ElementsEmpty DEF Waits, Pushed
<1>3. ParkedOnce /\ OnlySpawned
  BY <1>1, <1>2, ElementsEmpty DEF ParkedOnce, OnlySpawned
<1>4. ReadResolved /\ ResumedWithValue
  BY <1>1, ElementsEmpty DEF ReadResolved, ResumedWithValue
<1> QED BY <1>3, <1>4 DEF CoroInv

\* What ConnectLoop keeps of coroutines: their types and places, one list for
\* each, and the value for whoever leaves the queue.
THEOREM CoroutineInvariance == Spec => [](PlaceInv /\ CoroInv)
<1>1. Init => PlaceInv /\ CoroInv
  BY PlaceInit, CoroInit
<1>2. PlaceInv /\ CoroInv /\ [Next]_vars => (PlaceInv /\ CoroInv)'
  <2> SUFFICES ASSUME PlaceInv, CoroInv, [Next]_vars PROVE (PlaceInv /\ CoroInv)'
    OBVIOUS
  <2>1. PlaceInv'
    BY PlaceStep
  <2>2. CASE Next
    BY <2>1, <2>2, ListsStep, ResolvedStep DEF CoroInv
  <2>3. CASE UNCHANGED vars
    BY <2>1, <2>3 DEF CoroInv, ParkedOnce, OnlySpawned, ReadResolved, ResumedWithValue, Waits,
                      Pushed, vars, vmVars, coroVars
  <2> QED BY <2>2, <2>3
<1> QED BY <1>1, <1>2, PTL DEF Spec

\* ConnectInv, of run_bytecode's loop and the connect callbacks: no coroutine
\* is queued twice or queued while it executes, whichever pushes the data race
\* loses, and what leaves the queue after an await finds its value.
THEOREM QueuedOnceWithValue == Spec => []ConnectInv
<1>1. PlaceInv /\ CoroInv => ConnectInv
  <2> SUFFICES ASSUME PlaceInv, CoroInv PROVE ConnectInv
    OBVIOUS
  <2>1. \A c \in Conns : cb[c] = "push" => Pushed(c) = Elements(batch[c])
    BY DEF Pushed
  <2>2. QueuedOnce
    BY <2>1 DEF CoroInv, ParkedOnce, QueuedOnce
  <2> QED BY <2>2 DEF PlaceInv, CoroInv, ConnectInv
<1> QED BY <1>1, CoroutineInvariance, PTL

-----------------------------------------------------------------------------
\* Connects can be counted.
LEMMA ConnectSets ==
    ASSUME NEW S \in SUBSET Conns
    PROVE  /\ IsFiniteSet(S) /\ Cardinality(S) \in Nat
           /\ Cardinality(S) <= Cardinality(Conns) /\ Cardinality(Conns) \in Nat
<1>1. IsFiniteSet(S) /\ Cardinality(S) <= Cardinality(Conns)
  BY FS_Subset, ConnectAssumption
<1> QED BY <1>1, FS_CardinalityType, ConnectAssumption

\* A connect that WT_CONNECT is through with stays so.
LEMMA BegunGrows == ASSUME PlaceInv, Next PROVE Begun \subseteq Begun'
<1>1. CASE \E c \in Conns : StartConnect(c)
  <2>1. PICK c \in Conns : StartConnect(c)
    BY <1>1
  <2>2. /\ pc = "code" /\ link[c] = "none" /\ op' = c
        /\ link' = [link EXCEPT ![c] = "handshake"] \/ link' = [link EXCEPT ![c] = "down"]
    BY <2>1 DEF StartConnect
  <2>3. \A d \in Conns \ {c} : link'[d] = link[d]
    BY <2>2 DEF PlaceInv, TypeOK
  <2> QED BY <2>2, <2>3 DEF Begun
<1>2. CASE VmStep /\ ~\E c \in Conns : StartConnect(c)
  <2>1. link' = link
    BY <1>2 DEF VmStep, Spawn, Await, BindRuntime, TestClosed, SetFuture, Unresolve,
                CountUp, Park, Finish, WhileReady, WhilePending, Resume, Drained,
                Poll, WakeUp, LoopStep
  <2>2. pc' \in Instructions => pc \in Instructions /\ op' = op
    <3>1. back \notin Instructions
      BY DEF PlaceInv, TypeOK, Instructions
    <3> QED BY <1>2, <3>1 DEF VmStep, Spawn, Await, BindRuntime, TestClosed, SetFuture, Unresolve,
                CountUp, Park, Finish, LeaveCoroutine, WhileReady, WhilePending, Resume, Drained,
                Poll, WakeUp, LoopStep, Instructions, vmVars
  <2> QED BY <2>1, <2>2 DEF Begun
<1>3. ASSUME NEW c \in Conns, Connected(c) \/ ShutdownComplete(c) \/ CallbackStep(c)
      PROVE  Begun \subseteq Begun'
  <2>1. /\ UNCHANGED <<pc, op>>
        /\ \/ link' = link
           \/ link' = [link EXCEPT ![c] = "up"] \/ link' = [link EXCEPT ![c] = "down"]
    BY <1>3 DEF Connected, ShutdownComplete, CallbackStep, CbResolve, CbRead, CbPush, CbClear,
                CbCheck, CbDecrement, CbForget, vmVars
  <2>2. \A d \in Conns : link[d] # "none" => link'[d] # "none"
    BY <2>1 DEF PlaceInv, TypeOK
  <2> QED BY <2>1, <2>2 DEF Begun
<1> QED BY <1>1, <1>2, <1>3 DEF Next

\* A step that leaves pending_futures alone, and opens no connect.
LEMMA QuietCounter ==
    ASSUME PlaceInv, PlaceInv', Next, NEW t \in -1..Cardinality(Conns), Counts(t),
           pending' = pending, Open' \subseteq Open, Uncounted' = Uncounted
    PROVE  Counts(t)'
<1> DEFINE o == Cardinality(Open)
           p == Cardinality(Open')
           b == Cardinality(Begun)
           d == Cardinality(Begun')
<1>1. o \in Nat /\ p \in Nat /\ b \in Nat /\ d \in Nat /\ p <= o /\ b <= d
  <2>1. /\ IsFiniteSet(Open) /\ IsFiniteSet(Begun')
        /\ o \in Nat /\ p \in Nat /\ b \in Nat /\ d \in Nat
    <3>1. /\ Open \in SUBSET Conns /\ Open' \in SUBSET Conns
          /\ Begun \in SUBSET Conns /\ Begun' \in SUBSET Conns
      BY DEF Open, Begun, PlaceInv, TypeOK
    <3> QED BY <3>1, ConnectSets
  <2>2. Begun \subseteq Begun'
    BY BegunGrows
  <2> QED BY <2>1, <2>2, FS_Subset
<1>2. /\ pending = IF t < 0 THEN CounterSize + t ELSE t
      /\ o - Uncounted <= t /\ t <= b
  BY DEF Counts
<1>3. Uncounted \in {0, 1}
  BY DEF Uncounted
<1> HIDE DEF o, p, b, d
<1>4. /\ p - Uncounted <= t /\ t <= d
  BY <1>1, <1>2, <1>3
<1> QED BY <1>2, <1>4 DEF Counts, o, p, b, d

\* A step of the VM thread that is none of SetFuture and CountUp.
LEMMA VmCounter ==
    ASSUME PlaceInv, VmStep, ~SetFuture, ~CountUp
    PROVE  pending' = pending /\ Open' = Open /\ Uncounted' = Uncounted
<1>1. pending' = pending /\ connectFuture' = connectFuture /\ cb' = cb
  BY DEF VmStep, Spawn, StartConnect, Await, BindRuntime, TestClosed, Unresolve, Park, Finish,
         WhileReady, WhilePending, Resume, Drained, Poll, WakeUp, LoopStep, wtVars
<1>2. pc' \in {"unresolve", "count"} <=> pc \in {"unresolve", "count"}
  <2>1. back \notin {"unresolve", "count"}
    BY DEF PlaceInv, TypeOK
  <2> QED BY <2>1 DEF VmStep, Spawn, StartConnect, Await, BindRuntime, TestClosed, Unresolve, Park,
         Finish, LeaveCoroutine, WhileReady, WhilePending, Resume, Drained, Poll, WakeUp, LoopStep,
         vmVars
<1> QED BY <1>1, <1>2 DEF Open, Uncounted

\* A step of a callback, apart from the decrement.
LEMMA CallbackCounter ==
    ASSUME PlaceInv, NEW c \in Conns, Connected(c) \/ ShutdownComplete(c) \/ CallbackStep(c)
    PROVE  /\ Open' \subseteq Open /\ pc' = pc /\ Uncounted' = Uncounted
           /\ ~CbDecrement(c) => pending' = pending
           /\ CbDecrement(c) => c \in Open /\ Open' = Open \ {c}
<1>1. pc' = pc /\ (~CbDecrement(c) => pending' = pending)
  BY DEF Connected, ShutdownComplete, CallbackStep, CbResolve, CbRead, CbPush, CbClear,
         CbCheck, CbForget, CbDecrement, vmVars
<1>2. connectFuture' \subseteq connectFuture /\ (CbDecrement(c) => connectFuture' = connectFuture)
  BY DEF Connected, ShutdownComplete, CallbackStep, CbResolve, CbRead, CbPush, CbClear,
         CbCheck, CbForget, CbDecrement, CbStep, wtVars
<1>3. \/ /\ cb[c] # "forget" /\ \E to \in CbPlaces : cb' = [cb EXCEPT ![c] = to]
      \/ connectFuture' = connectFuture \ {c} /\ cb' = [cb EXCEPT ![c] = "quiet"]
  BY DEF Connected, ShutdownComplete, CallbackStep, CbResolve, CbRead, CbPush, CbClear,
         CbCheck, CbForget, CbDecrement, CbStep, CbPlaces, NextOf, Answerable
<1>4. Open' \subseteq Open
  BY <1>2, <1>3 DEF PlaceInv, TypeOK, Open
<1>5. CbDecrement(c) => c \in Open /\ Open' = Open \ {c}
  <2> SUFFICES ASSUME CbDecrement(c) PROVE c \in Open /\ Open' = Open \ {c}
    OBVIOUS
  <2>1. cb[c] = "dec" /\ cb' = [cb EXCEPT ![c] = "forget"] /\ connectFuture' = connectFuture
    BY <1>2 DEF CbDecrement, CbStep
  <2>2. c \in connectFuture
    BY <2>1 DEF PlaceInv, CbPlaced
  <2> QED BY <2>1, <2>2 DEF PlaceInv, TypeOK, Open
<1> QED BY <1>1, <1>4, <1>5 DEF Uncounted

\* WT_CONNECT gives a connect its future: it is open from here, and counted
\* by the increment that follows.
LEMMA SetFutureCounter ==
    ASSUME PlaceInv, SetFuture, NEW t \in -1..Cardinality(Conns), Counts(t)
    PROVE  Counts(t)'
<1>1. /\ op \in Conns /\ op \notin connectFuture /\ cb[op] = "quiet" /\ pc = "setFuture"
      /\ pc' = "unresolve" /\ op' = op /\ connectFuture' = connectFuture \union {op}
      /\ UNCHANGED <<pending, link, cb>>
  BY DEF SetFuture, PlaceInv, VmPlaced, CbPlaced, Instructions
<1> DEFINE o == Cardinality(Open)
           p == Cardinality(Open')
<1>2. p = o + 1 /\ o \in Nat
  <2>1. Open \in SUBSET Conns /\ Open' = Open \union {op} /\ op \notin Open
    BY <1>1 DEF Open, PlaceInv, TypeOK
  <2>2. IsFiniteSet(Open) /\ o \in Nat
    BY <2>1, ConnectSets
  <2> QED BY <2>1, <2>2, FS_AddElement
<1>3. Begun' = Begun
  BY <1>1 DEF Begun, Instructions
<1>4. Uncounted = 0 /\ Uncounted' = 1
  BY <1>1 DEF Uncounted
<1>5. o - Uncounted <= t
  BY DEF Counts
<1> HIDE DEF o, p
<1>6. p - Uncounted' <= t
  BY <1>2, <1>4, <1>5
<1> QED BY <1>1, <1>3, <1>6 DEF Counts, p

\* pending_futures++: what was below zero is made up for, and there are more
\* values than connects.
LEMMA CountUpCounter ==
    ASSUME PlaceInv, CountUp, NEW t \in -1..Cardinality(Conns), Counts(t)
    PROVE  t + 1 \in -1..Cardinality(Conns) /\ Counts(t + 1)'
<1>1. /\ pc = "count" /\ pc' = "code" /\ op \in Conns /\ link[op] # "none" /\ op' = None
      /\ pending' = (pending + 1) % CounterSize /\ UNCHANGED <<link, cb, connectFuture>>
  BY DEF CountUp, PlaceInv, VmPlaced, Instructions, wtVars
<1> DEFINE n == Cardinality(Conns)
           o == Cardinality(Open)
           b == Cardinality(Begun)
           d == Cardinality(Begun')
<1>2. d = b + 1 /\ b \in Nat /\ d <= n
  <2>1. /\ Begun \in SUBSET Conns /\ Begun' \in SUBSET Conns
        /\ Begun' = Begun \union {op} /\ op \notin Begun
    BY <1>1, ConnectAssumption DEF Begun, Instructions
  <2>2. IsFiniteSet(Begun) /\ b \in Nat /\ d <= n
    BY <2>1, ConnectSets
  <2> QED BY <2>1, <2>2, FS_AddElement
<1>3. Open' = Open /\ o \in Nat
  <2>1. Open \in SUBSET Conns /\ Open' = Open
    BY <1>1 DEF Open, PlaceInv, TypeOK
  <2> QED BY <2>1, ConnectSets
<1>4. Uncounted = 1 /\ Uncounted' = 0
  BY <1>1 DEF Uncounted
<1>5. /\ pending = IF t < 0 THEN CounterSize + t ELSE t
      /\ o - Uncounted <= t /\ t <= b
  BY DEF Counts
<1>6. n \in Nat /\ CounterSize \in Nat /\ CounterSize > n
  <2>1. {} \in SUBSET Conns
    OBVIOUS
  <2> QED BY <2>1, ConnectSets, ConnectAssumption
<1> HIDE DEF n, o, b, d
<1>7. t \in -1..n
  BY DEF n
<1>8. t + 1 \in 0..n /\ o <= t + 1 /\ t + 1 <= d
  BY <1>2, <1>3, <1>4, <1>5, <1>6, <1>7
<1>9. pending' = t + 1
  <2>1. CASE t = -1
    <3>1. pending + 1 = CounterSize
      BY <1>5, <1>6, <2>1
    <3> QED BY <1>1, <1>6, <2>1, <3>1
  <2>2. CASE t >= 0
    <3>1. pending + 1 = t + 1 /\ t + 1 \in 0..CounterSize - 1
      BY <1>5, <1>6, <1>8, <2>2
    <3> QED BY <1>1, <1>6, <3>1
  <2> QED BY <1>7, <2>1, <2>2, <1>6
<1>10. Counts(t + 1)'
  BY <1>3, <1>4, <1>8, <1>9 DEF Counts, o, d
<1> QED BY <1>6, <1>8, <1>10 DEF n

\* pending_futures--: the connect the callback has finished with is counted,
\* or WT_CONNECT is about to count one.
LEMMA DecrementCounter ==
    ASSUME PlaceInv, PlaceInv', Next, NEW c \in Conns, CbDecrement(c),
           NEW t \in -1..Cardinality(Conns), Counts(t)
    PROVE  t - 1 \in -1..Cardinality(Conns) /\ Counts(t - 1)'
<1> DEFINE n == Cardinality(Conns)
           o == Cardinality(Open)
           p == Cardinality(Open')
           b == Cardinality(Begun)
           d == Cardinality(Begun')
<1>1. c \in Open /\ Open' = Open \ {c} /\ Uncounted' = Uncounted
  BY CallbackCounter DEF CallbackStep
<1>2. p = o - 1 /\ o \in Nat /\ p \in Nat
  <2>1. Open \in SUBSET Conns /\ Open' \in SUBSET Conns
    BY DEF Open, PlaceInv, TypeOK
  <2>2. IsFiniteSet(Open) /\ o \in Nat /\ p \in Nat
    BY <2>1, ConnectSets
  <2> QED BY <1>1, <2>2, FS_RemoveElement
<1>3. b \in Nat /\ d \in Nat /\ b <= d
  <2>1. Begun \in SUBSET Conns /\ Begun' \in SUBSET Conns /\ Begun \subseteq Begun'
    BY BegunGrows DEF Begun
  <2> QED BY <2>1, ConnectSets, FS_Subset
<1>4. Uncounted \in {0, 1}
  BY DEF Uncounted
<1>5. /\ pending = IF t < 0 THEN CounterSize + t ELSE t
      /\ o - Uncounted <= t /\ t <= b
  BY DEF Counts
<1>6. n \in Nat /\ CounterSize \in Nat /\ CounterSize > n
  <2>1. {} \in SUBSET Conns
    OBVIOUS
  <2> QED BY <2>1, ConnectSets, ConnectAssumption
<1>7. pending' = (pending - 1) % CounterSize
  BY DEF CbDecrement
<1> HIDE DEF n, o, p, b, d
<1>8. t \in -1..n
  BY DEF n
<1>9. t \in 0..n /\ p - Uncounted <= t - 1 /\ t - 1 <= d
  BY <1>2, <1>3, <1>4, <1>5, <1>6, <1>8
<1>10. pending' = IF t - 1 < 0 THEN CounterSize + (t - 1) ELSE t - 1
  <2>1. CASE t = 0
    <3>1. pending - 1 = -1
      BY <1>5, <2>1
    <3>2. (-1) % CounterSize = CounterSize - 1
      BY <1>6
    <3> QED BY <1>6, <1>7, <2>1, <3>1, <3>2
  <2>2. CASE t > 0
    <3>1. pending - 1 = t - 1 /\ t - 1 \in 0..CounterSize - 1
      BY <1>5, <1>6, <1>9, <2>2
    <3>2. (t - 1) % CounterSize = t - 1
      BY <1>6, <3>1
    <3> QED BY <1>7, <1>9, <2>2, <3>1, <3>2
  <2> QED BY <1>9, <2>1, <2>2, <1>6
<1>11. Counts(t - 1)'
  BY <1>1, <1>9, <1>10 DEF Counts, p, d
<1> QED BY <1>6, <1>9, <1>11 DEF n

\* run_bytecode leaves its loop on an empty queue and a zero count, and then
\* no connect is open.
LEMMA ExitStep ==
    ASSUME PlaceInv, NoEarlyExit, Next, NEW t \in -1..Cardinality(Conns), Counts(t)
    PROVE  NoEarlyExit'
<1> SUFFICES ASSUME pc' = "exit" PROVE Outstanding' = {}
  BY DEF NoEarlyExit
<1>1. Outstanding' = Open'
  BY DEF Outstanding, Open, Instructions
<1>2. CASE VmStep
  <2>1. back # "exit"
    BY DEF PlaceInv, TypeOK
  <2>2. WhilePending
    BY <1>2, <2>1 DEF VmStep, Spawn, StartConnect, Await, BindRuntime, TestClosed, SetFuture,
                      Unresolve, CountUp, Park, Finish, LeaveCoroutine, WhileReady, Resume, Drained,
                      Poll, WakeUp, LoopStep, vmVars
  <2>3. /\ pc = "while2" /\ ~(pending > 0) /\ Open' = Open
    BY <2>2 DEF WhilePending, LoopStep, wtVars, Open
  <2>4. /\ pending \in Nat /\ CounterSize \in Nat /\ Cardinality(Conns) \in Nat
        /\ CounterSize > Cardinality(Conns)
        /\ IsFiniteSet(Open) /\ Cardinality(Open) \in Nat
    <3>1. Open \in SUBSET Conns
      BY DEF Open, PlaceInv, TypeOK
    <3>2. pending \in Nat /\ CounterSize \in Nat
      BY ConnectAssumption DEF PlaceInv, TypeOK
    <3> QED BY <3>1, <3>2, ConnectSets, ConnectAssumption
  <2>5. Uncounted = 0
    BY <2>3 DEF Uncounted
  <2>6. Cardinality(Open) <= t /\ pending = IF t < 0 THEN CounterSize + t ELSE t
    <3>1. Cardinality(Open) - Uncounted <= t
      BY DEF Counts
    <3> QED BY <2>4, <2>5, <3>1 DEF Counts
  <2>7. Cardinality(Open) = 0
    BY <2>3, <2>4, <2>6
  <2> QED BY <1>1, <2>3, <2>4, <2>7, FS_EmptySet
<1>3. ASSUME NEW c \in Conns, Connected(c) \/ ShutdownComplete(c) \/ CallbackStep(c)
      PROVE  Outstanding' = {}
  <2>1. pc = "exit" /\ Open' \subseteq Open
    BY <1>3, CallbackCounter
  <2>2. Outstanding = Open /\ Outstanding = {}
    BY <2>1 DEF NoEarlyExit, Outstanding, Open, Instructions
  <2> QED BY <1>1, <2>1, <2>2
<1> QED BY <1>2, <1>3 DEF Next

\* Every step keeps the counter above what is still to be answered.
LEMMA CounterStep == ASSUME PlaceInv, PlaceInv', CounterInv, Next PROVE CounterInv'
<1> PICK t \in -1..Cardinality(Conns) : Counts(t)
  BY DEF CounterInv
<1>1. NoEarlyExit'
  BY ExitStep DEF CounterInv
<1>2. CASE SetFuture
  BY <1>1, <1>2, SetFutureCounter DEF CounterInv
<1>3. CASE CountUp
  BY <1>1, <1>3, CountUpCounter DEF CounterInv
<1>4. CASE VmStep /\ ~SetFuture /\ ~CountUp
  <2>1. Counts(t)'
    BY <1>4, VmCounter, QuietCounter
  <2> QED BY <1>1, <2>1 DEF CounterInv
<1>5. ASSUME NEW c \in Conns, Connected(c) \/ ShutdownComplete(c) \/ CallbackStep(c)
      PROVE  CounterInv'
  <2>1. CASE CbDecrement(c)
    BY <1>1, <2>1, DecrementCounter DEF CounterInv
  <2>2. CASE ~CbDecrement(c)
    <3>1. pending' = pending /\ Open' \subseteq Open /\ Uncounted' = Uncounted
      BY <1>5, <2>2, CallbackCounter
    <3>2. Counts(t)'
      BY <3>1, QuietCounter
    <3> QED BY <1>1, <3>2 DEF CounterInv
  <2> QED BY <2>1, <2>2
<1> QED BY <1>2, <1>3, <1>4, <1>5 DEF Next

\* Before the program runs nothing is counted, and nothing open.
LEMMA CounterInit == Init => CounterInv
<1> SUFFICES ASSUME Init PROVE CounterInv
  OBVIOUS
<1>1. /\ Open = {} /\ Begun = {} /\ Uncounted = 0 /\ pending = 0 /\ pc = "code"
  BY DEF Init, Open, Begun, Uncounted
<1>2. Cardinality({}) = 0
  BY FS_EmptySet
<1>3. 0 \in -1..Cardinality(Conns)
  <2>1. {} \in SUBSET Conns
    OBVIOUS
  <2>2. Cardinality(Conns) \in Nat
    BY <2>1, ConnectSets
  <2> QED BY <2>2
<1>4. Counts(0)
  BY <1>1, <1>2 DEF Counts
<1> QED BY <1>1, <1>3, <1>4 DEF CounterInv, NoEarlyExit

\* ConnectsCounted, of run_bytecode's loop: outside WT_CONNECT pending_futures
\* is at least the number of unanswered connects, however the callbacks'
\* separate test and decrement fall between the increments, and the loop is
\* not left while one is unanswered.
THEOREM UnansweredCounted == Spec => []ConnectsCounted
<1>1. Init => PlaceInv /\ CounterInv
  BY PlaceInit, CounterInit
<1>2. PlaceInv /\ CounterInv /\ [Next]_vars => (PlaceInv /\ CounterInv)'
  <2> SUFFICES ASSUME PlaceInv, CounterInv, [Next]_vars PROVE (PlaceInv /\ CounterInv)'
    OBVIOUS
  <2>1. PlaceInv'
    BY PlaceStep
  <2>2. CASE Next
    BY <2>1, <2>2, CounterStep
  <2>3. CASE UNCHANGED vars
    BY <2>1, <2>3 DEF CounterInv, Counts, NoEarlyExit, Outstanding, Open, Begun, Uncounted,
                      vars, vmVars, wtVars
  <2> QED BY <2>2, <2>3
<1>3. PlaceInv /\ CounterInv => ConnectsCounted
  <2> SUFFICES ASSUME PlaceInv, CounterInv, pc \notin Instructions
               PROVE  pending >= Cardinality(Outstanding)
    BY DEF ConnectsCounted, NeverUndercounted, CounterInv
  <2> PICK t \in -1..Cardinality(Conns) : Counts(t)
    BY DEF CounterInv
  <2>1. Outstanding = Open /\ Uncounted = 0 /\ Open \in SUBSET Conns
    BY DEF Outstanding, Open, Uncounted, Instructions, PlaceInv, TypeOK
  <2>2. Cardinality(Open) \in Nat /\ Cardinality(Conns) \in Nat
    BY <2>1, ConnectSets
  <2>3. Cardinality(Open) - 0 <= t /\ pending = IF t < 0 THEN CounterSize + t ELSE t
    BY <2>1 DEF Counts
  <2>4. pending >= Cardinality(Open)
    BY <2>2, <2>3
  <2> QED BY <2>1, <2>4
<1> QED BY <1>1, <1>2, <1>3, PTL DEF Spec
=============================================================================
