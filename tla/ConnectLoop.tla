---------------------------- MODULE ConnectLoop ----------------------------
(***************************************************************************)
(* The VM thread of run_bytecode (main.cpp) and the msquic callbacks of    *)
(* its outgoing connections (vm/webtransport_backend.cpp), which resolve   *)
(* connect futures, push coroutines on ready_coroutines and count down     *)
(* pending_futures from threads of their own.                              *)
(*                                                                         *)
(* WT_CONNECT, CO_AWAIT and the loop are cut where the other side can see  *)
(* or change what they use.  ready_coroutines has no lock: a push that     *)
(* overlaps another may overwrite it (both write the cell behind the last  *)
(* element), which is the outcome modelled for that data race.             *)
(*                                                                         *)
(* External: msquic calls the connection callback at most once with        *)
(* CONNECTED and once with SHUTDOWN_COMPLETE, in that order, one event of  *)
(* a connection at a time, from any of its worker threads.                 *)
(***************************************************************************)
EXTENDS Integers, Sequences, FiniteSets, SeqFacts

CONSTANTS Conns,        \* calls of wt_connect the program can make
          Coros,        \* activations of its async functions
          Main,         \* the entry function
          None,         \* a null pointer
          CounterSize   \* pending_futures counts modulo this (2^64)

ASSUME ConnectAssumption ==
    /\ Main \in Coros
    /\ None \notin Conns \union Coros
    /\ IsFiniteSet(Conns) /\ CounterSize \in Nat /\ CounterSize > Cardinality(Conns)

VARIABLES late,           \* in this run no answer comes while WT_CONNECT executes
          pc,             \* where the VM thread is
          cur,            \* the coroutine it executes
          op,             \* the connection its current instruction is about
          back,           \* where it goes when cur leaves the stack
          ready,          \* ready_coroutines
          waiting,        \* connect future |-> waiting_coroutines
          waitingOn,      \* coroutine |-> the future it is parked on
          spawned,        \* coroutines ASYNC_CALL has created
          resolved,       \* connect futures with is_resolved
          delivered,      \* coroutine |-> futures whose value it received
          pending,        \* pending_futures
          runtimeSet,     \* connections whose runtime pointer is set
          connectFuture,  \* connections whose connect_future is set
          closed,         \* connections with closed
          link,           \* connection |-> what the network made of it
          cb,             \* connection |-> where its callback is
          batch           \* connection |-> the waiters its callback pushes

vmVars == <<pc, cur, op, back, late>>
coroVars == <<waitingOn, spawned, delivered>>
wtVars == <<runtimeSet, connectFuture, closed>>
vars == <<vmVars, ready, waiting, coroVars, resolved, pending, wtVars, link,
          cb, batch>>

Instructions == {"bind", "test", "setFuture", "unresolve", "count"}
VmPlaces == {"code", "park", "while1", "while2", "drain", "poll", "sleep", "exit"}
                \union Instructions
CbPlaces == {"quiet", "resolve", "read", "push", "clear", "check", "dec", "forget"}

-----------------------------------------------------------------------------
Init == /\ late \in BOOLEAN
        /\ pc = "code" /\ cur = Main /\ op = None /\ back = "while1"
        /\ ready = <<>>
        /\ waiting = [c \in Conns |-> <<>>]
        /\ waitingOn = [k \in Coros |-> None]
        /\ spawned = {Main}
        /\ resolved = {}
        /\ delivered = [k \in Coros |-> {}]
        /\ pending = 0
        /\ runtimeSet = {} /\ connectFuture = {} /\ closed = {}
        /\ link = [c \in Conns |-> "none"]
        /\ cb = [c \in Conns |-> "quiet"]
        /\ batch = [c \in Conns |-> <<>>]

(***************************************************************************)
(* The VM thread: instructions of the running coroutine.                   *)
(***************************************************************************)

\* The running coroutine has no frame left.
LeaveCoroutine == /\ pc' = back /\ cur' = None /\ op' = None /\ UNCHANGED <<back, late>>

\* push_back of the list s on ready_coroutines by the owner of `self`: of two
\* pushes that overlap either may be lost.
PushReady(self, s) ==
    LET others == {c \in Conns \ {self} : cb[c] = "push"}
    IN \/ ready' = ready \o s /\ batch' = [batch EXCEPT ![self] = <<>>]
       \/ /\ others # {}
          /\ ready' = ready /\ batch' = [batch EXCEPT ![self] = <<>>]
       \/ \E c \in others :
            /\ ready' = ready \o s
            /\ batch' = [batch EXCEPT ![self] = <<>>, ![c] = <<>>]

\* The same push by the VM thread, which has no batch.
PushReadyVm(k) ==
    \/ ready' = Append(ready, k) /\ UNCHANGED batch
    \/ \E c \in Conns : cb[c] = "push" /\ UNCHANGED <<ready, batch>>
    \/ \E c \in Conns :
         /\ cb[c] = "push"
         /\ ready' = Append(ready, k)
         /\ batch' = [batch EXCEPT ![c] = <<>>]

\* ASYNC_CALL
Spawn(k) ==
    /\ pc = "code" /\ k \notin spawned
    /\ spawned' = spawned \union {k}
    /\ PushReadyVm(k)
    /\ UNCHANGED <<vmVars, waiting, waitingOn, delivered, resolved, pending,
                   wtVars, link, cb>>

\* WT_CONNECT, backend->connect: it fails at once and returns a closed handle,
\* or ConnectionStart has been called and callbacks can come.
StartConnect(c) ==
    /\ pc = "code" /\ link[c] = "none"
    /\ \/ link' = [link EXCEPT ![c] = "handshake"] /\ UNCHANGED closed
       \/ link' = [link EXCEPT ![c] = "down"] /\ closed' = closed \union {c}
    /\ pc' = "bind" /\ op' = c
    /\ UNCHANGED <<cur, back, late, ready, waiting, coroVars, resolved, pending,
                   runtimeSet, connectFuture, cb, batch>>

\* wt->runtime = &runtime
BindRuntime ==
    /\ pc = "bind"
    /\ runtimeSet' = runtimeSet \union {op}
    /\ pc' = "test"
    /\ UNCHANGED <<cur, op, back, late, ready, waiting, coroVars, resolved, pending,
                   connectFuture, closed, link, cb, batch>>

\* A closed handle gives a resolved future; any other one goes on.
TestClosed ==
    /\ pc = "test"
    /\ IF op \in closed
       THEN resolved' = resolved \union {op} /\ pc' = "code" /\ op' = None
       ELSE pc' = "setFuture" /\ UNCHANGED <<resolved, op>>
    /\ UNCHANGED <<cur, back, late, ready, waiting, coroVars, pending, wtVars, link,
                   cb, batch>>

\* wt->connect_future = future
SetFuture ==
    /\ pc = "setFuture"
    /\ connectFuture' = connectFuture \union {op}
    /\ pc' = "unresolve"
    /\ UNCHANGED <<cur, op, back, late, ready, waiting, coroVars, resolved, pending,
                   runtimeSet, closed, link, cb, batch>>

\* future->is_resolved = false, after the callback can have set it
Unresolve ==
    /\ pc = "unresolve"
    /\ resolved' = resolved \ {op}
    /\ pc' = "count"
    /\ UNCHANGED <<cur, op, back, late, ready, waiting, coroVars, pending, wtVars,
                   link, cb, batch>>

\* pending_futures++
CountUp ==
    /\ pc = "count"
    /\ pending' = (pending + 1) % CounterSize
    /\ pc' = "code" /\ op' = None
    /\ UNCHANGED <<cur, back, late, ready, waiting, coroVars, resolved, wtVars, link,
                   cb, batch>>

\* The futures the program holds: those WT_CONNECT has pushed.
Held == {c \in Conns : link[c] # "none"} \ {op}

\* CO_AWAIT reads is_resolved; a resolved future delivers its value at once.
Await(c) ==
    /\ pc = "code" /\ c \in Held
    /\ IF c \in resolved
       THEN /\ delivered' = [delivered EXCEPT ![cur] = @ \union {c}]
            /\ UNCHANGED <<pc, op>>
       ELSE pc' = "park" /\ op' = c /\ UNCHANGED delivered
    /\ UNCHANGED <<cur, back, late, ready, waiting, waitingOn, spawned, resolved,
                   pending, wtVars, link, cb, batch>>

\* CO_AWAIT saves the frame and registers the coroutine with the future.
Park ==
    /\ pc = "park"
    /\ waiting' = [waiting EXCEPT ![op] = Append(@, cur)]
    /\ waitingOn' = [waitingOn EXCEPT ![cur] = op]
    /\ LeaveCoroutine
    /\ UNCHANGED <<ready, spawned, delivered, resolved, pending, wtVars, link,
                   cb, batch>>

\* The coroutine returns.
Finish ==
    /\ pc = "code"
    /\ LeaveCoroutine
    /\ UNCHANGED <<ready, waiting, coroVars, resolved, pending, wtVars, link,
                   cb, batch>>

(***************************************************************************)
(* The VM thread: the event loop of run_bytecode.                          *)
(***************************************************************************)
LoopStep(from, to) ==
    /\ pc = from /\ pc' = to
    /\ UNCHANGED <<cur, op, back, late, ready, waiting, coroVars, resolved, pending,
                   wtVars, link, cb, batch>>

\* while (!ready_coroutines.empty() || pending_futures.load() > 0): two reads
WhileReady == LoopStep("while1", IF ready # <<>> THEN "drain" ELSE "while2")
WhilePending == LoopStep("while2", IF pending > 0 THEN "drain" ELSE "exit")

\* The inner loop resumes the oldest ready coroutine, and hands it the value
\* of the future it was parked on if that is resolved.
Resume ==
    /\ pc = "drain" /\ ready # <<>>
    /\ LET k == Head(ready)
       IN /\ cur' = k
          /\ IF waitingOn[k] \in resolved
             THEN /\ delivered' = [delivered EXCEPT ![k] = @ \union {waitingOn[k]}]
                  /\ waitingOn' = [waitingOn EXCEPT ![k] = None]
             ELSE UNCHANGED <<delivered, waitingOn>>
    /\ ready' = Tail(ready)
    /\ pc' = "code" /\ back' = "drain"
    /\ UNCHANGED <<op, late, waiting, spawned, resolved, pending, wtVars, link, cb, batch>>

Drained == ready = <<>> /\ LoopStep("drain", "poll")

\* if (ready_coroutines.empty() && pending_futures.load() > 0)
Poll == LoopStep("poll", IF ready = <<>> /\ pending > 0 THEN "sleep" ELSE "while1")

\* event_cv.wait_for, 100 ms at most: event_ready only shortens the sleep, so
\* it and its mutex have no counterpart here.
WakeUp == LoopStep("sleep", "while1")

(***************************************************************************)
(* The callback of connection c.                                           *)
(***************************************************************************)
Answerable(c) ==
    /\ cb[c] = "quiet"
    /\ late => (op # c \/ pc \notin Instructions)

\* Mutant: the callback queues the waiters and never sets is_resolved.
NextUnresolved(c) == IF c \in connectFuture /\ c \in runtimeSet THEN "read" ELSE "quiet"

\* What both events do last: resolve the connect future if there is one.
NextOf(c) == IF c \in connectFuture /\ c \in runtimeSet THEN "resolve" ELSE "quiet"

Connected(c) ==
    /\ Answerable(c) /\ link[c] = "handshake"
    /\ link' = [link EXCEPT ![c] = "up"]
    /\ cb' = [cb EXCEPT ![c] = NextOf(c)]
    /\ UNCHANGED <<vmVars, ready, waiting, coroVars, resolved, pending, wtVars, batch>>

\* Mutant: a failed handshake leaves the connect future alone.
ShutdownSilent(c) ==
    /\ Answerable(c) /\ link[c] \in {"handshake", "up"}
    /\ link' = [link EXCEPT ![c] = "down"]
    /\ closed' = closed \union {c}
    /\ UNCHANGED <<vmVars, ready, waiting, coroVars, resolved, pending,
                   runtimeSet, connectFuture, cb, batch>>

\* The handshake failed, or the connection has gone.
ShutdownComplete(c) ==
    /\ Answerable(c) /\ link[c] \in {"handshake", "up"}
    /\ link' = [link EXCEPT ![c] = "down"]
    /\ closed' = closed \union {c}
    /\ cb' = [cb EXCEPT ![c] = NextOf(c)]
    /\ UNCHANGED <<vmVars, ready, waiting, coroVars, resolved, pending,
                   runtimeSet, connectFuture, batch>>

CbStep(c, from, to) == cb[c] = from /\ cb' = [cb EXCEPT ![c] = to]

\* connect_future->is_resolved = true
CbResolve(c) ==
    /\ CbStep(c, "resolve", "read")
    /\ resolved' = resolved \union {c}
    /\ UNCHANGED <<vmVars, ready, waiting, coroVars, pending, wtVars, link, batch>>

\* on_future_resolved: go through waiting_coroutines, push each one, clear it.
CbRead(c) ==
    /\ CbStep(c, "read", "push")
    /\ batch' = [batch EXCEPT ![c] = waiting[c]]
    /\ UNCHANGED <<vmVars, ready, waiting, coroVars, resolved, pending, wtVars, link>>

CbPush(c) ==
    /\ CbStep(c, "push", "clear")
    /\ PushReady(c, batch[c])
    /\ UNCHANGED <<vmVars, waiting, coroVars, resolved, pending, wtVars, link>>

CbClear(c) ==
    /\ CbStep(c, "clear", "check")
    /\ waiting' = [waiting EXCEPT ![c] = <<>>]
    /\ UNCHANGED <<vmVars, ready, coroVars, resolved, pending, wtVars, link, batch>>

\* if (pending_futures.load() > 0) pending_futures--: two accesses
CbCheck(c) ==
    /\ CbStep(c, "check", IF pending > 0 THEN "dec" ELSE "forget")
    /\ UNCHANGED <<vmVars, ready, waiting, coroVars, resolved, pending, wtVars,
                   link, batch>>

CbDecrement(c) ==
    /\ CbStep(c, "dec", "forget")
    /\ pending' = (pending - 1) % CounterSize
    /\ UNCHANGED <<vmVars, ready, waiting, coroVars, resolved, wtVars, link, batch>>

\* Mutant: connect_future stays set, for SHUTDOWN_COMPLETE to find.
CbForgetNothing(c) ==
    /\ CbStep(c, "forget", "quiet")
    /\ UNCHANGED <<vmVars, ready, waiting, coroVars, resolved, pending,
                   wtVars, link, batch>>

\* wt->connect_future = nullptr
CbForget(c) ==
    /\ CbStep(c, "forget", "quiet")
    /\ connectFuture' = connectFuture \ {c}
    /\ UNCHANGED <<vmVars, ready, waiting, coroVars, resolved, pending,
                   runtimeSet, closed, link, batch>>

Answer(c) == link[c] = "handshake" /\ (Connected(c) \/ ShutdownComplete(c))

VmStep == \/ \E k \in Coros : Spawn(k)
          \/ \E c \in Conns : StartConnect(c) \/ Await(c)
          \/ BindRuntime \/ TestClosed \/ SetFuture \/ Unresolve \/ CountUp
          \/ Park \/ Finish
          \/ WhileReady \/ WhilePending \/ Resume \/ Drained \/ Poll \/ WakeUp

CallbackStep(c) == \/ CbResolve(c) \/ CbRead(c) \/ CbPush(c) \/ CbClear(c)
                   \/ CbCheck(c) \/ CbDecrement(c) \/ CbForget(c)

Next == \/ VmStep
        \/ \E c \in Conns : Connected(c) \/ ShutdownComplete(c) \/ CallbackStep(c)

Spec == Init /\ [][Next]_vars

\* The VM thread runs, a coroutine does not compute for ever, a handshake is
\* answered or given up, and a callback that has begun goes on.
FairSpec == /\ Spec
            /\ WF_vars(VmStep)
            /\ \A c \in Conns : WF_vars(CallbackStep(c)) /\ WF_vars(Answer(c))

-----------------------------------------------------------------------------
TypeOK ==
    /\ pc \in VmPlaces /\ back \in {"while1", "drain"}
    /\ cur \in Coros \union {None} /\ op \in Conns \union {None}
    /\ ready \in Seq(Coros) /\ spawned \in SUBSET Coros
    /\ waiting \in [Conns -> Seq(Coros)] /\ batch \in [Conns -> Seq(Coros)]
    /\ waitingOn \in [Coros -> Conns \union {None}]
    /\ delivered \in [Coros -> SUBSET Conns]
    /\ resolved \in SUBSET Conns /\ pending \in 0..CounterSize - 1
    /\ runtimeSet \in SUBSET Conns /\ connectFuture \in SUBSET Conns
    /\ closed \in SUBSET Conns
    /\ link \in [Conns -> {"none", "handshake", "up", "down"}]
    /\ cb \in [Conns -> CbPlaces]

\* Connects the VM thread has counted and no callback has finished with.
Outstanding == {c \in connectFuture : cb[c] # "forget" /\ (op = c => pc \notin Instructions)}

\* Whenever the VM thread is not inside WT_CONNECT, pending_futures is at
\* least the number of connects still to be answered, however the callbacks'
\* unsynchronised test and decrement interleave with its increment.
NeverUndercounted ==
    pc \notin Instructions => pending >= Cardinality(Outstanding)

\* run_bytecode does not leave its loop while a connect is unanswered.
NoEarlyExit == pc = "exit" => Outstanding = {}

\* A coroutine that comes out of the queue after an await gets its value: the
\* callback resolves the future before it queues anybody (and WT_CONNECT no
\* longer resets the future when the answer comes late).
ResumedWithValue ==
    late => \A k \in Elements(ready) : waitingOn[k] # None => waitingOn[k] \in resolved

\* No coroutine is queued twice, nor queued while it executes, even when the
\* connection goes down after it came up.
QueuedOnce ==
    /\ NoRepeats(ready) /\ cur \notin Elements(ready)
    /\ \A c \in Conns :
         cb[c] = "push" =>
             Elements(batch[c]) \intersect (Elements(ready) \union {cur}) = {}

\* An unanswered connect is counted, and the loop stays for it.
ConnectsCounted == NeverUndercounted /\ NoEarlyExit

\* What comes out of the queue comes once, and finds its value.
ConnectInv == TypeOK /\ QueuedOnce /\ ResumedWithValue

\* run_bytecode leaves its loop once every handshake is answered.
LoopEnds == late ~> pc = "exit"

\* "Future to resolve when connect completes" (claw_vm.h): once the CONNECTED
\* callback is over, the future wt_connect returned is resolved.
ConnectResolves ==
    \A c \in Held : link[c] = "up" /\ cb[c] = "quiet" => c \in resolved
=============================================================================
