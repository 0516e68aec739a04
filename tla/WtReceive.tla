----------------------------- MODULE WtReceive -----------------------------
(***************************************************************************)
(* wt_recv on one msquic connection or stream (vm/webtransport_backend.cpp):*)
(* the VM thread waits on cv under queue_mutex, the callbacks of msquic    *)
(* fill incoming_queue or say that nothing more will come.  Only the queue *)
(* is changed under the mutex; closed and msquic_send_shutdown are not.    *)
(*                                                                         *)
(* External: msquic makes one callback of a handle at a time, PEER_SEND_   *)
(* SHUTDOWN and SHUTDOWN_COMPLETE at most once, no RECEIVE after either    *)
(* and none of them once the handle is closed; a condition variable may    *)
(* wake its waiter for no reason.                                          *)
(***************************************************************************)
EXTENDS Integers, Sequences, SeqFacts

CONSTANT Msgs  \* what the peer sends, each once

VARIABLES quiet,     \* in this run no flag is set between test and wait of recv
          rpc,       \* where the VM thread is in recv
          timed,     \* that recv has a timeout
          owner,     \* holder of queue_mutex
          queue,     \* incoming_queue
          closed,    \* closed
          finished,  \* msquic_send_shutdown
          cb,        \* a callback that has set a flag and must notify
          arrived,   \* everything RECEIVE has put in the queue
          got        \* every message recv has returned

vars == <<quiet, rpc, timed, owner, queue, closed, finished, cb, arrived, got>>
rest == <<quiet, arrived, got>>

Init == /\ quiet \in BOOLEAN
        /\ rpc = "idle" /\ timed = FALSE /\ owner = "none"
        /\ queue = <<>> /\ closed = FALSE /\ finished = FALSE /\ cb = "quiet"
        /\ arrived = <<>> /\ got = <<>>

Pred == queue # <<>> \/ closed \/ finished

-----------------------------------------------------------------------------
\* recv tests closed before it takes the mutex.
Enter(t) ==
    /\ rpc = "idle" /\ timed' = t
    /\ rpc' = IF closed THEN "closed" ELSE "lock"
    /\ UNCHANGED <<owner, queue, closed, finished, cb, rest>>

\* The empty string, whatever is in the queue.
Refuse ==
    /\ rpc = "closed" /\ rpc' = "idle"
    /\ UNCHANGED <<timed, owner, queue, closed, finished, cb, rest>>

\* Taking the mutex, the first time or on the way out of a wait.
Lock ==
    /\ rpc \in {"lock", "woken", "late"} /\ owner = "none"
    /\ owner' = "vm"
    /\ rpc' = IF rpc = "late" THEN "take" ELSE "test"
    /\ UNCHANGED <<timed, queue, closed, finished, cb, rest>>

\* The predicate, evaluated under the mutex.
Test ==
    /\ rpc = "test"
    /\ rpc' = IF Pred THEN "take" ELSE "block"
    /\ UNCHANGED <<timed, owner, queue, closed, finished, cb, rest>>

\* Waiting and giving up the mutex are one step.
Block ==
    /\ rpc = "block"
    /\ rpc' = "blocked" /\ owner' = "none"
    /\ UNCHANGED <<timed, queue, closed, finished, cb, rest>>

\* Mutant: the first message is returned and stays in the queue.
TakeAndKeep ==
    /\ rpc = "take"
    /\ rpc' = "idle" /\ owner' = "none"
    /\ got' = IF queue # <<>> THEN Append(got, Head(queue)) ELSE got
    /\ UNCHANGED <<timed, queue, closed, finished, cb, quiet, arrived>>

\* The first message of the queue, or the empty string.
Take ==
    /\ rpc = "take"
    /\ rpc' = "idle" /\ owner' = "none"
    /\ IF queue # <<>>
       THEN got' = Append(got, Head(queue)) /\ queue' = Tail(queue)
       ELSE UNCHANGED <<got, queue>>
    /\ UNCHANGED <<timed, closed, finished, cb, quiet, arrived>>

\* wait_for gives up after timeout_ms; its result is the predicate's.
TimeOut ==
    /\ rpc = "blocked" /\ timed
    /\ rpc' = "late"
    /\ UNCHANGED <<timed, owner, queue, closed, finished, cb, rest>>

SpuriousWakeUp ==
    /\ rpc = "blocked"
    /\ rpc' = "woken"
    /\ UNCHANGED <<timed, owner, queue, closed, finished, cb, rest>>

\* close of the handle by the program.
Close ==
    /\ rpc = "idle" /\ cb = "quiet"
    /\ closed' = TRUE
    /\ UNCHANGED <<rpc, timed, owner, queue, finished, cb, rest>>

-----------------------------------------------------------------------------
Wake == rpc' = IF rpc = "blocked" THEN "woken" ELSE rpc

\* Mutant: RECEIVE does not take queue_mutex.
ReceiveUnlocked(m) ==
    /\ cb = "quiet" /\ ~closed /\ ~finished /\ m \notin Elements(arrived)
    /\ queue' = Append(queue, m) /\ arrived' = Append(arrived, m)
    /\ Wake
    /\ UNCHANGED <<timed, owner, closed, finished, cb, quiet, got>>

\* RECEIVE: under queue_mutex, the notification included.
Receive(m) ==
    /\ cb = "quiet" /\ ~closed /\ ~finished /\ m \notin Elements(arrived)
    /\ owner = "none"
    /\ queue' = Append(queue, m) /\ arrived' = Append(arrived, m)
    /\ Wake
    /\ UNCHANGED <<timed, owner, closed, finished, cb, quiet, got>>

\* A flag is written without the mutex.
Writable == quiet => rpc # "block"

\* PEER_SEND_SHUTDOWN and SHUTDOWN_COMPLETE of the stream.
FinishStream ==
    /\ cb = "quiet" /\ ~closed /\ ~finished /\ Writable
    /\ finished' = TRUE /\ cb' = "notify"
    /\ UNCHANGED <<rpc, timed, owner, queue, closed, rest>>

\* SHUTDOWN_COMPLETE of the connection.
ShutdownConnection ==
    /\ cb = "quiet" /\ ~closed /\ Writable
    /\ closed' = TRUE /\ cb' = "notify"
    /\ UNCHANGED <<rpc, timed, owner, queue, finished, rest>>

\* Mutant: the callback that sets a flag notifies nobody.
NotifyNobody ==
    /\ cb = "notify" /\ cb' = "quiet"
    /\ UNCHANGED <<rpc, timed, owner, queue, closed, finished, rest>>

\* cv.notify_all()
Notify ==
    /\ cb = "notify" /\ cb' = "quiet"
    /\ Wake
    /\ UNCHANGED <<timed, owner, queue, closed, finished, rest>>

VmStep == Refuse \/ Lock \/ Test \/ Block \/ Take
Next == \/ \E t \in BOOLEAN : Enter(t)
        \/ VmStep \/ TimeOut \/ SpuriousWakeUp \/ Close
        \/ \E m \in Msgs : Receive(m)
        \/ FinishStream \/ ShutdownConnection \/ Notify

Spec == Init /\ [][Next]_vars

\* The VM thread runs on, a callback that has begun ends, a timeout comes.
FairSpec == Spec /\ WF_vars(VmStep) /\ WF_vars(Notify) /\ WF_vars(TimeOut)

-----------------------------------------------------------------------------
RPlaces == {"idle", "closed", "lock", "test", "block", "blocked", "woken", "late", "take"}

TypeOK ==
    /\ quiet \in BOOLEAN /\ rpc \in RPlaces /\ timed \in BOOLEAN
    /\ owner = IF rpc \in {"test", "block", "take"} THEN "vm" ELSE "none"
    /\ queue \in Seq(Msgs) /\ arrived \in Seq(Msgs) /\ got \in Seq(Msgs)
    /\ closed \in BOOLEAN /\ finished \in BOOLEAN /\ cb \in {"quiet", "notify"}
    /\ rpc = "late" => timed

\* The receiver never sleeps on a message: RECEIVE pushes and notifies under
\* the mutex that the receiver holds from its test until it is asleep.
NoSleepOnData == rpc \in {"block", "blocked"} => queue = <<>>

\* What recv has returned and what is queued are, together and in order, what
\* the peer has sent: nothing twice, nothing lost between two calls.
InOrder == got \o queue = arrived

\* A recv without a timeout comes back with a message, or from a handle that
\* is closed or finished.
EmptyMeansEnd == rpc = "take" /\ ~timed => Pred

\* The inductive invariant.
ReceiveInv == TypeOK /\ NoSleepOnData /\ InOrder /\ EmptyMeansEnd

\* A receiver on a handle that says it is over comes back.  It need not when
\* the flag and its notification fall between the test and the wait of recv.
EndWakes == quiet /\ rpc # "idle" /\ (closed \/ finished) ~> rpc = "idle"
=============================================================================
