----------------------------- MODULE Coroutines -----------------------------
(***************************************************************************)
(* The async part of the Claw VM, as one thread executes it: activations   *)
(* of async functions, the futures they resolve, the coroutines parked on  *)
(* those futures and the event loop that drains ready_coroutines           *)
(* (vm/claw_vm.cpp, bytecode/bytecode_executor.cpp).                       *)
(*                                                                         *)
(* An activation t owns the future kept in its local slot 0, so futures    *)
(* and activations share one set of names.  CO_AWAIT allocates a fresh     *)
(* CoroutineValue each time it parks an activation; at most one of them is *)
(* current, so a coroutine is written as the activation it continues, and  *)
(* the is_complete flag, which is only ever set on a coroutine that has    *)
(* left the queue, has no counterpart.                                     *)
(***************************************************************************)
EXTENDS Integers, Sequences, SeqFacts

CONSTANTS Tasks,       \* activations of async functions a run can make
          Main,        \* the activation of the entry function
          NoTask,      \* the null waiting_on pointer
          MaxFrames    \* MAX_CALL_FRAMES

ASSUME MainAssumption == Main \in Tasks
ASSUME NoTaskAssumption == NoTask \notin Tasks
ASSUME MaxFramesAssumption == MaxFrames \in Nat \ {0}

VARIABLES frames,      \* call_frames, bottom first: who runs, who called it
          running,     \* ClawVM::running
          ready,       \* ready_coroutines
          waiting,     \* future |-> its waiting_coroutines
          waitingOn,   \* activation |-> the future its coroutine waits on
          handed,      \* the futures ASYNC_CALL has given to the program
          resolved,    \* the futures with is_resolved
          status,      \* how far each activation has come
          delivered,   \* activation |-> futures whose value CO_AWAIT gave it
          phase        \* where execute_in_vm is

vars == <<frames, running, ready, waiting, waitingOn, handed, resolved,
          status, delivered, phase>>

Statuses == {"fresh", "live", "returned", "fellOff", "failed"}
Phases == {"main", "loop", "done", "aborted"}

Top == Last(frames)
Below == Front(frames)

\* dispatch() is executing the instruction of the top frame
Executing == running /\ frames # <<>> /\ phase \in {"main", "loop"}

\* The current frame is gone: go on in the caller, or stop when there is none.
PopFrame == /\ frames' = Below
            /\ running' = (Below # <<>>)

-----------------------------------------------------------------------------
Init == /\ frames = <<Main>>
        /\ running = TRUE
        /\ ready = <<>>
        /\ waiting = [f \in Tasks |-> <<>>]
        /\ waitingOn = [t \in Tasks |-> NoTask]
        /\ handed = {}
        /\ resolved = {}
        /\ status = [t \in Tasks |-> IF t = Main THEN "live" ELSE "fresh"]
        /\ delivered = [t \in Tasks |-> {}]
        /\ phase = "main"

\* Mutant: the callback leaves the list of waiters as it is.
WakeKeepsList(f) == /\ ready' = ready \o waiting[f]
                    /\ UNCHANGED waiting

\* Mutant: the callback wakes one waiter and clears the list.
WakeOne(f) == /\ ready' = IF waiting[f] = <<>> THEN ready ELSE Append(ready, Head(waiting[f]))
              /\ waiting' = [waiting EXCEPT ![f] = <<>>]

\* on_future_resolved: everybody parked on f goes to the ready queue.
WakeWaiters(f) == /\ ready' = ready \o waiting[f]
                  /\ waiting' = [waiting EXCEPT ![f] = <<>>]

\* Mutant: the pointer is not cleared once its value was handed out.
HandAndKeep(t) ==
    /\ delivered' = IF waitingOn[t] \in resolved
                    THEN [delivered EXCEPT ![t] = @ \union {waitingOn[t]}]
                    ELSE delivered
    /\ UNCHANGED waitingOn

\* resume_coroutine hands the coroutine of t the value it was parked for, if
\* it was parked and the value is there.
HandValue(t) ==
    IF waitingOn[t] \in resolved
    THEN /\ delivered' = [delivered EXCEPT ![t] = @ \union {waitingOn[t]}]
         /\ waitingOn' = [waitingOn EXCEPT ![t] = NoTask]
    ELSE UNCHANGED <<delivered, waitingOn>>

\* ASYNC_CALL: a future, a coroutine that starts at ip 0, and a place in the
\* queue; the caller goes on with the future.
AsyncCall(t) ==
    /\ Executing
    /\ status[t] = "fresh"
    /\ status' = [status EXCEPT ![t] = "live"]
    /\ ready' = Append(ready, t)
    /\ handed' = handed \union {t}
    /\ UNCHANGED <<frames, running, waiting, waitingOn, resolved, delivered,
                   phase>>

\* CALL of an async function held in a variable: the compiler emits
\* ASYNC_CALL only when the callee is the function's own name, so the callee
\* runs on top of its caller and FUTURE_CREATE makes its future.
DirectCall(t) ==
    /\ Executing
    /\ status[t] = "fresh"
    /\ Len(frames) < MaxFrames
    /\ status' = [status EXCEPT ![t] = "live"]
    /\ frames' = Append(frames, t)
    /\ UNCHANGED <<handed, running, ready, waiting, waitingOn, resolved, delivered,
                   phase>>

\* CO_AWAIT on a resolved future pushes its value and goes on.
AwaitResolved(f) ==
    /\ Executing
    /\ f \in handed \intersect resolved
    /\ delivered' = [delivered EXCEPT ![Top] = @ \union {f}]
    /\ UNCHANGED <<handed, frames, running, ready, waiting, waitingOn, resolved,
                   status, phase>>

\* CO_AWAIT on a pending future parks the current frame, and only that one:
\* a caller below it goes on at once.
AwaitPending(f) ==
    /\ Executing
    /\ f \in handed \ resolved
    /\ waiting' = [waiting EXCEPT ![f] = Append(@, Top)]
    /\ waitingOn' = [waitingOn EXCEPT ![Top] = f]
    /\ PopFrame
    /\ UNCHANGED <<handed, ready, resolved, status, delivered, phase>>

\* FUTURE_RESOLVE, emitted for `return e` in an async function: resolve the
\* future of slot 0, queue whoever waits on it (on_future_resolved), leave.
Return ==
    /\ Executing
    /\ resolved' = resolved \union {Top}
    /\ WakeWaiters(Top)
    /\ status' = [status EXCEPT ![Top] = "returned"]
    /\ PopFrame
    /\ UNCHANGED <<handed, waitingOn, delivered, phase>>

\* RET or RET_NULL with no FUTURE_RESOLVE before it: what the compiler puts
\* at the end of a body whose last statement is not a return.
FallOff ==
    /\ Executing
    /\ status' = [status EXCEPT ![Top] = "fellOff"]
    /\ PopFrame
    /\ UNCHANGED <<handed, ready, waiting, waitingOn, resolved, delivered, phase>>

\* An instruction reports an error (dispatch returns false), or throws while
\* execute() is there to catch it: running is cleared, the frames stay.
Fail ==
    /\ Executing
    /\ running' = FALSE
    /\ status' = [status EXCEPT ![Top] = "failed"]
    /\ UNCHANGED <<handed, frames, ready, waiting, waitingOn, resolved, delivered,
                   phase>>

\* A throw under resume_coroutine, which catches nothing, ends the run.
Throw ==
    /\ Executing
    /\ phase = "loop"
    /\ phase' = "aborted"
    /\ status' = [status EXCEPT ![Top] = "failed"]
    /\ UNCHANGED <<handed, frames, running, ready, waiting, waitingOn, resolved,
                   delivered>>

\* vm.execute() is back in execute_in_vm.
MainLeaves ==
    /\ phase = "main"
    /\ ~running
    /\ phase' = "loop"
    /\ UNCHANGED <<handed, frames, running, ready, waiting, waitingOn, resolved,
                   status, delivered>>

\* Mutant: the loop reads the front of the queue and does not pop it.
ResumeKeepsFront ==
    /\ phase = "loop"
    /\ ~running
    /\ ready # <<>>
    /\ UNCHANGED ready
    /\ frames' = Append(frames, Head(ready))
    /\ running' = TRUE
    /\ HandValue(Head(ready))
    /\ UNCHANGED <<handed, waiting, resolved, status, phase>>

\* One turn of the event loop: take the oldest ready coroutine, put its frame
\* on whatever frames are left, hand it the value it waited for, run.
Resume ==
    /\ phase = "loop"
    /\ ~running
    /\ ready # <<>>
    /\ ready' = Tail(ready)
    /\ frames' = Append(frames, Head(ready))
    /\ running' = TRUE
    /\ HandValue(Head(ready))
    /\ UNCHANGED <<handed, waiting, resolved, status, phase>>

LoopEnds ==
    /\ phase = "loop"
    /\ ~running
    /\ ready = <<>>
    /\ phase' = "done"
    /\ UNCHANGED <<handed, frames, running, ready, waiting, waitingOn, resolved,
                   status, delivered>>

Next == \/ \E t \in Tasks : AsyncCall(t) \/ DirectCall(t)
        \/ \E f \in Tasks : AwaitResolved(f) \/ AwaitPending(f)
        \/ Return \/ FallOff \/ Fail \/ Throw
        \/ MainLeaves \/ Resume \/ LoopEnds

Spec == Init /\ [][Next]_vars

\* The thread that runs the program keeps running it, and no function of the
\* program loops for ever.
FairSpec == Spec /\ WF_vars(Next)

-----------------------------------------------------------------------------
TypeOK ==
    /\ frames \in Seq(Tasks)
    /\ running \in BOOLEAN
    /\ ready \in Seq(Tasks)
    /\ waiting \in [Tasks -> Seq(Tasks)]
    /\ waitingOn \in [Tasks -> Tasks \union {NoTask}]
    /\ handed \in SUBSET Tasks
    /\ resolved \in SUBSET Tasks
    /\ status \in [Tasks -> Statuses]
    /\ delivered \in [Tasks -> SUBSET Tasks]
    /\ phase \in Phases

Parked == UNION {Elements(waiting[f]) : f \in Tasks}

\* One continuation: an activation is on the call stack, or in the ready
\* queue, or parked on one future, and there once.  A coroutine queued twice
\* would run its saved frame again.
OneContinuation ==
    /\ NoRepeats(frames) /\ NoRepeats(ready)
    /\ \A f \in Tasks : NoRepeats(waiting[f])
    /\ Elements(frames) \intersect Elements(ready) = {}
    /\ (Elements(frames) \union Elements(ready)) \intersect Parked = {}
    /\ \A f, g \in Tasks :
         f # g => Elements(waiting[f]) \intersect Elements(waiting[g]) = {}

\* No continuation is dropped: an activation that was started and has not
\* left its function is still somewhere the VM can get at it.
NothingDropped ==
    \A t \in Tasks :
        status[t] = "live" =>
            t \in Elements(frames) \union Elements(ready) \union Parked

\* No lost wakeup: nobody is parked on a future that is resolved.
NoSleeper == \A f \in resolved : waiting[f] = <<>>

\* A coroutine in the queue that was parked on a future finds it resolved,
\* so CO_AWAIT never resumes without the value it promised.
ReadyHasValue ==
    \A t \in Elements(ready) : waitingOn[t] # NoTask => waitingOn[t] \in resolved

\* The value an await yields comes from a future that has one.
NoPhantomValue == \A t \in Tasks : delivered[t] \subseteq resolved

\* The list a coroutine is on is the list of the future it names.
WaitMatches == \A f \in Tasks : \A t \in Elements(waiting[f]) : waitingOn[t] = f

\* An activation nobody has started has no continuation and awaits nothing.
FreshNowhere ==
    \A t \in Tasks :
        status[t] = "fresh" =>
            /\ t \notin Elements(frames) \union Elements(ready) \union Parked
            /\ waitingOn[t] = NoTask

\* What runs, or was interrupted by a failure, waits for nothing.
StackAwaitsNothing == \A t \in Elements(frames) : waitingOn[t] = NoTask

\* The continuations, the lists of waiters, the queue and the futures fit
\* together at every moment; inductive, for the parts lean on each other.
CoroutineInv == /\ TypeOK
                /\ OneContinuation /\ NothingDropped
                /\ NoSleeper /\ ReadyHasValue /\ NoPhantomValue
                /\ WaitMatches /\ FreshNowhere /\ StackAwaitsNothing

\* Whoever waits on a future that gets resolved receives its value, unless a
\* throw ends the whole run first.
Woken ==
    \A t, f \in Tasks :
        waitingOn[t] = f /\ f \in resolved ~>
            f \in delivered[t] \/ phase = "aborted"

\* The queue, the lists of waiters and the pointers of the VM implement what
\* the program is promised: who awaits does nothing, not even after a failure
\* of another coroutine, until the value is there, and receives it once.
Promise == INSTANCE Futures
               WITH None <- NoTask, blocked <- waitingOn, valued <- resolved,
                    received <- delivered

KeepsPromise == Promise!Spec

\* The event loop of execute_in_vm comes to an end.
LoopTerminates == <>(phase \in {"done", "aborted"})

\* "Event loop: process ready coroutines until all complete"
\* (bytecode_executor.cpp): when the loop has ended no coroutine is left
\* waiting on a function that ran to its end.
AllComplete ==
    phase = "done" =>
        \A f \in Tasks : status[f] \in {"returned", "fellOff"} => waiting[f] = <<>>
=============================================================================
