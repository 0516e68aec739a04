-------------------------- MODULE CoroutinesProofs --------------------------
(***************************************************************************)
(* The safety properties of Coroutines hold for any number of activations  *)
(* and any depth of the call stack.  Each proof of preservation reads the  *)
(* sequences through the sets of their elements (TLAPS).          *)
(***************************************************************************)
EXTENDS Coroutines, TLAPS

USE MainAssumption, NoTaskAssumption

\* The running activation is one that exists.
LEMMA TopFacts ==
    ASSUME TypeOK, frames # <<>>
    PROVE  Top \in Tasks /\ Top \in Elements(frames)
<1>1. frames \in Seq(Tasks) /\ Len(frames) \in 1..Len(frames)
  BY DEF TypeOK
<1> QED BY <1>1 DEF Top, Last, Elements

\* What leaving the current frame does to the call stack.
LEMMA PopFrameFacts ==
    ASSUME TypeOK, OneContinuation, frames # <<>>, PopFrame
    PROVE  /\ Top \in Tasks
           /\ frames' \in Seq(Tasks) /\ running' \in BOOLEAN
           /\ Elements(frames) = Elements(frames') \union {Top}
           /\ Top \notin Elements(frames')
           /\ NoRepeats(frames')
           /\ Top \notin Elements(ready)
           /\ Top \notin Parked
<1>1. frames \in Seq(Tasks) /\ NoRepeats(frames)
  BY DEF TypeOK, OneContinuation
<1>2. Top \in Tasks /\ frames' \in Seq(Tasks)
      /\ Elements(frames) = Elements(frames') \union {Top}
      /\ Top \notin Elements(frames') /\ NoRepeats(frames')
  BY <1>1, ElementsFront DEF PopFrame, Top, Below
<1>3. Top \notin Elements(ready) /\ Top \notin Parked
  BY <1>2 DEF OneContinuation
<1> QED BY <1>2, <1>3 DEF PopFrame

\* The run starts with the entry function on the stack and nothing else.
LEMMA InitInv == Init => CoroutineInv
<1> SUFFICES ASSUME Init PROVE CoroutineInv
  OBVIOUS
<1> USE DEF Init
<1>1. /\ frames \in Seq(Tasks) /\ Elements(frames) = {Main} /\ NoRepeats(frames)
  BY DEF Elements, NoRepeats
<1>2. /\ Elements(ready) = {} /\ NoRepeats(ready)
      /\ \A f \in Tasks : Elements(waiting[f]) = {} /\ NoRepeats(waiting[f])
  BY ElementsEmpty
<1>3. Parked = {}
  BY <1>2 DEF Parked
<1>4. TypeOK
  BY <1>1 DEF TypeOK, Statuses, Phases
<1>5. OneContinuation
  BY <1>1, <1>2, <1>3 DEF OneContinuation
<1>6. NothingDropped
  BY <1>1 DEF NothingDropped
<1>7. NoSleeper /\ NoPhantomValue
  BY DEF NoSleeper, NoPhantomValue
<1>8. ReadyHasValue /\ WaitMatches
  BY <1>2 DEF ReadyHasValue, WaitMatches
<1>9. FreshNowhere
  BY <1>1, <1>2, <1>3 DEF FreshNowhere
<1>10. StackAwaitsNothing
  BY <1>1 DEF StackAwaitsNothing
<1> QED BY <1>4, <1>5, <1>6, <1>7, <1>8, <1>9, <1>10 DEF CoroutineInv

\* ASYNC_CALL queues an activation that was nowhere.
LEMMA AsyncCallInv ==
    ASSUME CoroutineInv, NEW t \in Tasks, AsyncCall(t)
    PROVE  CoroutineInv'
<1> USE DEF CoroutineInv, AsyncCall
<1>1. /\ ready' \in Seq(Tasks)
      /\ Elements(ready') = Elements(ready) \union {t} /\ NoRepeats(ready')
  BY ElementsAppend, NoRepeatsAppend DEF TypeOK, OneContinuation, FreshNowhere
<1>2. Parked' = Parked
  BY DEF Parked
<1>3. TypeOK'
  BY <1>1 DEF TypeOK, Statuses
<1>4. OneContinuation'
  BY <1>1, <1>2 DEF OneContinuation, FreshNowhere
<1>5. NothingDropped'
  BY <1>1, <1>2 DEF NothingDropped, TypeOK
<1>6. NoSleeper' /\ NoPhantomValue' /\ WaitMatches'
  BY DEF NoSleeper, NoPhantomValue, WaitMatches
<1>7. ReadyHasValue'
  BY <1>1 DEF ReadyHasValue, FreshNowhere
<1>8. FreshNowhere'
  BY <1>1, <1>2 DEF FreshNowhere, TypeOK
<1>9. StackAwaitsNothing'
  BY DEF StackAwaitsNothing
<1> QED BY <1>3, <1>4, <1>5, <1>6, <1>7, <1>8, <1>9

\* CALL of an async function puts on the stack an activation that was nowhere.
LEMMA DirectCallInv ==
    ASSUME CoroutineInv, NEW t \in Tasks, DirectCall(t)
    PROVE  CoroutineInv'
<1> USE DEF CoroutineInv, DirectCall
<1>1. /\ frames' \in Seq(Tasks)
      /\ Elements(frames') = Elements(frames) \union {t} /\ NoRepeats(frames')
  BY ElementsAppend, NoRepeatsAppend DEF TypeOK, OneContinuation, FreshNowhere
<1>2. Parked' = Parked
  BY DEF Parked
<1>3. TypeOK'
  BY <1>1 DEF TypeOK, Statuses
<1>4. OneContinuation'
  BY <1>1, <1>2 DEF OneContinuation, FreshNowhere
<1>5. NothingDropped'
  BY <1>1, <1>2 DEF NothingDropped, TypeOK
<1>6. NoSleeper' /\ NoPhantomValue' /\ WaitMatches' /\ ReadyHasValue'
  BY DEF NoSleeper, NoPhantomValue, WaitMatches, ReadyHasValue
<1>7. FreshNowhere'
  BY <1>1, <1>2 DEF FreshNowhere, TypeOK
<1>8. StackAwaitsNothing'
  BY <1>1 DEF StackAwaitsNothing, FreshNowhere
<1> QED BY <1>3, <1>4, <1>5, <1>6, <1>7, <1>8

\* CO_AWAIT on a pending future moves the top of the stack to one list of
\* waiters.
LEMMA AwaitPendingInv ==
    ASSUME CoroutineInv, NEW f \in Tasks, AwaitPending(f)
    PROVE  CoroutineInv'
<1> USE DEF CoroutineInv
<1> DEFINE p == Top
<1>1. /\ p \in Tasks
      /\ frames' \in Seq(Tasks) /\ running' \in BOOLEAN
      /\ Elements(frames) = Elements(frames') \union {p}
      /\ p \notin Elements(frames') /\ NoRepeats(frames')
      /\ p \notin Elements(ready) /\ p \notin Parked
  BY PopFrameFacts DEF AwaitPending, Executing
<1>2. /\ waiting' = [waiting EXCEPT ![f] = Append(@, p)]
      /\ waitingOn' = [waitingOn EXCEPT ![p] = f]
      /\ f \notin resolved
      /\ UNCHANGED <<handed, ready, resolved, status, delivered, phase>>
  BY DEF AwaitPending
<1> HIDE DEF p
<1>3. /\ waiting[f] \in Seq(Tasks) /\ NoRepeats(waiting[f])
      /\ p \notin Elements(waiting[f])
  BY <1>1 DEF TypeOK, OneContinuation, Parked
<1>4. /\ waiting' \in [Tasks -> Seq(Tasks)]
      /\ Elements(waiting'[f]) = Elements(waiting[f]) \union {p}
      /\ NoRepeats(waiting'[f])
      /\ \A g \in Tasks \ {f} : waiting'[g] = waiting[g]
  BY <1>1, <1>2, <1>3, ElementsAppend, NoRepeatsAppend DEF TypeOK
<1>5. Parked' = Parked \union {p}
  <2> SUFFICES ASSUME NEW x
               PROVE  (\E g \in Tasks : x \in Elements(waiting'[g]))
                        <=> (\E g \in Tasks : x \in Elements(waiting[g])) \/ x = p
    BY DEF Parked
  <2> DEFINE In(g) == x \in Elements(waiting[g])
             InNext(g) == x \in Elements(waiting'[g])
  <2>1. /\ InNext(f) <=> In(f) \/ x = p
        /\ \A g \in Tasks \ {f} : InNext(g) <=> In(g)
    BY <1>4
  <2>2. f \in Tasks
    BY <1>1
  <2> HIDE DEF In, InNext
  <2>3. (\E g \in Tasks : InNext(g)) <=> (\E g \in Tasks : In(g)) \/ x = p
    BY <2>1, <2>2
  <2> QED BY <2>3 DEF In, InNext
<1>6. TypeOK'
  BY <1>1, <1>2, <1>4 DEF TypeOK
<1>7. OneContinuation'
  <2>1. \A g \in Tasks : NoRepeats(waiting'[g])
    BY <1>4 DEF OneContinuation
  <2>2. \A g, h \in Tasks : g # h =>
           Elements(waiting'[g]) \intersect Elements(waiting'[h]) = {}
    <3>1. \A g \in Tasks : p \notin Elements(waiting[g])
      BY <1>1 DEF Parked
    <3>2. \A g \in Tasks \ {f} :
             Elements(waiting[g]) \intersect (Elements(waiting[f]) \union {p}) = {}
      BY <3>1 DEF OneContinuation
    <3>3. \A g, h \in Tasks \ {f} : g # h =>
             Elements(waiting[g]) \intersect Elements(waiting[h]) = {}
      BY DEF OneContinuation
    <3>4. SUFFICES ASSUME NEW g \in Tasks, NEW h \in Tasks, g # h
                   PROVE  Elements(waiting'[g]) \intersect Elements(waiting'[h]) = {}
      OBVIOUS
    <3>5. CASE g = f
      BY <1>4, <3>2, <3>4, <3>5
    <3>6. CASE h = f
      BY <1>4, <3>2, <3>4, <3>6
    <3>7. CASE g # f /\ h # f
      BY <1>4, <3>3, <3>4, <3>7
    <3> QED BY <3>5, <3>6, <3>7
  <2>3. (Elements(frames') \union Elements(ready')) \intersect Parked' = {}
    BY <1>1, <1>2, <1>5 DEF OneContinuation
  <2> QED BY <1>1, <1>2, <2>1, <2>2, <2>3 DEF OneContinuation
<1>8. NothingDropped'
  BY <1>1, <1>2, <1>5 DEF NothingDropped
<1>9. NoSleeper'
  BY <1>2, <1>4 DEF NoSleeper, TypeOK
<1>10. ReadyHasValue'
  BY <1>1, <1>2 DEF ReadyHasValue, TypeOK
<1>11. NoPhantomValue'
  BY <1>2 DEF NoPhantomValue
<1>12. WaitMatches'
  BY <1>1, <1>2, <1>4 DEF WaitMatches, TypeOK, Parked
<1>13. FreshNowhere'
  BY <1>1, <1>2, <1>5 DEF FreshNowhere, TypeOK
<1>14. StackAwaitsNothing'
  BY <1>1, <1>2 DEF StackAwaitsNothing, TypeOK
<1> QED BY <1>6, <1>7, <1>8, <1>9, <1>10, <1>11, <1>12, <1>13, <1>14

\* FUTURE_RESOLVE moves the waiters of the future to the ready queue and
\* drops the top of the stack, whose function has returned.
LEMMA ReturnInv ==
    ASSUME CoroutineInv, Return
    PROVE  CoroutineInv'
<1> USE DEF CoroutineInv
<1> DEFINE p == Top
<1>1. /\ p \in Tasks
      /\ frames' \in Seq(Tasks) /\ running' \in BOOLEAN
      /\ Elements(frames) = Elements(frames') \union {p}
      /\ p \notin Elements(frames') /\ NoRepeats(frames')
      /\ p \notin Elements(ready) /\ p \notin Parked
  BY PopFrameFacts DEF Return, Executing
<1>2. /\ resolved' = resolved \union {p}
      /\ ready' = ready \o waiting[p]
      /\ waiting' = [waiting EXCEPT ![p] = <<>>]
      /\ status' = [status EXCEPT ![p] = "returned"]
      /\ UNCHANGED <<handed, waitingOn, delivered, phase>>
  BY DEF Return, WakeWaiters
<1> HIDE DEF p
<1>3. /\ ready \in Seq(Tasks) /\ waiting[p] \in Seq(Tasks)
      /\ NoRepeats(ready) /\ NoRepeats(waiting[p])
      /\ Elements(waiting[p]) \subseteq Parked
      /\ Elements(ready) \intersect Elements(waiting[p]) = {}
  BY <1>1 DEF TypeOK, OneContinuation, Parked
<1>4. /\ ready' \in Seq(Tasks) /\ NoRepeats(ready')
      /\ Elements(ready') = Elements(ready) \union Elements(waiting[p])
  BY <1>2, <1>3, ElementsConcat
<1>5. /\ waiting' \in [Tasks -> Seq(Tasks)]
      /\ waiting'[p] = <<>> /\ Elements(waiting'[p]) = {} /\ NoRepeats(waiting'[p])
      /\ \A g \in Tasks \ {p} : waiting'[g] = waiting[g]
  BY <1>1, <1>2, ElementsEmpty DEF TypeOK
<1>6. Parked' = Parked \ Elements(waiting[p])
  <2>1. \A g \in Tasks \ {p} :
           Elements(waiting[g]) \intersect Elements(waiting[p]) = {}
    BY <1>1 DEF OneContinuation
  <2>2. Parked' = UNION {Elements(waiting'[g]) : g \in Tasks}
    BY DEF Parked
  <2>3. UNION {Elements(waiting'[g]) : g \in Tasks}
          = UNION {Elements(waiting[g]) : g \in Tasks \ {p}}
    <3>1. \A g \in Tasks \ {p} : Elements(waiting'[g]) = Elements(waiting[g])
      BY <1>1, <1>5
    <3>2. p \in Tasks /\ Elements(waiting'[p]) = {}
      BY <1>1, <1>5
    <3> QED BY <3>1, <3>2
  <2> QED BY <1>1, <2>1, <2>2, <2>3 DEF Parked
<1>7. TypeOK'
  BY <1>1, <1>2, <1>4, <1>5 DEF TypeOK, Statuses
<1>8. OneContinuation'
  <2>1. \A g \in Tasks : NoRepeats(waiting'[g])
    BY <1>5 DEF OneContinuation
  <2>2. \A g, h \in Tasks : g # h =>
           Elements(waiting'[g]) \intersect Elements(waiting'[h]) = {}
    BY <1>5 DEF OneContinuation
  <2>3. /\ (Elements(frames') \union Elements(ready')) \intersect Parked' = {}
        /\ Elements(frames') \intersect Elements(ready') = {}
    BY <1>1, <1>3, <1>4, <1>6 DEF OneContinuation
  <2> QED BY <1>1, <1>4, <2>1, <2>2, <2>3 DEF OneContinuation
<1>9. NothingDropped'
  BY <1>1, <1>2, <1>3, <1>4, <1>6 DEF NothingDropped, TypeOK
<1>10. NoSleeper'
  BY <1>2, <1>5 DEF NoSleeper, TypeOK
<1>11. ReadyHasValue'
  BY <1>1, <1>2, <1>4 DEF ReadyHasValue, WaitMatches
<1>12. NoPhantomValue'
  BY <1>2 DEF NoPhantomValue
<1>13. WaitMatches'
  BY <1>2, <1>5 DEF WaitMatches
<1>14. FreshNowhere'
  BY <1>1, <1>2, <1>3, <1>4, <1>6 DEF FreshNowhere, TypeOK
<1>15. StackAwaitsNothing'
  BY <1>1, <1>2 DEF StackAwaitsNothing
<1> QED BY <1>7, <1>8, <1>9, <1>10, <1>11, <1>12, <1>13, <1>14, <1>15

\* RET without FUTURE_RESOLVE only drops the top of the stack.
LEMMA FallOffInv ==
    ASSUME CoroutineInv, FallOff
    PROVE  CoroutineInv'
<1> USE DEF CoroutineInv
<1> DEFINE p == Top
<1>1. /\ p \in Tasks
      /\ frames' \in Seq(Tasks) /\ running' \in BOOLEAN
      /\ Elements(frames) = Elements(frames') \union {p}
      /\ NoRepeats(frames')
  BY PopFrameFacts DEF FallOff, Executing
<1>2. /\ status' = [status EXCEPT ![p] = "fellOff"]
      /\ UNCHANGED <<handed, ready, waiting, waitingOn, resolved, delivered, phase>>
  BY DEF FallOff
<1> HIDE DEF p
<1>3. Parked' = Parked
  BY <1>2 DEF Parked
<1>4. TypeOK'
  BY <1>1, <1>2 DEF TypeOK, Statuses
<1>5. OneContinuation'
  BY <1>1, <1>2, <1>3 DEF OneContinuation
<1>6. NothingDropped'
  BY <1>1, <1>2, <1>3 DEF NothingDropped, TypeOK
<1>7. NoSleeper' /\ ReadyHasValue' /\ NoPhantomValue' /\ WaitMatches'
  BY <1>2 DEF NoSleeper, ReadyHasValue, NoPhantomValue, WaitMatches
<1>8. FreshNowhere'
  BY <1>1, <1>2, <1>3 DEF FreshNowhere, TypeOK
<1>9. StackAwaitsNothing'
  BY <1>1, <1>2 DEF StackAwaitsNothing
<1> QED BY <1>4, <1>5, <1>6, <1>7, <1>8, <1>9

\* The event loop moves the head of the queue to the top of the stack.
LEMMA ResumeInv ==
    ASSUME CoroutineInv, Resume
    PROVE  CoroutineInv'
<1> USE DEF CoroutineInv
<1> DEFINE p == Head(ready)
<1>1. /\ ready \in Seq(Tasks) /\ NoRepeats(ready) /\ ready # <<>>
      /\ frames \in Seq(Tasks) /\ NoRepeats(frames)
  BY DEF Resume, TypeOK, OneContinuation
<1>2. /\ p \in Tasks /\ ready' \in Seq(Tasks) /\ NoRepeats(ready')
      /\ Elements(ready) = Elements(ready') \union {p}
      /\ p \notin Elements(ready')
  BY <1>1, ElementsTail DEF Resume
<1>3. p \notin Elements(frames) /\ p \notin Parked
  BY <1>2 DEF OneContinuation
<1>4. /\ frames' \in Seq(Tasks) /\ NoRepeats(frames')
      /\ Elements(frames') = Elements(frames) \union {p}
  BY <1>1, <1>2, <1>3, ElementsAppend, NoRepeatsAppend DEF Resume
<1>5. /\ running' = TRUE
      /\ UNCHANGED <<handed, waiting, resolved, status, phase>>
      /\ HandValue(p)
  BY DEF Resume
<1> HIDE DEF p
<1>6. Parked' = Parked
  BY <1>5 DEF Parked
<1>7. /\ waitingOn' \in [Tasks -> Tasks \union {NoTask}]
      /\ delivered' \in [Tasks -> SUBSET Tasks]
      /\ waitingOn'[p] = NoTask
      /\ \A t \in Tasks \ {p} : waitingOn'[t] = waitingOn[t]
      /\ \A t \in Tasks : delivered'[t] \subseteq delivered[t] \union resolved
  <2>1. p \in Elements(ready)
    BY <1>2
  <2>2. CASE waitingOn[p] \in resolved
    <3>1. /\ waitingOn' = [waitingOn EXCEPT ![p] = NoTask]
          /\ delivered' = [delivered EXCEPT ![p] = @ \union {waitingOn[p]}]
      BY <1>5, <2>2 DEF HandValue
    <3>2. waitingOn \in [Tasks -> Tasks \union {NoTask}] /\ p \in Tasks
      BY <1>2 DEF TypeOK
    <3>3. delivered \in [Tasks -> SUBSET Tasks] /\ waitingOn[p] \in Tasks
      BY <2>2 DEF TypeOK
    <3>4. /\ waitingOn' \in [Tasks -> Tasks \union {NoTask}]
          /\ waitingOn'[p] = NoTask
          /\ \A t \in Tasks \ {p} : waitingOn'[t] = waitingOn[t]
      BY <3>1, <3>2
    <3>5. delivered' \in [Tasks -> SUBSET Tasks]
      BY <3>1, <3>2, <3>3
    <3>6. \A t \in Tasks : delivered'[t] \subseteq delivered[t] \union resolved
      BY <2>2, <3>1, <3>2, <3>3
    <3> QED BY <3>4, <3>5, <3>6
  <2>3. CASE waitingOn[p] \notin resolved
    <3>1. waitingOn[p] = NoTask
      BY <2>1, <2>3 DEF ReadyHasValue
    <3>2. UNCHANGED <<delivered, waitingOn>>
      BY <1>5, <2>3 DEF HandValue
    <3> QED BY <3>1, <3>2 DEF TypeOK
  <2> QED BY <2>2, <2>3
<1>8. TypeOK'
  BY <1>2, <1>4, <1>5, <1>7 DEF TypeOK
<1>9. OneContinuation'
  BY <1>2, <1>3, <1>4, <1>5, <1>6 DEF OneContinuation
<1>10. NothingDropped'
  BY <1>2, <1>4, <1>5, <1>6 DEF NothingDropped
<1>11. NoSleeper'
  BY <1>5 DEF NoSleeper
<1>12. ReadyHasValue'
  <2>1. \A t \in Elements(ready') : t \in Tasks \ {p}
    BY <1>2 DEF Elements
  <2> QED BY <1>2, <1>5, <1>7, <2>1 DEF ReadyHasValue
<1>13. NoPhantomValue'
  BY <1>5, <1>7 DEF NoPhantomValue
<1>14. WaitMatches'
  <2>1. \A f \in Tasks : \A t \in Elements(waiting[f]) : t \in Tasks \ {p}
    BY <1>3 DEF TypeOK, Elements, Parked
  <2> QED BY <1>5, <1>7, <2>1 DEF WaitMatches
<1>15. FreshNowhere'
  BY <1>2, <1>4, <1>5, <1>6, <1>7 DEF FreshNowhere
<1>16. StackAwaitsNothing'
  <2>1. \A t \in Elements(frames) : t \in Tasks \ {p}
    BY <1>1, <1>3 DEF Elements
  <2> QED BY <1>4, <1>7, <2>1 DEF StackAwaitsNothing
<1> QED BY <1>8, <1>9, <1>10, <1>11, <1>12, <1>13, <1>14, <1>15, <1>16

\* An await on a resolved future, an error, a throw and the two changes of
\* phase move no continuation.
LEMMA OtherStepsInv ==
    ASSUME CoroutineInv,
           \/ \E f \in Tasks : AwaitResolved(f)
           \/ Fail \/ Throw \/ MainLeaves \/ LoopEnds
           \/ UNCHANGED vars
    PROVE  CoroutineInv'
<1> USE DEF CoroutineInv
<1>1. /\ UNCHANGED <<frames, ready, waiting, waitingOn, resolved>>
      /\ UNCHANGED handed
      /\ running' \in BOOLEAN
      /\ phase' \in Phases
  BY DEF AwaitResolved, Fail, Throw, MainLeaves, LoopEnds, vars, TypeOK, Phases
<1>2. Executing => Top \in Tasks /\ Top \in Elements(frames)
  BY TopFacts DEF Executing
<1>3. /\ status' \in [Tasks -> Statuses]
      /\ \A t \in Tasks : \/ status'[t] = status[t]
                          \/ status'[t] = "failed"
  BY <1>2 DEF AwaitResolved, Fail, Throw, MainLeaves, LoopEnds, vars, TypeOK, Statuses
<1>4. /\ delivered' \in [Tasks -> SUBSET Tasks]
      /\ \A t \in Tasks : delivered'[t] \subseteq delivered[t] \union resolved
  <2>1. CASE \E f \in Tasks : AwaitResolved(f)
    BY <1>2, <2>1 DEF AwaitResolved, TypeOK
  <2>2. CASE UNCHANGED delivered
    BY <2>2 DEF TypeOK
  <2> QED BY <2>1, <2>2 DEF Fail, Throw, MainLeaves, LoopEnds, vars
<1>5. Parked' = Parked
  BY <1>1 DEF Parked
<1>6. TypeOK'
  BY <1>1, <1>3, <1>4 DEF TypeOK
<1>7. OneContinuation'
  BY <1>1, <1>5 DEF OneContinuation
<1>8. NothingDropped'
  BY <1>1, <1>3, <1>5 DEF NothingDropped
<1>9. NoSleeper' /\ ReadyHasValue' /\ WaitMatches'
  BY <1>1 DEF NoSleeper, ReadyHasValue, WaitMatches
<1>10. NoPhantomValue'
  BY <1>1, <1>4 DEF NoPhantomValue
<1>11. FreshNowhere'
  BY <1>1, <1>3, <1>5 DEF FreshNowhere
<1>12. StackAwaitsNothing'
  BY <1>1 DEF StackAwaitsNothing
<1> QED BY <1>6, <1>7, <1>8, <1>9, <1>10, <1>11, <1>12

\* Every state of every run satisfies the inductive invariant.
THEOREM CoroutineInvariance == Spec => []CoroutineInv
<1>1. Init => CoroutineInv
  BY InitInv
<1>2. CoroutineInv /\ [Next]_vars => CoroutineInv'
  <2> SUFFICES ASSUME CoroutineInv, [Next]_vars
               PROVE  CoroutineInv'
    OBVIOUS
  <2>1. ASSUME NEW t \in Tasks, AsyncCall(t) PROVE CoroutineInv'
    BY <2>1, AsyncCallInv
  <2>2. ASSUME NEW t \in Tasks, DirectCall(t) PROVE CoroutineInv'
    BY <2>2, DirectCallInv
  <2>3. ASSUME NEW f \in Tasks, AwaitPending(f) PROVE CoroutineInv'
    BY <2>3, AwaitPendingInv
  <2>4. CASE Return
    BY <2>4, ReturnInv
  <2>5. CASE FallOff
    BY <2>5, FallOffInv
  <2>6. CASE Resume
    BY <2>6, ResumeInv
  <2>7. CASE \/ \E f \in Tasks : AwaitResolved(f)
             \/ Fail \/ Throw \/ MainLeaves \/ LoopEnds
             \/ UNCHANGED vars
    BY <2>7, OtherStepsInv
  <2> QED BY <2>1, <2>2, <2>3, <2>4, <2>5, <2>6, <2>7 DEF Next
<1> QED BY <1>1, <1>2, PTL DEF Spec

\* The variables keep their types.
THEOREM CoroutineTypes == Spec => []TypeOK
<1>1. CoroutineInv => TypeOK
  BY DEF CoroutineInv
<1> QED BY <1>1, CoroutineInvariance, PTL

\* No coroutine is ever queued or parked twice: each saved frame runs once.
THEOREM EachContinuationOnce == Spec => []OneContinuation
<1>1. CoroutineInv => OneContinuation
  BY DEF CoroutineInv
<1> QED BY <1>1, CoroutineInvariance, PTL

\* No continuation of a started, unfinished function is ever lost.
THEOREM NoContinuationLost == Spec => []NothingDropped
<1>1. CoroutineInv => NothingDropped
  BY DEF CoroutineInv
<1> QED BY <1>1, CoroutineInvariance, PTL

\* On one thread there is no lost wakeup.
THEOREM NoLostWakeup == Spec => []NoSleeper
<1>1. CoroutineInv => NoSleeper
  BY DEF CoroutineInv
<1> QED BY <1>1, CoroutineInvariance, PTL

\* A coroutine is resumed only once the value it waits for is there.
THEOREM ResumedWithValue == Spec => [](ReadyHasValue /\ NoPhantomValue)
<1>1. CoroutineInv => ReadyHasValue /\ NoPhantomValue
  BY DEF CoroutineInv
<1> QED BY <1>1, CoroutineInvariance, PTL
\* Each step of the VM is a step of the promise, or changes nothing of it.
LEMMA PromiseStep ==
    ASSUME CoroutineInv, [Next]_vars
    PROVE  [Promise!Next]_(Promise!vars)
<1> USE DEF Promise!Next, Promise!vars
<1> DEFINE Stutter == UNCHANGED <<waitingOn, resolved, delivered>>
<1>1. Executing => Top \in Tasks /\ waitingOn[Top] = NoTask
  BY TopFacts DEF Executing, CoroutineInv, StackAwaitsNothing
<1>2. ASSUME NEW f \in Tasks, AwaitResolved(f) PROVE Promise!Pass(Top, f)
  BY <1>1, <1>2 DEF AwaitResolved, Promise!Pass, Promise!Give
<1>3. ASSUME NEW f \in Tasks, AwaitPending(f) PROVE Promise!Block(Top, f)
  BY <1>1, <1>3 DEF AwaitPending, Promise!Block
<1>4. ASSUME Return PROVE Promise!Resolve(Top)
  BY <1>1, <1>4 DEF Return, Promise!Resolve
<1>5. ASSUME Resume PROVE Stutter \/ \E t \in Tasks : Promise!Continue(t)
  <2>1. Head(ready) \in Tasks
    BY <1>5 DEF Resume, CoroutineInv, TypeOK
  <2>2. CASE waitingOn[Head(ready)] \in resolved
    BY <1>5, <2>1, <2>2 DEF Resume, HandValue, Promise!Continue, Promise!Give
  <2>3. CASE waitingOn[Head(ready)] \notin resolved
    BY <1>5, <2>3 DEF Resume, HandValue
  <2> QED BY <2>2, <2>3
<1>6. ASSUME \/ \E t \in Tasks : AsyncCall(t) \/ DirectCall(t)
             \/ FallOff \/ Fail \/ Throw \/ MainLeaves \/ LoopEnds
             \/ UNCHANGED vars
      PROVE  Stutter
  BY <1>6 DEF AsyncCall, DirectCall, FallOff, Fail, Throw, MainLeaves, LoopEnds, vars
<1>7. CASE \E f \in Tasks : AwaitResolved(f) \/ AwaitPending(f)
  BY <1>1, <1>2, <1>3, <1>7 DEF AwaitResolved, AwaitPending
<1>8. CASE Return
  BY <1>1, <1>4, <1>8 DEF Return
<1> QED BY <1>5, <1>6, <1>7, <1>8 DEF Next

\* The VM implements what async functions promise: an activation that awaits
\* does nothing until the value is there, and receives it once.
THEOREM ImplementsFutures == Spec => KeepsPromise
<1>1. Init => Promise!Init
  BY DEF Init, Promise!Init
<1>2. CoroutineInv /\ [Next]_vars => [Promise!Next]_(Promise!vars)
  BY PromiseStep
<1> QED BY <1>1, <1>2, CoroutineInvariance, PTL DEF Spec, KeepsPromise, Promise!Spec
=============================================================================
