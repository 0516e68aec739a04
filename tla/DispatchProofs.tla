--------------------------- MODULE DispatchProofs ---------------------------
(***************************************************************************)
(* What HandlerDispatch keeps of requests and their answers, and of the    *)
(* order in which events reach their subscribers, for any names, handlers, *)
(* messages and bounds.                                                    *)
(***************************************************************************)
EXTENDS HandlerDispatch, TLAPS

USE DispatchAssumption

\* Requests are those sent so far, and one not sent yet has no answer.
SentSoFar ==
    /\ nextId \in Nat \ {0}
    /\ pending \subseteq {i \in Ids : i < nextId}
    /\ awaiting \subseteq {i \in Ids : i < nextId}
    /\ DOMAIN answers = Ids
    /\ \A i \in Ids : i >= nextId => answers[i] = <<>>

AnswerInv == SentSoFar /\ AnsweredOnce /\ WokenByAnswer /\ woken \subseteq awaiting

\* One answer appended to none.
LEMMA OneAnswer == \A h : Len(Append(<<>>, h)) = 1 /\ Append(<<>>, h) # <<>>
<1> SUFFICES ASSUME NEW h PROVE Len(Append(<<>>, h)) = 1 /\ Append(<<>>, h) # <<>>
  OBVIOUS
<1>1. <<>> \in Seq({h}) /\ h \in {h}
  OBVIOUS
<1> QED BY <1>1

\* The state before the program has run.
LEMMA AnswerInit == Init => AnswerInv
  BY DEF Init, AnswerInv, SentSoFar, AnsweredOnce, WokenByAnswer, Ids

\* command_send makes a request that was never answered.
LEMMA SendAnswers ==
    ASSUME AnswerInv, NEW n \in Names, Send(n) PROVE AnswerInv'
<1>1. /\ nextId \in Ids /\ nextId' = nextId + 1 /\ pending' = pending \union {nextId}
      /\ UNCHANGED <<awaiting, woken, answers>>
  BY DEF Send, awaitVars
<1>2. SentSoFar'
  <2>1. nextId \in Nat \ {0} /\ pending \subseteq {i \in Ids : i < nextId}
        /\ awaiting \subseteq {i \in Ids : i < nextId}
    BY DEF AnswerInv, SentSoFar
  <2>2. \A i \in Ids : i < nextId => i < nextId'
    BY <1>1, <2>1 DEF Ids
  <2>3. nextId' \in Nat \ {0} /\ nextId < nextId'
    BY <1>1, <2>1
  <2>4. pending' \subseteq {i \in Ids : i < nextId'} /\ awaiting' \subseteq {i \in Ids : i < nextId'}
    BY <1>1, <2>1, <2>2, <2>3
  <2>5. \A i \in Ids : i >= nextId' => answers'[i] = <<>>
    BY <1>1, <2>1 DEF AnswerInv, SentSoFar, Ids
  <2> QED BY <1>1, <2>3, <2>4, <2>5 DEF AnswerInv, SentSoFar
<1>3. AnsweredOnce' /\ WokenByAnswer'
  BY <1>1 DEF AnswerInv, SentSoFar, AnsweredOnce, WokenByAnswer, Ids
<1> QED BY <1>1, <1>2, <1>3 DEF AnswerInv

\* A bridged command has an id and nobody to answer.
LEMMA RouteAnswers ==
    ASSUME AnswerInv, NEW n \in Names, RouteCommand(n) PROVE AnswerInv'
<1>1. nextId \in Ids /\ nextId' = nextId + 1 /\ UNCHANGED <<pending, awaiting, woken, answers>>
  BY DEF RouteCommand, awaitVars
<1>2. SentSoFar'
  BY <1>1 DEF AnswerInv, SentSoFar, Ids
<1> QED BY <1>1, <1>2 DEF AnswerInv, AnsweredOnce, WokenByAnswer, Ids

\* Who begins to wait waits for a request without an answer.
LEMMA AwaitAnswers ==
    ASSUME AnswerInv, NEW i \in Ids, AwaitAnswer(i) PROVE AnswerInv'
<1>1. i \in pending /\ awaiting' = awaiting \union {i}
      /\ UNCHANGED <<nextId, pending, woken, answers>>
  BY DEF AwaitAnswer, commandVars
<1>2. answers[i] = <<>>
  BY <1>1 DEF AnswerInv, AnsweredOnce
<1>3. i \in woken => i \in awaiting
  BY DEF AnswerInv
<1>4. WokenByAnswer'
  BY <1>1, <1>2, <1>3 DEF AnswerInv, WokenByAnswer
<1> QED BY <1>1, <1>4 DEF AnswerInv, SentSoFar, AnsweredOnce

\* A handler's result answers a request that is pending, and no other.
LEMMA ReturnAnswers ==
    ASSUME AnswerInv, CommandHandlerReturns PROVE AnswerInv'
<1> DEFINE i == Head(batch).id
           h == CommandHandlers[at]
<1>1. nextId' = nextId /\ awaiting' = awaiting
  BY DEF CommandHandlerReturns
<1>2. CASE i \notin pending
  <2>1. UNCHANGED <<answers, pending, woken>>
    BY <1>2 DEF CommandHandlerReturns
  <2> QED BY <1>1, <2>1 DEF AnswerInv, SentSoFar, AnsweredOnce, WokenByAnswer
<1>3. CASE i \in pending
  <2>1. /\ answers' = [answers EXCEPT ![i] = Append(@, h)]
        /\ pending' = pending \ {i}
        /\ woken' = woken \union ({i} \intersect awaiting)
    BY <1>3 DEF CommandHandlerReturns, Wake
  <2> HIDE DEF i, h
  <2>2. i \in Ids /\ i < nextId /\ answers[i] = <<>> /\ DOMAIN answers = Ids
    BY <1>3 DEF AnswerInv, SentSoFar, AnsweredOnce
  <2>3. /\ DOMAIN answers' = Ids /\ answers'[i] = Append(<<>>, h)
        /\ \A j \in Ids \ {i} : answers'[j] = answers[j]
    BY <2>1, <2>2
  <2>4. Len(answers'[i]) = 1 /\ answers'[i] # <<>>
    BY <2>3, OneAnswer
  <2>5. SentSoFar'
    BY <1>1, <2>1, <2>2, <2>3 DEF AnswerInv, SentSoFar, Ids
  <2>6. AnsweredOnce'
    <3> SUFFICES ASSUME NEW j \in Ids
                 PROVE  Len(answers'[j]) <= 1 /\ (j \in pending' => answers'[j] = <<>>)
      BY DEF AnsweredOnce
    <3>1. CASE j = i
      <4>1. j \notin pending'
        BY <2>1, <3>1
      <4>2. Len(answers'[j]) = 1
        BY <2>4, <3>1
      <4>3. Len(answers'[j]) <= 1
        BY <4>2
      <4> QED BY <4>1, <4>3
    <3>2. CASE j # i
      BY <2>1, <2>3, <3>2 DEF AnswerInv, AnsweredOnce
    <3> QED BY <3>1, <3>2
  <2>7. WokenByAnswer'
    BY <1>1, <2>1, <2>3, <2>4 DEF AnswerInv, SentSoFar, WokenByAnswer
  <2>8. woken' \subseteq awaiting'
    BY <1>1, <2>1 DEF AnswerInv
  <2> QED BY <2>5, <2>6, <2>7, <2>8 DEF AnswerInv
<1> QED BY <1>2, <1>3

\* The invariant of requests and answers.
THEOREM AnswerInvariance == Spec => []AnswerInv
<1>1. Init => AnswerInv
  BY AnswerInit
<1>2. AnswerInv /\ [Next]_vars => AnswerInv'
  <2> SUFFICES ASSUME AnswerInv, [Next]_vars PROVE AnswerInv'
    OBVIOUS
  <2>1. CASE \E n \in Names : Send(n)
    BY <2>1, SendAnswers
  <2>2. CASE \E n \in Names : RouteCommand(n)
    BY <2>2, RouteAnswers
  <2>3. CASE \E i \in Ids : AwaitAnswer(i)
    BY <2>3, AwaitAnswers
  <2>4. CASE CommandHandlerReturns
    BY <2>4, ReturnAnswers
  <2>5. CASE UNCHANGED <<nextId, pending, awaiting, woken, answers>>
    BY <2>5 DEF AnswerInv, SentSoFar, AnsweredOnce, WokenByAnswer
  <2>6. ASSUME NEW n \in Names, NEW m, NEW h,
               \/ Publish(n, m) \/ RouteEvent(n, m) \/ Subscribe(n, h) \/ Register(n, h)
               \/ TakeEvents(n)
        PROVE  UNCHANGED <<nextId, pending, awaiting, woken, answers>>
    BY <2>6 DEF Publish, RouteEvent, Subscribe, Register, TakeEvents, commandVars, awaitVars
  <2>7. ASSUME \/ TakeCommands \/ CallCommandHandler \/ NextCommand \/ CommandsEnd
               \/ StartRound \/ CallSubscriber \/ SubscriberReturns \/ EventsEnd
               \/ BridgeEnds \/ UNCHANGED vars
        PROVE  UNCHANGED <<nextId, pending, awaiting, woken, answers>>
    BY <2>7 DEF TakeCommands, CallCommandHandler, NextCommand, CommandsEnd, StartRound,
                CallSubscriber, SubscriberReturns, EventsEnd, BridgeEnds, vars,
                commandVars, awaitVars
  <2>8. CASE \E n \in Names, m \in Msgs : Publish(n, m) \/ RouteEvent(n, m)
    BY <2>5, <2>6, <2>8
  <2>9. CASE \E n \in Names, h \in Handlers : Subscribe(n, h) \/ Register(n, h)
    BY <2>5, <2>6, <2>9
  <2>10. CASE \E n \in Names : TakeEvents(n)
    BY <2>5, <2>6, <2>10
  <2> QED BY <2>1, <2>2, <2>3, <2>4, <2>5, <2>7, <2>8, <2>9, <2>10 DEF Next
<1> QED BY <1>1, <1>2, PTL DEF Spec

\* A request is resolved by one handler at most, stops being pending exactly then,
\* and its awaiter is queued exactly when it has been answered.
THEOREM AnsweredRight == Spec => []Answers
<1>1. AnswerInv => Answers
  BY DEF AnswerInv, Answers
<1> QED BY <1>1, AnswerInvariance, PTL

-----------------------------------------------------------------------------
(* Deliveries: for each event, how far the loop has got with it.                *)

\* What the loop has taken from the channel of n and not yet delivered.
Taken(n) == IF phase = "events" /\ name = n THEN batch ELSE <<>>

\* How many messages of n have been delivered to every subscriber.
Given(n) == Len(published[n]) - Len(channel[n]) - Len(Taken(n))

\* How many subscribers have been called for the next one.
Called(n) == IF Taken(n) = <<>> THEN 0 ELSE IF inHandler THEN at ELSE at - 1

\* Where the loops can be.
Places ==
    /\ batch = <<>> => ~inHandler /\ at = 1
    /\ phase \in {"main", "bridge", "done"} => batch = <<>>
    /\ phase = "commands" /\ inHandler => at <= Len(registered[Head(batch).cmd])
    /\ phase = "events" /\ batch # <<>> =>
          name \in Names /\ dispatched /\ at <= Len(subscribers[name])
    /\ \A n \in todo : subscribers[n] # <<>>

\* As long as a round has delivered nothing, no handler has run in it, and the
\* channels it has visited are empty.
QuietRound ==
    /\ phase \in {"main", "commands"} => dispatched
    /\ phase = "events" /\ ~dispatched =>
          \A n \in Names \ todo : subscribers[n] # <<>> => channel[n] = <<>>

\* A message published is delivered, taken or in the channel, in this order.
InChannel(n) ==
    /\ Given(n) \in Nat
    /\ \A i \in 1..Len(Taken(n)) : Taken(n)[i] = published[n][Given(n) + i]
    /\ \A i \in 1..Len(channel[n]) :
          channel[n][i] = published[n][Given(n) + Len(Taken(n)) + i]
    /\ phase \in {"main", "commands"} => Given(n) = 0

\* The log has every subscriber's call for the messages delivered, and those
\* made for the next one.
Logged(n) ==
    /\ Len(log[n]) = Given(n) * Len(subscribers[n]) + Called(n)
    /\ \A k \in 1..Len(log[n]) : log[n][k] = Owed(n)[k]

LoopInv == TypeOK /\ Places
DeliveryInv == LoopInv /\ QuietRound /\ \A n \in Names : InChannel(n) /\ Logged(n)

\* The numbers of a state of the loops.
LEMMA LoopInit == Init => LoopInv
<1> SUFFICES ASSUME Init PROVE LoopInv
  OBVIOUS
<1>1. /\ [n \in Names |-> <<>>] \in [Names -> Seq(Handlers)]
      /\ [n \in Names |-> <<>>] \in [Names -> Seq(Msgs)]
      /\ [n \in Names |-> <<>>] \in [Names -> Seq(Msgs \X Handlers)]
      /\ [i \in Ids |-> <<>>] \in [Ids -> Seq(Handlers)]
  OBVIOUS
<1>2. nextId \in 1..MaxCommands + 1 /\ rounds \in 0..MaxRounds
  BY DEF Init
<1>3. TypeOK
  <2>1. pending \in SUBSET Ids /\ awaiting \in SUBSET Ids /\ woken \in SUBSET awaiting
        /\ todo \in SUBSET Names /\ name \in Names \union {NoName} /\ at \in Nat \ {0}
        /\ commands \in Seq(Requests) /\ batch \in Seq(Msgs) /\ phase = "main"
    BY DEF Init
  <2>2. inHandler \in BOOLEAN /\ dispatched \in BOOLEAN
    BY DEF Init
  <2> QED BY <1>1, <1>2, <2>1, <2>2 DEF Init, TypeOK
<1>4. Places
  BY DEF Init, Places
<1> QED BY <1>3, <1>4 DEF LoopInv

\* Publishing, by the program, a handler or a peer, only lengthens a channel.
LEMMA PublishLoop ==
    ASSUME LoopInv, NEW n \in Names, NEW m \in Msgs, Publish(n, m) \/ RouteEvent(n, m)
    PROVE  LoopInv'
<1>1. /\ channel' = [channel EXCEPT ![n] = Append(@, m)]
      /\ published' = [published EXCEPT ![n] = Append(@, m)]
      /\ UNCHANGED <<phase, handlerVars, commandVars, awaitVars, batch, at, inHandler,
                     roundVars, log>>
  BY DEF Publish, RouteEvent
<1>2. channel' \in [Names -> Seq(Msgs)] /\ published' \in [Names -> Seq(Msgs)]
  BY <1>1 DEF LoopInv, TypeOK
<1>3. TypeOK'
  BY <1>1, <1>2 DEF LoopInv, TypeOK, handlerVars, commandVars, awaitVars, roundVars
<1>4. Places'
  BY <1>1 DEF LoopInv, Places, handlerVars, commandVars, awaitVars, roundVars
<1> QED BY <1>3, <1>4 DEF LoopInv

\* Subscribing and registering only lengthen the lists of handlers.
LEMMA SubscribeLoop ==
    ASSUME LoopInv, NEW n \in Names, NEW h \in Handlers, Subscribe(n, h) \/ Register(n, h)
    PROVE  LoopInv'
<1>1. CASE Subscribe(n, h)
  <2>1. subscribers' \in [Names -> Seq(Handlers)] /\ phase = "main"
        /\ \A k \in Names : subscribers[k] # <<>> => subscribers'[k] # <<>>
    <3>1. subscribers' = [subscribers EXCEPT ![n] = Append(@, h)] /\ phase = "main"
          /\ subscribers \in [Names -> Seq(Handlers)]
      BY <1>1 DEF Subscribe, LoopInv, TypeOK
    <3>2. Append(subscribers[n], h) \in Seq(Handlers) /\ Append(subscribers[n], h) # <<>>
      BY <3>1
    <3> QED BY <3>1, <3>2
  <2> QED BY <1>1, <2>1 DEF Subscribe, LoopInv, TypeOK, Places, commandVars, awaitVars, roundVars
<1>2. CASE Register(n, h)
  <2>1. registered' \in [Names -> Seq(Handlers)] /\ phase = "main"
    BY <1>2 DEF Register, LoopInv, TypeOK
  <2> QED BY <1>2, <2>1 DEF Register, LoopInv, TypeOK, Places, commandVars, awaitVars, roundVars
<1> QED BY <1>1, <1>2

\* A command is sent with the next id, from the program, a handler or a peer.
LEMMA SendLoop ==
    ASSUME LoopInv, NEW n \in Names, Send(n) \/ RouteCommand(n)
    PROVE  LoopInv'
<1>1. /\ nextId \in Ids /\ commands' = Append(commands, [id |-> nextId, cmd |-> n])
      /\ nextId' = nextId + 1 /\ pending' \in SUBSET Ids
      /\ UNCHANGED <<phase, handlerVars, channel, awaitVars, batch, at, inHandler, roundVars,
                     published, log>>
  BY DEF Send, RouteCommand, LoopInv, TypeOK
<1>2. commands' \in Seq(Requests) /\ nextId' \in 1..MaxCommands + 1
  BY <1>1 DEF LoopInv, TypeOK, Requests, Ids
<1>3. TypeOK'
  BY <1>1, <1>2 DEF LoopInv, TypeOK, handlerVars, awaitVars, roundVars
<1>4. Places'
  BY <1>1 DEF LoopInv, Places, handlerVars, roundVars
<1> QED BY <1>3, <1>4 DEF LoopInv

\* A coroutine begins to wait for an answer.
LEMMA AwaitLoop == ASSUME LoopInv, NEW i \in Ids, AwaitAnswer(i) PROVE LoopInv'
  BY DEF AwaitAnswer, LoopInv, TypeOK, Places, handlerVars, commandVars, roundVars

\* The command loop takes its batch, request after request.
LEMMA CommandsLoop ==
    ASSUME LoopInv, TakeCommands \/ CallCommandHandler \/ NextCommand \/ CommandsEnd
    PROVE  LoopInv'
<1> USE DEF LoopInv, Places, TypeOK, handlerVars, commandVars, awaitVars, roundVars
<1>1. CASE TakeCommands
  BY <1>1 DEF TakeCommands
<1>2. CASE CallCommandHandler
  BY <1>2 DEF CallCommandHandler, CommandHandlers
<1>3. CASE NextCommand
  <2>1. batch \in Seq(Requests) /\ batch # <<>>
    BY <1>3 DEF NextCommand
  <2>2. Tail(batch) \in Seq(Requests)
    BY <2>1
  <2>3. phase' = "commands" /\ batch' \in Seq(Requests) /\ at' = 1 /\ ~inHandler'
    BY <1>3, <2>2 DEF NextCommand
  <2>4. UNCHANGED <<handlerVars, channel, commandVars, awaitVars, roundVars, published, log>>
    BY <1>3 DEF NextCommand
  <2>5. TypeOK'
    BY <1>3, <2>3, <2>4 DEF NextCommand
  <2>6. Places'
    BY <2>3, <2>4
  <2> QED BY <2>5, <2>6
<1>4. CASE CommandsEnd
  BY <1>4 DEF CommandsEnd
<1> QED BY <1>1, <1>2, <1>3, <1>4

\* A command handler returns.
LEMMA ReturnLoop == ASSUME LoopInv, CommandHandlerReturns PROVE LoopInv'
<1> DEFINE req == Head(batch)
           h == registered[req.cmd][at]
<1>1. /\ phase = "commands" /\ inHandler /\ phase' = phase /\ at' = at + 1 /\ inHandler' = FALSE
      /\ UNCHANGED <<handlerVars, channel, commands, nextId, awaiting, batch, roundVars,
                     published, log>>
  BY DEF CommandHandlerReturns
<1>2. batch \in Seq(Requests) /\ batch # <<>>
  BY <1>1 DEF LoopInv, TypeOK, Places
<1>3. req \in Requests
  BY <1>2
<1>4. req.id \in Ids /\ req.cmd \in Names
  BY <1>3 DEF Requests
<1>5. h \in Handlers
  BY <1>1, <1>4 DEF LoopInv, TypeOK, Places
<1>6. \/ UNCHANGED <<answers, pending, woken>>
      \/ /\ answers' = [answers EXCEPT ![req.id] = Append(@, h)]
         /\ pending' = pending \ {req.id}
         /\ woken' = woken \union ({req.id} \intersect awaiting)
  BY DEF CommandHandlerReturns, Wake, CommandHandlers
<1> HIDE DEF h, req
<1>7. answers' \in [Ids -> Seq(Handlers)] /\ pending' \in SUBSET Ids /\ woken' \in SUBSET awaiting
  <2>1. answers \in [Ids -> Seq(Handlers)] /\ pending \in SUBSET Ids /\ woken \in SUBSET awaiting
    BY DEF LoopInv, TypeOK
  <2>2. Append(answers[req.id], h) \in Seq(Handlers)
    BY <1>4, <1>5, <2>1
  <2> QED BY <1>4, <1>6, <2>1, <2>2
<1>8. TypeOK'
  <2>1. at' \in Nat \ {0}
    <3>1. at \in Nat \ {0} /\ at' = at + 1
      BY <1>1 DEF LoopInv, TypeOK
    <3> QED BY <3>1
  <2>2. batch' \in IF phase' = "commands" THEN Seq(Requests) ELSE Seq(Msgs)
    BY <1>1, <1>2
  <2> QED BY <1>1, <1>7, <2>1, <2>2 DEF LoopInv, TypeOK, handlerVars, roundVars
<1>9. Places'
  BY <1>1, <1>2 DEF LoopInv, TypeOK, Places, handlerVars, roundVars
<1> QED BY <1>8, <1>9 DEF LoopInv

\* The event loop begins a round, takes a channel, and ends.
LEMMA RoundsLoop ==
    ASSUME LoopInv, StartRound \/ EventsEnd \/ BridgeEnds \/ \E n \in Names : TakeEvents(n)
    PROVE  LoopInv'
<1> USE DEF LoopInv, Places, TypeOK, handlerVars, commandVars, awaitVars, roundVars
<1>1. CASE StartRound
  <2>1. rounds' \in 0..MaxRounds /\ todo' \in SUBSET Names /\ dispatched' \in BOOLEAN
        /\ (\A n \in todo' : subscribers[n] # <<>>)
    <3>1. rounds \in 0..MaxRounds /\ rounds > 0 /\ rounds' = rounds - 1 /\ dispatched' = FALSE
          /\ todo' = {n \in Names : subscribers[n] # <<>>}
      BY <1>1 DEF StartRound
    <3> HIDE DEF TypeOK, LoopInv, Places
    <3>2. rounds' \in 0..MaxRounds
      BY <3>1
    <3> QED BY <3>1, <3>2
  <2> QED BY <1>1, <2>1 DEF StartRound
<1>2. CASE EventsEnd
  BY <1>2 DEF EventsEnd
<1>3. CASE BridgeEnds
  BY <1>3 DEF BridgeEnds
<1>4. ASSUME NEW n \in Names, TakeEvents(n) PROVE LoopInv'
  <2>1. channel' \in [Names -> Seq(Msgs)] /\ batch' \in Seq(Msgs) /\ batch' = channel[n]
    BY <1>4 DEF TakeEvents
  <2>2. subscribers[n] \in Seq(Handlers) /\ subscribers[n] # <<>> /\ at = 1 /\ ~inHandler
    BY <1>4 DEF TakeEvents
  <2>3. 1 <= Len(subscribers[n])
    BY <2>2
  <2> QED BY <1>4, <2>1, <2>2, <2>3 DEF TakeEvents
<1> QED BY <1>1, <1>2, <1>3, <1>4

\* A subscriber is called, and returns.
LEMMA DeliverLoop == ASSUME LoopInv, CallSubscriber \/ SubscriberReturns PROVE LoopInv'
<1>1. CASE CallSubscriber
  <2>1. /\ phase = "events" /\ batch # <<>> /\ ~inHandler /\ inHandler' = TRUE
        /\ log' = [log EXCEPT ![name] = Append(@, <<Head(batch), subscribers[name][at]>>)]
        /\ UNCHANGED <<phase, handlerVars, channel, commandVars, awaitVars, batch, at, roundVars,
                       published>>
    BY <1>1 DEF CallSubscriber
  <2>2. Head(batch) \in Msgs /\ subscribers[name][at] \in Handlers /\ name \in Names
    BY <2>1 DEF LoopInv, TypeOK, Places
  <2>3. log' \in [Names -> Seq(Msgs \X Handlers)]
    BY <2>1, <2>2 DEF LoopInv, TypeOK
  <2>4. TypeOK'
    BY <2>1, <2>3 DEF LoopInv, TypeOK, handlerVars, commandVars, awaitVars, roundVars
  <2>5. Places'
    BY <2>1 DEF LoopInv, Places, handlerVars, roundVars
  <2> QED BY <2>4, <2>5 DEF LoopInv
<1>2. CASE SubscriberReturns
  <2>1. /\ phase = "events" /\ inHandler /\ inHandler' = FALSE
        /\ IF at < Len(subscribers[name]) THEN at' = at + 1 /\ batch' = batch
           ELSE at' = 1 /\ batch' = Tail(batch)
        /\ UNCHANGED <<phase, handlerVars, channel, commandVars, awaitVars, roundVars,
                       published, log>>
    BY <1>2 DEF SubscriberReturns
  <2>2. batch \in Seq(Msgs) /\ batch # <<>> /\ name \in Names /\ dispatched
        /\ subscribers[name] \in Seq(Handlers) /\ at \in Nat \ {0} /\ at <= Len(subscribers[name])
    BY <2>1 DEF LoopInv, TypeOK, Places
  <2>3. batch' \in Seq(Msgs) /\ at' \in Nat \ {0} /\ at' <= Len(subscribers[name])
        /\ (batch' = <<>> => at' = 1)
    <3>1. CASE at < Len(subscribers[name])
      BY <2>1, <2>2, <3>1
    <3>2. CASE ~(at < Len(subscribers[name]))
      <4>1. at' = 1 /\ batch' = Tail(batch)
        BY <2>1, <3>2
      <4>2. Tail(batch) \in Seq(Msgs)
        BY <2>2, TailItems
      <4> QED BY <2>2, <4>1, <4>2
    <3> QED BY <3>1, <3>2
  <2>4. TypeOK'
    BY <2>1, <2>3 DEF LoopInv, TypeOK, handlerVars, commandVars, awaitVars, roundVars
  <2>5. Places'
    BY <2>1, <2>2, <2>3 DEF LoopInv, Places, handlerVars, roundVars
  <2> QED BY <2>4, <2>5 DEF LoopInv
<1> QED BY <1>1, <1>2

\* Every step keeps the types and the places.
LEMMA LoopStep == LoopInv /\ [Next]_vars => LoopInv'
<1> SUFFICES ASSUME LoopInv, [Next]_vars PROVE LoopInv'
  OBVIOUS
<1>1. CASE UNCHANGED vars
  BY <1>1 DEF vars, LoopInv, TypeOK, Places, handlerVars, commandVars, awaitVars, roundVars
<1> QED BY <1>1, PublishLoop, SubscribeLoop, SendLoop, AwaitLoop, CommandsLoop, ReturnLoop,
           RoundsLoop, DeliverLoop DEF Next

\* The variables of the loops keep their types.
THEOREM DispatchTypes == Spec => []LoopInv
  BY LoopInit, LoopStep, PTL DEF Spec

\* Multiplying two numbers, one below the other.
LEMMA ProductBelow ==
    ASSUME NEW L \in Nat, NEW P \in Nat, NEW D \in Nat, D < P
    PROVE  D * L + L <= P * L /\ D * L \in Nat
<1>1. P - D - 1 \in Nat /\ P = D + 1 + (P - D - 1)
  OBVIOUS
<1>2. PICK e \in Nat : P = D + 1 + e
  BY <1>1
<1>3. P * L = D * L + L + e * L /\ e * L \in Nat /\ D * L \in Nat
  BY <1>2
<1> QED BY <1>3

\* The same for two numbers that may be equal.
LEMMA ProductAtMost ==
    ASSUME NEW L \in Nat, NEW P \in Nat, NEW D \in Nat, D <= P
    PROVE  D * L <= P * L
<1>1. CASE D = P
  BY <1>1
<1>2. CASE D < P
  <2> DEFINE a == D * L
             b == P * L
  <2>1. a + L <= b /\ a \in Nat /\ b \in Nat
    BY <1>2, ProductBelow
  <2> HIDE DEF a, b
  <2>2. a <= b
    BY <2>1
  <2> QED BY <2>2 DEF a, b
<1> QED BY <1>1, <1>2

\* One group more.
LEMMA ProductNext ==
    ASSUME NEW L \in Nat, NEW P \in Nat
    PROVE  P * L \in Nat /\ (P + 1) * L = P * L + L /\ (P + 1) * L \in Nat
  OBVIOUS

\* Where the r-th item of the D-th group of L is.
LEMMA Quotient ==
    ASSUME NEW L \in Nat \ {0}, NEW D \in Nat, NEW r \in Nat, r < L
    PROVE  (D * L + r) \div L = D /\ (D * L + r) % L = r
<1> DEFINE q == (D * L + r) \div L
           m == (D * L + r) % L
<1>1. D * L + r \in Nat
  OBVIOUS
<1>2. q \in Nat /\ m \in 0..L - 1 /\ D * L + r = L * q + m
  BY <1>1
<1> HIDE DEF q, m
<1>3. ~(q < D)
  BY <1>2, ProductBelow
<1>4. ~(D < q)
  BY <1>2, ProductBelow
<1>5. q = D /\ m = r
  BY <1>2, <1>3, <1>4
<1> QED BY <1>5 DEF q, m

\* An item of the first P groups of L is in a group below P.
LEMMA QuotientBelow ==
    ASSUME NEW L \in Nat, NEW P \in Nat, NEW k \in 1..P * L
    PROVE  ((k - 1) \div L) + 1 \in 1..P /\ ((k - 1) % L) + 1 \in 1..L
<1>1. L \in Nat \ {0}
  OBVIOUS
<1> DEFINE q == (k - 1) \div L
           m == (k - 1) % L
<1>2. q \in Nat /\ m \in 0..L - 1 /\ k - 1 = L * q + m
  BY <1>1
<1> HIDE DEF q, m
<1>3. CASE q = P
  <2>1. k - 1 >= P * L
    BY <1>2, <1>3
  <2> QED BY <2>1
<1>4. ~(P < q)
  BY <1>2, ProductBelow
<1>5. q < P
  BY <1>2, <1>3, <1>4
<1>6. q + 1 \in 1..P /\ m + 1 \in 1..L
  BY <1>1, <1>2, <1>5
<1> QED BY <1>6 DEF q, m

\* The r-th item of the D-th group is among the items of P groups.
LEMMA GroupItem ==
    ASSUME NEW L \in Nat, NEW P \in Nat, NEW D \in Nat, D < P, NEW r \in 1..L
    PROVE  D * L + r \in 1..P * L
<1> DEFINE a == D * L
           b == P * L
<1>1. a + L <= b /\ a \in Nat /\ b \in Nat
  BY ProductBelow
<1> HIDE DEF a, b
<1>2. a + r \in 1..b
  BY <1>1
<1> QED BY <1>2 DEF a, b

\* A function on an initial segment of the numbers is a sequence.
LEMMA SegmentIsSeq ==
    ASSUME NEW S, NEW N \in Nat, NEW f \in [1..N -> S]
    PROVE  f \in Seq(S) /\ Len(f) = N
  OBVIOUS

\* What is owed to the subscribers of an event.
LEMMA OwedItems ==
    ASSUME LoopInv, NEW n \in Names
    PROVE  /\ Len(Owed(n)) = Len(published[n]) * Len(subscribers[n])
           /\ Owed(n) \in Seq(Msgs \X Handlers)
           /\ \A D \in Nat, r \in 1..Len(subscribers[n]) :
                D < Len(published[n]) =>
                  Owed(n)[D * Len(subscribers[n]) + r] = <<published[n][D + 1], subscribers[n][r]>>
<1> DEFINE L == Len(subscribers[n])
           P == Len(published[n])
<1>1. /\ published[n] \in Seq(Msgs) /\ subscribers[n] \in Seq(Handlers)
      /\ P \in Nat /\ L \in Nat /\ P * L \in Nat
  BY DEF LoopInv, TypeOK
<1>2. Owed(n) = [k \in 1..P * L |-> <<published[n][((k - 1) \div L) + 1],
                                      subscribers[n][((k - 1) % L) + 1]>>]
  BY DEF Owed
<1>3. \A k \in 1..P * L : <<published[n][((k - 1) \div L) + 1],
                            subscribers[n][((k - 1) % L) + 1]>> \in Msgs \X Handlers
  <2> TAKE k \in 1..P * L
  <2>1. ((k - 1) \div L) + 1 \in 1..P /\ ((k - 1) % L) + 1 \in 1..L
    BY <1>1, QuotientBelow
  <2> DEFINE d == ((k - 1) \div L) + 1
             h == ((k - 1) % L) + 1
  <2> HIDE DEF d, h
  <2>2. published[n][d] \in Msgs /\ subscribers[n][h] \in Handlers
    <3>1. d \in 1..P /\ h \in 1..L
      BY <2>1 DEF d, h
    <3> QED BY <1>1, <3>1
  <2> QED BY <2>2 DEF d, h
<1>4. ASSUME NEW D \in Nat, NEW r \in 1..L, D < P
      PROVE  Owed(n)[D * L + r] = <<published[n][D + 1], subscribers[n][r]>>
  <2>1. D * L + r \in 1..P * L
    BY <1>1, <1>4, GroupItem
  <2>2. (D * L + r) - 1 = D * L + (r - 1) /\ r - 1 \in Nat /\ r - 1 < L /\ L \in Nat \ {0}
    BY <1>1
  <2>3. ((D * L + r) - 1) \div L = D /\ ((D * L + r) - 1) % L = r - 1
    <3> DEFINE e == r - 1
               m == (D * L + r) - 1
    <3>1. e \in Nat /\ e < L /\ L \in Nat \ {0} /\ m = D * L + e
      BY <2>2
    <3> HIDE DEF e, m
    <3>2. (D * L + e) \div L = D /\ (D * L + e) % L = e
      BY <3>1, Quotient
    <3> QED BY <3>1, <3>2 DEF e, m
  <2> DEFINE j == D * L + r
             d == (j - 1) \div L
             h == (j - 1) % L
  <2>4. Owed(n)[j] = <<published[n][d + 1], subscribers[n][h + 1]>>
    BY <1>2, <2>1
  <2>5. d = D /\ h = r - 1
    BY <2>3
  <2> HIDE DEF d, h, j
  <2>6. h + 1 = r
    BY <2>5
  <2>7. Owed(n)[j] = <<published[n][D + 1], subscribers[n][r]>>
    BY <2>4, <2>5, <2>6
  <2> QED BY <2>7 DEF j
<1>5. Owed(n) \in [1..P * L -> Msgs \X Handlers]
  BY <1>2, <1>3
<1>6. Len(Owed(n)) = P * L /\ Owed(n) \in Seq(Msgs \X Handlers)
  BY <1>1, <1>5, SegmentIsSeq
<1> QED BY <1>4, <1>6

\* Nothing about event n has changed.
LEMMA SameEvent ==
    ASSUME NEW n \in Names, InChannel(n), Logged(n),
           UNCHANGED <<published[n], channel[n], subscribers[n], log[n], Taken(n), Called(n)>>,
           phase' \in {"main", "commands"} => phase \in {"main", "commands"}
    PROVE  InChannel(n)' /\ Logged(n)'
<1>1. Given(n)' = Given(n)
  BY DEF Given
<1>2. Owed(n)' = Owed(n)
  BY DEF Owed
<1> QED BY <1>1, <1>2 DEF InChannel, Logged

\* The calls made never exceed those owed.
LEMMA LogBelow ==
    ASSUME LoopInv, NEW n \in Names, InChannel(n), Logged(n)
    PROVE  /\ Len(log[n]) <= Len(published[n]) * Len(subscribers[n])
           /\ Given(n) <= Len(published[n])
<1>1. /\ published[n] \in Seq(Msgs) /\ channel[n] \in Seq(Msgs) /\ subscribers[n] \in Seq(Handlers)
      /\ Len(published[n]) \in Nat /\ Len(channel[n]) \in Nat /\ Len(subscribers[n]) \in Nat
      /\ at \in Nat \ {0}
  BY DEF LoopInv, TypeOK
<1>2. Taken(n) \in Seq(Msgs) /\ Len(Taken(n)) \in Nat /\ (Taken(n) # <<>> => Len(Taken(n)) >= 1)
  BY DEF LoopInv, TypeOK, Taken
<1>3. Given(n) \in Nat /\ Given(n) <= Len(published[n])
      /\ (Taken(n) # <<>> => Given(n) < Len(published[n]))
  <2>1. Given(n) \in Nat
    BY DEF InChannel
  <2>2. Given(n) = Len(published[n]) - Len(channel[n]) - Len(Taken(n))
    BY DEF Given
  <2>3. /\ Len(published[n]) \in Nat /\ Len(channel[n]) \in Nat /\ Len(Taken(n)) \in Nat
        /\ (Taken(n) # <<>> => Len(Taken(n)) >= 1)
    BY <1>1, <1>2
  <2> DEFINE g == Given(n)
             p == Len(published[n])
             c == Len(channel[n])
             t == Len(Taken(n))
  <2>4. g \in Nat /\ p \in Nat /\ c \in Nat /\ t \in Nat /\ g = p - c - t
    BY <2>1, <2>2, <2>3
  <2> HIDE DEF g, p, c, t
  <2>5. g <= p /\ (t >= 1 => g < p)
    BY <2>4
  <2> QED BY <2>1, <2>3, <2>5 DEF g, p, t
<1>4. Called(n) \in 0..Len(subscribers[n]) /\ (Taken(n) = <<>> => Called(n) = 0)
  BY <1>1 DEF Called, Taken, LoopInv, Places
<1>5. CASE Taken(n) = <<>>
  <2>1. Given(n) * Len(subscribers[n]) <= Len(published[n]) * Len(subscribers[n])
    BY <1>1, <1>3, ProductAtMost
  <2>2. Len(log[n]) = Given(n) * Len(subscribers[n])
    BY <1>1, <1>3, <1>4, <1>5 DEF Logged
  <2> QED BY <1>3, <2>1, <2>2
<1>6. CASE Taken(n) # <<>>
  <2>1. Given(n) * Len(subscribers[n]) + Len(subscribers[n])
            <= Len(published[n]) * Len(subscribers[n])
    BY <1>1, <1>3, <1>6, ProductBelow
  <2> DEFINE a == Given(n) * Len(subscribers[n])
             b == Len(published[n]) * Len(subscribers[n])
  <2>2. Len(log[n]) = a + Called(n) /\ a + Len(subscribers[n]) <= b /\ a \in Nat /\ b \in Nat
    <3>1. a \in Nat /\ b \in Nat
      BY <1>1, <1>3, ProductNext
    <3> QED BY <2>1, <3>1 DEF Logged
  <2> HIDE DEF a, b
  <2>3. Len(log[n]) <= b
    BY <1>1, <1>4, <2>2
  <2> QED BY <1>3, <2>3 DEF b
<1> QED BY <1>5, <1>6

\* One more message in the channel: what is owed grows at its end.
LEMMA PublishedEvent ==
    ASSUME LoopInv, NEW n \in Names, NEW m \in Msgs, InChannel(n), Logged(n),
           channel' = [channel EXCEPT ![n] = Append(@, m)],
           published' = [published EXCEPT ![n] = Append(@, m)],
           UNCHANGED <<subscribers, log, phase, name, batch, at, inHandler>>
    PROVE  InChannel(n)' /\ Logged(n)'
<1> DEFINE L == Len(subscribers[n])
           P == Len(published[n])
<1>1. /\ published[n] \in Seq(Msgs) /\ channel[n] \in Seq(Msgs) /\ subscribers[n] \in Seq(Handlers)
      /\ P \in Nat /\ L \in Nat /\ Len(channel[n]) \in Nat
      /\ log[n] \in Seq(Msgs \X Handlers) /\ Len(log[n]) \in Nat
      /\ published'[n] = Append(published[n], m) /\ channel'[n] = Append(channel[n], m)
  BY DEF LoopInv, TypeOK
<1>2. Taken(n)' = Taken(n) /\ Called(n)' = Called(n)
  BY DEF Taken, Called
<1>3. /\ Len(published'[n]) = P + 1 /\ (\A i \in 1..P : published'[n][i] = published[n][i])
      /\ published'[n][P + 1] = m
      /\ Len(channel'[n]) = Len(channel[n]) + 1 /\ channel'[n][Len(channel[n]) + 1] = m
      /\ (\A i \in 1..Len(channel[n]) : channel'[n][i] = channel[n][i])
  BY <1>1, AppendItems
<1>4. Taken(n) \in Seq(Msgs) /\ Len(Taken(n)) \in Nat
  BY DEF LoopInv, TypeOK, Taken
<1>5. Given(n)' = Given(n) /\ Given(n) + Len(Taken(n)) + Len(channel[n]) = P /\ Given(n) \in Nat
  <2>1. Given(n) \in Nat
    BY DEF InChannel
  <2>2. Given(n) = P - Len(channel[n]) - Len(Taken(n))
    BY DEF Given
  <2>3. Given(n)' = Len(published'[n]) - Len(channel'[n]) - Len(Taken(n)')
    BY DEF Given
  <2>4. Given(n)' = (P + 1) - (Len(channel[n]) + 1) - Len(Taken(n))
    BY <1>2, <1>3, <2>3
  <2> HIDE DEF P
  <2> QED BY <1>1, <1>4, <2>1, <2>2, <2>4
<1>6. InChannel(n)'
  <2>1. \A i \in 1..Len(Taken(n)) : Taken(n)[i] = published'[n][Given(n) + i]
    <3> TAKE i \in 1..Len(Taken(n))
    <3>1. Given(n) + i \in 1..P
      BY <1>1, <1>4, <1>5
    <3> QED BY <1>3, <3>1 DEF InChannel
  <2>2. \A i \in 1..Len(channel'[n]) : channel'[n][i] = published'[n][Given(n) + Len(Taken(n)) + i]
    <3> TAKE i \in 1..Len(channel'[n])
    <3>1. CASE i \in 1..Len(channel[n])
      <4>1. Given(n) + Len(Taken(n)) + i \in 1..P
        BY <1>1, <1>4, <1>5, <3>1
      <4> QED BY <1>3, <3>1, <4>1 DEF InChannel
    <3>2. CASE i = Len(channel[n]) + 1
      <4>1. Given(n) + Len(Taken(n)) + i = P + 1
        <5> HIDE DEF P
        <5> QED BY <1>1, <1>4, <1>5, <3>2
      <4>2. published'[n][P + 1] = m /\ channel'[n][Len(channel[n]) + 1] = m
        BY <1>3
      <4> HIDE DEF P
      <4> QED BY <3>2, <4>1, <4>2
    <3>3. i \in 1..Len(channel[n]) \/ i = Len(channel[n]) + 1
      BY <1>1, <1>3
    <3> QED BY <3>1, <3>2, <3>3
  <2> QED BY <1>2, <1>5, <2>1, <2>2 DEF InChannel
<1>7. \A k \in 1..Len(log[n]) : Owed(n)'[k] = Owed(n)[k]
  <2> TAKE k \in 1..Len(log[n])
  <2>1. Len(log[n]) <= P * L
    BY LogBelow
  <2> DEFINE b == P * L
             c == (P + 1) * L
  <2>2. b \in Nat /\ c = b + L /\ c \in Nat
    BY <1>1, ProductNext
  <2>3. k \in 1..b /\ k \in 1..c
    <3> HIDE DEF b, c
    <3>1. Len(log[n]) <= b
      BY <2>1 DEF b
    <3> QED BY <1>1, <2>2, <3>1
  <2>4. ((k - 1) \div L) + 1 \in 1..P
    BY <1>1, <2>3, QuotientBelow
  <2>5. Owed(n) = [j \in 1..b |-> <<published[n][((j - 1) \div L) + 1],
                                    subscribers[n][((j - 1) % L) + 1]>>]
    BY DEF Owed
  <2> DEFINE L1 == Len(subscribers'[n])
             b1 == Len(published'[n]) * L1
  <2>6. Owed(n)' = [j \in 1..b1 |-> <<published'[n][((j - 1) \div L1) + 1],
                                      subscribers'[n][((j - 1) % L1) + 1]>>]
    BY DEF Owed
  <2>7. L1 = L /\ b1 = c
    BY <1>3
  <2>8. published'[n][((k - 1) \div L) + 1] = published[n][((k - 1) \div L) + 1]
    BY <1>3, <2>4
  <2> HIDE DEF b, c, L1, b1
  <2>9. Owed(n)[k] = <<published[n][((k - 1) \div L) + 1], subscribers[n][((k - 1) % L) + 1]>>
    BY <2>3, <2>5
  <2>10. Owed(n)'[k] = <<published'[n][((k - 1) \div L1) + 1], subscribers'[n][((k - 1) % L1) + 1]>>
    BY <2>3, <2>6, <2>7
  <2>11. Owed(n)'[k] = <<published'[n][((k - 1) \div L) + 1], subscribers[n][((k - 1) % L) + 1]>>
    BY <2>7, <2>10
  <2> QED BY <2>8, <2>9, <2>11
<1>8. Logged(n)'
  BY <1>2, <1>5, <1>7 DEF Logged
<1> QED BY <1>6, <1>8

\* The loop takes the channel of an event: its messages are next.
LEMMA TakenEvent ==
    ASSUME LoopInv, NEW n \in Names, TakeEvents(n), NEW k \in Names, InChannel(k), Logged(k)
    PROVE  InChannel(k)' /\ Logged(k)'
<1>1. /\ phase = "events" /\ batch = <<>> /\ phase' = phase /\ name' = n /\ batch' = channel[n]
      /\ channel' = [channel EXCEPT ![n] = <<>>] /\ channel \in [Names -> Seq(Msgs)]
      /\ UNCHANGED <<subscribers, published, log, at, inHandler>>
  BY DEF TakeEvents, handlerVars, LoopInv, TypeOK
<1>2. at = 1 /\ ~inHandler /\ Taken(k) = <<>> /\ Called(k) = 0
  BY <1>1 DEF LoopInv, Places, Taken, Called
<1>3. CASE k # n
  <2>1. channel'[k] = channel[k] /\ Taken(k)' = <<>> /\ Called(k)' = 0
    BY <1>1, <1>3 DEF Taken, Called
  <2> QED BY <1>1, <1>2, <2>1, SameEvent
<1>4. CASE k = n
  <2>1. channel'[k] = <<>> /\ Taken(k)' = channel[k] /\ Called(k)' = 0
    <3>1. channel'[k] = <<>> /\ Taken(k)' = channel[k]
      BY <1>1, <1>4 DEF Taken
    <3>2. at' - 1 = 0
      BY <1>1, <1>2
    <3> QED BY <1>1, <1>2, <3>1, <3>2 DEF Called
  <2>2. published[k] \in Seq(Msgs) /\ channel[k] \in Seq(Msgs) /\ Len(<<>>) = 0
        /\ Len(published[k]) \in Nat /\ Len(channel[k]) \in Nat
    BY DEF LoopInv, TypeOK
  <2>3. /\ Given(k)' = Len(published[k]) - 0 - Len(channel[k])
        /\ Given(k) = Len(published[k]) - Len(channel[k]) - 0
    BY <1>1, <1>2, <2>1, <2>2 DEF Given
  <2>4. Given(k)' = Given(k) /\ Given(k) \in Nat
    BY <2>2, <2>3 DEF InChannel
  <2>5. \A i \in 1..Len(channel[k]) : channel[k][i] = published[k][Given(k) + i]
    BY <1>2, <2>2, <2>4 DEF InChannel
  <2>6. InChannel(k)'
    <3>1. \A i \in 1..Len(channel'[k]) :
             channel'[k][i] = published'[k][Given(k)' + Len(Taken(k)') + i]
      BY <2>1, <2>2
    <3>2. \A i \in 1..Len(Taken(k)') : Taken(k)'[i] = published'[k][Given(k)' + i]
      BY <1>1, <2>1, <2>4, <2>5
    <3> QED BY <1>1, <2>4, <3>1, <3>2 DEF InChannel
  <2>7. Owed(k)' = Owed(k)
    BY <1>1 DEF Owed
  <2> QED BY <1>1, <1>2, <2>1, <2>4, <2>6, <2>7 DEF Logged
<1> QED BY <1>3, <1>4

\* A subscriber is called with the message it is owed next.
LEMMA CalledEvent ==
    ASSUME LoopInv, CallSubscriber, NEW k \in Names, InChannel(k), Logged(k)
    PROVE  InChannel(k)' /\ Logged(k)'
<1>1. /\ phase = "events" /\ batch # <<>> /\ ~inHandler /\ inHandler' = TRUE
      /\ log' = [log EXCEPT ![name] = Append(@, <<Head(batch), subscribers[name][at]>>)]
      /\ UNCHANGED <<phase, subscribers, channel, published, batch, at, name>>
  BY DEF CallSubscriber, handlerVars, roundVars
<1>2. /\ name \in Names /\ at \in Nat \ {0} /\ at <= Len(subscribers[name])
      /\ subscribers[name] \in Seq(Handlers) /\ batch \in Seq(Msgs)
      /\ log \in [Names -> Seq(Msgs \X Handlers)]
      /\ published[name] \in Seq(Msgs) /\ channel[name] \in Seq(Msgs)
  BY <1>1 DEF LoopInv, TypeOK, Places
<1>3. CASE k # name
  <2>1. log'[k] = log[k] /\ Taken(k)' = Taken(k) /\ Called(k)' = Called(k)
    BY <1>1, <1>2, <1>3 DEF Taken, Called
  <2> QED BY <1>1, <2>1, SameEvent
<1>4. CASE k = name
  <2>1. Taken(k)' = Taken(k) /\ Taken(k) = batch /\ Called(k) = at - 1 /\ Called(k)' = at
    BY <1>1, <1>4 DEF Taken, Called
  <2>2. Given(k)' = Given(k)
    BY <1>1, <2>1 DEF Given
  <2>3. InChannel(k)'
    BY <1>1, <2>1, <2>2 DEF InChannel
  <2> DEFINE x == <<Head(batch), subscribers[k][at]>>
             L == Len(subscribers[k])
             a == Given(k) * L
  <2>4. Head(batch) = batch[1] /\ batch[1] \in Msgs /\ Len(batch) \in Nat \ {0}
    BY <1>1, <1>2, TailItems
  <2>5. x \in Msgs \X Handlers /\ log[k] \in Seq(Msgs \X Handlers)
    BY <1>2, <1>4, <2>4
  <2>6. /\ log'[k] = Append(log[k], x) /\ Len(log'[k]) = Len(log[k]) + 1 /\ Len(log[k]) \in Nat
        /\ \A i \in 1..Len(log[k]) : log'[k][i] = log[k][i]
        /\ log'[k][Len(log[k]) + 1] = x
    <3>1. log'[k] = Append(log[k], x)
      BY <1>1, <1>2, <1>4
    <3> HIDE DEF x
    <3> QED BY <2>5, <3>1, AppendItems
  <2>7. Given(k) \in Nat /\ L \in Nat /\ a \in Nat
    BY <1>2, <1>4, ProductNext DEF InChannel
  <2>8. Given(k) < Len(published[k])
    <3>1. Given(k) = Len(published[k]) - Len(channel[k]) - Len(batch)
      BY <2>1 DEF Given
    <3>2. Len(published[k]) \in Nat /\ Len(channel[k]) \in Nat
      BY <1>2, <1>4
    <3> DEFINE p == Len(published[k])
               c == Len(channel[k])
               b == Len(batch)
    <3>3. p \in Nat /\ c \in Nat /\ b \in Nat \ {0} /\ Given(k) = p - c - b
      BY <2>4, <3>1, <3>2
    <3> HIDE DEF p, c, b
    <3>4. Given(k) < p
      BY <3>3
    <3> QED BY <3>4 DEF p
  <2>9. Len(log[k]) = a + (at - 1)
    BY <2>1 DEF Logged
  <2>10. Owed(k)[a + at] = x
    <3>1. Owed(k)[a + at] = <<published[k][Given(k) + 1], subscribers[k][at]>>
      <4>1. at \in 1..L
        BY <1>2, <1>4
      <4> QED BY <2>7, <2>8, <4>1, OwedItems
    <3>2. batch[1] = published[k][Given(k) + 1]
      <4>1. 1 \in 1..Len(Taken(k))
        BY <2>1, <2>4
      <4> QED BY <2>1, <4>1 DEF InChannel
    <3> QED BY <2>4, <3>1, <3>2
  <2>11. Owed(k)' = Owed(k)
    BY <1>1 DEF Owed
  <2>12. Len(log'[k]) = a + at
    <3> HIDE DEF a
    <3> QED BY <1>2, <2>6, <2>7, <2>9
  <2>13. Len(log'[k]) = Given(k)' * Len(subscribers'[k]) + Called(k)'
    BY <1>1, <2>1, <2>2, <2>12
  <2>14. \A i \in 1..Len(log'[k]) : log'[k][i] = Owed(k)'[i]
    <3> TAKE i \in 1..Len(log'[k])
    <3> HIDE DEF a, x
    <3>1. CASE i \in 1..Len(log[k])
      BY <2>6, <2>11, <3>1 DEF Logged
    <3>2. CASE i = Len(log[k]) + 1
      <4>1. i = a + at
        BY <2>6, <2>12, <3>2
      <4> QED BY <2>6, <2>10, <2>11, <3>2, <4>1
    <3>3. i \in 1..Len(log[k]) \/ i = Len(log[k]) + 1
      BY <2>6
    <3> QED BY <3>1, <3>2, <3>3
  <2> QED BY <2>3, <2>13, <2>14 DEF Logged
<1> QED BY <1>3, <1>4

\* The subscriber returns: the next one is due, or the next message.
LEMMA ReturnedEvent ==
    ASSUME LoopInv, SubscriberReturns, NEW k \in Names, InChannel(k), Logged(k)
    PROVE  InChannel(k)' /\ Logged(k)'
<1>1. /\ phase = "events" /\ inHandler /\ inHandler' = FALSE
      /\ IF at < Len(subscribers[name]) THEN at' = at + 1 /\ batch' = batch
         ELSE at' = 1 /\ batch' = Tail(batch)
      /\ UNCHANGED <<phase, subscribers, channel, published, log, name>>
  BY DEF SubscriberReturns, handlerVars, roundVars
<1>2. /\ batch # <<>> /\ name \in Names /\ at \in Nat \ {0} /\ at <= Len(subscribers[name])
      /\ subscribers[name] \in Seq(Handlers) /\ batch \in Seq(Msgs)
      /\ published[k] \in Seq(Msgs) /\ channel[k] \in Seq(Msgs)
  BY <1>1 DEF LoopInv, TypeOK, Places
<1>3. CASE k # name
  <2>1. Taken(k)' = Taken(k) /\ Called(k)' = Called(k)
    BY <1>1, <1>3 DEF Taken, Called
  <2> QED BY <1>1, <2>1, SameEvent
<1>4. CASE k = name /\ at < Len(subscribers[name])
  <2>1. at' - 1 = at
    BY <1>1, <1>2, <1>4
  <2>2. Taken(k)' = Taken(k) /\ Called(k)' = Called(k)
    BY <1>1, <1>2, <1>4, <2>1 DEF Taken, Called
  <2> QED BY <1>1, <2>2, SameEvent
<1>5. CASE k = name /\ ~(at < Len(subscribers[name]))
  <2> DEFINE L == Len(subscribers[k])
             g == Given(k)
  <2>1. at' = 1 /\ batch' = Tail(batch) /\ at = L
    BY <1>1, <1>2, <1>5
  <2>2. Taken(k) = batch /\ Taken(k)' = Tail(batch) /\ Called(k) = L /\ Called(k)' = 0
    <3>1. Taken(k) = batch /\ Taken(k)' = Tail(batch)
      BY <1>1, <1>5, <2>1 DEF Taken
    <3>2. Called(k) = L /\ at' - 1 = 0
      BY <1>1, <1>2, <2>1, <3>1 DEF Called
    <3> QED BY <1>1, <3>1, <3>2 DEF Called
  <2>3. /\ Len(batch) \in Nat \ {0} /\ Len(Tail(batch)) = Len(batch) - 1
        /\ \A i \in 1..Len(batch) - 1 : Tail(batch)[i] = batch[i + 1]
    BY <1>2, TailItems
  <2>4. g \in Nat /\ Given(k)' = g + 1
    <3>1. g \in Nat
      BY DEF InChannel
    <3>2. g = Len(published[k]) - Len(channel[k]) - Len(batch)
      BY <2>2 DEF Given
    <3>3. Given(k)' = Len(published[k]) - Len(channel[k]) - (Len(batch) - 1)
      BY <1>1, <2>2, <2>3 DEF Given
    <3>4. Len(published[k]) \in Nat /\ Len(channel[k]) \in Nat
      BY <1>2
    <3> HIDE DEF g
    <3> QED BY <2>3, <3>1, <3>2, <3>3, <3>4
  <2>5. InChannel(k)'
    <3>1. \A i \in 1..Len(Tail(batch)) : Tail(batch)[i] = published[k][(g + 1) + i]
      <4> TAKE i \in 1..Len(Tail(batch))
      <4>1. i \in 1..Len(batch) - 1 /\ i + 1 \in 1..Len(batch) /\ g + (i + 1) = (g + 1) + i
        BY <2>3, <2>4
      <4>2. batch[i + 1] = published[k][g + (i + 1)]
        BY <2>2, <4>1 DEF InChannel
      <4> QED BY <2>3, <4>1, <4>2
    <3>2. \A i \in 1..Len(channel[k]) :
             channel[k][i] = published[k][(g + 1) + Len(Tail(batch)) + i]
      <4> TAKE i \in 1..Len(channel[k])
      <4>1. (g + 1) + Len(Tail(batch)) + i = g + Len(batch) + i
        BY <2>3, <2>4
      <4>2. channel[k][i] = published[k][g + Len(batch) + i]
        BY <2>2 DEF InChannel
      <4> QED BY <4>1, <4>2
    <3> QED BY <1>1, <2>2, <2>4, <3>1, <3>2 DEF InChannel
  <2>6. Owed(k)' = Owed(k)
    BY <1>1 DEF Owed
  <2>7. (g + 1) * L = g * L + L /\ L \in Nat
    <3>1. L \in Nat /\ g \in Nat
      BY <1>2, <1>5, <2>4
    <3> HIDE DEF L, g
    <3> QED BY <3>1, ProductNext
  <2>8. Len(log[k]) = (g + 1) * L + 0
    <3>1. Len(log[k]) = g * L + L
      BY <2>2 DEF Logged
    <3>2. (g + 1) * L \in Nat
      BY <2>4, <2>7, ProductNext
    <3> DEFINE b == (g + 1) * L
    <3>3. Len(log[k]) = b /\ b \in Nat
      BY <2>7, <3>1, <3>2
    <3> HIDE DEF b
    <3>4. Len(log[k]) = b + 0
      BY <3>3
    <3> QED BY <3>4 DEF b
  <2>9. Logged(k)'
    BY <1>1, <2>2, <2>4, <2>6, <2>8 DEF Logged
  <2> QED BY <2>5, <2>9
<1> QED BY <1>3, <1>4, <1>5

\* A handler is added while nothing has been delivered.
LEMMA SubscribedEvent ==
    ASSUME LoopInv, NEW n \in Names, NEW h \in Handlers, Subscribe(n, h),
           NEW k \in Names, InChannel(k), Logged(k)
    PROVE  InChannel(k)' /\ Logged(k)'
<1>1. /\ phase = "main" /\ phase' = phase
      /\ subscribers \in [Names -> Seq(Handlers)] /\ subscribers' \in [Names -> Seq(Handlers)]
      /\ UNCHANGED <<channel, published, log, name, batch, at, inHandler>>
  BY SubscribeLoop DEF Subscribe, roundVars, LoopInv, TypeOK
<1>2. Taken(k) = <<>> /\ Taken(k)' = <<>> /\ Called(k) = 0 /\ Called(k)' = 0
  BY <1>1 DEF Taken, Called
<1>3. Given(k) = 0 /\ Given(k)' = 0
  BY <1>1, <1>2 DEF InChannel, Given
<1>4. InChannel(k)'
  BY <1>1, <1>2, <1>3 DEF InChannel
<1>5. 0 * Len(subscribers[k]) + 0 = 0 /\ 0 * Len(subscribers'[k]) + 0 = 0
  BY <1>1
<1>6. Len(log[k]) = 0
  BY <1>2, <1>3, <1>5 DEF Logged
<1> QED BY <1>1, <1>2, <1>3, <1>4, <1>5, <1>6 DEF Logged

\* What is quiet in a round stays so until something is delivered.
LEMMA QuietStep == ASSUME LoopInv, QuietRound, [Next]_vars PROVE QuietRound'
<1> USE DEF QuietRound, handlerVars, commandVars, awaitVars, roundVars
<1>1. ASSUME NEW n \in Names, NEW m \in Msgs, Publish(n, m) \/ RouteEvent(n, m) PROVE QuietRound'
  <2>1. UNCHANGED <<phase, subscribers, todo, dispatched>>
    BY <1>1 DEF Publish, RouteEvent
  <2>2. ~(phase = "events" /\ ~dispatched)
    <3>1. CASE Publish(n, m)
      BY <3>1 DEF Publish, ClawCodeRuns, LoopInv, Places
    <3>2. CASE RouteEvent(n, m)
      BY <3>2 DEF RouteEvent
    <3> QED BY <1>1, <3>1, <3>2
  <2> QED BY <2>1, <2>2
<1>2. ASSUME NEW n \in Names, NEW h \in Handlers, Subscribe(n, h) \/ Register(n, h)
      PROVE  QuietRound'
  BY <1>2 DEF Subscribe, Register
<1>3. ASSUME NEW n \in Names, Send(n) \/ RouteCommand(n) PROVE QuietRound'
  BY <1>3 DEF Send, RouteCommand
<1>4. ASSUME NEW n \in Names, TakeEvents(n) PROVE QuietRound'
  <2>1. /\ phase = "events" /\ phase' = phase /\ subscribers' = subscribers
        /\ todo' = todo \ {n} /\ channel' = [channel EXCEPT ![n] = <<>>]
        /\ dispatched' = (dispatched \/ channel[n] # <<>>)
        /\ channel \in [Names -> Seq(Msgs)]
    BY <1>4 DEF TakeEvents, LoopInv, TypeOK
  <2>2. ASSUME ~dispatched', NEW k \in Names \ todo', subscribers[k] # <<>>
        PROVE  channel'[k] = <<>>
    BY <2>1, <2>2
  <2> QED BY <2>1, <2>2
<1>5. CASE \E i \in Ids : AwaitAnswer(i)
  BY <1>5 DEF AwaitAnswer
<1>6. CASE TakeCommands \/ CallCommandHandler \/ CommandHandlerReturns \/ NextCommand \/ CommandsEnd
  BY <1>6 DEF TakeCommands, CallCommandHandler, CommandHandlerReturns, NextCommand, CommandsEnd
<1>7. CASE StartRound
  BY <1>7 DEF StartRound
<1>8. CASE CallSubscriber \/ SubscriberReturns \/ EventsEnd \/ BridgeEnds \/ UNCHANGED vars
  BY <1>8 DEF CallSubscriber, SubscriberReturns, EventsEnd, BridgeEnds, vars
<1> QED BY <1>1, <1>2, <1>3, <1>4, <1>5, <1>6, <1>7, <1>8 DEF Next

\* The steps that have nothing to do with the events.
LEMMA OtherSteps ==
    ASSUME LoopInv,
           \/ \E n \in Names : Send(n) \/ RouteCommand(n)
           \/ \E n \in Names, h \in Handlers : Register(n, h)
           \/ \E i \in Ids : AwaitAnswer(i)
           \/ TakeCommands \/ CallCommandHandler \/ CommandHandlerReturns \/ NextCommand
           \/ CommandsEnd \/ StartRound \/ EventsEnd \/ BridgeEnds \/ UNCHANGED vars
    PROVE  /\ UNCHANGED <<published, channel, subscribers, log>>
           /\ \A n \in Names : Taken(n)' = Taken(n) /\ Called(n)' = Called(n)
           /\ phase' \in {"main", "commands"} => phase \in {"main", "commands"}
<1> USE DEF handlerVars, commandVars, awaitVars, roundVars
<1>1. UNCHANGED <<published, channel, subscribers, log>>
  BY DEF Send, RouteCommand, Register, AwaitAnswer, TakeCommands, CallCommandHandler,
         CommandHandlerReturns, NextCommand, CommandsEnd, StartRound, EventsEnd, BridgeEnds, vars
<1>2. CASE \/ \E n \in Names : Send(n) \/ RouteCommand(n)
           \/ \E n \in Names, h \in Handlers : Register(n, h)
           \/ \E i \in Ids : AwaitAnswer(i)
           \/ UNCHANGED vars
  <2>1. UNCHANGED <<phase, name, batch, at, inHandler>>
    BY <1>2 DEF Send, RouteCommand, Register, AwaitAnswer, vars
  <2> QED BY <1>1, <2>1 DEF Taken, Called
<1>3. CASE TakeCommands \/ CallCommandHandler \/ CommandHandlerReturns \/ NextCommand
  <2>1. phase \in {"main", "commands"} /\ phase' = "commands"
    BY <1>3 DEF TakeCommands, CallCommandHandler, CommandHandlerReturns, NextCommand
  <2>2. \A n \in Names : Taken(n)' = <<>> /\ Taken(n) = <<>>
    BY <2>1 DEF Taken
  <2> QED BY <1>1, <2>1, <2>2 DEF Called
<1>4. CASE CommandsEnd \/ StartRound \/ EventsEnd \/ BridgeEnds
  <2>1. /\ batch = <<>> /\ batch' = <<>> /\ phase' \notin {"main", "commands"}
    BY <1>4 DEF CommandsEnd, StartRound, EventsEnd, BridgeEnds, LoopInv, Places
  <2>2. \A n \in Names : Taken(n)' = <<>> /\ Taken(n) = <<>>
    BY <2>1 DEF Taken
  <2> QED BY <1>1, <2>1, <2>2 DEF Called
<1> QED BY <1>2, <1>3, <1>4

\* Every step keeps every event in order.
LEMMA EventStep ==
    ASSUME LoopInv, [Next]_vars, NEW k \in Names, InChannel(k), Logged(k)
    PROVE  InChannel(k)' /\ Logged(k)'
<1>1. ASSUME NEW n \in Names, NEW m \in Msgs, Publish(n, m) \/ RouteEvent(n, m)
      PROVE  InChannel(k)' /\ Logged(k)'
  <2>1. /\ channel' = [channel EXCEPT ![n] = Append(@, m)]
        /\ published' = [published EXCEPT ![n] = Append(@, m)]
        /\ UNCHANGED <<subscribers, log, phase, name, batch, at, inHandler>>
        /\ channel \in [Names -> Seq(Msgs)] /\ published \in [Names -> Seq(Msgs)]
    BY <1>1 DEF Publish, RouteEvent, handlerVars, roundVars, LoopInv, TypeOK
  <2>2. CASE k = n
    BY <2>1, <2>2, PublishedEvent
  <2>3. CASE k # n
    <3>1. UNCHANGED <<published[k], channel[k], Taken(k), Called(k)>>
      BY <2>1, <2>3 DEF Taken, Called
    <3> QED BY <2>1, <3>1, SameEvent
  <2> QED BY <2>2, <2>3
<1>2. ASSUME NEW n \in Names, NEW h \in Handlers, Subscribe(n, h) PROVE InChannel(k)' /\ Logged(k)'
  BY <1>2, SubscribedEvent
<1>3. ASSUME NEW n \in Names, TakeEvents(n) PROVE InChannel(k)' /\ Logged(k)'
  BY <1>3, TakenEvent
<1>4. CASE CallSubscriber
  BY <1>4, CalledEvent
<1>5. CASE SubscriberReturns
  BY <1>5, ReturnedEvent
<1>6. CASE \/ \E n \in Names : Send(n) \/ RouteCommand(n)
           \/ \E n \in Names, h \in Handlers : Register(n, h)
           \/ \E i \in Ids : AwaitAnswer(i)
           \/ TakeCommands \/ CallCommandHandler \/ CommandHandlerReturns \/ NextCommand
           \/ CommandsEnd \/ StartRound \/ EventsEnd \/ BridgeEnds \/ UNCHANGED vars
  BY <1>6, OtherSteps, SameEvent
<1> QED BY <1>1, <1>2, <1>3, <1>4, <1>5, <1>6 DEF Next

\* The invariant of the deliveries.
THEOREM DeliveryInvariance == Spec => []DeliveryInv
<1>1. Init => DeliveryInv
  <2> SUFFICES ASSUME Init PROVE DeliveryInv
    OBVIOUS
  <2>1. LoopInv
    BY LoopInit
  <2>2. QuietRound
    BY DEF Init, QuietRound
  <2>3. ASSUME NEW n \in Names PROVE InChannel(n) /\ Logged(n)
    <3>1. /\ published[n] = <<>> /\ channel[n] = <<>> /\ log[n] = <<>> /\ subscribers[n] = <<>>
          /\ Taken(n) = <<>> /\ Called(n) = 0 /\ Len(<<>>) = 0
      BY DEF Init, Taken, Called
    <3>2. Given(n) = 0
      <4>1. Given(n) = 0 - 0 - 0
        BY <3>1, Zenon DEF Given
      <4> QED BY <4>1
    <3> QED BY <3>1, <3>2 DEF InChannel, Logged
  <2> QED BY <2>1, <2>2, <2>3 DEF DeliveryInv
<1>2. DeliveryInv /\ [Next]_vars => DeliveryInv'
  <2> SUFFICES ASSUME DeliveryInv, [Next]_vars PROVE DeliveryInv'
    OBVIOUS
  <2>1. LoopInv' /\ QuietRound'
    BY LoopStep, QuietStep DEF DeliveryInv
  <2>2. ASSUME NEW n \in Names PROVE InChannel(n)' /\ Logged(n)'
    BY EventStep DEF DeliveryInv
  <2> QED BY <2>1, <2>2 DEF DeliveryInv
<1> QED BY <1>1, <1>2, PTL DEF Spec

\* For any program and handlers, every event goes to the subscribers of its name in
\* the order of subscription and of publication, none twice and none skipped.
THEOREM DeliveredInOrder == Spec => []Deliveries
<1>1. DeliveryInv => Deliveries
  <2> SUFFICES ASSUME DeliveryInv, NEW n \in Names
               PROVE  /\ Len(log[n]) <= Len(Owed(n))
                      /\ log[n] = SubSeq(Owed(n), 1, Len(log[n]))
    BY DEF DeliveryInv, LoopInv, Deliveries, InOrder
  <2>1. Len(log[n]) <= Len(Owed(n))
    BY LogBelow, OwedItems DEF DeliveryInv
  <2>2. log[n] \in Seq(Msgs \X Handlers) /\ Owed(n) \in Seq(Msgs \X Handlers)
    BY OwedItems DEF DeliveryInv, LoopInv, TypeOK
  <2>3. \A k \in 1..Len(log[n]) : log[n][k] = Owed(n)[k]
    BY DEF DeliveryInv, Logged
  <2> QED BY <2>1, <2>2, <2>3, PrefixItems
<1> QED BY <1>1, DeliveryInvariance, PTL

\* When the event loop ends because a round found nothing, every subscriber has been
\* called for everything published to its name.
THEOREM NothingUndelivered == Spec => AllDelivered
<1>1. DeliveryInv /\ [Next]_vars =>
        [EventsEnd /\ ~dispatched =>
           \A n \in Names : subscribers[n] # <<>> => Len(log[n]) = Len(Owed(n))]_vars
  <2> SUFFICES ASSUME DeliveryInv, EventsEnd, ~dispatched, NEW n \in Names, subscribers[n] # <<>>
               PROVE  Len(log[n]) = Len(Owed(n))
    OBVIOUS
  <2>1. /\ channel[n] = <<>> /\ Taken(n) = <<>> /\ Called(n) = 0
        /\ LoopInv /\ InChannel(n) /\ Logged(n)
    BY DEF EventsEnd, DeliveryInv, QuietRound, Taken, Called
  <2>2. published[n] \in Seq(Msgs) /\ Len(published[n]) \in Nat /\ Len(<<>>) = 0
        /\ subscribers[n] \in Seq(Handlers) /\ Len(subscribers[n]) \in Nat
    BY <2>1 DEF LoopInv, TypeOK
  <2>3. Given(n) = Len(published[n])
    BY <2>1, <2>2 DEF Given
  <2>4. Len(log[n]) = Len(published[n]) * Len(subscribers[n]) + 0
    BY <2>1, <2>3 DEF Logged
  <2>5. Len(Owed(n)) = Len(published[n]) * Len(subscribers[n])
    BY <2>1, OwedItems
  <2> QED BY <2>2, <2>4, <2>5, ProductNext
<1> QED BY <1>1, DeliveryInvariance, PTL DEF AllDelivered, Spec
=============================================================================
