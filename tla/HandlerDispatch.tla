-------------------------- MODULE HandlerDispatch --------------------------
(***************************************************************************)
(* Commands and events of the bytecode executor: what the program leaves   *)
(* in command_channel and event_channels while it runs, and what           *)
(* execute_in_vm (bytecode/bytecode_executor.cpp) does with it afterwards, *)
(* one phase after the other: commands, events, bridged messages.          *)
(*                                                                         *)
(* Handlers are closures run to the end by execute_closure; while one runs *)
(* it may publish and send.  A handler that subscribes or registers while  *)
(* a loop walks the handlers invalidates that loop's iterators, which has  *)
(* no modelled outcome: handlers are added by the program itself only.     *)
(***************************************************************************)
EXTENDS Integers, Sequences, FiniteSets, SeqFacts

CONSTANTS Names,        \* names of events and of commands
          Handlers,     \* closures
          Msgs,         \* payloads; each is published once
          MaxCommands,  \* bound on the commands sent
          MaxRounds     \* max_rounds of the event loop, 100 in the code

ASSUME DispatchAssumption == MaxCommands \in Nat /\ MaxRounds \in Nat \ {0}

VARIABLES phase,        \* which loop of execute_in_vm runs
          subscribers,  \* event_handlers
          registered,   \* command_handlers
          channel,      \* event_channels
          commands,     \* command_channel
          pending,      \* keys of pending_commands
          nextId,       \* next_command_id
          awaiting,     \* commands a coroutine is parked on
          woken,        \* commands whose coroutine is in ready_coroutines
          answers,      \* request |-> the handlers whose result resolved it
          batch,        \* what the current loop has taken from a channel
          at,           \* the handler it is at
          inHandler,    \* execute_closure is running that handler
          name,         \* the event whose batch is being delivered
          todo,         \* events the current round has not visited
          dispatched,   \* the flag of that name
          rounds,       \* rounds left
          published,    \* event |-> everything published, in order
          log           \* event |-> the deliveries made, in order

handlerVars == <<subscribers, registered>>
commandVars == <<commands, pending, nextId>>
awaitVars == <<awaiting, woken, answers>>
roundVars == <<name, todo, dispatched, rounds>>
vars == <<phase, handlerVars, channel, commandVars, awaitVars, batch, at,
          inHandler, roundVars, published, log>>

Ids == 1..MaxCommands
NoName == "none"

Init == /\ phase = "main"
        /\ subscribers = [n \in Names |-> <<>>] /\ registered = [n \in Names |-> <<>>]
        /\ channel = [n \in Names |-> <<>>] /\ commands = <<>>
        /\ pending = {} /\ nextId = 1
        /\ awaiting = {} /\ woken = {} /\ answers = [i \in Ids |-> <<>>]
        /\ batch = <<>> /\ at = 1 /\ inHandler = FALSE
        /\ name = NoName /\ todo = {} /\ dispatched = TRUE /\ rounds = MaxRounds
        /\ published = [n \in Names |-> <<>>] /\ log = [n \in Names |-> <<>>]

(***************************************************************************)
(* What Claw code does: the program in the first phase, handlers later.    *)
(***************************************************************************)
ClawCodeRuns == phase = "main" \/ inHandler

Unpublished == Msgs \ UNION {Elements(published[n]) : n \in Names}

\* event_publish
Publish(n, m) ==
    /\ ClawCodeRuns /\ m \in Unpublished
    /\ channel' = [channel EXCEPT ![n] = Append(@, m)]
    /\ published' = [published EXCEPT ![n] = Append(@, m)]
    /\ UNCHANGED <<phase, handlerVars, commandVars, awaitVars, batch, at,
                   inHandler, roundVars, log>>

\* event_subscribe
Subscribe(n, h) ==
    /\ phase = "main" /\ h \notin Elements(subscribers[n])
    /\ subscribers' = [subscribers EXCEPT ![n] = Append(@, h)]
    /\ UNCHANGED <<phase, registered, channel, commandVars, awaitVars, batch,
                   at, inHandler, roundVars, published, log>>

\* command_register
Register(n, h) ==
    /\ phase = "main" /\ h \notin Elements(registered[n])
    /\ registered' = [registered EXCEPT ![n] = Append(@, h)]
    /\ UNCHANGED <<phase, subscribers, channel, commandVars, awaitVars, batch,
                   at, inHandler, roundVars, published, log>>

\* command_send: a request on the channel and a future under its id
Send(n) ==
    /\ ClawCodeRuns /\ nextId \in Ids
    /\ commands' = Append(commands, [id |-> nextId, cmd |-> n])
    /\ pending' = pending \union {nextId}
    /\ nextId' = nextId + 1
    /\ UNCHANGED <<phase, handlerVars, channel, awaitVars, batch, at,
                   inHandler, roundVars, published, log>>

\* A coroutine of the program awaits the future of a request.
AwaitAnswer(i) ==
    /\ phase = "main" /\ i \in pending
    /\ awaiting' = awaiting \union {i}
    /\ UNCHANGED <<phase, handlerVars, channel, commandVars, woken, answers,
                   batch, at, inHandler, roundVars, published, log>>

(***************************************************************************)
(* The command loop.                                                       *)
(***************************************************************************)

\* The program has ended; everything in command_channel is taken out.
TakeCommands ==
    /\ phase = "main"
    /\ phase' = "commands"
    /\ batch' = commands /\ commands' = <<>>
    /\ UNCHANGED <<handlerVars, channel, pending, nextId, awaitVars, at,
                   inHandler, roundVars, published, log>>

CommandHandlers == registered[Head(batch).cmd]

CallCommandHandler ==
    /\ phase = "commands" /\ ~inHandler /\ batch # <<>>
    /\ at <= Len(CommandHandlers)
    /\ inHandler' = TRUE
    /\ UNCHANGED <<phase, handlerVars, channel, commandVars, awaitVars, batch,
                   at, roundVars, published, log>>

\* Mutant: the callback is not called.
WakeNobody(i) == i \in pending /\ UNCHANGED woken

\* on_future_resolved for the future of request i
Wake(i) == woken' = woken \union ({i} \intersect awaiting)

\* The first handler to return resolves the request and erases it.
CommandHandlerReturns ==
    /\ phase = "commands" /\ inHandler
    /\ LET i == Head(batch).id
       IN IF i \in pending
          THEN /\ answers' = [answers EXCEPT ![i] = Append(@, CommandHandlers[at])]
               /\ pending' = pending \ {i}
               /\ Wake(i)
          ELSE UNCHANGED <<answers, pending, woken>>
    /\ at' = at + 1 /\ inHandler' = FALSE
    /\ UNCHANGED <<phase, handlerVars, channel, commands, nextId, awaiting,
                   batch, roundVars, published, log>>

\* No handler, or none left, for the request: the next one.
NextCommand ==
    /\ phase = "commands" /\ ~inHandler /\ batch # <<>>
    /\ at > Len(CommandHandlers)
    /\ batch' = Tail(batch) /\ at' = 1
    /\ UNCHANGED <<phase, handlerVars, channel, commandVars, awaitVars,
                   inHandler, roundVars, published, log>>

CommandsEnd ==
    /\ phase = "commands" /\ ~inHandler /\ batch = <<>>
    /\ phase' = "events"
    /\ UNCHANGED <<handlerVars, channel, commandVars, awaitVars, batch, at,
                   inHandler, roundVars, published, log>>

(***************************************************************************)
(* The event loop.                                                         *)
(***************************************************************************)

\* while (dispatched && max_rounds-- > 0)
StartRound ==
    /\ phase = "events" /\ todo = {} /\ batch = <<>>
    /\ dispatched /\ rounds > 0
    /\ rounds' = rounds - 1 /\ dispatched' = FALSE
    /\ todo' = {n \in Names : subscribers[n] # <<>>}
    /\ UNCHANGED <<phase, handlerVars, channel, commandVars, awaitVars, batch,
                   at, inHandler, name, published, log>>

\* Mutant: the channel keeps what the loop has taken.
TakeEventsKeeping(n) ==
    /\ phase = "events" /\ n \in todo /\ batch = <<>>
    /\ todo' = todo \ {n} /\ name' = n
    /\ batch' = channel[n]
    /\ dispatched' = (dispatched \/ channel[n] # <<>>)
    /\ UNCHANGED <<phase, handlerVars, channel, commandVars, awaitVars, at,
                   inHandler, rounds, published, log>>

\* Mutant: the round is not flagged as one that delivered something.
TakeEventsUnflagged(n) ==
    /\ phase = "events" /\ n \in todo /\ batch = <<>>
    /\ todo' = todo \ {n} /\ name' = n
    /\ batch' = channel[n]
    /\ channel' = [channel EXCEPT ![n] = <<>>]
    /\ UNCHANGED <<phase, handlerVars, commandVars, awaitVars, dispatched, at,
                   inHandler, rounds, published, log>>

\* One event name of the round, in the order of the hash table, and what its
\* channel holds.
TakeEvents(n) ==
    /\ phase = "events" /\ n \in todo /\ batch = <<>>
    /\ todo' = todo \ {n} /\ name' = n
    /\ batch' = channel[n]
    /\ channel' = [channel EXCEPT ![n] = <<>>]
    /\ dispatched' = (dispatched \/ channel[n] # <<>>)
    /\ UNCHANGED <<phase, handlerVars, commandVars, awaitVars, at, inHandler,
                   rounds, published, log>>

CallSubscriber ==
    /\ phase = "events" /\ batch # <<>> /\ ~inHandler
    /\ inHandler' = TRUE
    /\ log' = [log EXCEPT ![name] = Append(@, <<Head(batch), subscribers[name][at]>>)]
    /\ UNCHANGED <<phase, handlerVars, channel, commandVars, awaitVars, batch,
                   at, roundVars, published>>

\* The next subscriber, or the next event of the batch.
SubscriberReturns ==
    /\ phase = "events" /\ inHandler
    /\ inHandler' = FALSE
    /\ IF at < Len(subscribers[name])
       THEN at' = at + 1 /\ UNCHANGED batch
       ELSE at' = 1 /\ batch' = Tail(batch)
    /\ UNCHANGED <<phase, handlerVars, channel, commandVars, awaitVars,
                   roundVars, published, log>>

EventsEnd ==
    /\ phase = "events" /\ todo = {} /\ batch = <<>>
    /\ ~dispatched \/ rounds = 0
    /\ phase' = "bridge"
    /\ UNCHANGED <<handlerVars, channel, commandVars, awaitVars, batch, at,
                   inHandler, roundVars, published, log>>

(***************************************************************************)
(* The bridge loop: messages a WebTransport connection has received.       *)
(***************************************************************************)
RouteEvent(n, m) ==
    /\ phase = "bridge" /\ m \in Unpublished
    /\ channel' = [channel EXCEPT ![n] = Append(@, m)]
    /\ published' = [published EXCEPT ![n] = Append(@, m)]
    /\ UNCHANGED <<phase, handlerVars, commandVars, awaitVars, batch, at,
                   inHandler, roundVars, log>>

\* A bridged command gets an id and no future.
RouteCommand(n) ==
    /\ phase = "bridge" /\ nextId \in Ids
    /\ commands' = Append(commands, [id |-> nextId, cmd |-> n])
    /\ nextId' = nextId + 1
    /\ UNCHANGED <<phase, handlerVars, channel, pending, awaitVars, batch, at,
                   inHandler, roundVars, published, log>>

BridgeEnds ==
    /\ phase = "bridge"
    /\ phase' = "done"
    /\ UNCHANGED <<handlerVars, channel, commandVars, awaitVars, batch, at,
                   inHandler, roundVars, published, log>>

Next == \/ \E n \in Names, m \in Msgs : Publish(n, m) \/ RouteEvent(n, m)
        \/ \E n \in Names, h \in Handlers : Subscribe(n, h) \/ Register(n, h)
        \/ \E n \in Names : Send(n) \/ TakeEvents(n) \/ RouteCommand(n)
        \/ \E i \in Ids : AwaitAnswer(i)
        \/ TakeCommands \/ CallCommandHandler \/ CommandHandlerReturns
        \/ NextCommand \/ CommandsEnd
        \/ StartRound \/ CallSubscriber \/ SubscriberReturns \/ EventsEnd
        \/ BridgeEnds

Spec == Init /\ [][Next]_vars

-----------------------------------------------------------------------------
Requests == [id : Ids, cmd : Names]

TypeOK ==
    /\ phase \in {"main", "commands", "events", "bridge", "done"}
    /\ subscribers \in [Names -> Seq(Handlers)]
    /\ registered \in [Names -> Seq(Handlers)]
    /\ channel \in [Names -> Seq(Msgs)] /\ commands \in Seq(Requests)
    /\ pending \in SUBSET Ids /\ nextId \in 1..MaxCommands + 1
    /\ awaiting \in SUBSET Ids /\ woken \in SUBSET awaiting
    /\ answers \in [Ids -> Seq(Handlers)]
    /\ batch \in IF phase = "commands" THEN Seq(Requests) ELSE Seq(Msgs)
    /\ at \in Nat \ {0} /\ inHandler \in BOOLEAN
    /\ name \in Names \union {NoName} /\ todo \in SUBSET Names
    /\ dispatched \in BOOLEAN /\ rounds \in 0..MaxRounds
    /\ published \in [Names -> Seq(Msgs)]
    /\ log \in [Names -> Seq(Msgs \X Handlers)]

\* The deliveries event n is owed: every message in the order it was
\* published, each to every subscriber in the order of subscription.
Owed(n) ==
    LET hs == subscribers[n]
    IN [k \in 1..Len(published[n]) * Len(hs) |->
          <<published[n][((k - 1) \div Len(hs)) + 1], hs[((k - 1) % Len(hs)) + 1]>>]

\* "Subscribers called in subscription order" (claw-event-system.md): the
\* deliveries made are a prefix of those owed, so none is repeated, skipped
\* or overtaken, also when handlers publish more events while others run.
InOrder == \A n \in Names : /\ Len(log[n]) <= Len(Owed(n))
                            /\ log[n] = SubSeq(Owed(n), 1, Len(log[n]))

\* Deliveries in order, and every variable of its type.
Deliveries == TypeOK /\ InOrder

\* When the event loop ends before its limit of rounds, every event published
\* so far has been delivered to all subscribers of its name, those that a
\* handler published while the last round was under way included.
AllDelivered ==
    [][EventsEnd /\ ~dispatched =>
         \A n \in Names : subscribers[n] # <<>> => Len(log[n]) = Len(Owed(n))]_vars

\* A request is resolved at most once, by the first handler registered for
\* it, and exactly then it stops being pending.
AnsweredOnce ==
    \A i \in Ids :
        /\ Len(answers[i]) <= 1
        /\ i \in pending => answers[i] = <<>>

\* A coroutine parked on a request is in the ready queue exactly when the
\* request was answered.
WokenByAnswer == \A i \in awaiting : i \in woken <=> answers[i] # <<>>

\* Requests are answered once and wake exactly those who wait for them.
Answers == AnsweredOnce /\ WokenByAnswer

\* "Event loop: process ready coroutines until all complete"
\* (bytecode_executor.cpp): at the end no coroutine is in the ready queue.
AnswersResumed == phase = "done" => woken = {}
=============================================================================
