------------------------------ MODULE WtProofs ------------------------------
(***************************************************************************)
(* The safety properties of WtProcess for any connections and messages.    *)
(* The two halves share no variable but rpc, so each has an inductive      *)
(* invariant of its own.                                                   *)
(***************************************************************************)
EXTENDS WtProcess, TLAPS

ServerInv == TypeOK /\ AcceptedOnce /\ UpIsHanded

\* The program starts with no connection and no message.
LEMMA InitInv == ProcessInit => ServerInv /\ Client!ReceiveInv
<1> SUFFICES ASSUME ProcessInit PROVE ServerInv /\ Client!ReceiveInv
  OBVIOUS
<1>1. TypeOK
  <2>1. <<>> \in Seq(Conns) /\ known = {c \in Conns : link[c] \in {"handshake", "up"}}
    BY DEF ProcessInit, Init
  <2> QED BY <2>1 DEF ProcessInit, Init, TypeOK
<1>2. accepted \o pending = <<>> /\ Elements(pending) = {} /\ Elements(accepted) = {}
  BY ElementsEmpty DEF ProcessInit, Init
<1>3. AcceptedOnce /\ UpIsHanded
  BY <1>2, ElementsEmpty DEF ProcessInit, Init, AcceptedOnce, UpIsHanded, Handed
<1>4. Client!ReceiveInv
  <2>1. Client!InOrder
    <3>1. got = <<>> /\ queue = <<>> /\ arrived = <<>>
      BY DEF ProcessInit, Client!Init
    <3> QED BY <3>1 DEF Client!InOrder
  <2>2. Client!TypeOK
    <3>1. <<>> \in Seq(Msgs)
      OBVIOUS
    <3>2. /\ quiet \in BOOLEAN /\ rpc = "idle" /\ timed = FALSE /\ owner = "none"
          /\ queue = <<>> /\ arrived = <<>> /\ got = <<>>
          /\ rclosed = FALSE /\ finished = FALSE /\ cb = "quiet"
      BY DEF ProcessInit, Client!Init
    <3> QED BY <3>1, <3>2, Zenon DEF Client!TypeOK, Client!RPlaces
  <2> QED BY <2>1, <2>2 DEF ProcessInit, Client!Init, Client!ReceiveInv,
                            Client!NoSleepOnData, Client!EmptyMeansEnd
<1> QED BY <1>1, <1>3, <1>4 DEF ServerInv

-----------------------------------------------------------------------------
\* accept moves the first connection from one list to the other.
LEMMA AcceptInv == ServerInv /\ Accept => ServerInv'
<1> SUFFICES ASSUME ServerInv, Accept PROVE ServerInv'
  OBVIOUS
<1> USE DEF ServerInv
<1>1. /\ pending \in Seq(Conns) /\ accepted \in Seq(Conns) /\ pending # <<>>
      /\ accepted' = Append(accepted, Head(pending)) /\ pending' = Tail(pending)
  BY DEF Accept, TypeOK
<1>2. /\ pending' \in Seq(Conns) /\ accepted' \in Seq(Conns)
      /\ Elements(pending) = Elements(pending') \union {Head(pending)}
      /\ Elements(accepted') = Elements(accepted) \union {Head(pending)}
  BY <1>1, ElementsTail, ElementsAppend
<1>3. accepted' \o pending' = accepted \o pending
  BY <1>1, HeadMoves
<1>4. TypeOK'
  BY <1>2 DEF TypeOK, Accept, peers
<1>5. AcceptedOnce'
  BY <1>3 DEF AcceptedOnce
<1>6. Handed' = Handed
  BY <1>2 DEF Handed
<1>7. UpIsHanded'
  BY <1>6 DEF UpIsHanded, Accept, peers
<1> QED BY <1>4, <1>5, <1>7

\* CONNECTED hands out a connection nobody has been given yet.
LEMMA ConnectedInv == ASSUME ServerInv, NEW c \in Conns, Connected(c) PROVE ServerInv'
<1> USE DEF ServerInv
<1>1. /\ link[c] = "handshake" /\ c \in known /\ c \notin Handed
      /\ pending \in Seq(Conns) /\ accepted \in Seq(Conns)
  BY DEF Connected, TypeOK, UpIsHanded
<1>2. /\ pending' = Append(pending, c) /\ link' = [link EXCEPT ![c] = "up"]
      /\ UNCHANGED <<vm, started, config, closed, configured, known, accepted>>
  BY <1>1 DEF Connected
<1>3. pending' \in Seq(Conns) /\ Elements(pending') = Elements(pending) \union {c}
  BY <1>1, <1>2, ElementsAppend
<1>4. TypeOK'
  BY <1>1, <1>2, <1>3 DEF TypeOK
<1>5. /\ accepted' \o pending' = Append(accepted \o pending, c)
      /\ accepted \o pending \in Seq(Conns)
      /\ Elements(accepted \o pending) = Handed
  BY <1>1, <1>2, ElementsConcat DEF Handed
<1>6. AcceptedOnce'
  BY <1>1, <1>5, NoRepeatsAppend DEF AcceptedOnce
<1>7. Handed' = Handed \union {c}
  BY <1>2, <1>3 DEF Handed
<1>8. UpIsHanded'
  BY <1>2, <1>7 DEF UpIsHanded, TypeOK
<1> QED BY <1>4, <1>6, <1>8

\* The other events change what a connection is, not who has it.
LEMMA OtherEventInv ==
    ASSUME ServerInv, NEW c \in Conns, NewConnection(c) \/ ShutdownComplete(c)
    PROVE  ServerInv'
<1> USE DEF ServerInv
<1>1. /\ UNCHANGED <<vm, started, config, closed, pending, accepted>>
      /\ \/ /\ link[c] = "none" /\ link' = [link EXCEPT ![c] = "handshake"]
            /\ known' = known \union {c} /\ configured' \in SUBSET Conns
         \/ /\ link[c] \in {"handshake", "up"} /\ link' = [link EXCEPT ![c] = "down"]
            /\ known' = known \ {c} /\ configured' = configured
  BY DEF NewConnection, ShutdownComplete, TypeOK
<1>2. TypeOK'
  BY <1>1 DEF TypeOK
<1>3. AcceptedOnce' /\ Handed' = Handed
  BY <1>1 DEF AcceptedOnce, Handed
<1>4. UpIsHanded'
  BY <1>1, <1>3 DEF UpIsHanded, TypeOK
<1> QED BY <1>2, <1>3, <1>4

\* Starting and stopping the listener changes no connection.
LEMMA ListenerInv ==
    ServerInv /\ (StartListener \/ ListenFails \/ StoreConfig \/ CloseServer) => ServerInv'
  BY DEF ServerInv, StartListener, ListenFails, StoreConfig, CloseServer, TypeOK, AcceptedOnce,
         UpIsHanded, Handed, peers

\* Every step keeps the server's invariant.
LEMMA ServerStep == ServerInv /\ [ProcessNext]_allVars => ServerInv'
<1> SUFFICES ASSUME ServerInv, [ProcessNext]_allVars PROVE ServerInv'
  OBVIOUS
<1>1. CASE ServerInstruction
  BY <1>1, AcceptInv, ListenerInv DEF ServerInstruction
<1>2. CASE ServerCallback
  BY <1>2, ConnectedInv, OtherEventInv DEF ServerCallback
<1>3. CASE UNCHANGED serverVars
  BY <1>3 DEF ServerInv, serverVars, vars, peers, TypeOK, AcceptedOnce, UpIsHanded, Handed
<1> QED BY <1>1, <1>2, <1>3 DEF ProcessNext, ClientStep, allVars

-----------------------------------------------------------------------------
\* recv takes the first message of the queue and the callbacks put theirs at
\* the end.
LEMMA QueueSteps ==
    ASSUME Client!ReceiveInv,
           Client!Take \/ \E m \in Msgs : Client!Receive(m)
    PROVE  Client!ReceiveInv'
<1> USE DEF Client!ReceiveInv
<1>0. queue \in Seq(Msgs) /\ got \in Seq(Msgs) /\ arrived \in Seq(Msgs) /\ got \o queue = arrived
  BY DEF Client!TypeOK, Client!InOrder
<1>1. CASE Client!Take
  <2>1. /\ got' \o queue' = got \o queue
        /\ got' \in Seq(Msgs) /\ queue' \in Seq(Msgs) /\ arrived' = arrived
    <3>1. CASE queue = <<>>
      BY <1>0, <1>1, <3>1 DEF Client!Take
    <3>2. CASE queue # <<>>
      <4>1. Head(queue) \in Msgs /\ Tail(queue) \in Seq(Msgs)
        BY <1>0, <3>2, ElementsTail
      <4>2. got' = Append(got, Head(queue)) /\ queue' = Tail(queue) /\ arrived' = arrived
        BY <1>1, <3>2 DEF Client!Take
      <4>3. got' \o queue' = got \o queue
        BY <1>0, <3>2, <4>2, HeadMoves
      <4>4. got' \in Seq(Msgs)
        BY <1>0, <4>1, <4>2, ElementsAppend
      <4> QED BY <4>1, <4>2, <4>3, <4>4
    <3> QED BY <3>1, <3>2
  <2>2. Client!TypeOK'
    BY <1>1, <2>1 DEF Client!Take, Client!TypeOK, Client!RPlaces
  <2>3. Client!NoSleepOnData' /\ Client!EmptyMeansEnd'
    BY <1>1 DEF Client!Take, Client!NoSleepOnData, Client!EmptyMeansEnd
  <2> QED BY <1>0, <2>1, <2>2, <2>3 DEF Client!InOrder
<1>2. ASSUME NEW m \in Msgs, Client!Receive(m) PROVE Client!ReceiveInv'
  <2>1. /\ queue' = Append(queue, m) /\ arrived' = Append(arrived, m) /\ got' = got
        /\ owner = "none" /\ rpc' = IF rpc = "blocked" THEN "woken" ELSE rpc
        /\ UNCHANGED <<timed, owner, rclosed, finished, cb, quiet>>
    BY <1>2 DEF Client!Receive, Client!Wake
  <2>2. got' \o queue' = arrived' /\ queue' \in Seq(Msgs) /\ arrived' \in Seq(Msgs)
    BY <1>0, <2>1, ElementsAppend
  <2>3. rpc \notin {"test", "block", "take"}
    BY <2>1 DEF Client!TypeOK
  <2>4. Client!TypeOK'
    BY <2>1, <2>2, <2>3 DEF Client!TypeOK, Client!RPlaces
  <2>5. Client!NoSleepOnData' /\ Client!EmptyMeansEnd'
    BY <2>1, <2>3 DEF Client!NoSleepOnData, Client!EmptyMeansEnd
  <2> QED BY <2>2, <2>4, <2>5 DEF Client!InOrder
<1> QED BY <1>1, <1>2

\* Every step keeps the receiver's invariant.
LEMMA ReceiveStep == Client!ReceiveInv /\ [ProcessNext]_allVars => Client!ReceiveInv'
<1> SUFFICES ASSUME Client!ReceiveInv, [ProcessNext]_allVars PROVE Client!ReceiveInv'
  OBVIOUS
<1> USE DEF Client!ReceiveInv, Client!TypeOK, Client!RPlaces, Client!NoSleepOnData,
            Client!InOrder, Client!EmptyMeansEnd, Client!Pred, Client!rest
<1>1. CASE UNCHANGED clientVars
  BY <1>1 DEF clientVars
<1>2. ASSUME NEW t \in BOOLEAN, Client!Enter(t) PROVE Client!ReceiveInv'
  BY <1>2 DEF Client!Enter
<1>3. CASE Client!Refuse \/ Client!Lock \/ Client!Test \/ Client!Block
  BY <1>3 DEF Client!Refuse, Client!Lock, Client!Test, Client!Block
<1>4. CASE Client!TimeOut \/ Client!SpuriousWakeUp \/ Client!Close
  BY <1>4 DEF Client!TimeOut, Client!SpuriousWakeUp, Client!Close
<1>5. CASE Client!FinishStream \/ Client!ShutdownConnection
  BY <1>5 DEF Client!FinishStream, Client!ShutdownConnection
<1>6. CASE Client!Notify
  BY <1>6 DEF Client!Notify, Client!Wake
<1> QED BY <1>1, <1>2, <1>3, <1>4, <1>5, <1>6, QueueSteps
        DEF ProcessNext, ServerInstruction, ServerCallback, ClientStep, Client!Next,
            Client!VmStep, allVars

-----------------------------------------------------------------------------
\* In every reachable state both invariants hold.
THEOREM ProcessInvariance == ProcessSpec => [](ServerInv /\ Client!ReceiveInv)
  BY InitInv, ServerStep, ReceiveStep, PTL DEF ProcessSpec

\* A connection is handed to the program at most once, and exactly when it has
\* come up.
THEOREM HandedOnce == ProcessSpec => []Handout
<1>1. ServerInv /\ Client!ReceiveInv => Handout
  BY DEF ServerInv, Handout
<1> QED BY <1>1, ProcessInvariance, PTL

\* The receiver never sleeps on a message; recv returns what the peer has sent, each
\* message once and in order, and without a timeout it returns nothing only at the end.
THEOREM ReceivedInOrder == ProcessSpec => []Received
<1>1. ServerInv /\ Client!ReceiveInv => Received
  BY DEF Client!ReceiveInv, Received
<1> QED BY <1>1, ProcessInvariance, PTL

-----------------------------------------------------------------------------
\* What a call of recv returns is the answer of the mailbox.
LEMMA TakeAnswers ==
    ASSUME Client!ReceiveInv, Client!Take
    PROVE  Promise!Receive \/ Promise!ComeBackEmpty
<1>0. /\ queue \in Seq(Msgs) /\ got \in Seq(Msgs) /\ got \o queue = arrived
      /\ rpc = "take" /\ rpc' = "idle" /\ timed \in BOOLEAN
      /\ UNCHANGED <<timed, rclosed, finished, arrived>>
  BY DEF Client!ReceiveInv, Client!TypeOK, Client!InOrder, Client!Take
<1>1. CASE queue = <<>>
  <2>1. got' = got /\ Len(got) = Len(arrived)
    BY <1>0, <1>1 DEF Client!Take
  <2>2. (rclosed \/ finished) \/ timed
    BY <1>0, <1>1 DEF Client!ReceiveInv, Client!EmptyMeansEnd, Client!Pred
  <2> QED BY <1>0, <2>1, <2>2 DEF Promise!ComeBackEmpty
<1>2. CASE queue # <<>>
  <2>1. got' = Append(got, Head(queue))
    BY <1>2 DEF Client!Take
  <2>2. Len(got) < Len(arrived) /\ arrived[Len(got) + 1] = Head(queue)
    BY <1>0, <1>2
  <2> QED BY <1>0, <2>1, <2>2 DEF Promise!Receive
<1> QED BY <1>1, <1>2

\* Every step of the process is one of the mailbox, or none.
LEMMA MailboxStep ==
    Client!ReceiveInv /\ [ProcessNext]_allVars => [Promise!Next]_(Promise!vars)
<1> SUFFICES ASSUME Client!ReceiveInv, [ProcessNext]_allVars
             PROVE  [Promise!Next]_(Promise!vars)
  OBVIOUS
<1>1. CASE UNCHANGED clientVars
  BY <1>1 DEF clientVars, Promise!vars
<1>2. ASSUME NEW t \in BOOLEAN, Client!Enter(t) PROVE [Promise!Next]_(Promise!vars)
  <2>1. /\ rpc = "idle" /\ rpc' = IF rclosed THEN "closed" ELSE "lock"
        /\ UNCHANGED <<got, arrived, rclosed, finished>>
    BY <1>2 DEF Client!Enter, Client!rest
  <2>2. Promise!Ask
    BY <2>1 DEF Promise!Ask
  <2> QED BY <2>2 DEF Promise!Next
<1>3. CASE Client!Take
  BY <1>3, TakeAnswers DEF Promise!Next
<1>4. ASSUME NEW m \in Msgs, Client!Receive(m) PROVE [Promise!Next]_(Promise!vars)
  <2>1. Promise!Arrive(m)
    BY <1>4 DEF Client!Receive, Client!Wake, Promise!Arrive
  <2> QED BY <2>1 DEF Promise!Next
<1>5. CASE Client!Close \/ Client!FinishStream \/ Client!ShutdownConnection
  <2>1. Promise!End
    BY <1>5 DEF Client!Close, Client!FinishStream, Client!ShutdownConnection, Client!rest,
                Promise!End
  <2> QED BY <2>1 DEF Promise!Next
<1>8. CASE Client!Refuse
  <2>1. Promise!Refuse
    BY <1>8 DEF Client!Refuse, Client!rest, Promise!Refuse
  <2> QED BY <2>1 DEF Promise!Next
<1>6. CASE Client!Lock \/ Client!Test \/ Client!Block \/ Client!TimeOut \/ Client!SpuriousWakeUp
  BY <1>6 DEF Client!Lock, Client!Test, Client!Block, Client!TimeOut, Client!SpuriousWakeUp,
              Client!rest, Promise!vars
<1>7. CASE Client!Notify
  BY <1>7 DEF Client!Notify, Client!Wake, Client!rest, Promise!vars
<1> QED BY <1>1, <1>2, <1>3, <1>4, <1>5, <1>6, <1>7, <1>8
        DEF ProcessNext, ServerInstruction, ServerCallback, ClientStep, Client!Next,
            Client!VmStep, allVars

\* The receiving half is a mailbox: every answer of recv is the next message of the
\* peer, nothing where nothing was there, or a refusal, of a call made on a closed
\* handle and of no other (MsquicWebTransportBackend::recv).
THEOREM ImplementsMailbox == ProcessSpec => ActsAsMailbox
<1>1. ProcessInit => Promise!Init
  BY DEF ProcessInit, Client!Init, Promise!Init
<1>2. Client!ReceiveInv /\ [ProcessNext]_allVars => [Promise!Next]_(Promise!vars)
  BY MailboxStep
<1> QED BY <1>1, <1>2, ProcessInvariance, PTL DEF ProcessSpec, ActsAsMailbox, Promise!Spec

-----------------------------------------------------------------------------
\* The listener reports connections only when the configuration is stored, or while
\* listen is about to store it.
ListeningInv == started => vm = "store" \/ (vm = "serving" /\ config)

\* Every step keeps that.
LEMMA ListenerStep == ListeningInv /\ [ProcessNext]_allVars => ListeningInv'
<1> SUFFICES ASSUME ListeningInv, [ProcessNext]_allVars PROVE ListeningInv'
  OBVIOUS
<1> USE DEF ListeningInv
<1>1. CASE UNCHANGED serverVars
  BY <1>1 DEF serverVars, vars
<1>2. CASE StartListener \/ ListenFails
  BY <1>2 DEF StartListener, ListenFails
<1>3. CASE StoreConfig \/ Accept \/ CloseServer
  BY <1>3 DEF StoreConfig, Accept, CloseServer
<1>4. ASSUME NEW c \in Conns, NewConnection(c) \/ Connected(c) \/ ShutdownComplete(c)
      PROVE  ListeningInv'
  BY <1>4 DEF NewConnection, Connected, ShutdownComplete
<1> QED BY <1>1, <1>2, <1>3, <1>4
        DEF ProcessNext, ServerInstruction, ServerCallback, ClientStep, allVars

\* A connection that is reported once listen has returned gets its configuration
\* (listener callback of vm/webtransport_backend.cpp).
THEOREM LateConfigured == ProcessSpec => LateOnesConfigured
<1>1. ProcessInit => ListeningInv
  BY DEF ProcessInit, Init, ListeningInv
<1>2. ListeningInv =>
        [\A c \in Conns : NewConnection(c) /\ vm # "store" => c \in configured']_vars
  BY DEF ListeningInv, NewConnection
<1> QED BY <1>1, <1>2, ListenerStep, PTL DEF ProcessSpec, LateOnesConfigured
=============================================================================
