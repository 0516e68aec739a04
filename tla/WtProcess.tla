----------------------------- MODULE WtProcess -----------------------------
(***************************************************************************)
(* A Claw program that serves and is a client at once: one VM thread, a    *)
(* listener (WtServer) and an outgoing connection (WtReceive), with the    *)
(* callbacks of both.  The VM executes one instruction at a time           *)
(* (vm/claw_vm.cpp, WT_RECV ... WT_CLOSE_SERVER): while it is inside a     *)
(* recv it neither listens, accepts nor closes.                            *)
(***************************************************************************)
EXTENDS WtServer

CONSTANT Msgs

VARIABLES quiet, rpc, timed, owner, queue, rclosed, finished, cb, arrived, got

Client == INSTANCE WtReceive WITH closed <- rclosed

serverVars == vars
clientVars == <<quiet, rpc, timed, owner, queue, rclosed, finished, cb, arrived, got>>
allVars == <<serverVars, clientVars>>

ProcessInit == Init /\ Client!Init

\* An instruction of the program about its server.
ServerInstruction ==
    /\ rpc = "idle"
    /\ StartListener \/ ListenFails \/ StoreConfig \/ Accept \/ CloseServer
    /\ UNCHANGED clientVars

ServerCallback ==
    /\ \E c \in Conns : NewConnection(c) \/ Connected(c) \/ ShutdownComplete(c)
    /\ UNCHANGED clientVars

ClientStep == Client!Next /\ UNCHANGED serverVars

ProcessNext == ServerInstruction \/ ServerCallback \/ ClientStep

ProcessSpec ==
    /\ ProcessInit /\ [][ProcessNext]_allVars
    /\ WF_allVars(Client!VmStep /\ UNCHANGED serverVars)
    /\ WF_allVars(Client!Notify /\ UNCHANGED serverVars)
    /\ WF_allVars(Client!TimeOut /\ UNCHANGED serverVars)

-----------------------------------------------------------------------------
\* Connections are handed out once, when they are up and not before (WtServer).
Handout == TypeOK /\ AcceptedOnce /\ UpIsHanded

\* The receiver never sleeps on a message, recv returns what the peer sent, once and
\* in order, and without a timeout it is empty-handed only at the end (WtReceive).
Received == Client!ReceiveInv

\* The calls of recv, with the queue, the flags and the callbacks, implement a mailbox
\* (MsquicWebTransportBackend::recv): a call that is made before the handle is closed
\* is answered with the next message of the peer, or with nothing where nothing was
\* there and the handle was over or the call had a time limit; one that is made on a
\* closed handle, and no other, is refused, and takes nothing out of the queue.
Promise == INSTANCE Mailbox
               WITH sent <- arrived,
                    handle <- IF rclosed THEN "closed" ELSE IF finished THEN "finished"
                              ELSE "open",
                    asking <- IF rpc = "idle" THEN "none"
                              ELSE IF rpc = "closed" THEN "refused"
                              ELSE IF timed THEN "timed" ELSE "patient"

ActsAsMailbox == Promise!Spec

\* A receiver on a handle that is over comes back (WtReceive).
EndWakes == Client!EndWakes
=============================================================================
