------------------------------ MODULE Mailbox ------------------------------
(***************************************************************************)
(* What recv promises to a program, with nothing of the mutex, the         *)
(* condition variable and the flags behind it: messages are received in    *)
(* the order in which they came, each once; a call that waits has its      *)
(* answer from what is there at one moment, and an empty one only if       *)
(* nothing is there and the call has a time limit or nothing more comes.   *)
(* A call that is made on a closed handle is refused: its answer is empty  *)
(* though messages may be there, and they stay.                            *)
(***************************************************************************)
EXTENDS Naturals, Sequences

CONSTANT Msgs

VARIABLES sent,      \* every message that has come
          got,       \* every message the program has received
          handle,    \* "open", "finished" (the peer sends no more) or "closed"
          asking     \* the call of recv under way: "none", "timed", "patient"
                     \* or "refused"

vars == <<sent, got, handle, asking>>

Init == sent = <<>> /\ got = <<>> /\ handle = "open" /\ asking = "none"

Arrive(m) ==
    /\ handle = "open"
    /\ sent' = Append(sent, m)
    /\ UNCHANGED <<got, handle, asking>>

\* Nothing more comes; a handle that is closed stays closed.
End == /\ \/ handle = "open" /\ handle' = "finished"
          \/ handle' = "closed"
       /\ UNCHANGED <<sent, got, asking>>

Ask == /\ asking = "none"
       /\ asking' \in IF handle = "closed" THEN {"refused"} ELSE {"timed", "patient"}
       /\ UNCHANGED <<sent, got, handle>>

Receive ==
    /\ asking \in {"timed", "patient"} /\ asking' = "none"
    /\ Len(got) < Len(sent)
    /\ got' = Append(got, sent[Len(got) + 1])
    /\ UNCHANGED <<sent, handle>>

ComeBackEmpty ==
    /\ asking \in {"timed", "patient"} /\ asking' = "none"
    /\ Len(got) = Len(sent)
    /\ handle # "open" \/ asking = "timed"
    /\ UNCHANGED <<sent, got, handle>>

Refuse == /\ asking = "refused" /\ asking' = "none"
          /\ UNCHANGED <<sent, got, handle>>

Next == \/ \E m \in Msgs : Arrive(m)
        \/ End \/ Ask \/ Receive \/ ComeBackEmpty \/ Refuse

Spec == Init /\ [][Next]_vars
=============================================================================
