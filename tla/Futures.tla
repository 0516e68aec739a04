------------------------------ MODULE Futures ------------------------------
(***************************************************************************)
(* What async functions promise to a program, with nothing of how the VM   *)
(* keeps it: an activation that awaits a future without a value does       *)
(* nothing until the future has one, then receives it once and goes on.    *)
(* An activation and the future it resolves share a name.                  *)
(***************************************************************************)
CONSTANTS Tasks, None

VARIABLES blocked,   \* activation |-> the future it is blocked on, or None
          valued,    \* futures that have a value
          received   \* activation |-> futures whose value it was given

vars == <<blocked, valued, received>>

Init == /\ blocked = [t \in Tasks |-> None]
        /\ valued = {}
        /\ received = [t \in Tasks |-> {}]

Give(t, f) == received' = [received EXCEPT ![t] = @ \union {f}]

\* await of a future without a value
Block(t, f) ==
    /\ blocked[t] = None /\ f \notin valued
    /\ blocked' = [blocked EXCEPT ![t] = f]
    /\ UNCHANGED <<valued, received>>

\* await of a future with a value
Pass(t, f) ==
    /\ blocked[t] = None /\ f \in valued
    /\ Give(t, f)
    /\ UNCHANGED <<blocked, valued>>

\* An activation that is not blocked returns.
Resolve(t) ==
    /\ blocked[t] = None
    /\ valued' = valued \union {t}
    /\ UNCHANGED <<blocked, received>>

\* A blocked activation goes on with the value it waited for.
Continue(t) ==
    /\ blocked[t] \in valued
    /\ Give(t, blocked[t])
    /\ blocked' = [blocked EXCEPT ![t] = None]
    /\ UNCHANGED valued

Next == \/ \E t, f \in Tasks : Block(t, f) \/ Pass(t, f)
        \/ \E t \in Tasks : Resolve(t) \/ Continue(t)

Spec == Init /\ [][Next]_vars
=============================================================================
