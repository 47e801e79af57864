----------------------------- MODULE UnitLedger -----------------------------
(***************************************************************************)
(* What a node group promises about its units of work, with no store, no   *)
(* processes and no messages: a unit is admitted once, begun at most once  *)
(* and ended at most once; who handed it in is refused only if it is never *)
(* admitted, and is otherwise told the end it really had, or nothing.      *)
(***************************************************************************)
CONSTANT Units

VARIABLES
    state,  \* how far each unit has come
    told    \* what the party that handed it in has been told

vars == <<state, told>>

Ends == {"executed", "failed"}

Init ==
    /\ state = [u \in Units |-> "none"]
    /\ told = [u \in Units |-> "nothing"]

Admit(u) ==
    /\ state[u] = "none"
    /\ told[u] # "refused"
    /\ state' = [state EXCEPT ![u] = "queued"]
    /\ UNCHANGED told

Begin(u) ==
    /\ state[u] = "queued"
    /\ state' = [state EXCEPT ![u] = "begun"]
    /\ UNCHANGED told

End(u) ==
    /\ state[u] = "begun"
    /\ \E e \in Ends : state' = [state EXCEPT ![u] = e]
    /\ UNCHANGED told

Refuse(u) ==
    /\ told[u] = "nothing"
    /\ state[u] = "none"
    /\ told' = [told EXCEPT ![u] = "refused"]
    /\ UNCHANGED state

\* The party loses its connection before it is told anything.
Disconnect(u) ==
    /\ told[u] = "nothing"
    /\ told' = [told EXCEPT ![u] = "unknown"]
    /\ UNCHANGED state

Tell(u) ==
    /\ told[u] = "nothing"
    /\ state[u] \in Ends
    /\ told' = [told EXCEPT ![u] = state[u]]
    /\ UNCHANGED state

Next == \E u \in Units :
    Admit(u) \/ Begin(u) \/ End(u) \/ Refuse(u) \/ Disconnect(u) \/ Tell(u)

Spec == Init /\ [][Next]_vars
=============================================================================
