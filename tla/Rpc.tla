-------------------------------- MODULE Rpc --------------------------------
(***************************************************************************)
(* What the threads of the proxy rely on when they call the backend or     *)
(* prompt the user (abstract specification of call_server and of the ids   *)
(* taken from next_proxy_id).                                              *)
(***************************************************************************)
CONSTANTS Id, None

VARIABLES state, reply

vars == <<state, reply>>

Init == state = [p \in Id |-> "free"] /\ reply = [p \in Id |-> None]

\* An id is taken for one purpose.
Take(p) ==
    /\ state[p] = "free"
    /\ \E use \in {"open", "prompt"} : state' = [state EXCEPT ![p] = use]
    /\ UNCHANGED reply

\* The backend replies once, while the caller waits or after it gave up.
Reply(p, r) ==
    /\ state[p] \in {"open", "timeout"} /\ reply[p] = None
    /\ reply' = [reply EXCEPT ![p] = r]
    /\ UNCHANGED state

Conclude(p) ==
    /\ state[p] = "open"
    /\ \/ reply[p] # None /\ state' = [state EXCEPT ![p] = reply[p]]
       \/ state' = [state EXCEPT ![p] = "timeout"]
    /\ UNCHANGED reply

Next ==
    \E p \in Id :
        \/ Take(p) \/ Conclude(p)
        \/ \E r \in {"ok", "empty", "error"} : Reply(p, r)

Spec == Init /\ [][Next]_vars

\* Nobody waits forever.
Progress == \A p \in Id : (state[p] = "open") ~> (state[p] # "open")
=============================================================================
