------------------------------- MODULE Relay -------------------------------
(***************************************************************************)
(* What the client of the proxy relies on (abstract specification): its    *)
(* requests reach the backend, and the answer of the backend to each of    *)
(* them comes back once, except that a holder of answers may die of one.   *)
(***************************************************************************)
EXTENDS Naturals

CONSTANTS
    Request,
    Handed,     \* those whose answers pass through a holder
    Holder,
    None

VARIABLES
    asked, forwarded, answered, deliveries,
    fatal       \* fatal[h]: the answer h has died of

vars == <<asked, forwarded, answered, deliveries, fatal>>

Init ==
    /\ asked = {} /\ forwarded = {} /\ answered = {}
    /\ deliveries = [c \in Request |-> 0]
    /\ fatal = [h \in Holder |-> None]

Ask(c) ==
    /\ c \notin asked
    /\ asked' = asked \cup {c}
    /\ UNCHANGED <<forwarded, answered, deliveries, fatal>>

Forward(c) ==
    /\ c \in asked \ forwarded
    /\ forwarded' = forwarded \cup {c}
    /\ UNCHANGED <<asked, answered, deliveries, fatal>>

Give(c) ==
    /\ c \in forwarded \ answered
    /\ answered' = answered \cup {c}
    /\ UNCHANGED <<asked, forwarded, deliveries, fatal>>

Lost(c) == \E h \in Holder : fatal[h] = c

Deliver(c) ==
    /\ c \in answered /\ deliveries[c] = 0 /\ ~Lost(c)
    /\ deliveries' = [deliveries EXCEPT ![c] = 1]
    /\ UNCHANGED <<asked, forwarded, answered, fatal>>

\* A holder dies of one answer, which is then lost; the others are not.
Die(h, c) ==
    /\ fatal[h] = None
    /\ c \in answered \cap Handed /\ deliveries[c] = 0 /\ ~Lost(c)
    /\ fatal' = [fatal EXCEPT ![h] = c]
    /\ UNCHANGED <<asked, forwarded, answered, deliveries>>

Next ==
    \/ \E c \in Request : Ask(c) \/ Forward(c) \/ Give(c) \/ Deliver(c)
    \/ \E h \in Holder, c \in Handed : Die(h, c)

Spec == Init /\ [][Next]_vars

NoneLeft == \A h \in Holder : fatal[h] # None

\* What is asked is forwarded. What is answered is delivered; an answer that
\* passes through a holder may instead be the one it dies of, or find none left.
Progress ==
    /\ \A c \in Request : (c \in asked) ~> (c \in forwarded)
    /\ \A c \in Request \ Handed : (c \in answered) ~> (deliveries[c] = 1)
    /\ \A c \in Handed : (c \in answered) ~> (deliveries[c] = 1 \/ Lost(c) \/ NoneLeft)
=============================================================================
