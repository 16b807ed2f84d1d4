------------------------------ MODULE Channel ------------------------------
(***************************************************************************)
(* What the two ends of each pipe rely on (abstract specification): the    *)
(* reader gets the frames that were written, whole, in their order.        *)
(***************************************************************************)
EXTENDS Naturals, Sequences

CONSTANTS Pipe, Frame

VARIABLES sent, got

vars == <<sent, got>>

Init == sent = [p \in Pipe |-> <<>>] /\ got = [p \in Pipe |-> <<>>]

Send(p, f) == sent' = [sent EXCEPT ![p] = Append(@, f)] /\ UNCHANGED got

Receive(p) ==
    /\ Len(got[p]) < Len(sent[p])
    /\ got' = [got EXCEPT ![p] = Append(@, sent[p][Len(@) + 1])]
    /\ UNCHANGED sent

Next == \E p \in Pipe : Receive(p) \/ \E f \in Frame : Send(p, f)

Spec == Init /\ [][Next]_vars
=============================================================================
