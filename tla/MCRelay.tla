------------------------------ MODULE MCRelay ------------------------------
(***************************************************************************)
(* Three scenarios of Proxy that share one run: what the client, the       *)
(* backend and the scripts do is limited to one of them.                   *)
(***************************************************************************)
EXTENDS MCProxy

TwoLinks(c) == answers[c] # None /\ Len(answers[c].links) = 2

Quiet == manual = {} /\ ~bare /\ answers[InitId] \in {None, Silent}

\* Two navigations after a quiet initialize, three links in all.
Navigations ==
    /\ asked \subseteq {InitId} \cup NavId /\ Quiet /\ menus = {}
    /\ \A c, d \in NavId : TwoLinks(c) /\ TwoLinks(d) => c = d

\* Every answer to initialize, a save, and a request or a manual reload.
Start ==
    /\ asked \subseteq {InitId} \cup PlainId \cup SaveId /\ menus = {}
    /\ asked \cap PlainId = {} \/ manual = {}

\* Two menus.
Prompts == asked \subseteq {InitId} /\ Quiet

\* Liveness: two navigations after a quiet initialize, or a save and another
\* request after any.
LiveScenario ==
    \/ asked \subseteq {InitId} \cup NavId /\ answers[InitId] \in {None, Silent}
    \/ asked \cap NavId = {}

InScenario == Navigations \/ Start \/ Prompts
=============================================================================
