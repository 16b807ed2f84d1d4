------------------------------ MODULE MCProxy ------------------------------
(***************************************************************************)
(* Values of Proxy's constants for TLC.                                     *)
(***************************************************************************)
EXTENDS Proxy, FiniteSets, TLC

CONSTANTS u1, u2, u3, s1, s2

Silent == [marked |-> FALSE, links |-> <<>>, dir |-> FALSE]
Marked(links) == [marked |-> TRUE, links |-> links, dir |-> FALSE]

\* Every answer initialize may get (dir is not looked at in an unmarked one);
\* answers of other requests without, with one and with two links, and with one
\* that a worker dies of after it has settled the link before it.
Answers ==
    [c \in ClientId |->
        IF c = InitId THEN {Silent, Marked(<<>>), [Marked(<<>>) EXCEPT !.dir = TRUE]}
        ELSE IF c \in NavId THEN {Silent, Marked(<<u1>>), Marked(<<u2, u1>>), Marked(<<u1, u3>>)}
        ELSE {Silent, Marked(<<>>)}]

\* Liveness: initialize answered with and without a word of the fast path; a
\* navigation answer with a link, or with one that kills the worker.
LiveAnswers ==
    [c \in ClientId |->
        IF c \in NavId THEN {Marked(<<u1>>), Marked(<<u3>>)} ELSE {Silent, Marked(<<>>)}]

Entry(t, i) == [name |-> t, index |-> i]

\* Two menus that share titles under different indexes; one repeats a title.
Menus == [s \in Session |->
    IF s = s1 THEN <<Entry("fix", 4), Entry("run", 7)>>
              ELSE <<Entry("run", 4), Entry("fix", 2), Entry("run", 9)>>]

\* Enough ids for every call and prompt of a scenario, so that the bound on
\* next_proxy_id is never what stops a behaviour.
MostLinks(c) == CHOOSE n \in 0..2 :
    /\ \E a \in AnswersTo[c] : Len(a.links) = n
    /\ \A a \in AnswersTo[c] : Len(a.links) <= n
ASSUME EnoughIds ==
    /\ MaxProxyId >= Cardinality({l \in NavId \X (1..2) : l[2] <= MostLinks(l[1])})
    /\ MaxProxyId >= 1 + Cardinality(BuildSave) + Cardinality(Manual)
    /\ MaxProxyId >= 2 * Cardinality(Session)

Symmetry == Permutations(NavId) \cup Permutations(Worker)
=============================================================================
