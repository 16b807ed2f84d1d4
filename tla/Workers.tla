------------------------------ MODULE Workers ------------------------------
(***************************************************************************)
(* What the pump relies on when it hands navigation answers to the         *)
(* decompile workers (abstract specification): an answer is given to the   *)
(* client at most once, when every archive URI in it is settled, and a URI *)
(* is replaced only by a file that is in the cache and stays there. Proxy  *)
(* and Decompile implement it, the one with the threads around the workers *)
(* and the other with the calls of the file system.                        *)
(***************************************************************************)
EXTENDS Naturals, Sequences

CONSTANTS Job, Uri, File, FilesOf(_), None

VARIABLES
    state,
    links,     \* links[j]: the archive URIs of the answer, once it is put
    settled,   \* settled[j]: what the first of them are replaced by
    stored     \* the files that are there

vars == <<state, links, settled, stored>>

Init ==
    /\ state = [j \in Job |-> "new"]
    /\ links \in [Job -> Seq(Uri)]
    /\ settled = [j \in Job |-> <<>>]
    /\ stored \in SUBSET File

Move(j, from, to) ==
    /\ state[j] = from
    /\ state' = [state EXCEPT ![j] = to]
    /\ UNCHANGED <<settled, stored>>

Put(j) ==
    /\ Move(j, "new", "queued")
    /\ links'[j] \in Seq(Uri) /\ links' = [links EXCEPT ![j] = links'[j]]

Take(j) == Move(j, "queued", "held") /\ UNCHANGED links

Give(j) ==
    Len(settled[j]) = Len(links[j]) /\ Move(j, "held", "given") /\ UNCHANGED links

\* One more archive URI of the answer: left as it is, or replaced by a file of
\* it that is there, or is from now on.
Settle(j, r) ==
    /\ state[j] = "held" /\ Len(settled[j]) < Len(links[j])
    /\ stored' = stored \/ (r # None /\ stored' = stored \cup {r})
    /\ r # None => r \in FilesOf(links[j][Len(settled[j]) + 1]) \cap stored'
    /\ settled' = [settled EXCEPT ![j] = Append(@, r)]
    /\ UNCHANGED <<state, links>>

Store(p) == stored' = stored \cup {p} /\ UNCHANGED <<state, links, settled>>

\* A worker dies of its answer.
Lose(j) == Move(j, "held", "lost") /\ UNCHANGED links

\* The process ends: what is queued or held is gone, the files are not.
End ==
    /\ state' = [j \in Job |-> IF state[j] \in {"queued", "held"} THEN "lost" ELSE state[j]]
    /\ UNCHANGED <<links, settled, stored>>

Next ==
    \/ \E j \in Job : Put(j) \/ Take(j) \/ Give(j) \/ Lose(j)
    \/ \E j \in Job, r \in File \cup {None} : Settle(j, r)
    \/ \E p \in File : Store(p)
    \/ End

Spec == Init /\ [][Next]_vars
=============================================================================
