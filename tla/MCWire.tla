------------------------------- MODULE MCWire -------------------------------
(***************************************************************************)
(* Frames for TLC: the initialize request of the client, its answer that   *)
(* gives rise to a call, the reply to it, a choice that the server offers  *)
(* after it and the client answers, an import log of two lines, a          *)
(* navigation answer, and a frame without a length.                        *)
(***************************************************************************)
EXTENDS Wire, TLC

CONSTANTS initialize, picked, initialized, log, nav, reply, choose, broken, discover

Kinds == (initialize :> "plain") @@ (picked :> "swallowed")
            @@ (initialized :> "plain") @@ (choose :> "plain") @@ (log :> "log")
            @@ (nav :> "nav") @@ (reply :> "swallowed") @@ (broken :> "broken")

Asks == (initialize :> None) @@ (picked :> choose)

Calls == [f \in ClientFrame \cup ServerFrame |->
            IF f = initialized THEN discover ELSE None]

Replies == [f \in ClientFrame \cup CallFrame |->
            CASE f = initialize -> <<initialized, choose>>
              [] f = discover -> <<reply>>
              [] f = picked -> <<>>]
=============================================================================
