----------------------------- MODULE MCExtension -----------------------------
(***************************************************************************)
(* Settings for TLC: two windows, of which one tries every kind of server, *)
(* proxy and argument, and the other downloads the proxy as it does.       *)
(***************************************************************************)
EXTENDS Extension, TLC

CONSTANTS a, b

Plain == [accept |-> TRUE, binary |-> "none", proxy |-> FALSE, extra |-> <<>>,
          settings |-> <<>>, env |-> <<>>, options |-> <<>>, request |-> TRUE]

Configs ==
    (b :> {Plain}) @@
    (a :> {Plain,
           [Plain EXCEPT !.accept = FALSE, !.request = FALSE],
           [Plain EXCEPT !.binary = "users", !.extra = <<"--eula", "of the user">>,
                         !.settings = <<"region", "unknown region", "jvm_args">>,
                         !.env = <<"IJ_LAUNCHER_DEBUG", "INTELLIJ_REGION">>,
                         !.options = <<"projects", "intellijExtensions">>],
           [Plain EXCEPT !.binary = "odd", !.proxy = TRUE],
           [Plain EXCEPT !.binary = "users", !.proxy = TRUE,
                         !.extra = <<"--log", "--", "--system-path", "elsewhere">>]})

Paths == (a :> "system-path/a") @@ (b :> "system-path/b")
=============================================================================
