------------------------------ MODULE MCStatus ------------------------------
(***************************************************************************)
(* Small instances of Status: 4-bit addresses, 4..7 for the tailnet and 12 *)
(* to 15 for loopback.                                                     *)
(***************************************************************************)
EXTENDS Status

MCTailscaleNet == Prefix(4, 2)
MCLoopbackNet == Prefix(12, 2)

Snapshot(state, summary, suffix, routes) ==
    [state |-> state, summary |-> summary, exit |-> FALSE, suffix |-> suffix, routes |-> routes]

\* Logging in; running beside subnet routers that announce an unmasked
\* prefix, one of the tailnet's range, one of loopback's, a single address
\* and the default route.
MCStatuses ==
    {Snapshot("NeedsLogin", "s1", NoSuffix, {}),
     Snapshot("Running", "s2", "tail", {Prefix(9, 3), Prefix(6, 3), Prefix(14, 3), Prefix(3, 4), Prefix(0, 0)})}
=============================================================================
