----------------------------- MODULE MCWinProxy -----------------------------
(***************************************************************************)
(* Small instances of WinProxy.                                            *)
(***************************************************************************)
EXTENDS WinProxy, TLC

Option(register, mode, envVars, watchdog, ro) ==
    [register |-> register, mode |-> mode, envVars |-> envVars,
     watchdog |-> watchdog, runOnce |-> ro]

Off == Option(FALSE, "pac", FALSE, TRUE, TRUE)
\* What a new profile has: PAC, watchdog and RunOnce.
Default == Option(TRUE, "pac", FALSE, TRUE, TRUE)
StaticEnv == Option(TRUE, "static", TRUE, TRUE, FALSE)
OnlyRunOnce == Option(TRUE, "static", TRUE, FALSE, TRUE)
Bare == Option(TRUE, "pac", FALSE, FALSE, FALSE)

AllConfigs == {Off, Default, StaticEnv, OnlyRunOnce}
Everything == Option(TRUE, "static", TRUE, TRUE, TRUE)
FaultConfigs == {Off, Everything}
TwoConfigs == {Off, Default}
DefaultConfigs == {Default}
BareConfigs == {Bare}

\* Nothing tells one value the user may choose from another.
UserSymmetry == Permutations(UserValues)
=============================================================================
