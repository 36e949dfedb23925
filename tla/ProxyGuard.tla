----------------------------- MODULE ProxyGuard -----------------------------
(***************************************************************************)
(* What registering as the user's proxy promises, without saying how:      *)
(* settings are taken only after the user's are saved, the save is made    *)
(* once and kept until they are back, and what comes back is what the user *)
(* chose last.  Each setting, inet and env, changes on its own, so that a  *)
(* crash may fall between the two.                                         *)
(***************************************************************************)
CONSTANTS UserValues, OurInets, OurEnvs, NotSaved

VARIABLES
    inet, env,  \* the settings in force
    want,       \* what the user chose last
    saved       \* what an undo would put back

guardVars == <<inet, env, want, saved>>
Chosen == [inet: UserValues, env: UserValues]
InForce == [inet |-> inet, env |-> env]

Init ==
    /\ want \in Chosen
    /\ inet = want.inet /\ env = want.env
    /\ saved = NotSaved

\* Remember the user's settings, while they are the ones in force.
Arm ==
    /\ saved = NotSaved
    /\ saved' = InForce
    /\ UNCHANGED <<inet, env, want>>

TakeInet ==
    /\ saved # NotSaved
    /\ inet' \in OurInets
    /\ UNCHANGED <<env, want, saved>>

TakeEnv ==
    /\ saved # NotSaved
    /\ env' \in OurEnvs
    /\ UNCHANGED <<inet, want, saved>>

\* Put back one setting or both.
GiveBack ==
    /\ saved # NotSaved
    /\ inet' \in {inet, saved.inet} /\ env' \in {env, saved.env}
    /\ UNCHANGED <<want, saved>>

\* Forget the save, once it has been put back.
Disarm ==
    /\ saved # NotSaved /\ saved = InForce
    /\ saved' = NotSaved
    /\ UNCHANGED <<inet, env, want>>

\* The user's own choice, when there is nothing to put back.
Choose ==
    /\ saved = NotSaved
    /\ want' \in Chosen
    /\ inet' = want'.inet /\ env' = want'.env
    /\ UNCHANGED saved

Next == Arm \/ TakeInet \/ TakeEnv \/ GiveBack \/ Disarm \/ Choose

Spec == Init /\ [][Next]_guardVars
=============================================================================
