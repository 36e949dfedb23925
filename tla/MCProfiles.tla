----------------------------- MODULE MCProfiles -----------------------------
(***************************************************************************)
(* Small instances of Profiles.                                            *)
(***************************************************************************)
EXTENDS Profiles, TLC

Symmetry == Permutations(Keys) \cup Permutations(Workers) \cup Permutations(Backends)
=============================================================================
