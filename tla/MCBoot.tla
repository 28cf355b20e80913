------------------------------- MODULE MCBoot -------------------------------
(***************************************************************************)
(* Small instances of MVUBoot, on the trees of MCMVU.                      *)
(***************************************************************************)
EXTENDS MVUBoot, MCMVU
=============================================================================
