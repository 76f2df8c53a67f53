---------------------------- MODULE MCMintDeposit ----------------------------
(***************************************************************************)
(* Instances of MintDeposit for TLC.  The runs of the script are           *)
(* interchangeable; the symmetry is used where no liveness is checked.     *)
(***************************************************************************)
EXTENDS MintDeposit, TLC

RunSymmetry == Permutations(Runs)
=============================================================================
