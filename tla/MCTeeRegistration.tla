--------------------------- MODULE MCTeeRegistration ---------------------------
(***************************************************************************)
(* Instances of TeeRegistration for TLC.                                   *)
(***************************************************************************)
EXTENDS TeeRegistration, TLC

(* The default command, the one deployments use, and one that goes on with  *)
(* a check requested before.                                                *)
MCFullCommands == {{"r", "a", "p"}, {"r", "R", "a", "p"}}
MCCommands == MCFullCommands \cup {{"r"}, {"R", "a"}, {"p"}}

RunSymmetry == Permutations(Runs)
=============================================================================
