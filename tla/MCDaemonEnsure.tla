--------------------------- MODULE MCDaemonEnsure ---------------------------
(***************************************************************************)
(* Instances of DaemonEnsure for TLC.  The hooks run the same code, so     *)
(* they are a symmetry set wherever no liveness property is checked.       *)
(***************************************************************************)
EXTENDS DaemonEnsure, TLC

HookSymmetry == Permutations(Hook)

=============================================================================
