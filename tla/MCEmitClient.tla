---------------------------- MODULE MCEmitClient ----------------------------
(***************************************************************************)
(* Instances of EmitClient for TLC.                                        *)
(***************************************************************************)
EXTENDS EmitClient, TLC

Symmetry == Permutations(Request)

=============================================================================
