--------------------------- MODULE MCOutboxWatcher ---------------------------
(***************************************************************************)
(* Instances of OutboxWatcher for TLC.                                     *)
(***************************************************************************)
EXTENDS OutboxWatcher, TLC

=============================================================================
