-------------------------- MODULE MCPluginInstaller --------------------------
(***************************************************************************)
(* Instances of PluginInstaller for TLC: an entry at the top, a nested     *)
(* one, and one after it.                                                  *)
(***************************************************************************)
EXTENDS PluginInstaller, TLC

MCEntries == <<".cursor", "src/omnicursor", "config">>
MCNested == {"src/omnicursor"}

=============================================================================
