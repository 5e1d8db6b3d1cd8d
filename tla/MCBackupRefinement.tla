-------------------------- MODULE MCBackupRefinement --------------------------
(* The capture instance of MCBackup, with the history that Vault needs. *)
EXTENDS BackupRefinement, MCBackup
=============================================================================
