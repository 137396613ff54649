---------------------------- MODULE MCBackupWaits ----------------------------
(* BackupWaits for TLC, on the instances of MCBackup. *)
EXTENDS BackupWaits, MCBackup
=============================================================================
