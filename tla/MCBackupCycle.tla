--------------------------- MODULE MCBackupCycle ---------------------------
(* The instance TLC checks; its .cfg gives the bounds. *)
EXTENDS BackupCycle
=============================================================================
