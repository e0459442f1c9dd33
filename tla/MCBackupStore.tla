--------------------------- MODULE MCBackupStore ---------------------------
(* The instance TLC checks. *)
EXTENDS BackupStore

CONSTANTS c1, c2

\* One caller's backups with moves, purges of a lineage and restore marks; its
\* deletions and decisions about deleted plans; a backup and a purge that meet,
\* with a restart.
MCMixes ==
    {[writes |-> {c1} \X {"auto", "change", "move", "purgeIdentity", "mark"},
      restarts |-> 0],
     [writes |-> {c1} \X {"change", "keep", "unkeep", "deletePlan", "deleteOne",
                          "deleteAll", "purge", "audit"},
      restarts |-> 0],
     [writes |-> {<<c1, "change">>, <<c2, "purge">>}, restarts |-> 1]}
=============================================================================
