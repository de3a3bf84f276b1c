-------------------------- MODULE MCBackupPipeline --------------------------
(* Instances of BackupPipeline for TLC. *)
EXTENDS BackupPipeline, TLC

CONSTANTS all, api, worker, c1

MCProcs == {all}
MCTwoProcs == {api, worker}
MCClients == {c1}
=============================================================================
