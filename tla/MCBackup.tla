------------------------------ MODULE MCBackup ------------------------------
(***************************************************************************)
(* Instances of Backup for TLC. The capture instance: the archive service's*)
(* journal refers to the log's and is listed before it, the issuer's to    *)
(* the registry's and is listed after it. The prune instance: two tenants  *)
(* whose names sort against the order in which they are backed up.         *)
(***************************************************************************)
EXTENDS Backup

CONSTANTS archiveJ, logJ, acme, pilot

CaptureUpstream == [j \in Journals |-> logJ]
CaptureRank == [j \in Journals |-> IF j = logJ THEN 2 ELSE 1]

TenantRank == [t \in Tenants |-> IF t = acme THEN 1 ELSE 2]
=============================================================================
