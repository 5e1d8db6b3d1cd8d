------------------------------ MODULE MCRecover ------------------------------
(***************************************************************************)
(* Instances of Recover for TLC: the registry's journal at the root, the   *)
(* log's in run/, a tenant with its journal and its manifest, and a seed   *)
(* file that the archive does not have.                                    *)
(***************************************************************************)
EXTENDS Recover

CONSTANTS rootJ, logJ, tenantJ, tenantM, seedF, registry, log, tenant

TargetOf == [f \in Files |->
  CASE f = rootJ -> "registry-journal.jsonl"
    [] f = logJ -> "run"
    [] f \in {tenantJ, tenantM} -> "tenants"
    [] f = seedF -> "seed"]
TargetOrder == <<"registry-journal.jsonl", "run", "tenants", "seed">>
MemberOrder == <<rootJ, logJ, tenantJ, tenantM>>

OpensJ == [s \in Services |->
  CASE s = registry -> rootJ [] s = log -> logJ [] s = tenant -> tenantJ]
NeedsM == [s \in Services |-> IF s = tenant THEN {tenantM} ELSE {}]
=============================================================================
