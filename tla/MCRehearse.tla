------------------------------ MODULE MCRehearse ------------------------------
(* An instance of Rehearse for TLC: one journal, the log's. *)
EXTENDS Rehearse

CONSTANT logJ

OwnUpstream == [j \in Journals |-> j]
FirstRank == [j \in Journals |-> 1]
AnyRank == [t \in Tenants |-> 1]
=============================================================================
