------------------------------- MODULE Backup -------------------------------
(***************************************************************************)
(* The backup and its retention (ops-tools: backup.rs, util.rs and         *)
(* schedule.rs) beside a deployment that keeps running: the services go on *)
(* appending to their journals while an archive of those journals is       *)
(* written, several backups may run (the nightly cron line and an          *)
(* operator), each may die at any step, and a prune may delete under them. *)
(*                                                                         *)
(* Journals are append-only, so the bytes an archive holds of a journal    *)
(* are known from their length: a member, and its checksum, is the number  *)
(* of entries captured, and 0 says that the archive has no such member.    *)
(* The manifest, the scripts and the seed files never change here; they    *)
(* are what keeps the payload non-empty, and are left out.                 *)
(***************************************************************************)
EXTENDS Integers, Sequences, FiniteSets

CONSTANTS
  Journals,      \* the journal files the payload names
  Log,           \* the journal of the transparency log, the one tree_head reads
  Upstream,      \* Upstream[j]: the journal j's entries refer to (j itself: none)
  Rank,          \* Rank[j]: the place of j in the order of payload()
  Tenants,       \* the names a label may start with (the deployment's or --tenant's)
  NameRank,      \* the place of a tenant in lexical order
  Workers,       \* the processes that may run `unidpp-ops backup`
  Unavailable,   \* what tree_head answers when the log does not
  MaxTime,       \* bound: the last second of the clock
  MaxEntries,    \* bound: entries a journal can grow to
  MaxKeep        \* bound: the largest --keep of a prune

ASSUMPTION JournalAssumption ==
  /\ Log \in Journals
  /\ Upstream \in [Journals -> Journals]
  /\ Rank \in [Journals -> Nat]
  /\ \A j, k \in Journals : Rank[j] = Rank[k] => j = k

ASSUMPTION NameAssumption ==
  /\ NameRank \in [Tenants -> Nat]
  /\ \A s, t \in Tenants : NameRank[s] = NameRank[t] => s = t

ASSUMPTION BoundAssumption ==
  /\ MaxTime \in Nat /\ MaxEntries \in Nat /\ MaxKeep \in Nat
  /\ Unavailable \notin Nat

VARIABLES
  journal,   \* journal[j]: its entries; an entry is the number of entries of
             \* Upstream[j] it relies on
  now,       \* the UTC clock, in seconds
  archive,   \* the .tar.gz files under backups/, by label
  sidecar,   \* the .json files under backups/, by label
  pc,        \* the step of each backup process
  label,     \* its label, <<tenant, second>>
  head,      \* the tree head it read: a size, or Unavailable
  listed,    \* the payload it listed
  todo,      \* the members tar has yet to read
  sums,      \* the member checksums it read back out of its archive
  prune      \* the running prune: its step, keep, what is left to delete, and
             \* the archive whose sidecar goes next

vars == <<journal, now, archive, sidecar, pc, label, head, listed, todo, sums, prune>>
workerVars == <<pc, label, head, listed, todo, sums>>

Labels  == Tenants \X (0 .. MaxTime)
Members == [Journals -> Nat]
Nothing == [j \in Journals |-> 0]

NoArchive == [st |-> "absent", at |-> Nothing]
NoSidecar == [st |-> "absent", head |-> Unavailable, sums |-> Nothing]
NoPrune   == [pc |-> "idle", keep |-> 0, left |-> {}, cur |-> {}]

-----------------------------------------------------------------------------
(* Helpers *)

\* A restore or a rehearsal accepts the pair only if every member that the
\* sidecar lists is in the archive with the recorded checksum; a truncated
\* archive and a torn sidecar are both refused.
Verifies(l) ==
  /\ archive[l].st = "whole"
  /\ sidecar[l].st = "present"
  /\ \A j \in Journals : sidecar[l].sums[j] # 0 => archive[l].at[j] = sidecar[l].sums[j]

\* The files payload() finds.
Payload == {j \in Journals : journal[j] # <<>>}

\* tar reads the members in the order of its arguments: run/ is walked sorted.
NextMembersUnsorted(T) == T   \* faulty: in directory order
NextMembers(T) == {j \in T : \A k \in T : Rank[j] <= Rank[k]}

\* Newest-name-first: the tenant's name leads the label, the second follows it.
NameAfter(k, l) ==
  \/ NameRank[k[1]] > NameRank[l[1]]
  \/ k[1] = l[1] /\ k[2] > l[2]

Archives == {l \in Labels : archive[l].st # "absent"}

\* What a prune deletes of the archives A: all beyond the first keep.
BeyondOffByOne(A, keep) ==   \* faulty
  {l \in A : Cardinality({k \in A : NameAfter(k, l)}) >= keep - 1}
Beyond(A, keep) == {l \in A : Cardinality({k \in A : NameAfter(k, l)}) >= keep}

Running == {"head", "list", "tar", "sums", "sidecar"}

\* The process of worker w ends; its memory goes with it.
Exit(w, how) ==
  /\ pc' = [pc EXCEPT ![w] = how]
  /\ head' = [head EXCEPT ![w] = Unavailable]
  /\ listed' = [listed EXCEPT ![w] = {}]
  /\ todo' = [todo EXCEPT ![w] = {}]
  /\ sums' = [sums EXCEPT ![w] = Nothing]
  /\ UNCHANGED label

-----------------------------------------------------------------------------
(* The deployment that is backed up *)

\* A service appends a record that relies on a prefix of the upstream journal
\* it has seen (an archived snapshot on its log receipt, say).
Append1(j) ==
  /\ Len(journal[j]) < MaxEntries
  /\ \E r \in 0 .. Len(journal[Upstream[j]]) :
       journal' = [journal EXCEPT ![j] = Append(@, IF Upstream[j] = j THEN 0 ELSE r)]
  /\ UNCHANGED <<now, archive, sidecar, workerVars, prune>>

Tick ==
  /\ now < MaxTime
  /\ now' = now + 1
  /\ UNCHANGED <<journal, archive, sidecar, workerVars, prune>>

-----------------------------------------------------------------------------
(* perform_backup *)

\* The label is fixed first. Two backups of one name that run at once in one
\* second would write one archive: the operator is assumed not to start them.
Begin(w, t) ==
  /\ pc[w] \in {"idle", "done"}
  /\ \A v \in Workers \ {w} : pc[v] \in Running => label[v] # <<t, now>>
  /\ label' = [label EXCEPT ![w] = <<t, now>>]
  /\ pc' = [pc EXCEPT ![w] = "head"]
  /\ UNCHANGED <<journal, now, archive, sidecar, head, listed, todo, sums, prune>>

\* The consistency point, best effort, before any journal is read.
LastLeaf == Len(journal[Log]) - 1   \* faulty: an index for a size
TreeSize == Len(journal[Log])

ReadHead(w) ==
  /\ pc[w] = "head"
  /\ \E h \in {Unavailable, TreeSize} : head' = [head EXCEPT ![w] = h]
  /\ pc' = [pc EXCEPT ![w] = "list"]
  /\ UNCHANGED <<journal, now, archive, sidecar, label, listed, todo, sums, prune>>

\* payload(), and tar opening its output: what the label's archive held is gone.
ListReuses(w) ==   \* faulty: an archive that is whole is kept, not written again
  /\ pc[w] = "list"
  /\ listed' = [listed EXCEPT ![w] = Payload]
  /\ todo' = [todo EXCEPT ![w] = IF archive[label[w]].st = "whole" THEN {} ELSE Payload]
  /\ archive' = IF archive[label[w]].st = "whole" THEN archive
                ELSE [archive EXCEPT ![label[w]] = [st |-> "partial", at |-> Nothing]]
  /\ pc' = [pc EXCEPT ![w] = "tar"]
  /\ UNCHANGED <<journal, now, sidecar, label, head, sums, prune>>
List(w) ==
  /\ pc[w] = "list"
  /\ listed' = [listed EXCEPT ![w] = Payload]
  /\ todo' = [todo EXCEPT ![w] = Payload]
  /\ archive' = [archive EXCEPT ![label[w]] = [st |-> "partial", at |-> Nothing]]
  /\ pc' = [pc EXCEPT ![w] = "tar"]
  /\ UNCHANGED <<journal, now, sidecar, label, head, sums, prune>>

\* tar stores the journal as long as it finds it. A prune may have unlinked the
\* archive meanwhile: then tar writes on into a file nobody can open.
TarMember(w) ==
  /\ pc[w] = "tar"
  /\ \E j \in NextMembers(todo[w]) :
       /\ todo' = [todo EXCEPT ![w] = @ \ {j}]
       /\ archive' = IF archive[label[w]].st = "absent" THEN archive
                     ELSE [archive EXCEPT ![label[w]].at[j] = Len(journal[j])]
  /\ UNCHANGED <<journal, now, sidecar, pc, label, head, listed, sums, prune>>

Finished(l) == IF archive[l].st = "absent" THEN archive
               ELSE [archive EXCEPT ![l].st = "whole"]

TarEnd(w) ==
  /\ pc[w] = "tar"
  /\ todo[w] = {}
  /\ archive' = Finished(label[w])
  /\ pc' = [pc EXCEPT ![w] = "sums"]
  /\ UNCHANGED <<journal, now, sidecar, label, head, listed, todo, sums, prune>>

\* tar reports an error: the disk is full, or a file changed as it was read
\* (then the archive is complete all the same). tar_create dies.
TarFail(w) ==
  /\ pc[w] = "tar"
  /\ archive' \in {archive} \cup (IF todo[w] = {} THEN {Finished(label[w])} ELSE {})
  /\ Exit(w, "idle")
  /\ UNCHANGED <<journal, now, sidecar, prune>>

\* member_checksums reads the archive back; it dies if tar cannot list it.
SumsOfDisk(l) ==   \* faulty: checksums of the live files
  [j \in Journals |-> IF archive[l].at[j] = 0 THEN 0 ELSE Len(journal[j])]
SumsOf(l) == archive[l].at

ReadSumsThenHead(w) ==   \* faulty: the head is read when the archive is done
  /\ pc[w] = "sums"
  /\ archive[label[w]].st = "whole"
  /\ sums' = [sums EXCEPT ![w] = SumsOf(label[w])]
  /\ head' = [head EXCEPT ![w] = TreeSize]
  /\ pc' = [pc EXCEPT ![w] = "sidecar"]
  /\ UNCHANGED <<journal, now, archive, sidecar, label, listed, todo, prune>>
ReadSums(w) ==
  /\ pc[w] = "sums"
  /\ archive[label[w]].st = "whole"
  /\ sums' = [sums EXCEPT ![w] = SumsOf(label[w])]
  /\ pc' = [pc EXCEPT ![w] = "sidecar"]
  /\ UNCHANGED <<journal, now, archive, sidecar, label, head, listed, todo, prune>>

SumsFail(w) ==
  /\ pc[w] = "sums"
  /\ archive[label[w]].st # "whole"
  /\ Exit(w, "idle")
  /\ UNCHANGED <<journal, now, archive, sidecar, prune>>

WriteSidecar(w) ==
  /\ pc[w] = "sidecar"
  /\ sidecar' = [sidecar EXCEPT ![label[w]] =
                   [st |-> "present", head |-> head[w], sums |-> sums[w]]]
  /\ Exit(w, "done")
  /\ UNCHANGED <<journal, now, archive, prune>>

\* The process is killed or the disk fills; fs::write truncates before it
\* writes, so a crash in it leaves a sidecar that is not JSON.
Crash(w) ==
  /\ pc[w] \in Running
  /\ sidecar' \in {sidecar} \cup
       (IF pc[w] = "sidecar"
        THEN {[sidecar EXCEPT ![label[w]] = [NoSidecar EXCEPT !.st = "torn"]]} ELSE {})
  /\ Exit(w, "idle")
  /\ UNCHANGED <<journal, now, archive, prune>>

-----------------------------------------------------------------------------
(* cmd_prune --apply *)

PruneList ==
  /\ prune.pc = "idle"
  /\ Archives # {}
  /\ \E keep \in 0 .. MaxKeep :
       prune' = [pc |-> "archive", keep |-> keep, left |-> Beyond(Archives, keep), cur |-> {}]
  /\ UNCHANGED <<journal, now, archive, sidecar, workerVars>>

\* The listing's order: the newest name beyond the kept ones goes first.
PruneArchive ==
  /\ prune.pc = "archive"
  /\ \E l \in prune.left :
       /\ \A k \in prune.left \ {l} : NameAfter(l, k)
       /\ archive' = [archive EXCEPT ![l] = NoArchive]
       /\ prune' = [prune EXCEPT !.pc = "sidecar", !.left = @ \ {l}, !.cur = {l}]
  /\ UNCHANGED <<journal, now, sidecar, workerVars>>

PruneSidecar ==
  /\ prune.pc = "sidecar"
  /\ sidecar' = [l \in Labels |-> IF l \in prune.cur THEN NoSidecar ELSE sidecar[l]]
  /\ prune' = [prune EXCEPT !.pc = "archive", !.cur = {}]
  /\ UNCHANGED <<journal, now, archive, workerVars>>

\* The listing is exhausted, or the process is killed between two deletions.
PruneEnd ==
  /\ prune.pc # "idle"
  /\ prune' = NoPrune
  /\ UNCHANGED <<journal, now, archive, sidecar, workerVars>>

-----------------------------------------------------------------------------
Init ==
  /\ journal = [j \in Journals |-> <<>>]
  /\ now = 0
  /\ archive = [l \in Labels |-> NoArchive]
  /\ sidecar = [l \in Labels |-> NoSidecar]
  /\ pc = [w \in Workers |-> "idle"]
  /\ label \in [Workers -> Tenants \X {0}]
  /\ head = [w \in Workers |-> Unavailable]
  /\ listed = [w \in Workers |-> {}]
  /\ todo = [w \in Workers |-> {}]
  /\ sums = [w \in Workers |-> Nothing]
  /\ prune = NoPrune

Deployment == Tick \/ \E j \in Journals : Append1(j)
BackupStep(w) ==
  \/ \E t \in Tenants : Begin(w, t)
  \/ ReadHead(w) \/ List(w) \/ TarMember(w) \/ TarEnd(w) \/ TarFail(w)
  \/ ReadSums(w) \/ SumsFail(w) \/ WriteSidecar(w) \/ Crash(w)
PruneStep == PruneList \/ PruneArchive \/ PruneSidecar \/ PruneEnd

Next == Deployment \/ (\E w \in Workers : BackupStep(w)) \/ PruneStep

Spec == Init /\ [][Next]_vars

-----------------------------------------------------------------------------
(* Properties *)

\* Every variable keeps its shape; an entry never refers beyond its upstream.
TypeOK ==
  /\ journal \in [Journals -> Seq(Nat)]
  /\ now \in 0 .. MaxTime
  /\ archive \in [Labels -> [st : {"absent", "partial", "whole"}, at : Members]]
  /\ sidecar \in [Labels -> [st : {"absent", "torn", "present"},
                             head : Nat \cup {Unavailable}, sums : Members]]
  /\ pc \in [Workers -> Running \cup {"idle", "done"}]
  /\ label \in [Workers -> Labels]
  /\ head \in [Workers -> Nat \cup {Unavailable}]
  /\ listed \in [Workers -> SUBSET Journals]
  /\ todo \in [Workers -> SUBSET Journals]
  /\ sums \in [Workers -> Members]
  /\ prune \in [pc : {"idle", "archive", "sidecar"}, keep : Nat,
                left : SUBSET Labels, cur : SUBSET Labels]

\* The sidecar's tree head is a consistency point of the archive (backup.rs
\* 81-82): whatever was appended, crashed, retried or pruned meanwhile, a pair
\* that verifies holds at least the log entries the recorded head counts.
ConsistencyPoint ==
  \A l \in Labels :
    Verifies(l) /\ sidecar[l].head \in Nat => archive[l].at[Log] >= sidecar[l].head

\* An archive taken of a running deployment has no dangling record, for the
\* journals that payload() lists before the one they refer to (run/archive
\* before run/log): every captured record finds its upstream entries captured.
CausalCapture ==
  \A l \in Labels, j \in Journals :
    LET u == Upstream[j] IN
      Rank[j] < Rank[u] /\ archive[l].at[j] > 0 /\ archive[l].at[u] > 0
        => \A i \in 1 .. archive[l].at[j] : journal[j][i] <= archive[l].at[u]

\* A backup that reports success left a pair that verifies and that holds every
\* file it listed, though the journals moved on under it and another backup ran
\* beside it - unless a prune took its archive away (backup.rs 88-116).
CompletedIsWhole ==
  [][\A w \in Workers :
       pc[w] = "sidecar" /\ pc'[w] = "done" =>
         \/ archive[label[w]].st = "absent"
         \/ Verifies(label[w])' /\ \A j \in listed[w] : archive[label[w]].at[j] > 0]_vars

\* A prune leaves alone the newest names: whenever it unlinks an archive, keep
\* archives with later names are there (schedule.rs 181-193), also when backups
\* start, die or finish between its listing and its deletions.
PruneSparesNewest ==
  [][\A l \in Archives :
       archive'[l].st = "absent" =>
         Cardinality({k \in Archives : NameAfter(k, l)}) >= prune.keep]_vars

\* The comment on the order that prune uses (util.rs 288-289): the timestamp in
\* the name makes lexical order chronological, so keep later archives survive.
PruneSparesLatest ==
  [][\A l \in Archives :
       archive'[l].st = "absent" =>
         Cardinality({k \in Archives : k[2] >= l[2] /\ k # l}) >= prune.keep]_vars
=============================================================================
