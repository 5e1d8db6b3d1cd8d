--------------------------- MODULE BackupRefinement ---------------------------
(***************************************************************************)
(* Backup implements Vault. A history variable remembers the journals as   *)
(* they were when each backup process began; a snapshot is the pair of an  *)
(* archive and a sidecar that verifies, so that a backup which dies leaves *)
(* no snapshot, and one step publishes what many steps wrote.              *)
(***************************************************************************)
EXTENDS Backup

CONSTANT None   \* no snapshot

VARIABLE since   \* since[w]: the length of each journal when w's backup began

hvars == <<vars, since>>

Lens == [j \in Journals |-> Len(journal[j])]

HInit == Init /\ since = [w \in Workers |-> Nothing]

\* The process of w fixes its label: perform_backup has begun.
HBegin(w, t) == Begin(w, t) /\ since' = [since EXCEPT ![w] = Lens]

HBackupStep(w) ==
  \/ \E t \in Tenants : HBegin(w, t)
  \/ /\ \/ ReadHead(w) \/ List(w) \/ TarMember(w) \/ TarEnd(w) \/ TarFail(w)
        \/ ReadSums(w) \/ SumsFail(w) \/ WriteSidecar(w) \/ Crash(w)
     /\ UNCHANGED since

HNext ==
  \/ Deployment /\ UNCHANGED since
  \/ \E w \in Workers : HBackupStep(w)
  \/ PruneStep /\ UNCHANGED since

HSpec == HInit /\ [][HNext]_hvars

-----------------------------------------------------------------------------
(* The refinement mapping *)

Snapshot(l) == [head |-> sidecar[l].head, at |-> archive[l].at]

Snap == [l \in Labels |-> IF Verifies(l) THEN Snapshot(l) ELSE None]

V == INSTANCE Vault WITH length <- Lens, snap <- Snap

\* What verify, restore and rehearse-upgrade may read under backups/ appears at
\* once, holds everything that was journalled when its backup began, records a
\* head it covers, and changes only by being replaced or withdrawn - with
\* backups that die at every step, a stale sidecar of an earlier backup in the
\* same second, a tar that fails after its last member, and a prune between any
\* two of these.
ImplementsVault == V!Spec
=============================================================================
