--------------------------- MODULE RefinementProofs ---------------------------
(***************************************************************************)
(* Backup implements Vault, for any journals, tenants, workers and bounds: *)
(* the invariant of BackupProofs, and what a running backup's archive owes *)
(* to the journals as they were when it began.                             *)
(***************************************************************************)
EXTENDS BackupRefinement, BackupProofs

\* A running tar has not finished its archive, and what has been stored of a
\* journal is what it had when the backup began, or more.
SinceCovered(w) ==
  /\ \A j \in Journals : since[w][j] <= Len(journal[j])
  /\ pc[w] = "tar" => archive[label[w]].st # "whole"
  /\ pc[w] \in {"tar", "sums", "sidecar"} /\ archive[label[w]].st # "absent" =>
       \A j \in Journals : j \in todo[w] \/ since[w][j] <= archive[label[w]].at[j]

\* A prune has unlinked at most one archive whose sidecar is still to go.
OneAtATime == prune.cur = {} \/ \E l \in Labels : prune.cur = {l}

HInv ==
  /\ IInv
  /\ since \in [Workers -> Members]
  /\ \A w \in Workers : SinceCovered(w)
  /\ OneAtATime

-----------------------------------------------------------------------------
(* The invariant *)

\* The history variable adds no behaviour and removes none.
LEMMA HStepIsStep == [HNext]_hvars => [Next]_vars
BY DEF HNext, HBackupStep, HBegin, Next, BackupStep, hvars

\* The lengths of the journals are well typed.
LEMMA LensType == TypeOK => Lens \in Members
BY DEF TypeOK, Lens, Members

\* A step of a backup process shows in its own variables.
LEMMA OwnStep ==
  ASSUME TypeOK, [HNext]_hvars, NEW w \in Workers, BackupStep(w)
  PROVE  HBackupStep(w)
<1>1. pc'[w] # pc[w] \/ todo'[w] # todo[w]
  BY DEF BackupStep, Begin, ReadHead, List, TarMember, TarEnd, TarFail, ReadSums, SumsFail,
         WriteSidecar, Crash, Exit, Running, NextMembers, TypeOK
<1>2. ASSUME NEW v \in Workers, HBackupStep(v), v # w
      PROVE  pc'[w] = pc[w] /\ todo'[w] = todo[w]
  BY <1>2 DEF HBackupStep, HBegin, Begin, ReadHead, List, TarMember, TarEnd, TarFail,
              ReadSums, SumsFail, WriteSidecar, Crash, Exit, TypeOK
<1>3. CASE Deployment \/ PruneStep \/ UNCHANGED hvars
  BY <1>1, <1>3 DEF Deployment, Tick, Append1, PruneStep, PruneList, PruneArchive,
                    PruneSidecar, PruneEnd, hvars, vars, workerVars
<1> QED
  BY <1>1, <1>2, <1>3 DEF HNext

\* Only the process itself changes since[w].
LEMMA SinceOfOthers ==
  ASSUME since \in [Workers -> Members], [HNext]_hvars, NEW w \in Workers, ~BackupStep(w)
  PROVE  since'[w] = since[w]
BY DEF HNext, HBackupStep, HBegin, BackupStep, hvars

\* What is remembered of each process stays a map of lengths.
LEMMA SinceTypeStep ==
  ASSUME TypeOK, since \in [Workers -> Members], [HNext]_hvars
  PROVE  since' \in [Workers -> Members]
BY LensType DEF HNext, HBackupStep, HBegin, hvars

\* The steps of others take at most the archive away.
LEMMA CoveredOfOthers ==
  ASSUME HInv, [HNext]_hvars, NEW w \in Workers, ~BackupStep(w)
  PROVE  SinceCovered(w)'
<1>1. /\ pc'[w] = pc[w] /\ label'[w] = label[w] /\ todo'[w] = todo[w]
      /\ pc[w] \in Running => archive'[label[w]] \in {archive[label[w]], NoArchive}
  BY HStepIsStep, OthersStep DEF HInv, IInv
<1>2. since'[w] = since[w]
  BY SinceOfOthers DEF HInv
<1>3. SinceCovered(w) /\ TypeOK /\ TypeOK' /\ since[w] \in Members
  BY HStepIsStep, TypeStep DEF HInv, IInv
<1>4. \A j \in Journals : since[w][j] <= Len(journal'[j])
  <2>1. SUFFICES ASSUME NEW j \in Journals
                 PROVE  since[w][j] <= Len(journal'[j])
    OBVIOUS
  <2>2. Len(journal[j]) <= Len(journal'[j])
    BY <1>3, HStepIsStep, JournalsGrow
  <2>3. /\ Len(journal[j]) \in Nat /\ Len(journal'[j]) \in Nat /\ since[w][j] \in Nat
        /\ since[w][j] <= Len(journal[j])
    BY <1>3 DEF TypeOK, Members, SinceCovered
  <2> QED
    BY <2>2, <2>3
<1> QED
  BY <1>1, <1>2, <1>3, <1>4 DEF SinceCovered, NoArchive, Running

\* Its own steps: Begin remembers, List takes every journal that had entries,
\* tar stores each as it is by then.
LEMMA CoveredOfOwn ==
  ASSUME HInv, [HNext]_hvars, NEW w \in Workers, BackupStep(w)
  PROVE  SinceCovered(w)'
<1>1. /\ TypeOK /\ TypeOK' /\ SinceCovered(w) /\ since[w] \in Members
      /\ label[w] \in Labels
  BY HStepIsStep, TypeStep DEF HInv, IInv, TypeOK
<1>2. \A j \in Journals : Len(journal[j]) \in Nat /\ since[w][j] \in Nat
  BY <1>1 DEF TypeOK, Members
<1>3. HBackupStep(w)
  BY <1>1, OwnStep
<1>4. CASE \E t \in Tenants : HBegin(w, t)
  <2>1. since'[w] = Lens /\ journal' = journal /\ pc'[w] = "head"
    BY <1>1, <1>4 DEF HBegin, Begin, HInv, TypeOK
  <2> QED
    BY <1>2, <2>1 DEF SinceCovered, Lens
<1>5. CASE List(w) /\ UNCHANGED since
  <2>1. /\ pc'[w] = "tar" /\ label' = label /\ journal' = journal /\ todo'[w] = Payload
        /\ archive'[label[w]] = [st |-> "partial", at |-> Nothing]
    BY <1>1, <1>5 DEF List, TypeOK
  <2>2. ASSUME NEW j \in Journals, j \notin Payload
        PROVE  since[w][j] <= Nothing[j]
    <3>1. Len(journal[j]) = 0
      BY <1>1, <2>2 DEF Payload, TypeOK
    <3> QED
      BY <1>1, <1>2, <3>1 DEF SinceCovered, Nothing
  <2> QED
    BY <1>1, <1>5, <2>1, <2>2 DEF SinceCovered
<1>6. CASE TarMember(w) /\ UNCHANGED since
  <2>1. PICK j \in NextMembers(todo[w]) :
          /\ todo' = [todo EXCEPT ![w] = @ \ {j}]
          /\ archive' = IF archive[label[w]].st = "absent" THEN archive
                        ELSE [archive EXCEPT ![label[w]].at[j] = Len(journal[j])]
    BY <1>6 DEF TarMember
  <2>2. /\ pc[w] = "tar" /\ pc' = pc /\ label' = label /\ journal' = journal
        /\ since' = since /\ todo'[w] = todo[w] \ {j}
    BY <1>1, <1>6, <2>1 DEF TarMember, TypeOK
  <2>3. j \in Journals
    BY <1>1 DEF NextMembers, TypeOK
  <2>4. CASE archive[label[w]].st = "absent"
    BY <1>1, <2>1, <2>2, <2>4 DEF SinceCovered
  <2>5. CASE archive[label[w]].st # "absent"
    <3>1. archive'[label[w]] = [archive[label[w]] EXCEPT !.at[j] = Len(journal[j])]
      BY <1>1, <2>1, <2>5 DEF TypeOK
    <3>2. /\ archive'[label[w]].at = [archive[label[w]].at EXCEPT ![j] = Len(journal[j])]
          /\ archive'[label[w]].st = archive[label[w]].st
          /\ archive[label[w]].at \in Members
      BY <1>1, <3>1 DEF TypeOK
    <3>3. /\ archive'[label[w]].at[j] = Len(journal[j])
          /\ \A k \in Journals \ {j} : archive'[label[w]].at[k] = archive[label[w]].at[k]
      BY <2>3, <3>2 DEF Members
    <3> QED
      BY <1>1, <2>2, <2>5, <3>2, <3>3 DEF SinceCovered
  <2> QED
    BY <2>4, <2>5
<1>7. CASE TarEnd(w) /\ UNCHANGED since
  <2>1. /\ pc[w] = "tar" /\ todo[w] = {} /\ pc'[w] = "sums"
        /\ journal' = journal /\ label' = label /\ since' = since /\ todo' = todo
    BY <1>1, <1>7 DEF TarEnd, TypeOK
  <2>2. /\ archive'[label[w]].at = archive[label[w]].at
        /\ archive[label[w]].st = "absent" <=> archive'[label[w]].st = "absent"
    <3>1. \/ archive'[label[w]] = archive[label[w]] /\ archive[label[w]].st = "absent"
          \/ /\ archive'[label[w]] = [archive[label[w]] EXCEPT !.st = "whole"]
             /\ archive[label[w]].st # "absent"
      BY <1>1, <1>7 DEF TarEnd, Finished, TypeOK
    <3>2. archive[label[w]] \in [st : {"absent", "partial", "whole"}, at : Members]
      BY <1>1 DEF TypeOK
    <3> QED
      BY <3>1, <3>2
  <2> QED
    BY <1>1, <2>1, <2>2 DEF SinceCovered
<1>8. CASE (ReadHead(w) \/ ReadSums(w)) /\ UNCHANGED since
  <2>1. /\ archive' = archive /\ journal' = journal /\ label' = label /\ todo' = todo
        /\ since' = since
        /\ \/ pc'[w] = "list"
           \/ pc[w] = "sums" /\ pc'[w] = "sidecar"
    BY <1>1, <1>8 DEF ReadHead, ReadSums, TypeOK
  <2> QED
    BY <1>1, <2>1 DEF SinceCovered
<1>9. CASE (TarFail(w) \/ SumsFail(w) \/ WriteSidecar(w) \/ Crash(w)) /\ UNCHANGED since
  <2>1. pc'[w] \in {"idle", "done"} /\ journal' = journal /\ since' = since
    BY <1>1, <1>9 DEF TarFail, SumsFail, WriteSidecar, Crash, Exit, TypeOK
  <2> QED
    BY <1>1, <2>1 DEF SinceCovered
<1> QED
  BY <1>3, <1>4, <1>5, <1>6, <1>7, <1>8, <1>9 DEF HBackupStep

\* The prune's list goes one archive at a time.
LEMMA OneStep ==
  ASSUME TypeOK, OneAtATime, [Next]_vars
  PROVE  OneAtATime'
<1>1. CASE prune' = prune
  BY <1>1 DEF OneAtATime, Labels
<1>2. ASSUME NEW l \in prune.left,
             prune' = [prune EXCEPT !.pc = "sidecar", !.left = @ \ {l}, !.cur = {l}]
      PROVE  OneAtATime'
  <2>1. l \in Labels /\ prune'.cur = {l}
    BY <1>2 DEF TypeOK
  <2> QED
    BY <2>1 DEF OneAtATime, Labels
<1>3. CASE prune'.cur = {}
  BY <1>3 DEF OneAtATime
<1>4. CASE PruneList
  BY <1>3, <1>4 DEF PruneList
<1>5. CASE PruneArchive
  BY <1>2, <1>5 DEF PruneArchive
<1>6. CASE PruneSidecar
  BY <1>3, <1>6 DEF PruneSidecar, TypeOK
<1>7. CASE PruneEnd
  BY <1>3, <1>7 DEF PruneEnd, NoPrune
<1> QED
  BY <1>1, <1>4, <1>5, <1>6, <1>7 DEF Next, Deployment, PruneStep, Tick,
       Append1, BackupStep, Begin, ReadHead, List,
       TarMember, TarEnd, TarFail, ReadSums, SumsFail, WriteSidecar, Crash, vars

\* The invariant, at the start and over every step.
LEMMA HInvInit == HInit => HInv
<1> SUFFICES ASSUME HInit
             PROVE  HInv
  OBVIOUS
<1>1. IInv
  BY IInvInit DEF HInit
<1>2. since \in [Workers -> Members]
  BY ZeroMembers DEF HInit
<1>3. \A w \in Workers : SinceCovered(w)
  BY DEF HInit, Init, SinceCovered, Nothing
<1>4. OneAtATime
  BY DEF HInit, Init, NoPrune, OneAtATime
<1> QED
  BY <1>1, <1>2, <1>3, <1>4 DEF HInv

LEMMA HInvStep == HInv /\ [HNext]_hvars => HInv'
<1> SUFFICES ASSUME HInv, [HNext]_hvars
             PROVE  HInv'
  OBVIOUS
<1>1. IInv' /\ since' \in [Workers -> Members]
  BY HStepIsStep, IInvStep, SinceTypeStep DEF HInv, IInv
<1>2. \A w \in Workers : SinceCovered(w)'
  BY CoveredOfOthers, CoveredOfOwn
<1>3. OneAtATime'
  BY HStepIsStep, OneStep DEF HInv, IInv
<1> QED
  BY <1>1, <1>2, <1>3 DEF HInv

-----------------------------------------------------------------------------
(* The steps, as Vault sees them *)

\* A step that leaves the files of all labels but l alone changes one snapshot.
LEMMA OneSnapshot ==
  ASSUME NEW l \in Labels,
         \A m \in Labels \ {l} : archive'[m] = archive[m] /\ sidecar'[m] = sidecar[m]
  PROVE  Snap' = [Snap EXCEPT ![l] = Snap'[l]]
<1>1. \A m \in Labels \ {l} : Snap'[m] = Snap[m]
  BY DEF Snap, Snapshot, Verifies, Labels
<1>2. Snap = [m \in Labels |-> Snap[m]] /\ Snap' = [m \in Labels |-> Snap'[m]]
  BY DEF Snap, Labels
<1> QED
  BY <1>1, <1>2

\* Files that stay as they are stay the same snapshots.
LEMMA SameSnapshots ==
  ASSUME archive' = archive, sidecar' = sidecar
  PROVE  Snap' = Snap
BY DEF Snap, Snapshot, Verifies, Labels

\* A pair that stops verifying, or never did, is a snapshot withdrawn.
LEMMA Withdrawn ==
  ASSUME NEW l \in Labels, ~Verifies(l)', journal' = journal, since' = since,
         \A m \in Labels \ {l} : archive'[m] = archive[m] /\ sidecar'[m] = sidecar[m]
  PROVE  V!Next
<1>1. Snap'[l] = None
  BY DEF Snap, Labels
<1>2. V!Withdraw(l)
  BY <1>1, OneSnapshot DEF V!Withdraw, Lens
<1> QED
  BY <1>2 DEF V!Next

\* A pair that verifies when w has stored all its members is a fresh snapshot.
LEMMA Published ==
  ASSUME HInv, HInv', NEW w \in Workers, NEW l, l = label[w],
         Verifies(l)', journal' = journal, since' = since,
         archive'[l].at = archive[l].at, archive[l].st # "absent",
         pc[w] \in {"tar", "sums", "sidecar"}, todo[w] = {},
         \A m \in Labels \ {l} : archive'[m] = archive[m] /\ sidecar'[m] = sidecar[m]
  PROVE  V!Next
<1> DEFINE s == [head |-> sidecar'[l].head, at |-> archive'[l].at]
<1>1. /\ TypeOK /\ TypeOK' /\ l \in Labels /\ SinceCovered(w) /\ Captured' /\ SidecarHead'
  BY DEF HInv, IInv, TypeOK
<1>2. Snap'[l] = s
  BY <1>1 DEF Snap, Snapshot, Labels
<1>3. \A j \in Journals :
        /\ s.at[j] \in Nat /\ Len(journal[j]) \in Nat
        /\ since[w][j] <= s.at[j] /\ s.at[j] <= Len(journal[j])
  <2>1. archive'[l].at \in Members /\ \A j \in Journals : Len(journal[j]) \in Nat
    BY <1>1 DEF TypeOK
  <2>2. \A j \in Journals : since[w][j] <= archive'[l].at[j]
    BY DEF HInv, SinceCovered
  <2>3. \A j \in Journals : archive'[l].at[j] <= Len(journal[j])
    BY <1>1 DEF Captured
  <2> QED
    BY <2>1, <2>2, <2>3 DEF Members
<1>4. \A j \in Journals : \A n \in Nat : n <= Len(journal[j]) => n \in V!Lengths
  BY <1>3 DEF V!Lengths, Lens
<1>5. s.at \in [Journals -> V!Lengths]
  <2>1. s.at \in Members
    BY <1>1 DEF TypeOK, Labels
  <2> QED
    BY <1>3, <1>4, <2>1 DEF Members
<1>6. s.head # Unavailable => s.head \in Nat /\ s.head <= s.at[Log]
  <2> SUFFICES ASSUME s.head # Unavailable
               PROVE  s.head \in Nat /\ s.head <= s.at[Log]
    OBVIOUS
  <2>1. s.head \in Nat /\ sidecar'[l].sums[Log] \in Nat
    <3>1. sidecar'[l] \in [st : {"absent", "torn", "present"},
                          head : Nat \cup {Unavailable}, sums : Members]
      BY <1>1 DEF TypeOK, Labels
    <3>2. sidecar'[l].head \in Nat \cup {Unavailable} /\ sidecar'[l].sums \in Members
      BY <3>1
    <3> QED
      BY <3>2, JournalAssumption DEF Members
  <2>2. sidecar'[l].sums[Log] >= s.head
    BY <1>1, <2>1 DEF SidecarHead, Verifies, Labels
  <2>3. sidecar'[l].sums[Log] # 0 => archive'[l].at[Log] = sidecar'[l].sums[Log]
    BY JournalAssumption DEF Verifies
  <2> QED
    BY <1>3, <2>1, <2>2, <2>3, JournalAssumption
<1>7. s.head \in V!Lengths \cup {Unavailable}
  <2>1. s.head # Unavailable => s.head <= Len(journal[Log])
    BY <1>3, <1>6, JournalAssumption
  <2> QED
    BY <1>4, <1>6, <2>1, JournalAssumption
<1>8. s \in V!Fresh(w)
  BY <1>3, <1>5, <1>6, <1>7 DEF V!Fresh, Lens
<1>9. V!Publish(w, l)
  <2>1. Snap' = [Snap EXCEPT ![l] = s]
    BY <1>1, <1>2, OneSnapshot
  <2> QED
    BY <1>8, <2>1 DEF V!Publish, Lens
<1> QED
  BY <1>1, <1>9 DEF V!Next

\* The steps of the deployment and of a prune.
LEMMA DeploymentIsVault ==
  ASSUME HInv, Deployment, UNCHANGED since
  PROVE  [V!Next]_V!vars
<1>1. CASE Tick
  <2>1. Snap' = Snap
    BY <1>1, SameSnapshots DEF Tick
  <2> QED
    BY <1>1, <2>1 DEF Tick, Lens, V!vars
<1>2. ASSUME NEW j \in Journals, Append1(j)
      PROVE  V!Next
  <2>1. PICK r \in 0 .. Len(journal[Upstream[j]]) :
          journal' = [journal EXCEPT ![j] = Append(@, IF Upstream[j] = j THEN 0 ELSE r)]
    BY <1>2 DEF Append1
  <2>2. journal \in [Journals -> Seq(Nat)] /\ r \in Nat
    BY JournalAssumption DEF HInv, IInv, TypeOK
  <2>3. Lens' = [Lens EXCEPT ![j] = @ + 1]
    <3>1. journal'[j] = Append(journal[j], IF Upstream[j] = j THEN 0 ELSE r)
      BY <2>1, <2>2
    <3>2. Len(journal'[j]) = Len(journal[j]) + 1
      BY <2>2, <3>1
    <3>3. \A k \in Journals \ {j} : journal'[k] = journal[k]
      BY <2>1, <2>2
    <3> QED
      BY <3>2, <3>3 DEF Lens
  <2>4. Snap' = Snap
    BY <1>2, SameSnapshots DEF Append1
  <2>5. V!Grow(j)
    BY <2>3, <2>4 DEF V!Grow
  <2> QED
    BY <2>5 DEF V!Next
<1> QED
  BY <1>1, <1>2 DEF Deployment

LEMMA PruneIsVault ==
  ASSUME HInv, PruneStep, UNCHANGED since
  PROVE  [V!Next]_V!vars
<1>1. CASE archive' = archive /\ sidecar' = sidecar /\ journal' = journal
  BY <1>1, SameSnapshots DEF Lens, V!vars
<1>2. CASE PruneArchive
  <2>1. PICK l \in prune.left : archive' = [archive EXCEPT ![l] = NoArchive]
    BY <1>2 DEF PruneArchive
  <2>2. l \in Labels /\ TypeOK /\ journal' = journal /\ sidecar' = sidecar
    BY <1>2 DEF PruneArchive, HInv, IInv, TypeOK
  <2>3. /\ \A m \in Labels \ {l} : archive'[m] = archive[m] /\ sidecar'[m] = sidecar[m]
        /\ ~Verifies(l)'
    BY <2>1, <2>2 DEF TypeOK, Verifies, NoArchive
  <2> QED
    BY <2>2, <2>3, Withdrawn
<1>3. CASE PruneSidecar
  <2>1. CASE prune.cur = {}
    <3>1. sidecar' = sidecar /\ archive' = archive /\ journal' = journal
      BY <1>3, <2>1 DEF PruneSidecar, HInv, IInv, TypeOK
    <3> QED
      BY <1>1, <3>1
  <2>2. ASSUME NEW l \in Labels, prune.cur = {l}
        PROVE  V!Next
    <3>1. /\ \A m \in Labels \ {l} : archive'[m] = archive[m] /\ sidecar'[m] = sidecar[m]
          /\ ~Verifies(l)' /\ journal' = journal
      BY <1>3, <2>2 DEF PruneSidecar, Verifies, NoSidecar
    <3> QED
      BY <3>1, Withdrawn
  <2> QED
    BY <2>1, <2>2 DEF HInv, OneAtATime
<1>4. CASE PruneList \/ PruneEnd
  BY <1>1, <1>4 DEF PruneList, PruneEnd
<1> QED
  BY <1>2, <1>3, <1>4 DEF PruneStep

\* The steps of a backup: Begin is Vault's, the end of tar and the writing of
\* the sidecar may publish, the opening of the archive and a crash withdraw,
\* and the others do not show.
LEMMA BackupIsVault ==
  ASSUME HInv, HInv', NEW w \in Workers, HBackupStep(w)
  PROVE  [V!Next]_V!vars
<1>1. TypeOK /\ TypeOK' /\ SinceCovered(w) /\ Knowledge(w)
  BY DEF HInv, IInv
<1> PICK l \in Labels : l = label[w]
  BY <1>1 DEF TypeOK
<1>2. CASE \E t \in Tenants : HBegin(w, t)
  <2>1. Snap' = Snap /\ Lens' = Lens /\ since' = [since EXCEPT ![w] = Lens]
    BY <1>2, SameSnapshots DEF HBegin, Begin, Lens
  <2>2. V!Begin(w)
    BY <2>1 DEF V!Begin
  <2> QED
    BY <2>2 DEF V!Next
<1>3. CASE (ReadHead(w) \/ ReadSums(w) \/ SumsFail(w)) /\ UNCHANGED since
  <2>1. Snap' = Snap /\ Lens' = Lens
    BY <1>3, SameSnapshots DEF ReadHead, ReadSums, SumsFail, Lens
  <2> QED
    BY <1>3, <2>1 DEF V!vars
<1>4. CASE List(w) /\ UNCHANGED since
  <2>1. /\ \A m \in Labels \ {l} : archive'[m] = archive[m] /\ sidecar'[m] = sidecar[m]
        /\ ~Verifies(l)' /\ journal' = journal
    BY <1>1, <1>4 DEF List, Verifies, TypeOK
  <2> QED
    BY <1>1, <1>4, <2>1, Withdrawn
<1>5. CASE TarMember(w) /\ UNCHANGED since
  <2>1. PICK j \in NextMembers(todo[w]) :
          archive' = IF archive[l].st = "absent" THEN archive
                     ELSE [archive EXCEPT ![l].at[j] = Len(journal[j])]
    BY <1>5 DEF TarMember
  <2>2. /\ \A m \in Labels \ {l} : archive'[m] = archive[m] /\ sidecar'[m] = sidecar[m]
        /\ archive'[l].st # "whole" /\ journal' = journal
    <3>1. archive[l].st # "whole" /\ sidecar' = sidecar /\ journal' = journal
      BY <1>1, <1>5 DEF TarMember, SinceCovered
    <3>2. CASE archive[l].st = "absent"
      BY <2>1, <3>1, <3>2
    <3>3. CASE archive[l].st # "absent"
      <4>1. /\ archive'[l] = [archive[l] EXCEPT !.at[j] = Len(journal[j])]
            /\ \A m \in Labels \ {l} : archive'[m] = archive[m]
        BY <1>1, <2>1, <3>3 DEF TypeOK
      <4>2. archive'[l].st = archive[l].st
        BY <1>1, <4>1 DEF TypeOK
      <4> QED
        BY <3>1, <4>1, <4>2
    <3> QED
      BY <3>2, <3>3
  <2>3. ~Verifies(l)'
    BY <2>2 DEF Verifies
  <2> QED
    BY <1>1, <1>5, <2>2, <2>3, Withdrawn
<1>6. CASE (TarEnd(w) \/ TarFail(w)) /\ UNCHANGED since
  <2>1. CASE archive' = archive
    <3>1. Snap' = Snap /\ Lens' = Lens
      BY <1>6, <2>1, SameSnapshots DEF TarEnd, TarFail, Lens
    <3> QED
      BY <1>6, <3>1 DEF V!vars
  <2>2. CASE archive' # archive
    <3>1. /\ todo[w] = {} /\ pc[w] = "tar" /\ archive[l].st # "absent"
          /\ archive' = [archive EXCEPT ![l].st = "whole"]
          /\ journal' = journal /\ sidecar' = sidecar
      BY <1>6, <2>2 DEF TarEnd, TarFail, Finished
    <3>2. /\ archive'[l] = [archive[l] EXCEPT !.st = "whole"]
          /\ \A m \in Labels \ {l} : archive'[m] = archive[m] /\ sidecar'[m] = sidecar[m]
      BY <1>1, <3>1 DEF TypeOK
    <3>3. archive'[l].at = archive[l].at
      BY <1>1, <3>2 DEF TypeOK
    <3> QED
      BY <1>1, <1>6, <3>1, <3>2, <3>3, Published, Withdrawn
  <2> QED
    BY <2>1, <2>2
<1>7. CASE (WriteSidecar(w) \/ Crash(w)) /\ UNCHANGED since
  <2>1. /\ archive' = archive /\ journal' = journal
        /\ \A m \in Labels \ {l} : sidecar'[m] = sidecar[m]
    BY <1>1, <1>7 DEF WriteSidecar, Crash, TypeOK
  <2>2. CASE Crash(w) /\ sidecar' = sidecar
    BY <1>7, <2>1, <2>2, SameSnapshots DEF Lens, V!vars
  <2>3. CASE Crash(w) /\ sidecar' # sidecar
    <3>1. sidecar'[l].st # "present"
      BY <1>1, <2>3 DEF Crash, NoSidecar, TypeOK
    <3> QED
      BY <1>1, <1>7, <2>1, <3>1, Withdrawn DEF Verifies
  <2>4. CASE WriteSidecar(w)
    <3>1. pc[w] = "sidecar" /\ todo[w] = {}
      BY <1>1, <2>4 DEF WriteSidecar, Knowledge, ListedStored
    <3>2. CASE archive[l].st = "absent"
      BY <1>1, <1>7, <2>1, <3>2, Withdrawn DEF Verifies
    <3>3. CASE archive[l].st # "absent"
      BY <1>1, <1>7, <2>1, <3>1, <3>3, Published, Withdrawn
    <3> QED
      BY <3>2, <3>3
  <2> QED
    BY <1>7, <2>2, <2>3, <2>4
<1> QED
  BY <1>2, <1>3, <1>4, <1>5, <1>6, <1>7 DEF HBackupStep

-----------------------------------------------------------------------------
\* Every backup, however it is interleaved with appends, other backups and
\* prunes and wherever it dies, looks from outside like an atomic store of
\* fresh, coherent snapshots.
THEOREM Refinement == HSpec => ImplementsVault
<1>1. HInit => V!Init
  BY DEF HInit, Init, V!Init, Lens, Snap, Verifies, NoArchive, Nothing
<1>2. HInv /\ HInv' /\ [HNext]_hvars => [V!Next]_V!vars
  <2> SUFFICES ASSUME HInv, HInv', [HNext]_hvars
               PROVE  [V!Next]_V!vars
    OBVIOUS
  <2>1. CASE UNCHANGED hvars
    BY <2>1, SameSnapshots DEF hvars, vars, Lens, V!vars
  <2> QED
    BY <2>1, DeploymentIsVault, PruneIsVault, BackupIsVault DEF HNext
<1> QED
  BY <1>1, <1>2, HInvInit, HInvStep, PTL DEF HSpec, ImplementsVault, V!Spec
=============================================================================
