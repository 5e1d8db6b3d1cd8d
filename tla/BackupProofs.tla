---------------------------- MODULE BackupProofs ----------------------------
(***************************************************************************)
(* Safety of the backup, for any journals, tenants, workers and bounds.    *)
(* The properties speak of files; the induction needs what each running    *)
(* process knows about the files it is about to write.                     *)
(***************************************************************************)
EXTENDS Backup, FiniteSetTheorems, TLAPS

\* Processes that run at once have labels, and so files, of their own.
OwnLabels ==
  \A v, w \in Workers :
    v # w /\ pc[v] \in Running /\ pc[w] \in Running => label[v] # label[w]

\* A record relies on upstream entries that exist.
RefsResolve ==
  \A j \in Journals : \A i \in 1 .. Len(journal[j]) :
    journal[j][i] <= Len(journal[Upstream[j]])

\* An archive holds a prefix of each journal.
Captured == \A l \in Labels, j \in Journals : archive[l].at[j] <= Len(journal[j])

\* While tar runs, what is stored sorts before what is still to be read.
TarOrdered(w) ==
  pc[w] = "tar" =>
    \A j \in todo[w], k \in Journals :
      archive[label[w]].at[k] > 0 => Rank[k] < Rank[j]

\* What was listed exists, and is stored as soon as tar is past it.
ListedStored(w) ==
  /\ pc[w] \in {"sums", "sidecar"} => todo[w] = {}
  /\ \A j \in listed[w] :
       /\ journal[j] # <<>>
       /\ pc[w] \in {"tar", "sums", "sidecar"} /\ archive[label[w]].st # "absent"
            => j \in todo[w] \/ archive[label[w]].at[j] > 0

\* The head never runs ahead of what the process has stored, or has yet to.
HeadCovered(w) ==
  head[w] \in Nat =>
    /\ head[w] <= Len(journal[Log])
    /\ pc[w] = "tar" /\ archive[label[w]].st # "absent"
         => head[w] = 0 \/ Log \in todo[w] \/ archive[label[w]].at[Log] >= head[w]
    /\ pc[w] = "sums" /\ archive[label[w]].st # "absent"
         => archive[label[w]].at[Log] >= head[w]
    /\ pc[w] = "sidecar" => sums[w][Log] >= head[w]

\* The checksums about to be written are those of the archive, if it is there.
SumsAreStored(w) ==
  pc[w] = "sidecar" /\ archive[label[w]].st # "absent"
    => archive[label[w]].st = "whole" /\ archive[label[w]].at = sums[w]

Knowledge(w) == TarOrdered(w) /\ ListedStored(w) /\ HeadCovered(w) /\ SumsAreStored(w)

\* A sidecar's head is covered by the sidecar's own checksums.
SidecarHead ==
  \A l \in Labels :
    sidecar[l].st = "present" /\ sidecar[l].head \in Nat
      => sidecar[l].sums[Log] >= sidecar[l].head

IInv ==
  /\ TypeOK
  /\ OwnLabels
  /\ RefsResolve
  /\ Captured
  /\ CausalCapture
  /\ \A w \in Workers : Knowledge(w)
  /\ SidecarHead

-----------------------------------------------------------------------------
(* Types *)

\* The clock starts at a second labels may have, and every label a process can
\* take is one.
LEMMA LabelsFromClock ==
  /\ 0 \in 0 .. MaxTime
  /\ \A t \in Tenants, s \in 0 .. MaxTime : <<t, s>> \in Labels
BY BoundAssumption DEF Labels

\* The empty archive is a map of members.
LEMMA ZeroMembers == Nothing \in Members
BY DEF Nothing, Members

\* A process that ends leaves well-typed variables behind.
LEMMA ExitType ==
  ASSUME TypeOK, NEW w \in Workers, NEW how \in {"idle", "done"}, Exit(w, how)
  PROVE  /\ pc' \in [Workers -> Running \cup {"idle", "done"}]
         /\ label' \in [Workers -> Labels]
         /\ head' \in [Workers -> Nat \cup {Unavailable}]
         /\ listed' \in [Workers -> SUBSET Journals]
         /\ todo' \in [Workers -> SUBSET Journals]
         /\ sums' \in [Workers -> Members]
<1>1. pc' \in [Workers -> Running \cup {"idle", "done"}] /\ label' \in [Workers -> Labels]
  BY DEF Exit, TypeOK
<1>2. head' \in [Workers -> Nat \cup {Unavailable}] /\ sums' \in [Workers -> Members]
  BY ZeroMembers DEF Exit, TypeOK
<1>3. listed' \in [Workers -> SUBSET Journals] /\ todo' \in [Workers -> SUBSET Journals]
  BY DEF Exit, TypeOK
<1> QED
  BY <1>1, <1>2, <1>3

\* What tar leaves when it ends is well typed.
LEMMA FinishedType ==
  ASSUME TypeOK, NEW l \in Labels
  PROVE  Finished(l) \in [Labels -> [st : {"absent", "partial", "whole"}, at : Members]]
<1> DEFINE Files == [st : {"absent", "partial", "whole"}, at : Members]
<1>1. archive[l] \in Files
  BY DEF TypeOK
<1>2. [archive[l] EXCEPT !.st = "whole"] \in Files
  BY <1>1
<1>3. archive \in [Labels -> Files]
  BY DEF TypeOK
<1> HIDE DEF Files
<1>4. [archive EXCEPT ![l].st = "whole"] \in [Labels -> Files]
  BY <1>2, <1>3
<1>5. Finished(l) \in [Labels -> Files]
  BY <1>3, <1>4 DEF Finished
<1> QED
  BY <1>5 DEF Files

\* The shape of every variable, for all instances: the state Backup's other
\* theorems argue about.
LEMMA TypeStep == TypeOK /\ [Next]_vars => TypeOK'
<1> SUFFICES ASSUME TypeOK, [Next]_vars
             PROVE  TypeOK'
  OBVIOUS
<1> USE LabelsFromClock, ZeroMembers
<1>1. CASE Tick
  BY <1>1, BoundAssumption DEF Tick, TypeOK, workerVars
<1>2. ASSUME NEW j \in Journals, Append1(j)
      PROVE  TypeOK'
  <2>1. PICK r \in 0 .. Len(journal[Upstream[j]]) :
          journal' = [journal EXCEPT ![j] = Append(@, IF Upstream[j] = j THEN 0 ELSE r)]
    BY <1>2 DEF Append1
  <2>2. r \in Nat
    BY JournalAssumption DEF TypeOK
  <2>3. journal' \in [Journals -> Seq(Nat)]
    BY <2>1, <2>2 DEF TypeOK
  <2> QED
    BY <2>3, <1>2 DEF Append1, TypeOK, workerVars
<1>3. ASSUME NEW w \in Workers, BackupStep(w)
      PROVE  TypeOK'
  <2>1. CASE \E t \in Tenants : Begin(w, t)
    BY <2>1 DEF Begin, TypeOK, Running
  <2>2. CASE ReadHead(w)
    <3>1. TreeSize \in Nat
      BY JournalAssumption DEF TreeSize, TypeOK
    <3> QED
      BY <2>2, <3>1 DEF ReadHead, TypeOK, Running
  <2>3. CASE List(w)
    BY <2>3 DEF List, TypeOK, Running, Payload
  <2>4. CASE TarMember(w)
    <3>1. PICK j \in NextMembers(todo[w]) :
            /\ todo' = [todo EXCEPT ![w] = @ \ {j}]
            /\ archive' = IF archive[label[w]].st = "absent" THEN archive
                          ELSE [archive EXCEPT ![label[w]].at[j] = Len(journal[j])]
      BY <2>4 DEF TarMember
    <3>2. j \in Journals
      BY DEF NextMembers, TypeOK
    <3>3. todo' \in [Workers -> SUBSET Journals]
      BY <3>1 DEF TypeOK
    <3>4. label[w] \in Labels /\ Len(journal[j]) \in Nat
      BY <3>2 DEF TypeOK
    <3>5. ASSUME NEW a \in [st : {"absent", "partial", "whole"}, at : Members]
          PROVE  [a EXCEPT !.at[j] = Len(journal[j])]
                   \in [st : {"absent", "partial", "whole"}, at : Members]
      BY <3>2, <3>4 DEF Members
    <3>6. archive' \in [Labels -> [st : {"absent", "partial", "whole"}, at : Members]]
      BY <3>1, <3>4, <3>5 DEF TypeOK
    <3> QED
      BY <2>4, <3>3, <3>6 DEF TarMember, TypeOK
  <2>5. CASE TarEnd(w)
    BY <2>5, FinishedType DEF TarEnd, TypeOK, Running
  <2>6. CASE TarFail(w)
    <3>1. archive' \in [Labels -> [st : {"absent", "partial", "whole"}, at : Members]]
      BY <2>6, FinishedType DEF TarFail, TypeOK
    <3> QED
      BY <2>6, <3>1, ExitType DEF TarFail, TypeOK
  <2>7. CASE ReadSums(w)
    BY <2>7 DEF ReadSums, SumsOf, TypeOK, Running
  <2>8. CASE SumsFail(w)
    BY <2>8, ExitType DEF SumsFail, TypeOK
  <2>9. CASE WriteSidecar(w)
    BY <2>9, ExitType DEF WriteSidecar, TypeOK
  <2>10. CASE Crash(w)
    <3>1. sidecar' \in [Labels -> [st : {"absent", "torn", "present"},
                                   head : Nat \cup {Unavailable}, sums : Members]]
      <4>1. [NoSidecar EXCEPT !.st = "torn"] \in [st : {"absent", "torn", "present"},
                                   head : Nat \cup {Unavailable}, sums : Members]
        BY DEF NoSidecar
      <4>2. PICK new \in {sidecar,
                         [sidecar EXCEPT ![label[w]] = [NoSidecar EXCEPT !.st = "torn"]]} :
              sidecar' = new
        BY <2>10 DEF Crash
      <4> QED
        BY <4>1, <4>2 DEF TypeOK
    <3> QED
      BY <2>10, <3>1, ExitType DEF Crash, TypeOK
  <2> QED
    BY <1>3, <2>1, <2>2, <2>3, <2>4, <2>5, <2>6, <2>7, <2>8, <2>9, <2>10 DEF BackupStep
<1>4. CASE PruneStep
  <2>1. CASE PruneList
    <3>1. PICK keep \in 0 .. MaxKeep :
            prune' = [pc |-> "archive", keep |-> keep,
                      left |-> Beyond(Archives, keep), cur |-> {}]
      BY <2>1 DEF PruneList
    <3>2. Beyond(Archives, keep) \subseteq Labels
      BY DEF Beyond, Archives
    <3>3. keep \in Nat
      BY BoundAssumption
    <3> QED
      BY <2>1, <3>1, <3>2, <3>3 DEF PruneList, TypeOK, workerVars
  <2>2. CASE PruneArchive
    <3>1. PICK l \in prune.left :
            /\ archive' = [archive EXCEPT ![l] = NoArchive]
            /\ prune' = [prune EXCEPT !.pc = "sidecar", !.left = @ \ {l}, !.cur = {l}]
      BY <2>2 DEF PruneArchive
    <3>2. l \in Labels
      BY DEF TypeOK
    <3>3. NoArchive \in [st : {"absent", "partial", "whole"}, at : Members]
      BY DEF NoArchive
    <3> QED
      BY <2>2, <3>1, <3>2, <3>3 DEF PruneArchive, TypeOK, workerVars
  <2>3. CASE PruneSidecar
    <3>1. NoSidecar \in [st : {"absent", "torn", "present"},
                         head : Nat \cup {Unavailable}, sums : Members]
      BY DEF NoSidecar
    <3>2. sidecar' \in [Labels -> [st : {"absent", "torn", "present"},
                                  head : Nat \cup {Unavailable}, sums : Members]]
      BY <2>3, <3>1 DEF PruneSidecar, TypeOK
    <3>3. prune' \in [pc : {"idle", "archive", "sidecar"}, keep : Nat,
                     left : SUBSET Labels, cur : SUBSET Labels]
      BY <2>3 DEF PruneSidecar, TypeOK
    <3> QED
      BY <2>3, <3>2, <3>3 DEF PruneSidecar, TypeOK, workerVars
  <2>4. CASE PruneEnd
    BY <2>4 DEF PruneEnd, TypeOK, workerVars, NoPrune
  <2> QED
    BY <1>4, <2>1, <2>2, <2>3, <2>4 DEF PruneStep
<1>5. CASE UNCHANGED vars
  BY <1>5 DEF vars, TypeOK
<1> QED
  BY <1>1, <1>2, <1>3, <1>4, <1>5 DEF Next, Deployment

\* The initial states are well typed.
LEMMA TypeInit == Init => TypeOK
BY LabelsFromClock, ZeroMembers, BoundAssumption
DEF Init, TypeOK, NoArchive, NoSidecar, NoPrune, Running

\* Every reachable state is well typed.
THEOREM TypeCorrect == Spec => []TypeOK
<1>1. Init => TypeOK
  BY TypeInit
<1>2. TypeOK /\ [Next]_vars => TypeOK'
  BY TypeStep
<1> QED
  BY <1>1, <1>2, PTL DEF Spec

-----------------------------------------------------------------------------
(* What a step may do to the files *)

\* Journals are append-only.
LEMMA JournalsGrow ==
  ASSUME TypeOK, [Next]_vars, NEW j \in Journals
  PROVE  /\ Len(journal[j]) <= Len(journal'[j])
         /\ \A i \in 1 .. Len(journal[j]) : journal'[j][i] = journal[j][i]
<1>1. ASSUME NEW k \in Journals, Append1(k)
      PROVE  /\ Len(journal[j]) <= Len(journal'[j])
             /\ \A i \in 1 .. Len(journal[j]) : journal'[j][i] = journal[j][i]
  <2>1. PICK r \in 0 .. Len(journal[Upstream[k]]) :
          journal' = [journal EXCEPT ![k] = Append(@, IF Upstream[k] = k THEN 0 ELSE r)]
    BY <1>1 DEF Append1
  <2>2. r \in Nat
    BY JournalAssumption DEF TypeOK
  <2>3. journal[j] \in Seq(Nat)
    BY DEF TypeOK
  <2> QED
    BY <2>1, <2>2, <2>3 DEF TypeOK
<1>2. CASE journal' = journal
  BY <1>2 DEF TypeOK
<1>3. (\E k \in Journals : Append1(k)) \/ journal' = journal
  BY DEF Next, Deployment, Tick, BackupStep, Begin, ReadHead, List, TarMember, TarEnd,
         TarFail, ReadSums, SumsFail, WriteSidecar, Crash, PruneStep, PruneList,
         PruneArchive, PruneSidecar, PruneEnd, vars
<1> QED
  BY <1>1, <1>2, <1>3

\* A process learns nothing from the steps of others, and they may only take
\* its archive away.
LEMMA OthersStep ==
  ASSUME TypeOK, OwnLabels, [Next]_vars, NEW w \in Workers, ~BackupStep(w)
  PROVE  /\ pc'[w] = pc[w] /\ label'[w] = label[w] /\ head'[w] = head[w]
         /\ listed'[w] = listed[w] /\ todo'[w] = todo[w] /\ sums'[w] = sums[w]
         /\ pc[w] \in Running => archive'[label[w]] \in {archive[label[w]], NoArchive}
<1>1. ASSUME NEW v \in Workers, BackupStep(v)
      PROVE  /\ pc'[w] = pc[w] /\ label'[w] = label[w] /\ head'[w] = head[w]
             /\ listed'[w] = listed[w] /\ todo'[w] = todo[w] /\ sums'[w] = sums[w]
             /\ pc[w] \in Running => archive'[label[w]] = archive[label[w]]
  <2>1. v # w
    BY <1>1
  <2>2. /\ pc'[w] = pc[w] /\ label'[w] = label[w] /\ head'[w] = head[w]
        /\ listed'[w] = listed[w] /\ todo'[w] = todo[w] /\ sums'[w] = sums[w]
    BY <1>1, <2>1 DEF BackupStep, Begin, ReadHead, List, TarMember, TarEnd, TarFail,
         ReadSums, SumsFail, WriteSidecar, Crash, Exit, TypeOK
  <2>3. CASE pc[v] \in Running /\ pc[w] \in Running
    <3>1. label[v] # label[w] /\ label[v] \in Labels /\ label[w] \in Labels
      BY <2>1, <2>3 DEF OwnLabels, TypeOK
    <3> QED
      BY <1>1, <2>2, <3>1 DEF BackupStep, Begin, ReadHead, List, TarMember, TarEnd,
         TarFail, ReadSums, SumsFail, WriteSidecar, Crash, Finished, TypeOK
  <2>4. CASE pc[v] \notin Running
    BY <1>1, <2>2, <2>4 DEF BackupStep, Begin, ReadHead, List, TarMember, TarEnd,
         TarFail, ReadSums, SumsFail, WriteSidecar, Crash, Running
  <2> QED
    BY <2>2, <2>3, <2>4
<1>2. CASE UNCHANGED workerVars /\ archive' = archive
  BY <1>2 DEF workerVars
<1>3. CASE PruneArchive
  BY <1>3 DEF PruneArchive, workerVars, TypeOK
<1>4. \/ \E v \in Workers : BackupStep(v)
      \/ UNCHANGED workerVars /\ archive' = archive
      \/ PruneArchive
  BY DEF Next, Deployment, Tick, Append1, PruneStep, PruneList, PruneSidecar, PruneEnd,
         vars, workerVars
<1> QED
  BY <1>1, <1>2, <1>3, <1>4

\* What an archive holds changes only when it is emptied or removed, or when
\* its tar stores the next member.
LEMMA ArchiveStep ==
  ASSUME TypeOK, [Next]_vars, NEW l \in Labels
  PROVE  \/ archive'[l].at \in {archive[l].at, Nothing}
         \/ \E w \in Workers : \E j \in NextMembers(todo[w]) :
              /\ pc[w] = "tar" /\ label[w] = l
              /\ journal' = journal
              /\ archive'[l].at = [archive[l].at EXCEPT ![j] = Len(journal[j])]
<1>1. ASSUME NEW w \in Workers, TarMember(w)
      PROVE  \/ archive'[l].at = archive[l].at
             \/ \E j \in NextMembers(todo[w]) :
                  /\ pc[w] = "tar" /\ label[w] = l
                  /\ journal' = journal
                  /\ archive'[l].at = [archive[l].at EXCEPT ![j] = Len(journal[j])]
  <2>1. PICK j \in NextMembers(todo[w]) :
          archive' = IF archive[label[w]].st = "absent" THEN archive
                     ELSE [archive EXCEPT ![label[w]].at[j] = Len(journal[j])]
    BY <1>1 DEF TarMember
  <2>2. pc[w] = "tar" /\ journal' = journal
    BY <1>1 DEF TarMember
  <2>3. CASE label[w] = l /\ archive[l].st # "absent"
    <3>1. archive'[l] = [archive[l] EXCEPT !.at[j] = Len(journal[j])]
      BY <2>1, <2>3 DEF TypeOK
    <3>2. archive'[l].at = [archive[l].at EXCEPT ![j] = Len(journal[j])]
      BY <3>1 DEF TypeOK
    <3> QED
      BY <2>2, <2>3, <3>2
  <2>4. CASE ~(label[w] = l /\ archive[l].st # "absent")
    BY <2>1, <2>4 DEF TypeOK
  <2> QED
    BY <2>3, <2>4
<1>2. ASSUME NEW w \in Workers, List(w)
      PROVE  archive'[l].at \in {archive[l].at, Nothing}
  BY <1>2 DEF List, TypeOK
<1>3. ASSUME NEW w \in Workers, TarEnd(w) \/ TarFail(w)
      PROVE  archive'[l].at = archive[l].at
  <2>1. archive' = archive \/ archive' = [archive EXCEPT ![label[w]].st = "whole"]
    BY <1>3 DEF TarEnd, TarFail, Finished
  <2>2. archive'[l] = archive[l] \/ archive'[l] = [archive[l] EXCEPT !.st = "whole"]
    <3>1. label[w] \in Labels /\ archive = [m \in Labels |-> archive[m]]
      BY DEF TypeOK
    <3>2. CASE l = label[w]
      BY <2>1, <3>1, <3>2
    <3>3. CASE l # label[w]
      BY <2>1, <3>1, <3>3
    <3> QED
      BY <3>2, <3>3
  <2>3. archive[l] \in [st : {"absent", "partial", "whole"}, at : Members]
    BY DEF TypeOK
  <2> QED
    BY <2>2, <2>3
<1>4. CASE PruneArchive
  BY <1>4 DEF PruneArchive, NoArchive, TypeOK
<1>5. \/ archive' = archive
      \/ PruneArchive
      \/ \E w \in Workers : TarMember(w) \/ List(w) \/ TarEnd(w) \/ TarFail(w)
  BY DEF Next, Deployment, Tick, Append1, BackupStep, Begin, ReadHead, ReadSums, SumsFail,
         WriteSidecar, Crash, PruneStep, PruneList, PruneSidecar, PruneEnd, vars
<1> QED
  BY <1>1, <1>2, <1>3, <1>4, <1>5

-----------------------------------------------------------------------------
(* Each part of the invariant is kept by every step *)

\* Two running backups never share a label (Begin refuses it).
LEMMA OwnLabelsStep ==
  ASSUME IInv, [Next]_vars
  PROVE  OwnLabels'
<1>1. CASE UNCHANGED <<pc, label>>
  BY <1>1 DEF IInv, OwnLabels
<1>2. ASSUME NEW w \in Workers, NEW t \in Tenants, Begin(w, t)
      PROVE  OwnLabels'
  <2>1. SUFFICES ASSUME NEW v \in Workers, NEW x \in Workers, v # x,
                        pc'[v] \in Running, pc'[x] \in Running
                 PROVE  label'[v] # label'[x]
    BY DEF OwnLabels
  <2>2. \A y \in Workers \ {w} : pc'[y] = pc[y] /\ label'[y] = label[y]
    BY <1>2 DEF Begin, IInv, TypeOK
  <2>3. label'[w] = <<t, now>>
    BY <1>2 DEF Begin, IInv, TypeOK
  <2>4. \A y \in Workers \ {w} : pc[y] \in Running => label[y] # <<t, now>>
    BY <1>2 DEF Begin
  <2>5. CASE v # w /\ x # w
    BY <2>1, <2>2, <2>5 DEF IInv, OwnLabels
  <2> QED
    BY <2>1, <2>2, <2>3, <2>4, <2>5
<1>3. ASSUME NEW w \in Workers, BackupStep(w), ~\E t \in Tenants : Begin(w, t)
      PROVE  OwnLabels'
  <2>1. label' = label
    BY <1>3 DEF BackupStep, ReadHead, List, TarMember, TarEnd, TarFail, ReadSums, SumsFail,
                WriteSidecar, Crash, Exit
  <2>2. \A v \in Workers : pc'[v] \in Running => pc[v] \in Running
    BY <1>3 DEF BackupStep, ReadHead, List, TarMember, TarEnd, TarFail, ReadSums, SumsFail,
                WriteSidecar, Crash, Exit, Running, IInv, TypeOK
  <2> QED
    BY <2>1, <2>2 DEF OwnLabels, IInv
<1>4. UNCHANGED <<pc, label>> \/ \E w \in Workers : BackupStep(w)
  BY DEF Next, Deployment, Tick, Append1, PruneStep, PruneList, PruneArchive, PruneSidecar,
         PruneEnd, vars, workerVars
<1> QED
  BY <1>1, <1>2, <1>3, <1>4

\* An entry refers to entries its upstream has, in every step.
LEMMA RefsStep ==
  ASSUME IInv, [Next]_vars
  PROVE  RefsResolve'
<1>1. ASSUME NEW k \in Journals, Append1(k)
      PROVE  RefsResolve'
  <2>1. PICK r \in 0 .. Len(journal[Upstream[k]]) :
          journal' = [journal EXCEPT ![k] = Append(@, IF Upstream[k] = k THEN 0 ELSE r)]
    BY <1>1 DEF Append1
  <2>2. r \in Nat /\ r <= Len(journal[Upstream[k]])
    BY JournalAssumption DEF IInv, TypeOK
  <2>3. SUFFICES ASSUME NEW j \in Journals, NEW i \in 1 .. Len(journal'[j])
                 PROVE  journal'[j][i] <= Len(journal'[Upstream[j]])
    BY DEF RefsResolve
  <2>4. Upstream[j] \in Journals /\ TypeOK
    BY JournalAssumption DEF IInv
  <2>5. Len(journal[Upstream[j]]) <= Len(journal'[Upstream[j]])
    BY <2>4, JournalsGrow
  <2>6. /\ journal[j] \in Seq(Nat) /\ journal[Upstream[j]] \in Seq(Nat)
        /\ journal'[Upstream[j]] \in Seq(Nat)
    BY <2>4, TypeStep DEF TypeOK
  <2>7. CASE i <= Len(journal[j])
    <3>1. journal'[j][i] = journal[j][i]
      BY <2>4, <2>6, <2>7, JournalsGrow
    <3>2. journal[j][i] <= Len(journal[Upstream[j]]) /\ journal[j][i] \in Nat
      BY <2>6, <2>7 DEF IInv, RefsResolve
    <3> QED
      BY <2>5, <2>6, <3>1, <3>2
  <2>8. CASE ~(i <= Len(journal[j]))
    <3>1. j = k /\ journal'[j][i] = IF Upstream[k] = k THEN 0 ELSE r
      BY <2>1, <2>2, <2>4, <2>6, <2>8 DEF TypeOK
    <3> QED
      BY <2>2, <2>5, <2>6, <3>1
  <2> QED
    BY <2>7, <2>8
<1>2. CASE journal' = journal
  BY <1>2 DEF IInv, RefsResolve
<1>3. (\E k \in Journals : Append1(k)) \/ journal' = journal
  BY DEF Next, Deployment, Tick, BackupStep, Begin, ReadHead, List, TarMember, TarEnd,
         TarFail, ReadSums, SumsFail, WriteSidecar, Crash, PruneStep, PruneList,
         PruneArchive, PruneSidecar, PruneEnd, vars
<1> QED
  BY <1>1, <1>2, <1>3

\* An archive never holds more of a journal than there is.
LEMMA CapturedStep ==
  ASSUME IInv, [Next]_vars
  PROVE  Captured'
<1>1. SUFFICES ASSUME NEW l \in Labels, NEW j \in Journals
               PROVE  archive'[l].at[j] <= Len(journal'[j])
  BY DEF Captured, Labels
<1>2. /\ TypeOK /\ TypeOK'
      /\ Len(journal[j]) <= Len(journal'[j])
      /\ archive[l].at[j] <= Len(journal[j])
  BY JournalsGrow, TypeStep DEF IInv, Captured
<1>3. /\ Len(journal[j]) \in Nat /\ Len(journal'[j]) \in Nat
      /\ archive[l].at \in Members
  BY <1>2 DEF TypeOK
<1>4. CASE archive'[l].at = archive[l].at
  BY <1>2, <1>3, <1>4 DEF Members
<1>5. CASE archive'[l].at = Nothing
  <2>1. archive'[l].at[j] = 0
    BY <1>5 DEF Nothing
  <2> QED
    BY <1>3, <2>1
<1>6. ASSUME NEW w \in Workers, NEW k \in NextMembers(todo[w]),
             archive'[l].at = [archive[l].at EXCEPT ![k] = Len(journal[k])]
      PROVE  archive'[l].at[j] <= Len(journal'[j])
  BY <1>2, <1>3, <1>6 DEF Members
<1> QED
  BY <1>2, <1>4, <1>5, <1>6, ArchiveStep

\* A member joins the archive after every member that refers to it.
LEMMA CausalStep ==
  ASSUME IInv, [Next]_vars
  PROVE  CausalCapture'
<1>1. SUFFICES ASSUME NEW l \in Labels, NEW j \in Journals,
                      Rank[j] < Rank[Upstream[j]],
                      archive'[l].at[j] > 0, archive'[l].at[Upstream[j]] > 0,
                      NEW i \in 1 .. archive'[l].at[j]
               PROVE  journal'[j][i] <= archive'[l].at[Upstream[j]]
  BY DEF CausalCapture, Labels
<1> DEFINE u == Upstream[j]
<1>2. /\ TypeOK /\ TypeOK'
      /\ u \in Journals
      /\ archive[l].at[j] <= Len(journal[j])
      /\ Rank[j] \in Nat /\ Rank[u] \in Nat
  BY TypeStep, JournalAssumption DEF IInv, Captured
<1>3. /\ journal[j] \in Seq(Nat) /\ Len(journal[u]) \in Nat
      /\ archive[l].at \in Members /\ archive'[l].at \in Members
  BY <1>2 DEF TypeOK
<1>4. CASE archive'[l].at = archive[l].at
  <2>1. i \in 1 .. archive[l].at[j] /\ i \in 1 .. Len(journal[j])
    BY <1>2, <1>3, <1>4 DEF Members
  <2>2. journal'[j][i] = journal[j][i]
    BY <1>2, <2>1, JournalsGrow
  <2>3. journal[j][i] <= archive[l].at[u]
    BY <1>1, <1>4, <2>1 DEF IInv, CausalCapture
  <2> QED
    BY <1>4, <2>2, <2>3
<1>5. CASE archive'[l].at = Nothing
  BY <1>1, <1>5 DEF Nothing
<1>6. ASSUME NEW w \in Workers, NEW k \in NextMembers(todo[w]),
             pc[w] = "tar", label[w] = l, journal' = journal,
             archive'[l].at = [archive[l].at EXCEPT ![k] = Len(journal[k])]
      PROVE  journal'[j][i] <= archive'[l].at[u]
  <2>1. k \in todo[w] /\ k \in Journals
    BY <1>2 DEF NextMembers, TypeOK
  <2>2. \A m \in Journals : archive[l].at[m] > 0 => Rank[m] < Rank[k]
    BY <1>6, <2>1 DEF IInv, Knowledge, TarOrdered
  <2>3. CASE k = j
    <3>1. archive[l].at[u] > 0
      BY <1>1, <1>2, <1>3, <1>6, <2>1, <2>3 DEF Members
    <3>2. Rank[u] < Rank[j]
      BY <1>2, <2>2, <2>3, <3>1
    <3> QED
      BY <1>1, <1>2, <3>2
  <2>4. CASE k = u /\ k # j
    <3>1. archive'[l].at[u] = Len(journal[u]) /\ archive'[l].at[j] = archive[l].at[j]
      BY <1>2, <1>3, <1>6, <2>1, <2>4 DEF Members
    <3>2. i \in 1 .. Len(journal[j])
      BY <1>2, <1>3, <3>1 DEF Members
    <3>3. journal[j][i] <= Len(journal[u])
      BY <3>2 DEF IInv, RefsResolve
    <3> QED
      BY <1>6, <3>1, <3>3
  <2>5. CASE k # u /\ k # j
    <3>1. archive'[l].at[u] = archive[l].at[u] /\ archive'[l].at[j] = archive[l].at[j]
      BY <1>2, <1>3, <1>6, <2>1, <2>5 DEF Members
    <3> QED
      BY <1>1, <1>6, <3>1 DEF IInv, CausalCapture
  <2> QED
    BY <2>3, <2>4, <2>5
<1> QED
  BY <1>2, <1>4, <1>5, <1>6, ArchiveStep

\* Only a backup that writes its sidecar changes a head, along with its sums.
LEMMA SidecarStep ==
  ASSUME IInv, [Next]_vars
  PROVE  SidecarHead'
<1>1. SUFFICES ASSUME NEW l \in Labels,
                      sidecar'[l].st = "present", sidecar'[l].head \in Nat
               PROVE  sidecar'[l].sums[Log] >= sidecar'[l].head
  BY DEF SidecarHead, Labels
<1>2. TypeOK /\ (sidecar[l].st = "present" /\ sidecar[l].head \in Nat
                   => sidecar[l].sums[Log] >= sidecar[l].head)
  BY DEF IInv, SidecarHead
<1>3. CASE sidecar' = sidecar
  BY <1>1, <1>2, <1>3
<1>4. ASSUME NEW w \in Workers, WriteSidecar(w)
      PROVE  sidecar'[l].sums[Log] >= sidecar'[l].head
  <2>1. /\ pc[w] = "sidecar"
        /\ sidecar' = [sidecar EXCEPT ![label[w]] =
                         [st |-> "present", head |-> head[w], sums |-> sums[w]]]
    BY <1>4 DEF WriteSidecar
  <2>2. head[w] \in Nat => sums[w][Log] >= head[w]
    BY <2>1 DEF IInv, Knowledge, HeadCovered
  <2> QED
    BY <1>1, <1>2, <2>1, <2>2 DEF TypeOK
<1>5. ASSUME NEW w \in Workers, Crash(w)
      PROVE  sidecar'[l].sums[Log] >= sidecar'[l].head
  <2>1. CASE sidecar' = sidecar
    BY <1>1, <1>2, <2>1
  <2>2. CASE sidecar' = [sidecar EXCEPT ![label[w]] = [NoSidecar EXCEPT !.st = "torn"]]
    <3>1. l # label[w]
      BY <1>1, <1>2, <2>2 DEF NoSidecar, TypeOK
    <3> QED
      BY <1>1, <1>2, <2>2, <3>1 DEF TypeOK
  <2> QED
    BY <1>5, <2>1, <2>2 DEF Crash
<1>6. CASE PruneSidecar
  BY <1>1, <1>2, <1>6 DEF PruneSidecar, NoSidecar
<1>7. \/ sidecar' = sidecar
      \/ \E w \in Workers : WriteSidecar(w) \/ Crash(w)
      \/ PruneSidecar
  BY DEF Next, Deployment, Tick, Append1, BackupStep, Begin, ReadHead, List, TarMember,
         TarEnd, TarFail, ReadSums, SumsFail, PruneStep, PruneList, PruneArchive, PruneEnd, vars
<1> QED
  BY <1>3, <1>4, <1>5, <1>6, <1>7

-----------------------------------------------------------------------------
(* What a running process knows about its own files survives every step *)

\* A step of another process, of the deployment or of a prune leaves what a
\* running backup knows of its files true.
LEMMA KnowledgeOfOthers ==
  ASSUME IInv, [Next]_vars, NEW w \in Workers, ~BackupStep(w)
  PROVE  Knowledge(w)'
<1>1. /\ pc'[w] = pc[w] /\ label'[w] = label[w] /\ head'[w] = head[w]
      /\ listed'[w] = listed[w] /\ todo'[w] = todo[w] /\ sums'[w] = sums[w]
      /\ pc[w] \in Running => archive'[label[w]] \in {archive[label[w]], NoArchive}
  BY OthersStep DEF IInv
<1>2. Knowledge(w) /\ TypeOK /\ TypeOK'
  BY TypeStep DEF IInv
<1>3. TarOrdered(w)'
  BY <1>1, <1>2 DEF Knowledge, TarOrdered, NoArchive, Nothing, Running
<1>4. ListedStored(w)'
  <2>1. \A j \in listed[w] : journal[j] # <<>> => journal'[j] # <<>>
    <3>1. SUFFICES ASSUME NEW j \in listed[w], journal[j] # <<>>
                   PROVE  journal'[j] # <<>>
      OBVIOUS
    <3>2. j \in Journals
      BY <1>2 DEF TypeOK
    <3>3. Len(journal[j]) <= Len(journal'[j])
      BY <1>2, <3>2, JournalsGrow
    <3>4. journal[j] \in Seq(Nat) /\ journal'[j] \in Seq(Nat)
      BY <1>2, <3>2 DEF TypeOK
    <3> QED
      BY <3>1, <3>3, <3>4
  <2> QED
    BY <1>1, <1>2, <2>1 DEF Knowledge, ListedStored, NoArchive, Running
<1>5. HeadCovered(w)'
  <2>1. Len(journal[Log]) <= Len(journal'[Log])
    BY <1>2, JournalsGrow, JournalAssumption
  <2>2. Len(journal[Log]) \in Nat /\ Len(journal'[Log]) \in Nat
    BY <1>2, JournalAssumption DEF TypeOK
  <2> QED
    BY <1>1, <1>2, <2>1, <2>2 DEF Knowledge, HeadCovered, NoArchive, Running
<1>6. SumsAreStored(w)'
  BY <1>1, <1>2 DEF Knowledge, SumsAreStored, NoArchive, Running
<1> QED
  BY <1>3, <1>4, <1>5, <1>6 DEF Knowledge

\* A process that ended knows nothing, truly.
LEMMA KnowledgeOfExit ==
  ASSUME TypeOK, NEW w \in Workers, NEW how \in {"idle", "done"}, Exit(w, how)
  PROVE  Knowledge(w)'
BY BoundAssumption DEF Exit, TypeOK, Knowledge, TarOrdered, ListedStored, HeadCovered,
                       SumsAreStored

\* Its own steps keep it too: the head before the listing, the listing before
\* the members, the members before their checksums.
LEMMA KnowledgeOfOwn ==
  ASSUME IInv, [Next]_vars, NEW w \in Workers, BackupStep(w)
  PROVE  Knowledge(w)'
<1>1. Knowledge(w) /\ TypeOK /\ TypeOK'
  BY TypeStep DEF IInv
<1>2. label[w] \in Labels /\ Len(journal[Log]) \in Nat
  BY <1>1, JournalAssumption DEF TypeOK
<1>3. CASE \E t \in Tenants : Begin(w, t)
  BY <1>1, <1>3 DEF Begin, TypeOK, Knowledge, TarOrdered, ListedStored, HeadCovered,
                    SumsAreStored
<1>4. CASE ReadHead(w)
  BY <1>1, <1>2, <1>4, BoundAssumption
  DEF ReadHead, TreeSize, TypeOK, Knowledge, TarOrdered, ListedStored, HeadCovered,
      SumsAreStored
<1>5. CASE List(w)
  <2>1. /\ pc'[w] = "tar" /\ label' = label /\ head' = head /\ sums' = sums
        /\ journal' = journal
        /\ listed'[w] = Payload /\ todo'[w] = Payload
        /\ archive'[label[w]] = [st |-> "partial", at |-> Nothing]
    BY <1>1, <1>2, <1>5 DEF List, TypeOK
  <2>2. TarOrdered(w)'
    BY <2>1 DEF TarOrdered, Nothing
  <2>3. ListedStored(w)'
    BY <2>1 DEF ListedStored, Payload
  <2>4. HeadCovered(w)'
    <3>1. head[w] \in Nat /\ head[w] # 0 => Log \in Payload
      BY <1>1, <1>2, JournalAssumption DEF Knowledge, HeadCovered, Payload, TypeOK
    <3> QED
      BY <1>1, <2>1, <3>1 DEF Knowledge, HeadCovered
  <2> QED
    BY <2>1, <2>2, <2>3, <2>4 DEF Knowledge, SumsAreStored
<1>6. CASE TarMember(w)
  <2>1. PICK j \in NextMembers(todo[w]) :
          /\ todo' = [todo EXCEPT ![w] = @ \ {j}]
          /\ archive' = IF archive[label[w]].st = "absent" THEN archive
                        ELSE [archive EXCEPT ![label[w]].at[j] = Len(journal[j])]
    BY <1>6 DEF TarMember
  <2>2. /\ pc[w] = "tar" /\ pc' = pc /\ label' = label /\ head' = head /\ sums' = sums
        /\ journal' = journal /\ listed' = listed /\ todo'[w] = todo[w] \ {j}
    BY <1>1, <1>6, <2>1 DEF TarMember, TypeOK
  <2>3. j \in todo[w] /\ j \in Journals /\ \A k \in todo[w] : Rank[j] <= Rank[k]
    BY <1>1 DEF NextMembers, TypeOK
  <2>4. CASE archive[label[w]].st = "absent"
    <3>1. archive' = archive
      BY <2>1, <2>4
    <3> QED
      BY <1>1, <2>2, <2>4, <3>1
      DEF Knowledge, TarOrdered, ListedStored, HeadCovered, SumsAreStored
  <2>5. CASE archive[label[w]].st # "absent"
    <3>1. archive'[label[w]] = [archive[label[w]] EXCEPT !.at[j] = Len(journal[j])]
      BY <1>1, <1>2, <2>1, <2>5 DEF TypeOK
    <3>2. /\ archive'[label[w]].at = [archive[label[w]].at EXCEPT ![j] = Len(journal[j])]
          /\ archive[label[w]].at \in Members
      BY <1>1, <1>2, <3>1 DEF TypeOK
    <3>3. /\ archive'[label[w]].at[j] = Len(journal[j])
          /\ \A k \in Journals \ {j} : archive'[label[w]].at[k] = archive[label[w]].at[k]
      BY <2>3, <3>2 DEF Members
    <3>4. TarOrdered(w)'
      <4>1. SUFFICES ASSUME NEW i \in todo[w] \ {j}, NEW k \in Journals,
                            archive'[label[w]].at[k] > 0
                     PROVE  Rank[k] < Rank[i]
        BY <2>2 DEF TarOrdered
      <4>2. Rank[i] \in Nat /\ Rank[j] \in Nat /\ Rank[i] # Rank[j]
        BY <1>1, <2>3, <4>1, JournalAssumption DEF TypeOK
      <4> QED
        BY <1>1, <2>2, <2>3, <3>3, <4>1, <4>2 DEF Knowledge, TarOrdered
    <3>5. ListedStored(w)'
      <4>1. \A i \in listed[w] : i \in Journals /\ journal[i] # <<>>
        BY <1>1 DEF Knowledge, ListedStored, TypeOK
      <4>2. j \in listed[w] => Len(journal[j]) > 0
        BY <1>1, <2>3, <4>1 DEF TypeOK
      <4> QED
        BY <1>1, <2>2, <2>3, <2>5, <3>3, <4>1, <4>2 DEF Knowledge, ListedStored
    <3>6. HeadCovered(w)'
      BY <1>1, <2>2, <2>3, <2>5, <3>3, JournalAssumption DEF Knowledge, HeadCovered
    <3> QED
      BY <2>2, <3>4, <3>5, <3>6 DEF Knowledge, SumsAreStored
  <2> QED
    BY <2>4, <2>5
<1>7. CASE TarEnd(w)
  <2>1. /\ pc[w] = "tar" /\ todo[w] = {} /\ pc'[w] = "sums"
        /\ journal' = journal /\ label' = label /\ head' = head /\ sums' = sums
        /\ listed' = listed /\ todo' = todo
    BY <1>1, <1>7 DEF TarEnd, TypeOK
  <2>2. /\ archive'[label[w]].at = archive[label[w]].at
        /\ archive[label[w]].st = "absent" <=> archive'[label[w]].st = "absent"
    <3>1. \/ archive'[label[w]] = archive[label[w]] /\ archive[label[w]].st = "absent"
          \/ /\ archive'[label[w]] = [archive[label[w]] EXCEPT !.st = "whole"]
             /\ archive[label[w]].st # "absent"
      BY <1>1, <1>2, <1>7 DEF TarEnd, Finished, TypeOK
    <3>2. archive[label[w]] \in [st : {"absent", "partial", "whole"}, at : Members]
      BY <1>1, <1>2 DEF TypeOK
    <3> QED
      BY <3>1, <3>2
  <2>3. head[w] \in Nat /\ head[w] = 0 => archive[label[w]].at[Log] >= head[w]
    BY <1>1, <1>2, JournalAssumption DEF TypeOK, Members
  <2> QED
    BY <1>1, <2>1, <2>2, <2>3
    DEF Knowledge, TarOrdered, ListedStored, HeadCovered, SumsAreStored
<1>8. CASE ReadSums(w)
  <2>1. /\ pc[w] = "sums" /\ archive[label[w]].st = "whole" /\ pc'[w] = "sidecar"
        /\ sums'[w] = archive[label[w]].at
        /\ journal' = journal /\ archive' = archive /\ label' = label /\ head' = head
        /\ listed' = listed /\ todo' = todo
    BY <1>1, <1>8 DEF ReadSums, SumsOf, TypeOK
  <2> QED
    BY <1>1, <2>1 DEF Knowledge, TarOrdered, ListedStored, HeadCovered, SumsAreStored
<1>9. CASE TarFail(w) \/ SumsFail(w) \/ WriteSidecar(w) \/ Crash(w)
  BY <1>1, <1>9, KnowledgeOfExit DEF TarFail, SumsFail, WriteSidecar, Crash
<1> QED
  BY <1>3, <1>4, <1>5, <1>6, <1>7, <1>8, <1>9 DEF BackupStep

-----------------------------------------------------------------------------
(* The theorems *)

\* The invariant holds at the start.
LEMMA IInvInit == Init => IInv
<1>1. ASSUME Init
      PROVE  IInv
  <2>1. TypeOK
    BY <1>1, TypeInit
  <2>2. OwnLabels
    BY <1>1 DEF Init, OwnLabels, Running
  <2>3. RefsResolve /\ Captured /\ CausalCapture
    BY <1>1 DEF Init, RefsResolve, Captured, CausalCapture, NoArchive, Nothing
  <2>4. \A w \in Workers : Knowledge(w)
    BY <1>1, BoundAssumption DEF Init, Knowledge, TarOrdered, ListedStored, HeadCovered, SumsAreStored
  <2>5. SidecarHead
    BY <1>1 DEF Init, SidecarHead, NoSidecar
  <2> QED
    BY <2>1, <2>2, <2>3, <2>4, <2>5 DEF IInv
<1> QED
  BY <1>1

\* Every step keeps the invariant.
LEMMA IInvStep == IInv /\ [Next]_vars => IInv'
<1> SUFFICES ASSUME IInv, [Next]_vars
             PROVE  IInv'
  OBVIOUS
<1>1. TypeOK'
  BY TypeStep DEF IInv
<1>2. OwnLabels' /\ RefsResolve' /\ Captured' /\ CausalCapture' /\ SidecarHead'
  BY OwnLabelsStep, RefsStep, CapturedStep, CausalStep, SidecarStep
<1>3. \A w \in Workers : Knowledge(w)'
  BY KnowledgeOfOthers, KnowledgeOfOwn
<1> QED
  BY <1>1, <1>2, <1>3 DEF IInv

\* The invariant that carries the safety properties holds in every reachable
\* state: each running backup's knowledge of its own files, and what each pair
\* of files on disk owes to the process that wrote it.
THEOREM Inductive == Spec => []IInv
BY IInvInit, IInvStep, PTL DEF Spec

\* No dangling record in any archive, complete or not, of any deployment whose
\* payload order lists a journal before the one it refers to.
THEOREM Causal == Spec => []CausalCapture
<1>1. IInv => CausalCapture
  BY DEF IInv
<1> QED
  BY <1>1, Inductive, PTL

\* The head a sidecar records is a consistency point of any pair that verifies.
THEOREM HeadIsCovered == Spec => []ConsistencyPoint
<1>1. IInv => ConsistencyPoint
  <2> SUFFICES ASSUME IInv, NEW l \in Labels, Verifies(l), sidecar[l].head \in Nat
               PROVE  archive[l].at[Log] >= sidecar[l].head
    BY DEF ConsistencyPoint
  <2>1. sidecar[l].sums[Log] >= sidecar[l].head
    BY DEF IInv, SidecarHead, Verifies
  <2>2. sidecar[l].sums[Log] # 0 => archive[l].at[Log] = sidecar[l].sums[Log]
    BY JournalAssumption DEF Verifies
  <2>3. archive[l].at[Log] \in Nat /\ sidecar[l].sums[Log] \in Nat
    BY JournalAssumption DEF IInv, TypeOK, Members
  <2> QED
    BY <2>1, <2>2, <2>3
<1> QED
  BY <1>1, Inductive, PTL

\* A backup that says it succeeded left a restorable pair with all it listed,
\* unless a prune deleted the archive under it.
THEOREM SuccessIsWhole == Spec => CompletedIsWhole
<1> DEFINE Whole ==
      \A w \in Workers :
        pc[w] = "sidecar" /\ pc'[w] = "done" =>
          \/ archive[label[w]].st = "absent"
          \/ Verifies(label[w])' /\ \A j \in listed[w] : archive[label[w]].at[j] > 0
<1>1. IInv /\ [Next]_vars => [Whole]_vars
  <2> SUFFICES ASSUME IInv, [Next]_vars, NEW w \in Workers,
                      pc[w] = "sidecar", pc'[w] = "done",
                      archive[label[w]].st # "absent"
               PROVE  /\ Verifies(label[w])'
                      /\ \A j \in listed[w] : archive[label[w]].at[j] > 0
    OBVIOUS
  <2>1. BackupStep(w)
    BY OthersStep DEF IInv
  <2>2. WriteSidecar(w)
    BY <2>1 DEF BackupStep, Begin, ReadHead, List, TarMember, TarEnd, TarFail, ReadSums,
                SumsFail, Crash, Exit, IInv, TypeOK
  <2>3. /\ archive[label[w]].st = "whole" /\ archive[label[w]].at = sums[w]
        /\ \A j \in listed[w] : archive[label[w]].at[j] > 0
    BY DEF IInv, Knowledge, SumsAreStored, ListedStored
  <2>4. /\ label' = label /\ archive' = archive
        /\ sidecar'[label[w]] = [st |-> "present", head |-> head[w], sums |-> sums[w]]
    BY <2>2 DEF WriteSidecar, Exit, IInv, TypeOK
  <2> QED
    BY <2>3, <2>4 DEF Verifies
<1> QED
  BY <1>1, Inductive, PTL DEF CompletedIsWhole, Spec
-----------------------------------------------------------------------------
(* Retention *)

\* The names are in a strict total order: by tenant, then by second.
LEMMA NameOrder ==
  ASSUME NEW l \in Labels, NEW k \in Labels, NEW m \in Labels
  PROVE  /\ ~NameAfter(l, l)
         /\ NameAfter(m, k) /\ NameAfter(k, l) => NameAfter(m, l)
         /\ k = l \/ NameAfter(k, l) \/ NameAfter(l, k)
<1>1. /\ \A x \in {l, k, m} : x = <<x[1], x[2]>> /\ x[1] \in Tenants /\ x[2] \in Int
      /\ \A t \in Tenants : NameRank[t] \in Nat
  BY NameAssumption, BoundAssumption DEF Labels
<1>2. NameRank[k[1]] = NameRank[l[1]] => k[1] = l[1]
  BY <1>1, NameAssumption
<1> QED
  BY <1>1, <1>2 DEF NameAfter

\* Of the archives listed, those a prune keeps are enough for each it deletes:
\* the newest it deletes has keep names after it, and those are all kept.
LEMMA BeyondSpares ==
  ASSUME NEW A \in SUBSET Labels, IsFiniteSet(A), NEW keep \in Nat, NEW l \in Beyond(A, keep)
  PROVE  Cardinality({k \in A \ Beyond(A, keep) : NameAfter(k, l)}) >= keep
<1> DEFINE B == Beyond(A, keep)
           After(x) == {k \in A : NameAfter(k, x)}
           T == {After(x) : x \in B}
<1>1. B \subseteq A /\ \A x \in B : Cardinality(After(x)) >= keep
  BY DEF Beyond
<1>2. PICK s \in T : \A y \in T : <<y, s>> \notin StrictSubsetOrdering(A)
  <2>1. T \subseteq FiniteSubsetsOf(A)
    <3>1. \A x : After(x) \in SUBSET A
      OBVIOUS
    <3>2. \A y \in SUBSET A : IsFiniteSet(y)
      BY FS_Subset
    <3> QED
      BY <3>1, <3>2 DEF FiniteSubsetsOf
  <2>2. After(l) \in T
    OBVIOUS
  <2>3. IsWellFoundedOn(StrictSubsetOrdering(A), FiniteSubsetsOf(A))
    BY FS_StrictSubsetOrderingWellFounded
  <2> HIDE DEF T
  <2>4. T # {}
    BY <2>2
  <2> QED
    BY <2>1, <2>3, <2>4, WFMin
<1>3. PICK x \in B : s = After(x)
  BY <1>2
<1> HIDE DEF B
<1>4. \A k \in After(x) : k \notin B
  <2> SUFFICES ASSUME NEW k \in After(x), k \in B
               PROVE  FALSE
    OBVIOUS
  <2>1. After(k) \subseteq After(x)
    BY <1>1, NameOrder
  <2>2. k \notin After(k)
    BY <1>1, NameOrder
  <2>3. <<After(k), After(x)>> \in StrictSubsetOrdering(A)
    <3>1. After(k) \in SUBSET A /\ After(x) \in SUBSET A /\ After(k) # After(x)
      BY <2>2
    <3> HIDE DEF After
    <3> QED
      BY <2>1, <3>1 DEF StrictSubsetOrdering
  <2>4. After(k) \in T
    OBVIOUS
  <2> QED
    BY <1>2, <1>3, <2>3, <2>4
<1> DEFINE Kept == {k \in A \ B : NameAfter(k, l)}
<1>5. After(x) \subseteq Kept
  <2> SUFFICES ASSUME NEW k \in After(x)
               PROVE  NameAfter(k, l)
    BY <1>4
  <2>1. l \in B
    BY DEF B
  <2>2. ~NameAfter(l, x)
    BY <1>1, <1>4, <2>1
  <2> QED
    BY <1>1, <2>1, <2>2, NameOrder
<1>6. Cardinality(After(x)) <= Cardinality(Kept) /\ Cardinality(Kept) \in Nat
      /\ Cardinality(After(x)) \in Nat
  <2>1. IsFiniteSet(Kept)
    BY FS_Subset
  <2>2. IsFiniteSet(After(x))
    BY <1>5, <2>1, FS_Subset
  <2> HIDE DEF After, Kept
  <2> QED
    BY <1>5, <2>1, <2>2, FS_Subset, FS_CardinalityType
<1> QED
  BY <1>1, <1>6 DEF B

\* What is listed for deletion leaves behind enough archives with later names,
\* and backups that finish meanwhile only add to them.
Sparing ==
  /\ IsFiniteSet(Archives)
  /\ \A l \in prune.left :
       Cardinality({k \in Archives \ prune.left : NameAfter(k, l)}) >= prune.keep

\* Only a prune removes an archive, and a step creates one at most.
LEMMA ArchivesStep ==
  ASSUME TypeOK, [Next]_vars
  PROVE  \/ PruneArchive
         \/ PruneList /\ Archives' = Archives
         \/ /\ prune' = NoPrune \/ (prune'.left = prune.left /\ prune'.keep = prune.keep)
            /\ Archives \subseteq Archives'
            /\ \E l : Archives' \subseteq Archives \cup {l}
<1>1. ASSUME NEW w \in Workers, BackupStep(w)
      PROVE  prune' = prune /\ \A l \in Labels : l # label[w] => archive'[l] = archive[l]
  BY <1>1 DEF BackupStep, Begin, ReadHead, List, TarMember, TarEnd, TarFail, Finished,
       ReadSums, SumsFail, WriteSidecar, Crash, TypeOK
<1>2. ASSUME NEW w \in Workers, BackupStep(w), archive[label[w]].st # "absent"
      PROVE  archive'[label[w]].st # "absent"
  <2>1. /\ label[w] \in Labels
        /\ archive[label[w]] \in [st : {"absent", "partial", "whole"}, at : Members]
        /\ archive = [l \in Labels |-> archive[l]]
    BY DEF TypeOK
  <2>2. CASE List(w)
    BY <2>1, <2>2 DEF List
  <2>3. CASE TarMember(w)
    <3>1. PICK j : archive' = [archive EXCEPT ![label[w]].at[j] = Len(journal[j])]
      BY <1>2, <2>3 DEF TarMember
    <3> QED
      BY <1>2, <2>1, <3>1
  <2>4. CASE TarEnd(w) \/ TarFail(w)
    BY <1>2, <2>1, <2>4 DEF TarEnd, TarFail, Finished
  <2>5. CASE archive' = archive
    BY <1>2, <2>5
  <2> QED
    BY <1>2, <2>2, <2>3, <2>4, <2>5 DEF BackupStep, Begin, ReadHead, ReadSums, SumsFail,
         WriteSidecar, Crash
<1>3. ASSUME NEW w \in Workers, BackupStep(w)
      PROVE  /\ prune' = prune /\ Archives \subseteq Archives'
             /\ Archives' \subseteq Archives \cup {label[w]}
  BY <1>1, <1>2, <1>3 DEF Archives, TypeOK
<1>4. CASE PruneList
  BY <1>4 DEF PruneList, Archives
<1>5. CASE /\ archive' = archive
           /\ prune' = NoPrune \/ (prune'.left = prune.left /\ prune'.keep = prune.keep)
  <2>1. Archives' = Archives
    BY <1>5 DEF Archives
  <2> QED
    BY <1>5, <2>1
<1>6. \/ \E w \in Workers : BackupStep(w)
      \/ PruneList \/ PruneArchive
      \/ /\ archive' = archive
         /\ prune' = NoPrune \/ (prune'.left = prune.left /\ prune'.keep = prune.keep)
  BY DEF Next, Deployment, Tick, Append1, PruneStep, PruneSidecar, PruneEnd, vars, TypeOK
<1> QED
  BY <1>3, <1>4, <1>5, <1>6

\* What is spared stays spared.
LEMMA SparingStep == TypeOK /\ Sparing /\ [Next]_vars => Sparing'
<1> SUFFICES ASSUME TypeOK, Sparing, [Next]_vars
             PROVE  Sparing'
  OBVIOUS
<1>1. CASE PruneArchive
  <2>1. PICK l \in prune.left :
          /\ archive' = [archive EXCEPT ![l] = NoArchive]
          /\ prune' = [prune EXCEPT !.pc = "sidecar", !.left = @ \ {l}, !.cur = {l}]
    BY <1>1 DEF PruneArchive
  <2>2. Archives' = Archives \ {l}
    BY <2>1 DEF Archives, NoArchive, TypeOK
  <2>3. prune'.left = prune.left \ {l} /\ prune'.keep = prune.keep
    BY <2>1 DEF TypeOK
  <2>4. Archives' \ prune'.left = Archives \ prune.left
    BY <2>1, <2>2, <2>3
  <2>5. IsFiniteSet(Archives')
    BY <2>2, FS_Subset DEF Sparing
  <2> QED
    BY <2>3, <2>4, <2>5 DEF Sparing
<1>2. CASE PruneList /\ Archives' = Archives
  <2>1. PICK keep \in 0 .. MaxKeep :
          prune' = [pc |-> "archive", keep |-> keep, left |-> Beyond(Archives, keep), cur |-> {}]
    BY <1>2 DEF PruneList
  <2>2. prune'.left = Beyond(Archives, keep) /\ prune'.keep = keep /\ keep \in Nat
    BY <2>1, BoundAssumption
  <2>3. Archives \in SUBSET Labels
    BY DEF Archives
  <2>4. \A l \in Beyond(Archives, keep) :
          Cardinality({k \in Archives \ Beyond(Archives, keep) : NameAfter(k, l)}) >= keep
    BY <2>2, <2>3, BeyondSpares DEF Sparing
  <2> QED
    BY <1>2, <2>2, <2>4 DEF Sparing
<1>3. CASE /\ prune' = NoPrune \/ (prune'.left = prune.left /\ prune'.keep = prune.keep)
           /\ Archives \subseteq Archives'
           /\ \E l : Archives' \subseteq Archives \cup {l}
  <2>1. IsFiniteSet(Archives')
    <3>1. PICK l : Archives' \subseteq Archives \cup {l}
      BY <1>3
    <3>2. IsFiniteSet(Archives \cup {l})
      BY FS_AddElement DEF Sparing
    <3> QED
      BY <3>1, <3>2, FS_Subset
  <2>2. ASSUME NEW l \in prune.left, prune'.left = prune.left, prune'.keep = prune.keep
        PROVE  Cardinality({k \in Archives' \ prune'.left : NameAfter(k, l)}) >= prune'.keep
    <3> DEFINE Was == {k \in Archives \ prune.left : NameAfter(k, l)}
               Now == {k \in Archives' \ prune'.left : NameAfter(k, l)}
    <3>1. Was \subseteq Now /\ Now \subseteq Archives'
      BY <1>3, <2>2
    <3>2. Cardinality(Was) >= prune.keep /\ prune.keep \in Nat
      BY DEF Sparing, TypeOK
    <3> HIDE DEF Was, Now
    <3>3. IsFiniteSet(Now) /\ IsFiniteSet(Was)
      BY <2>1, <3>1, FS_Subset
    <3>4. Cardinality(Was) <= Cardinality(Now)
          /\ Cardinality(Was) \in Nat /\ Cardinality(Now) \in Nat
      BY <3>1, <3>3, FS_Subset, FS_CardinalityType
    <3>5. Cardinality(Now) >= prune'.keep
      BY <2>2, <3>2, <3>4
    <3> QED
      BY <3>5 DEF Now
  <2>3. prune' = NoPrune => prune'.left = {}
    BY DEF NoPrune
  <2> QED
    BY <1>3, <2>1, <2>2, <2>3 DEF Sparing
<1> QED
  BY <1>1, <1>2, <1>3, ArchivesStep

\* So the archive that a prune unlinks has keep later names beside it.
LEMMA SparedAtDeletion ==
  ASSUME TypeOK, Sparing, [Next]_vars, NEW l \in Archives, archive'[l].st = "absent"
  PROVE  Cardinality({k \in Archives : NameAfter(k, l)}) >= prune.keep
<1>1. PruneArchive
  <2>1. l \notin Archives'
    BY DEF Archives
  <2> QED
    BY <2>1, ArchivesStep
<1>2. PICK m \in prune.left : archive' = [archive EXCEPT ![m] = NoArchive]
  BY <1>1 DEF PruneArchive
<1>3. m = l
  BY <1>2 DEF Archives, TypeOK
<1> DEFINE Spared == {k \in Archives \ prune.left : NameAfter(k, l)}
           After == {k \in Archives : NameAfter(k, l)}
<1>4. Cardinality(Spared) >= prune.keep /\ prune.keep \in Nat /\ IsFiniteSet(Archives)
  BY <1>3 DEF Sparing, TypeOK
<1>5. Spared \subseteq After /\ After \subseteq Archives
  OBVIOUS
<1> HIDE DEF Spared, After
<1>6. IsFiniteSet(After) /\ IsFiniteSet(Spared)
  BY <1>4, <1>5, FS_Subset
<1>7. Cardinality(Spared) <= Cardinality(After)
      /\ Cardinality(Spared) \in Nat /\ Cardinality(After) \in Nat
  BY <1>5, <1>6, FS_Subset, FS_CardinalityType
<1>8. Cardinality(After) >= prune.keep
  BY <1>4, <1>7
<1> QED
  BY <1>8 DEF After

LEMMA SparingInit == Init => Sparing
<1> SUFFICES ASSUME Init
             PROVE  Sparing
  OBVIOUS
<1>1. Archives = {} /\ prune.left = {}
  BY DEF Init, Archives, NoArchive, NoPrune
<1> QED
  BY <1>1, FS_EmptySet DEF Sparing

\* Whatever starts, dies or finishes beside it, a prune deletes no archive that
\* does not have keep archives with later names beside it.
THEOREM NewestSpared == Spec => PruneSparesNewest
<1> DEFINE Spares ==
      \A l \in Archives :
        archive'[l].st = "absent" =>
          Cardinality({k \in Archives : NameAfter(k, l)}) >= prune.keep
<1>1. TypeOK /\ Sparing /\ [Next]_vars => [Spares]_vars
  BY SparedAtDeletion
<1>2. Spec => []Sparing
  <2>1. TypeOK /\ TypeOK' /\ Sparing /\ [Next]_vars => Sparing'
    BY SparingStep
  <2> QED
    BY <2>1, SparingInit, TypeCorrect, PTL DEF Spec
<1> QED
  BY <1>1, <1>2, TypeCorrect, PTL DEF PruneSparesNewest, Spec

=============================================================================
