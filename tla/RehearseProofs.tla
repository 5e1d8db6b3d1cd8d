---------------------------- MODULE RehearseProofs ----------------------------
(***************************************************************************)
(* Safety of the upgrade rehearsal, for any journals, tenants, workers and *)
(* bounds: what its own archive has captured, what a faulty binary may     *)
(* have cut off since, and what the readings it compares can say of it.    *)
(***************************************************************************)
EXTENDS Rehearse, BackupProofs

-----------------------------------------------------------------------------
(* The inductive invariant *)

\* Only the rehearsal's own backup writes archives of that name.
UpgradeIsHis ==
  \A w \in Workers \ {Rehearser} : pc[w] \in Running => label[w][1] # Upgrade

\* A removed archive holds nothing, and the journals still have of what an
\* archive captured no more than it captured.
CapturedFirst ==
  \A l \in Labels :
    /\ archive[l].st = "absent" => archive[l].at = Nothing
    /\ \A j \in Journals : intact[l][j] <= archive[l].at[j]

\* No archive, and no prune's list, is ahead of the latest rehearsal's label.
LabelFresh ==
  /\ reh.own[1] = Upgrade
  /\ \A l \in Archives \cup prune.left \cup prune.cur :
       l[1] = Upgrade => reh.pc # "never" /\ l[2] <= reh.own[2]

\* The sidecar a prune deletes next is one whose archive is gone for good.
CurrentIsGone ==
  \A l \in prune.cur : l[1] = Upgrade => archive[l].st = "absent"

HoldsBegun == \A j \in Journals : archive[reh.own].at[j] >= begun[j]
Taken == archive[reh.own].st = "absent"

\* While the backup runs, nothing has been rebuilt and nothing is lost: what is
\* captured is at least what was there at the beginning.
Capturing ==
  /\ rebuilt = FALSE /\ noise = FALSE
  /\ label[Rehearser] = reh.own
  /\ kept = begun /\ \A j \in Journals : begun[j] <= Len(journal[j])
  /\ \A j \in Journals : intact[reh.own][j] = archive[reh.own].at[j]
  /\ pc[Rehearser] \in {"head", "list"} =>
       Taken /\ reh.own \notin prune.left \cup prune.cur
  /\ pc[Rehearser] = "tar" =>
       Taken \/ \A j \in Journals : j \in todo[Rehearser] \/ archive[reh.own].at[j] >= begun[j]
  /\ pc[Rehearser] = "sums" => Taken \/ HoldsBegun
  /\ pc[Rehearser] = "sidecar" =>
       Taken \/ (HoldsBegun /\ archive[reh.own].st = "whole"
                   /\ sums[Rehearser] = archive[reh.own].at)

\* Once it is done the pair on disk is one to go back to, unless a prune took it.
BackedUp == Taken \/ (Verifies(reh.own) /\ HoldsBegun)

\* What was cut off of what was there at the beginning, is cut off of what the
\* archive captured.
CutShows ==
  \A j \in Journals :
    kept[j] = begun[j] \/ (kept[j] < begun[j] /\ intact[reh.own][j] <= kept[j])

\* As long as nothing has come or gone, the readings can only agree.
QuietAgrees ==
  ~noise =>
    /\ \A j \in Journals : intact[reh.own][j] = archive[reh.own].at[j]
    /\ reh.pc \in {"beforeLines", "rebuild", "stop", "start", "after"} =>
         reh.dom \in {Unavailable, Len(journal[Log])}
    /\ reh.pc \in {"rebuild", "stop", "start", "after", "afterLines"} => reh.lines = Lens
    /\ reh.pc \in {"afterLines", "verdict"} => reh.ok

Files == UpgradeIsHis /\ CapturedFirst /\ LabelFresh /\ CurrentIsGone

Phase ==
  /\ reh.pc = "backup" => Capturing
  /\ reh.pc # "backup" => pc[Rehearser] \in {"idle", "done"}
  /\ reh.pc \in Rehearsing \/ (reh.pc = "backup" /\ pc[Rehearser] = "done") => BackedUp
  /\ reh.pc \in Rehearsing => pc[Rehearser] = "done" /\ CutShows /\ QuietAgrees

RIInv == RTypeOK /\ Files /\ Phase /\ NoFalseAlarm

-----------------------------------------------------------------------------
(* Types *)

\* What a start by a faulty binary does to the journals and to what is left of
\* the captured entries.
LEMMA ReplayCuts ==
  ASSUME RTypeOK, Replay, ~UNCHANGED <<journal, intact, kept, noise>>
  PROVE  /\ rebuilt /\ noise' = TRUE
         /\ journal' \in [Journals -> Seq(Nat)]
         /\ intact' \in [Labels -> Members] /\ kept' \in Members
         /\ \E j \in Journals, n \in Nat :
              /\ \A l \in Labels, k \in Journals :
                   intact'[l][k] = IF k = j THEN AtMost(intact[l][k], n) ELSE intact[l][k]
              /\ \A k \in Journals :
                   kept'[k] = IF k = j THEN AtMost(kept[k], n) ELSE kept[k]
<1> DEFINE Cut(j, n) ==
        /\ journal' \in {journal, [journal EXCEPT ![j] = SubSeq(@, 1, n)]}
        /\ intact' = [l \in Labels |-> [intact[l] EXCEPT ![j] = AtMost(@, n)]]
        /\ kept' = [kept EXCEPT ![j] = AtMost(@, n)]
<1>1. rebuilt /\ noise' = TRUE /\ \E j \in Journals : \E n \in 0 .. Len(journal[j]) - 1 : Cut(j, n)
  BY DEF Replay
<1>2. PICK j \in Journals : \E n \in 0 .. Len(journal[j]) - 1 : Cut(j, n)
  BY <1>1
<1>3. PICK n \in 0 .. Len(journal[j]) - 1 : Cut(j, n)
  BY <1>2
<1>4. journal[j] \in Seq(Nat) /\ journal \in [Journals -> Seq(Nat)]
  BY DEF RTypeOK, TypeOK
<1>5. n \in Nat /\ n <= Len(journal[j])
  BY <1>4
<1>6. SubSeq(journal[j], 1, n) \in Seq(Nat)
  BY <1>4, <1>5
<1>7. journal' \in [Journals -> Seq(Nat)]
  BY <1>3, <1>4, <1>6
<1>8. \A m \in Nat : AtMost(m, n) \in Nat
  BY <1>5 DEF AtMost
<1>9. /\ \A l \in Labels : intact[l] \in [Journals -> Nat]
      /\ kept \in [Journals -> Nat]
  BY DEF RTypeOK, Members
<1>10. /\ \A l \in Labels, k \in Journals :
           intact'[l][k] = IF k = j THEN AtMost(intact[l][k], n) ELSE intact[l][k]
      /\ \A k \in Journals :
           kept'[k] = IF k = j THEN AtMost(kept[k], n) ELSE kept[k]
  BY <1>3, <1>9
<1>11. \A l \in Labels : [intact[l] EXCEPT ![j] = AtMost(@, n)] \in Members
  BY <1>8, <1>9 DEF Members
<1>12. intact' \in [Labels -> Members] /\ kept' \in Members
  BY <1>3, <1>8, <1>9, <1>11 DEF Members
<1> QED
  BY <1>1, <1>5, <1>7, <1>10, <1>12

\* Every step is one of Backup's, or the replay of a start.
LEMMA NextOrReplay ==
  ASSUME [RNext]_rvars
  PROVE  [Next]_vars \/ (UNCHANGED <<now, archive, sidecar, workerVars, prune>> /\ Replay)
<1>1. ASSUME BesideStep
      PROVE  Next
  BY <1>1 DEF BesideStep, Next, Deployment, BackupStep
<1>2. ASSUME NEW j \in Journals, RAppend(j)
      PROVE  Next
  BY <1>2 DEF RAppend, Next, Deployment
<1>3. ASSUME RehearseBegin
      PROVE  Next
  BY <1>3, RehearserAssumption DEF RehearseBegin, Next, BackupStep
<1>4. ASSUME StackStart \/ WatchStarts
      PROVE  UNCHANGED <<now, archive, sidecar, workerVars, prune>> /\ Replay
  <2>1. UNCHANGED <<now, archive, sidecar, workerVars, prune>>
    BY <1>4 DEF StackStart, WatchStarts
  <2>2. Replay \/ UNCHANGED <<journal, intact, kept, noise>>
    BY <1>4 DEF StackStart, WatchStarts, Start
  <2> QED
    BY <2>1, <2>2 DEF Replay
<1>5. ASSUME RehearseStep, ~RehearseBegin, ~StackStart
      PROVE  UNCHANGED vars
  BY <1>5 DEF RehearseStep, RehearsePick, ReadBefore, LinesBefore, Rebuild, StackStop,
       ReadAfter, LinesAfter, Verdict, RehearseDies
<1>6. ASSUME ServiceEnds \/ UNCHANGED rvars
      PROVE  UNCHANGED vars
  BY <1>6 DEF ServiceEnds, rvars
<1> QED
  BY <1>1, <1>2, <1>3, <1>4, <1>5, <1>6 DEF RNext

\* The history of what is intact follows the archives.
LEMMA HistoryFollows ==
  ASSUME RTypeOK, TypeOK', HistoryOfArchives
  PROVE  /\ intact' \in [Labels -> Members]
         /\ \A l \in Labels, j \in Journals :
              intact'[l][j] = IF archive'[l].at[j] # archive[l].at[j] THEN archive'[l].at[j]
                              ELSE intact[l][j]
<1>1. \A l \in Labels : archive'[l].at \in Members /\ intact[l] \in Members
  BY DEF RTypeOK, TypeOK
<1>2. /\ intact' = [l \in Labels |-> [j \in Journals |->
                      IF archive'[l].at[j] # archive[l].at[j] THEN archive'[l].at[j]
                      ELSE intact[l][j]]]
  BY DEF HistoryOfArchives
<1>3. \A l \in Labels, j \in Journals : archive'[l].at[j] \in Nat /\ intact[l][j] \in Nat
  BY <1>1 DEF Members
<1> QED
  BY <1>2, <1>3 DEF Members

LEMMA RTypeInit == RInit => RTypeOK
<1> SUFFICES ASSUME RInit
             PROVE  RTypeOK
  OBVIOUS
<1>1. TypeOK
  BY TypeInit DEF RInit
<1>2. NoRehearsal \in [pc : Rehearsing \cup {"never", "backup", "green", "failed", "died"},
              own : Labels, arch : Labels, dom : Nat \cup {Unavailable},
              lines : Members, ok : BOOLEAN]
  BY LabelsFromClock, ZeroMembers, RehearserAssumption DEF NoRehearsal
<1>3. intact \in [Labels -> Members] /\ begun \in Members /\ kept \in Members
  BY ZeroMembers DEF RInit
<1> QED
  BY <1>1, <1>2, <1>3 DEF RInit, RTypeOK

\* The line counts, and what the log answers, are of the right type.
LEMMA ReadingTypes ==
  ASSUME TypeOK
  PROVE  Lens \in Members /\ DomainReading \subseteq Nat \cup {Unavailable}
<1>1. \A j \in Journals : Len(journal[j]) \in Nat
  BY DEF TypeOK
<1> QED
  BY <1>1, JournalAssumption DEF Lens, Members, DomainReading

\* A step of the rehearsal beside its backup changes only its own record and
\* what it has done to the service.
LEMMA RehearsalType ==
  ASSUME RTypeOK, RehearseStep
  PROVE  /\ reh' \in [pc : Rehearsing \cup {"never", "backup", "green", "failed", "died"},
                      own : Labels, arch : Labels, dom : Nat \cup {Unavailable},
                      lines : Members, ok : BOOLEAN]
         /\ rebuilt' \in BOOLEAN /\ upgraded' \in BOOLEAN
         /\ service' \in {"up", "stopping", "down"} /\ begun' \in Members
<1> USE ReadingTypes DEF RTypeOK, Rehearsing, builds
<1>1. CASE RehearseBegin
  <2>1. <<Upgrade, now>> \in Labels
    BY LabelsFromClock, RehearserAssumption DEF TypeOK
  <2>2. reh' = [NoRehearsal EXCEPT !.pc = "backup", !.own = <<Upgrade, now>>]
        /\ begun' = Lens /\ rebuilt' = FALSE /\ upgraded' = FALSE
        /\ UNCHANGED service
    BY <1>1 DEF RehearseBegin
  <2> QED
    BY <2>1, <2>2, LabelsFromClock, ZeroMembers, RehearserAssumption DEF NoRehearsal
<1>2. CASE RehearsePick
  <2>1. NewestUpgrade \subseteq Labels
    BY DEF NewestUpgrade, Archives
  <2>2. /\ \/ reh' = [reh EXCEPT !.pc = "died"]
           \/ \E l \in NewestUpgrade : reh' = [reh EXCEPT !.pc = "before", !.arch = l]
        /\ UNCHANGED <<service, rebuilt, upgraded, begun>>
    BY <1>2 DEF RehearsePick
  <2> QED
    BY <2>1, <2>2
<1>3. CASE ReadBefore
  BY <1>3 DEF ReadBefore
<1>4. CASE LinesBefore
  BY <1>4 DEF LinesBefore
<1>5. CASE Rebuild
  BY <1>5 DEF Rebuild
<1>6. CASE StackStop
  BY <1>6 DEF StackStop
<1>7. CASE StackStart
  BY <1>7 DEF StackStart, Start
<1>8. CASE ReadAfter
  <2>1. PICK d \in DomainReading :
          reh' = [reh EXCEPT !.pc = "afterLines", !.ok = reh.dom = Unavailable \/ d = reh.dom]
    BY <1>8 DEF ReadAfter
  <2>2. (reh.dom = Unavailable \/ d = reh.dom) \in BOOLEAN
    OBVIOUS
  <2> QED
    BY <1>8, <2>1, <2>2 DEF ReadAfter
<1>9. CASE LinesAfter
  <2>1. (reh.ok /\ reh.lines = Lens) \in BOOLEAN
    OBVIOUS
  <2> QED
    BY <1>9, <2>1 DEF LinesAfter
<1>10. CASE Verdict
  BY <1>10 DEF Verdict
<1>11. CASE RehearseDies
  BY <1>11 DEF RehearseDies
<1> QED
  BY <1>1, <1>2, <1>3, <1>4, <1>5, <1>6, <1>7, <1>8, <1>9, <1>10, <1>11 DEF RehearseStep

LEMMA RTypeStep == RTypeOK /\ [RNext]_rvars => RTypeOK'
<1> SUFFICES ASSUME RTypeOK, [RNext]_rvars
             PROVE  RTypeOK'
  OBVIOUS
<1>1. TypeOK'
  <2>1. CASE [Next]_vars
    BY <2>1, TypeStep DEF RTypeOK
  <2>2. CASE UNCHANGED <<now, archive, sidecar, workerVars, prune>> /\ Replay
    <3>1. journal' \in [Journals -> Seq(Nat)]
      BY <2>2, ReplayCuts DEF RTypeOK, TypeOK
    <3> QED
      BY <2>2, <3>1 DEF RTypeOK, TypeOK, workerVars
  <2> QED
    BY <2>1, <2>2, NextOrReplay
<1> DEFINE Rest == /\ reh' \in [pc : Rehearsing \cup {"never", "backup", "green", "failed", "died"},
                                own : Labels, arch : Labels, dom : Nat \cup {Unavailable},
                                lines : Members, ok : BOOLEAN]
                   /\ rebuilt' \in BOOLEAN /\ upgraded' \in BOOLEAN
                   /\ service' \in {"up", "stopping", "down"} /\ begun' \in Members
           History == intact' \in [Labels -> Members] /\ kept' \in Members /\ noise' \in BOOLEAN
<1>2. Rest
  <2>1. CASE RehearseStep
    BY <2>1, RehearsalType
  <2>2. CASE WatchStarts
    BY <2>2 DEF WatchStarts, Start, RTypeOK
  <2>3. CASE ~RehearseStep /\ ~WatchStarts
    BY <2>3 DEF RNext, RAppend, ServiceEnds, BesideStep, builds, rvars, RTypeOK
  <2> QED
    BY <2>1, <2>2, <2>3
<1>3. History
  <2>1. CASE StackStart \/ WatchStarts
    <3>1. Replay \/ UNCHANGED <<intact, kept, noise>>
      BY <2>1 DEF StackStart, WatchStarts, Start
    <3>2. CASE UNCHANGED <<intact, kept, noise>>
      BY <3>2 DEF RTypeOK
    <3> QED
      BY <3>1, <3>2, ReplayCuts
  <2>2. CASE BesideStep
    BY <1>1, <2>2, HistoryFollows DEF BesideStep, RTypeOK
  <2>3. CASE RehearseBegin
    BY <2>3, ReadingTypes DEF RehearseBegin, RTypeOK
  <2>4. CASE ~(StackStart \/ WatchStarts \/ BesideStep \/ RehearseBegin)
    <3>1. UNCHANGED <<intact, kept>>
      BY <2>4 DEF RNext, RAppend, ServiceEnds, RehearseStep, RehearsePick, ReadBefore,
           LinesBefore, Rebuild, StackStop, ReadAfter, LinesAfter, Verdict, RehearseDies, rvars
    <3>2. noise' \in BOOLEAN
      <4>1. \/ noise' = noise
            \/ noise' = (noise \/ reh.pc \in Rehearsing)
            \/ \E d \in DomainReading : noise' = (noise \/ d = Unavailable)
        BY <2>4 DEF RNext, RAppend, ServiceEnds, RehearseStep, RehearsePick, ReadBefore,
             LinesBefore, Rebuild, StackStop, ReadAfter, LinesAfter, Verdict, RehearseDies, rvars
      <4> QED
        BY <4>1 DEF RTypeOK
    <3> QED
      BY <3>1, <3>2 DEF RTypeOK
  <2> QED
    BY <2>1, <2>2, <2>3, <2>4
<1> QED
  BY <1>1, <1>2, <1>3 DEF RTypeOK


-----------------------------------------------------------------------------
(* What the steps beside it may do to the rehearsal's archive *)

\* Another worker's backup has another name.
LEMMA OthersLeaveUpgrade ==
  ASSUME TypeOK, UpgradeIsHis, NEW w \in Workers \ {Rehearser},
         BackupStep(w), ~Begin(w, Upgrade), NEW l \in Labels, l[1] = Upgrade
  PROVE  /\ archive'[l] = archive[l] /\ sidecar'[l] = sidecar[l]
         /\ pc'[Rehearser] = pc[Rehearser] /\ label'[Rehearser] = label[Rehearser]
         /\ todo'[Rehearser] = todo[Rehearser] /\ sums'[Rehearser] = sums[Rehearser]
         /\ journal' = journal /\ prune' = prune
         /\ pc'[w] \in Running => label'[w][1] # Upgrade
<1> USE RehearserAssumption
<1>1. CASE pc[w] \in Running
  <2>1. label[w] # l /\ label[w] \in Labels /\ label[w][1] # Upgrade
    BY <1>1 DEF UpgradeIsHis, TypeOK
  <2>2. archive'[l] = archive[l] /\ sidecar'[l] = sidecar[l]
    BY <1>1, <2>1 DEF BackupStep, Begin, ReadHead, List, TarMember, TarEnd,
       TarFail, ReadSums, SumsFail, WriteSidecar, Crash, Finished, TypeOK, Running
  <2>3. /\ pc'[Rehearser] = pc[Rehearser] /\ label'[Rehearser] = label[Rehearser]
        /\ todo'[Rehearser] = todo[Rehearser] /\ sums'[Rehearser] = sums[Rehearser]
        /\ journal' = journal /\ prune' = prune /\ label'[w] = label[w]
    BY <1>1 DEF BackupStep, Begin, ReadHead, List, TarMember, TarEnd, TarFail,
         ReadSums, SumsFail, WriteSidecar, Crash, Exit, TypeOK, Running
  <2> QED
    BY <2>1, <2>2, <2>3
<1>2. CASE pc[w] \notin Running
  <2>1. PICK t \in Tenants : Begin(w, t) /\ t # Upgrade
    BY <1>2 DEF BackupStep, ReadHead, List, TarMember, TarEnd, TarFail, ReadSums, SumsFail,
         WriteSidecar, Crash, Running
  <2> QED
    BY <2>1 DEF Begin, TypeOK
<1> QED
  BY <1>1, <1>2

\* A prune takes archives away, and sidecars whose archive it has taken away.
LEMMA PruneOnUpgrade ==
  ASSUME TypeOK, PruneStep, NEW l \in Labels
  PROVE  /\ archive'[l] \in {archive[l], NoArchive}
         /\ l \notin prune.cur => sidecar'[l] = sidecar[l]
         /\ l \in prune'.left \cup prune'.cur =>
              l \in Archives \cup prune.left \cup prune.cur
         /\ l \in prune'.cur => archive'[l].st = "absent" \/ l \in prune.cur
         /\ UNCHANGED <<journal, now, workerVars>>
<1>1. CASE PruneList
  BY <1>1 DEF PruneList, Beyond, workerVars
<1>2. CASE PruneArchive
  BY <1>2 DEF PruneArchive, NoArchive, workerVars, TypeOK
<1>3. CASE PruneSidecar
  BY <1>3 DEF PruneSidecar, workerVars, TypeOK
<1>4. CASE PruneEnd
  BY <1>4 DEF PruneEnd, NoPrune, workerVars
<1> QED
  BY <1>1, <1>2, <1>3, <1>4 DEF PruneStep

\* What is absent stays empty; what becomes an archive is what tar opens.
LEMMA AbsentStep ==
  ASSUME TypeOK, [Next]_vars, NEW l \in Labels,
         archive[l].st = "absent" => archive[l].at = Nothing
  PROVE  /\ archive'[l].st = "absent" => archive'[l].at = Nothing
         /\ archive'[l].st # "absent" =>
              archive[l].st # "absent" \/ \E w \in Workers : List(w) /\ label[w] = l
<1>1. ASSUME NEW w \in Workers, TarMember(w)
      PROVE  /\ archive'[l].st = archive[l].st
             /\ archive[l].st = "absent" => archive'[l] = archive[l]
  <2>1. PICK j : archive' = IF archive[label[w]].st = "absent" THEN archive
                            ELSE [archive EXCEPT ![label[w]].at[j] = Len(journal[j])]
    BY <1>1 DEF TarMember
  <2> QED
    BY <2>1 DEF TypeOK
<1>2. ASSUME NEW w \in Workers, TarEnd(w) \/ TarFail(w)
      PROVE  archive'[l] = archive[l] \/ (archive[l].st # "absent" /\ archive'[l].st = "whole")
  BY <1>2 DEF TarEnd, TarFail, Finished, TypeOK
<1>3. ASSUME NEW w \in Workers, List(w)
      PROVE  archive'[l] = archive[l] \/ (label[w] = l /\ archive'[l].st = "partial")
  BY <1>3 DEF List, TypeOK
<1>4. CASE PruneArchive
  BY <1>4 DEF PruneArchive, NoArchive, TypeOK
<1>5. \/ archive' = archive
      \/ PruneArchive
      \/ \E w \in Workers : TarMember(w) \/ List(w) \/ TarEnd(w) \/ TarFail(w)
  BY DEF Next, Deployment, Tick, Append1, BackupStep, Begin, ReadHead, ReadSums, SumsFail,
         WriteSidecar, Crash, PruneStep, PruneList, PruneSidecar, PruneEnd, vars
<1> QED
  BY <1>1, <1>2, <1>3, <1>4, <1>5

-----------------------------------------------------------------------------
(* The steps of Backup beside the rehearsal *)

\* They are those of a clock, a prune, another worker or the rehearsal's backup.
LEMMA BesideCases ==
  ASSUME TypeOK, BesideStep
  PROVE  \/ Tick \/ PruneStep
         \/ \E w \in Workers \ {Rehearser} : BackupStep(w) /\ ~Begin(w, Upgrade)
         \/ BackupStep(Rehearser) /\ pc[Rehearser] \in Running
<1>1. ASSUME NEW w \in Workers,
             \/ ReadHead(w) \/ List(w) \/ TarMember(w) \/ TarEnd(w) \/ TarFail(w)
             \/ ReadSums(w) \/ SumsFail(w) \/ WriteSidecar(w) \/ Crash(w)
      PROVE  BackupStep(w) /\ pc[w] \in Running
  BY <1>1 DEF BackupStep, ReadHead, List, TarMember, TarEnd, TarFail, ReadSums, SumsFail,
       WriteSidecar, Crash, Running
<1>2. ASSUME NEW w \in Workers, pc[w] \in Running
      PROVE  ~Begin(w, Upgrade)
  BY <1>2 DEF Begin, Running
<1>3. ASSUME NEW w \in Workers, w # Rehearser, NEW t \in Tenants \ {Upgrade}, Begin(w, t)
      PROVE  BackupStep(w) /\ ~Begin(w, Upgrade)
  <2>1. label'[w] = <<t, now>>
    BY <1>3 DEF Begin, TypeOK
  <2> QED
    BY <1>3, <2>1 DEF BackupStep, Begin, TypeOK
<1> QED
  BY <1>1, <1>2, <1>3 DEF BesideStep

\* They keep the files' part of the invariant.
LEMMA BesideFiles ==
  ASSUME RTypeOK, RTypeOK', Files, Phase, BesideStep
  PROVE  Files'
<1> USE RehearserAssumption
<1>1. TypeOK /\ TypeOK' /\ [Next]_vars /\ reh' = reh
  <2>1. Next
    BY DEF BesideStep, Next, Deployment, BackupStep
  <2> QED
    BY <2>1 DEF RTypeOK, BesideStep
<1>2. pc[Rehearser] \in Running => reh.pc = "backup" /\ label[Rehearser] = reh.own
  BY DEF Phase, Capturing, Running
<1>3. UpgradeIsHis'
  <2> SUFFICES ASSUME NEW w \in Workers \ {Rehearser}, pc'[w] \in Running
               PROVE  label'[w][1] # Upgrade
    BY DEF UpgradeIsHis
  <2>1. CASE Tick \/ PruneStep
    <3>1. UNCHANGED workerVars
      BY <2>1 DEF Tick, PruneStep, PruneList, PruneArchive, PruneSidecar, PruneEnd
    <3> QED
      BY <3>1 DEF workerVars, Files, UpgradeIsHis
  <2>2. CASE BackupStep(w) /\ ~Begin(w, Upgrade)
    <3>1. <<Upgrade, 0>> \in Labels /\ <<Upgrade, 0>>[1] = Upgrade
      BY LabelsFromClock
    <3> QED
      BY <1>1, <2>2, <3>1, OthersLeaveUpgrade DEF Files
  <2>3. ASSUME NEW v \in Workers \ {w}, BackupStep(v)
        PROVE  label'[w][1] # Upgrade
    <3>1. pc'[w] = pc[w] /\ label'[w] = label[w]
      BY <1>1, <2>3 DEF BackupStep, Begin, ReadHead, List, TarMember, TarEnd, TarFail,
         ReadSums, SumsFail, WriteSidecar, Crash, Exit, TypeOK
    <3> QED
      BY <3>1 DEF Files, UpgradeIsHis
  <2> QED
    BY <1>1, <2>1, <2>2, <2>3, BesideCases
<1>4. CapturedFirst'
  <2> SUFFICES ASSUME NEW l \in Labels
               PROVE  /\ archive'[l].st = "absent" => archive'[l].at = Nothing
                      /\ \A j \in Journals : intact'[l][j] <= archive'[l].at[j]
    BY DEF CapturedFirst
  <2>1. archive'[l].st = "absent" => archive'[l].at = Nothing
    BY <1>1, AbsentStep DEF Files, CapturedFirst
  <2>2. ASSUME NEW j \in Journals
        PROVE  intact'[l][j] <= archive'[l].at[j]
    <3>1. /\ archive[l].at[j] \in Nat /\ archive'[l].at[j] \in Nat
          /\ intact[l][j] <= archive[l].at[j]
      BY <1>1 DEF TypeOK, Members, Files, CapturedFirst
    <3>2. intact'[l][j] = IF archive'[l].at[j] # archive[l].at[j] THEN archive'[l].at[j]
                          ELSE intact[l][j]
      BY <1>1, HistoryFollows DEF BesideStep
    <3> QED
      BY <3>1, <3>2
  <2> QED
    BY <2>1, <2>2
<1>5. ASSUME NEW l \in Labels, l[1] = Upgrade, archive'[l].st # "absent"
      PROVE  \/ archive[l].st # "absent"
             \/ List(Rehearser) /\ l = reh.own
  <2>1. ASSUME NEW w \in Workers, List(w), label[w] = l
        PROVE  w = Rehearser /\ l = reh.own
    BY <1>2, <1>5, <2>1 DEF List, Running, Files, UpgradeIsHis
  <2>2. archive[l].st # "absent" \/ \E w \in Workers : List(w) /\ label[w] = l
    BY <1>1, <1>5, AbsentStep DEF Files, CapturedFirst
  <2> QED
    BY <2>1, <2>2
<1>6. ASSUME NEW l \in Labels, l \in prune'.left \cup prune'.cur
      PROVE  l \in Archives \cup prune.left \cup prune.cur
  <2>1. CASE PruneStep
    BY <1>1, <1>6, <2>1, PruneOnUpgrade
  <2>2. CASE prune' = prune
    BY <1>6, <2>2
  <2>3. PruneStep \/ prune' = prune
    BY DEF BesideStep, Tick, ReadHead, List, TarMember, TarEnd, TarFail, ReadSums,
       SumsFail, WriteSidecar, Crash, Begin
  <2> QED
    BY <2>1, <2>2, <2>3
<1>7. LabelFresh'
  <2>1. reh'.own[1] = Upgrade
    BY <1>1 DEF Files, LabelFresh
  <2>2. reh.own[2] \in Int
    BY BoundAssumption DEF RTypeOK, Labels
  <2> SUFFICES ASSUME NEW l \in Labels, l \in Archives' \cup prune'.left \cup prune'.cur,
                      l[1] = Upgrade
               PROVE  reh.pc # "never" /\ l[2] <= reh.own[2]
    <3>1. Archives' \cup prune'.left \cup prune'.cur \subseteq Labels
      BY <1>1 DEF Archives, TypeOK
    <3> QED
      BY <1>1, <2>1, <3>1 DEF LabelFresh
  <2>3. CASE l \in Archives \cup prune.left \cup prune.cur
    BY <2>3 DEF Files, LabelFresh
  <2>4. CASE List(Rehearser) /\ l = reh.own
    BY <1>2, <2>2, <2>4 DEF List, Running
  <2> QED
    BY <1>5, <1>6, <2>3, <2>4 DEF Archives
<1>8. CurrentIsGone'
  <2> SUFFICES ASSUME NEW l \in prune'.cur, l[1] = Upgrade
               PROVE  archive'[l].st = "absent"
    BY DEF CurrentIsGone
  <2>1. l \in Labels
    BY <1>1 DEF TypeOK
  <2>2. CASE PruneStep
    <3>1. archive'[l].st = "absent" \/ l \in prune.cur
      BY <1>1, <2>1, <2>2, PruneOnUpgrade
    <3>2. archive'[l] \in {archive[l], NoArchive}
      BY <1>1, <2>1, <2>2, PruneOnUpgrade
    <3> QED
      BY <3>1, <3>2 DEF Files, CurrentIsGone, NoArchive
  <2>3. CASE prune' = prune
    <3>1. archive[l].st = "absent"
      BY <2>3 DEF Files, CurrentIsGone
    <3>2. ~(List(Rehearser) /\ l = reh.own)
      BY <1>2, <2>3 DEF List, Running, Phase, Capturing
    <3> QED
      BY <1>5, <2>1, <3>1, <3>2
  <2>4. PruneStep \/ prune' = prune
    BY DEF BesideStep, Tick, ReadHead, List, TarMember, TarEnd, TarFail, ReadSums,
       SumsFail, WriteSidecar, Crash, Begin
  <2> QED
    BY <2>2, <2>3, <2>4
<1> QED
  BY <1>3, <1>4, <1>7, <1>8 DEF Files

\* A step that is not of the rehearsal's backup may only take its archive away.
LEMMA BesideOthers ==
  ASSUME RTypeOK, Files, BesideStep, ~(BackupStep(Rehearser) /\ pc[Rehearser] \in Running)
  PROVE  /\ archive'[reh.own] \in {archive[reh.own], NoArchive}
         /\ reh.own \notin prune.cur => sidecar'[reh.own] = sidecar[reh.own]
         /\ reh.own \in prune'.left \cup prune'.cur =>
              reh.own \in Archives \cup prune.left \cup prune.cur
         /\ pc'[Rehearser] = pc[Rehearser] /\ label'[Rehearser] = label[Rehearser]
         /\ todo'[Rehearser] = todo[Rehearser] /\ sums'[Rehearser] = sums[Rehearser]
         /\ journal' = journal
<1>1. TypeOK /\ reh.own \in Labels /\ reh.own[1] = Upgrade /\ UpgradeIsHis
  BY DEF RTypeOK, Files, LabelFresh
<1>2. CASE Tick
  BY <1>2 DEF Tick, workerVars
<1>3. CASE PruneStep
  BY <1>1, <1>3, PruneOnUpgrade DEF workerVars
<1>4. ASSUME NEW w \in Workers \ {Rehearser}, BackupStep(w), ~Begin(w, Upgrade)
      PROVE  /\ archive'[reh.own] = archive[reh.own] /\ sidecar'[reh.own] = sidecar[reh.own]
             /\ pc'[Rehearser] = pc[Rehearser] /\ label'[Rehearser] = label[Rehearser]
             /\ todo'[Rehearser] = todo[Rehearser] /\ sums'[Rehearser] = sums[Rehearser]
             /\ journal' = journal /\ prune' = prune
  BY <1>1, <1>4, OthersLeaveUpgrade
<1> QED
  BY <1>1, <1>2, <1>3, <1>4, BesideCases

\* Under those the rehearsal's own knowledge stands.
LEMMA BesideOthersPhase ==
  ASSUME RTypeOK, RTypeOK', Files, Phase, BesideStep,
         ~(BackupStep(Rehearser) /\ pc[Rehearser] \in Running)
  PROVE  Phase'
<1>1. UNCHANGED <<service, builds, reh, begun, kept, noise>> /\ reh' = reh
  BY DEF BesideStep
<1>2. /\ archive'[reh.own] \in {archive[reh.own], NoArchive}
      /\ reh.own \notin prune.cur => sidecar'[reh.own] = sidecar[reh.own]
      /\ reh.own \in prune'.left \cup prune'.cur =>
           reh.own \in Archives \cup prune.left \cup prune.cur
      /\ pc'[Rehearser] = pc[Rehearser] /\ label'[Rehearser] = label[Rehearser]
      /\ todo'[Rehearser] = todo[Rehearser] /\ sums'[Rehearser] = sums[Rehearser]
      /\ journal' = journal
  BY BesideOthers
<1>3. /\ reh.own \in Labels /\ reh'.own = reh.own /\ reh.own[1] = Upgrade
      /\ archive[reh.own].at \in [Journals -> Nat] /\ archive'[reh.own].at \in [Journals -> Nat]
      /\ intact[reh.own] \in [Journals -> Nat] /\ kept \in [Journals -> Nat]
      /\ begun \in [Journals -> Nat]
  BY <1>1 DEF RTypeOK, TypeOK, Members, Files, LabelFresh
<1>4. \A j \in Journals :
        /\ intact'[reh.own][j] = IF archive'[reh.own].at[j] # archive[reh.own].at[j]
                                 THEN archive'[reh.own].at[j] ELSE intact[reh.own][j]
        /\ intact'[reh.own][j] <= intact[reh.own][j]
  <2>1. \A j \in Journals :
          intact'[reh.own][j] = IF archive'[reh.own].at[j] # archive[reh.own].at[j]
                                THEN archive'[reh.own].at[j] ELSE intact[reh.own][j]
    BY <1>3, HistoryFollows DEF BesideStep, RTypeOK
  <2>2. CASE archive'[reh.own] = NoArchive
    <3>1. \A j \in Journals : archive'[reh.own].at[j] = 0
      BY <2>2 DEF NoArchive, Nothing
    <3> QED
      BY <1>3, <2>1, <3>1
  <2> QED
    BY <1>2, <1>3, <2>1, <2>2
<1>5. Taken => Taken'
  BY <1>1, <1>2 DEF Taken, NoArchive
<1>6. Taken' \/ archive'[reh.own] = archive[reh.own]
  BY <1>1, <1>2 DEF Taken, NoArchive
<1>7. HoldsBegun => Taken' \/ HoldsBegun'
  BY <1>1, <1>6 DEF HoldsBegun
<1>8. reh.pc = "backup" => Capturing'
  <2> SUFFICES ASSUME reh.pc = "backup", Capturing
               PROVE  Capturing'
    BY DEF Phase
  <2>1. rebuilt' = FALSE /\ noise' = FALSE /\ label'[Rehearser] = reh'.own
    BY <1>1, <1>2 DEF Capturing, builds
  <2>2. kept' = begun' /\ \A j \in Journals : begun'[j] <= Len(journal'[j])
    BY <1>1, <1>2 DEF Capturing
  <2>3. \A j \in Journals : intact'[reh'.own][j] = archive'[reh'.own].at[j]
    BY <1>1, <1>4 DEF Capturing
  <2>4. pc'[Rehearser] \in {"head", "list"} => Taken' /\ reh'.own \notin prune'.left \cup prune'.cur
    BY <1>1, <1>2, <1>5 DEF Capturing, Archives, Taken
  <2>5. pc'[Rehearser] = "tar" =>
       Taken' \/ \A j \in Journals : j \in todo'[Rehearser] \/ archive'[reh'.own].at[j] >= begun'[j]
    BY <1>1, <1>2, <1>5, <1>6 DEF Capturing
  <2>6. pc'[Rehearser] = "sums" => Taken' \/ HoldsBegun'
    BY <1>2, <1>5, <1>7 DEF Capturing
  <2>7. pc'[Rehearser] = "sidecar" =>
       Taken' \/ (HoldsBegun' /\ archive'[reh'.own].st = "whole"
                    /\ sums'[Rehearser] = archive'[reh'.own].at)
    BY <1>1, <1>2, <1>5, <1>6, <1>7 DEF Capturing
  <2> QED
    BY <2>1, <2>2, <2>3, <2>4, <2>5, <2>6, <2>7 DEF Capturing, Taken, HoldsBegun
<1>9. BackedUp => BackedUp'
  <2> SUFFICES ASSUME BackedUp, ~Taken'
               PROVE  Verifies(reh.own)' /\ HoldsBegun'
    BY <1>1 DEF BackedUp
  <2>1. ~Taken
    BY <1>5
  <2>2. reh.own \notin prune.cur
    BY <1>3, <2>1 DEF Files, CurrentIsGone, Taken
  <2>3. archive'[reh.own] = archive[reh.own] /\ sidecar'[reh.own] = sidecar[reh.own]
    BY <1>2, <1>6, <2>2
  <2>4. Verifies(reh.own) /\ HoldsBegun
    BY <2>1 DEF BackedUp
  <2> QED
    BY <1>1, <1>7, <2>3, <2>4 DEF Verifies
<1>10. CutShows => CutShows'
  BY <1>1, <1>3, <1>4 DEF CutShows, RTypeOK, Members
<1>11. QuietAgrees => QuietAgrees'
  <2>1. Lens' = Lens
    BY <1>2 DEF Lens
  <2> QED
    BY <1>1, <1>2, <1>4, <2>1 DEF QuietAgrees
<1> QED
  BY <1>1, <1>2, <1>8, <1>9, <1>10, <1>11 DEF Phase

\* The steps of the rehearsal's own backup, in their order.
LEMMA OwnBackupPhase ==
  ASSUME RTypeOK, RTypeOK', Files, Phase, BesideStep,
         BackupStep(Rehearser), pc[Rehearser] \in Running
  PROVE  Phase'
<1> USE RehearserAssumption
<1>1. /\ reh.pc = "backup" /\ Capturing /\ label[Rehearser] = reh.own
      /\ UNCHANGED <<service, builds, reh, begun, kept, noise>> /\ reh' = reh
  BY DEF Phase, Capturing, Running, BesideStep
<1>2. /\ reh.own \in Labels /\ archive[reh.own].at \in [Journals -> Nat]
      /\ archive[reh.own] \in [st : {"absent", "partial", "whole"}, at : Members]
      /\ begun \in [Journals -> Nat] /\ \A j \in Journals : journal[j] \in Seq(Nat)
      /\ TypeOK /\ TypeOK'
  BY DEF RTypeOK, TypeOK, Members
<1>3. ~\E t \in Tenants : Begin(Rehearser, t)
  BY DEF Begin, Running
<1>4. \/ ReadHead(Rehearser) \/ List(Rehearser) \/ TarMember(Rehearser) \/ TarEnd(Rehearser)
      \/ TarFail(Rehearser) \/ ReadSums(Rehearser) \/ SumsFail(Rehearser)
      \/ WriteSidecar(Rehearser) \/ Crash(Rehearser)
  BY <1>3 DEF BackupStep
<1>5. label' = label /\ journal' = journal /\ prune' = prune
  BY <1>4 DEF ReadHead, List, TarMember, TarEnd, TarFail, ReadSums, SumsFail, WriteSidecar,
       Crash, Exit
<1>6. \A j \in Journals : intact'[reh.own][j] = archive'[reh.own].at[j]
  BY <1>1, <1>2, HistoryFollows DEF BesideStep, Capturing
<1> DEFINE How ==
      /\ pc'[Rehearser] \in {"head", "list"} =>
           Taken' /\ reh.own \notin prune.left \cup prune.cur
      /\ pc'[Rehearser] = "tar" =>
           Taken' \/ \A j \in Journals :
                       j \in todo'[Rehearser] \/ archive'[reh.own].at[j] >= begun[j]
      /\ pc'[Rehearser] = "sums" => Taken' \/ HoldsBegun'
      /\ pc'[Rehearser] = "sidecar" =>
           Taken' \/ (HoldsBegun' /\ archive'[reh.own].st = "whole"
                        /\ sums'[Rehearser] = archive'[reh.own].at)
      /\ pc'[Rehearser] = "done" => BackedUp'
<1>7. How
  <2>1. CASE ReadHead(Rehearser)
    BY <1>1, <1>2, <2>1 DEF ReadHead, Capturing, Taken, TypeOK
  <2>2. CASE List(Rehearser)
    <3>1. /\ pc'[Rehearser] = "tar" /\ todo'[Rehearser] = Payload
          /\ archive'[reh.own].at = Nothing
      BY <1>1, <1>2, <2>2 DEF List, TypeOK
    <3>2. \A j \in Journals : j \notin Payload => begun[j] = 0
      BY <1>1, <1>2 DEF Payload, Capturing
    <3> QED
      BY <1>2, <3>1, <3>2 DEF Nothing
  <2>3. CASE TarMember(Rehearser)
    <3>1. PICK k \in NextMembers(todo[Rehearser]) :
            /\ todo' = [todo EXCEPT ![Rehearser] = @ \ {k}]
            /\ archive' = IF archive[label[Rehearser]].st = "absent" THEN archive
                          ELSE [archive EXCEPT ![label[Rehearser]].at[k] = Len(journal[k])]
      BY <2>3 DEF TarMember
    <3>2. k \in Journals
      BY <1>2, <3>1 DEF NextMembers, TypeOK
    <3>3. pc[Rehearser] = "tar" /\ pc'[Rehearser] = "tar"
      BY <2>3 DEF TarMember
    <3>4. CASE Taken
      BY <1>1, <3>1, <3>3, <3>4 DEF Taken
    <3>5. CASE ~Taken
      <4>1. archive'[reh.own] = [archive[reh.own] EXCEPT !.at[k] = Len(journal[k])]
        BY <1>1, <1>2, <3>1, <3>5 DEF Taken, TypeOK
      <4>2. archive'[reh.own].at = [archive[reh.own].at EXCEPT ![k] = Len(journal[k])]
        BY <1>2, <4>1
      <4>3. todo'[Rehearser] = todo[Rehearser] \ {k}
        BY <1>2, <3>1 DEF TypeOK
      <4>4. \A j \in Journals : j \in todo[Rehearser] \/ archive[reh.own].at[j] >= begun[j]
        BY <1>1, <3>3, <3>5 DEF Capturing
      <4>5. Len(journal[k]) >= begun[k]
        BY <1>1, <1>2, <3>2 DEF Capturing
      <4>6. \A j \in Journals :
              j \in todo'[Rehearser] \/ archive'[reh.own].at[j] >= begun[j]
        BY <1>2, <3>2, <4>2, <4>3, <4>4, <4>5
      <4> QED
        BY <3>3, <4>6
    <3> QED
      BY <3>4, <3>5
  <2>4. CASE TarEnd(Rehearser)
    <3>1. pc[Rehearser] = "tar" /\ pc'[Rehearser] = "sums" /\ todo[Rehearser] = {}
      BY <1>2, <2>4 DEF TarEnd, TypeOK
    <3>2. archive' = archive \/ archive' = [archive EXCEPT ![reh.own].st = "whole"]
      BY <1>1, <2>4 DEF TarEnd, Finished
    <3>3. archive'[reh.own].at = archive[reh.own].at
      <4>1. archive = [l \in Labels |-> archive[l]]
        BY <1>2 DEF TypeOK
      <4>2. archive'[reh.own] = archive[reh.own]
            \/ archive'[reh.own] = [archive[reh.own] EXCEPT !.st = "whole"]
        BY <1>2, <3>2, <4>1
      <4> QED
        BY <1>2, <4>2
    <3>4. CASE Taken
      BY <1>1, <2>4, <3>1, <3>4 DEF TarEnd, Finished, Taken
    <3>5. CASE ~Taken
      BY <1>1, <3>1, <3>3, <3>5 DEF Capturing, HoldsBegun
    <3> QED
      BY <3>4, <3>5
  <2>5. CASE TarFail(Rehearser) \/ SumsFail(Rehearser) \/ Crash(Rehearser)
    BY <1>2, <2>5 DEF TarFail, SumsFail, Crash, Exit, TypeOK
  <2>6. CASE ReadSums(Rehearser)
    <3>1. /\ pc[Rehearser] = "sums" /\ pc'[Rehearser] = "sidecar" /\ archive' = archive
          /\ archive[reh.own].st = "whole" /\ sums'[Rehearser] = archive[reh.own].at
      BY <1>1, <1>2, <2>6 DEF ReadSums, SumsOf, TypeOK
    <3> QED
      BY <1>1, <3>1 DEF Capturing, Taken, HoldsBegun
  <2>7. CASE WriteSidecar(Rehearser)
    <3>1. /\ pc[Rehearser] = "sidecar" /\ pc'[Rehearser] = "done" /\ archive' = archive
          /\ sidecar'[reh.own] = [st |-> "present", head |-> head[Rehearser],
                                  sums |-> sums[Rehearser]]
      BY <1>1, <1>2, <2>7 DEF WriteSidecar, Exit, TypeOK
    <3>2. CASE Taken
      BY <1>1, <3>1, <3>2 DEF Taken, BackedUp
    <3>3. CASE ~Taken
      <4>1. HoldsBegun /\ archive[reh.own].st = "whole" /\ sums[Rehearser] = archive[reh.own].at
        BY <1>1, <3>1, <3>3 DEF Capturing
      <4>2. Verifies(reh.own)' /\ HoldsBegun'
        BY <1>1, <3>1, <4>1 DEF Verifies, HoldsBegun
      <4> QED
        BY <1>1, <3>1, <4>2 DEF BackedUp
    <3> QED
      BY <3>2, <3>3
  <2> QED
    BY <1>4, <2>1, <2>2, <2>3, <2>4, <2>5, <2>6, <2>7
<1>8. Capturing'
  <2>1. rebuilt' = FALSE /\ noise' = FALSE /\ label'[Rehearser] = reh'.own
        /\ kept' = begun' /\ \A j \in Journals : begun'[j] <= Len(journal'[j])
    BY <1>1, <1>5 DEF Capturing, builds
  <2> QED
    BY <1>1, <1>5, <1>6, <1>7, <2>1 DEF Capturing
<1>9. pc'[Rehearser] = "done" => BackedUp'
  BY <1>7
<1> QED
  BY <1>1, <1>8, <1>9 DEF Phase, Rehearsing

-----------------------------------------------------------------------------
(* The service, and the rehearsal beside its backup *)

\* A step that leaves the files alone keeps what is known of them.
LEMMA FilesKept ==
  ASSUME Files, UNCHANGED <<archive, pc, label, prune, intact>>, reh'.own = reh.own,
         reh'.pc = "never" => reh.pc = "never"
  PROVE  Files'
<1>1. Archives' = Archives
  BY DEF Archives
<1> QED
  BY <1>1 DEF Files, UpgradeIsHis, CapturedFirst, LabelFresh, CurrentIsGone

\* The service appends: the readings no longer agree, the captured entries stay.
LEMMA AppendPhase ==
  ASSUME RTypeOK, RTypeOK', Phase, NEW j \in Journals, RAppend(j)
  PROVE  Phase'
<1>1. /\ UNCHANGED <<archive, sidecar, workerVars, prune, builds, intact, begun, kept>>
      /\ reh' = reh /\ noise' = (noise \/ reh.pc \in Rehearsing)
  BY DEF RAppend, Append1
<1>2. \A k \in Journals : Len(journal[k]) <= Len(journal'[k])
  <2>1. [Next]_vars
    BY DEF RAppend, Next, Deployment
  <2> QED
    BY <2>1, JournalsGrow DEF RTypeOK
<1>3. \A k \in Journals : Len(journal[k]) \in Nat /\ Len(journal'[k]) \in Nat /\ begun[k] \in Nat
  <2>1. journal \in [Journals -> Seq(Nat)] /\ journal' \in [Journals -> Seq(Nat)]
    BY DEF RTypeOK, TypeOK
  <2>2. begun \in [Journals -> Nat]
    BY DEF RTypeOK, Members
  <2> QED
    BY <2>1, <2>2
<1>4. reh.pc = "backup" => Capturing'
  <2> SUFFICES ASSUME reh.pc = "backup", Capturing
               PROVE  Capturing'
    BY DEF Phase
  <2>1. noise' = FALSE
    BY <1>1 DEF Capturing, Rehearsing
  <2>2. \A k \in Journals : begun[k] <= Len(journal'[k])
    BY <1>2, <1>3 DEF Capturing
  <2> QED
    BY <1>1, <2>1, <2>2 DEF Capturing, Taken, HoldsBegun, builds, workerVars
<1>5. BackedUp => BackedUp'
  BY <1>1 DEF BackedUp, Taken, Verifies, HoldsBegun
<1>6. CutShows => CutShows'
  BY <1>1 DEF CutShows
<1>7. reh.pc \in Rehearsing => QuietAgrees'
  BY <1>1 DEF QuietAgrees
<1> QED
  BY <1>1, <1>4, <1>5, <1>6, <1>7 DEF Phase, workerVars

\* A start cuts off nothing, or it shows; the rehearsal goes on or stays.
LEMMA ReplayPhase ==
  ASSUME RTypeOK, RTypeOK', Files, Phase,
         Replay \/ UNCHANGED <<journal, intact, kept, noise>>,
         UNCHANGED <<archive, sidecar, workerVars, prune, rebuilt, begun>>,
         reh' = reh \/ (reh.pc = "start" /\ reh' = [reh EXCEPT !.pc = "after"])
  PROVE  Phase' /\ Files'
<1>1. /\ reh'.own = reh.own /\ reh'.dom = reh.dom /\ reh'.lines = reh.lines /\ reh'.ok = reh.ok
      /\ reh'.pc = reh.pc \/ (reh.pc = "start" /\ reh'.pc = "after")
  BY DEF RTypeOK
<1>2. BackedUp => BackedUp'
  BY <1>1 DEF BackedUp, Taken, Verifies, HoldsBegun
<1>3. CASE UNCHANGED <<journal, intact, kept, noise>>
  <2>1. Files'
    BY <1>1, <1>3, FilesKept DEF workerVars
  <2>2. Capturing => Capturing'
    BY <1>1, <1>3 DEF Capturing, Taken, HoldsBegun, workerVars
  <2>3. CutShows => CutShows'
    BY <1>1, <1>3 DEF CutShows
  <2>4. reh.pc \in Rehearsing /\ QuietAgrees => QuietAgrees'
    <3>1. Lens' = Lens
      BY <1>3 DEF Lens
    <3> QED
      BY <1>1, <1>3, <3>1 DEF QuietAgrees
  <2> QED
    BY <1>1, <1>2, <2>1, <2>2, <2>3, <2>4 DEF Phase, workerVars, Rehearsing
<1>4. CASE ~UNCHANGED <<journal, intact, kept, noise>>
  <2>1. rebuilt /\ noise' = TRUE
    BY <1>4, ReplayCuts
  <2>2. PICK j \in Journals, n \in Nat :
          /\ \A l \in Labels, k \in Journals :
               intact'[l][k] = IF k = j THEN AtMost(intact[l][k], n) ELSE intact[l][k]
          /\ \A k \in Journals :
               kept'[k] = IF k = j THEN AtMost(kept[k], n) ELSE kept[k]
    BY <1>4, ReplayCuts
  <2>3. /\ \A l \in Labels, k \in Journals : intact[l][k] \in Nat /\ archive[l].at[k] \in Nat
        /\ \A k \in Journals : kept[k] \in Nat /\ begun[k] \in Nat
        /\ reh.own \in Labels
    <3>1. \A l \in Labels : archive[l].at \in Members /\ intact[l] \in Members
      BY DEF RTypeOK, TypeOK
    <3>2. kept \in Members /\ begun \in Members /\ reh.own \in Labels
      BY DEF RTypeOK
    <3> QED
      BY <3>1, <3>2 DEF Members
  <2>4. reh.pc # "backup"
    BY <2>1 DEF Phase, Capturing
  <2>5. CapturedFirst'
    BY <2>2, <2>3 DEF Files, CapturedFirst, AtMost
  <2>6. Files'
    <3>1. Archives' = Archives
      BY DEF Archives
    <3> QED
      BY <1>1, <2>5, <3>1 DEF Files, UpgradeIsHis, LabelFresh, CurrentIsGone, workerVars
  <2>7. CutShows => CutShows'
    <3> SUFFICES ASSUME CutShows, NEW k \in Journals
                 PROVE  \/ kept'[k] = begun[k]
                        \/ kept'[k] < begun[k] /\ intact'[reh.own][k] <= kept'[k]
      BY <1>1 DEF CutShows
    <3>1. kept[k] = begun[k] \/ (kept[k] < begun[k] /\ intact[reh.own][k] <= kept[k])
      BY DEF CutShows
    <3> QED
      BY <2>2, <2>3, <3>1 DEF AtMost
  <2>8. QuietAgrees'
    BY <2>1 DEF QuietAgrees
  <2> QED
    BY <1>1, <1>2, <2>4, <2>6, <2>7, <2>8 DEF Phase, workerVars, Rehearsing
<1> QED
  BY <1>3, <1>4

\* A rehearsal begins: its label is one that no archive and no prune knows of.
LEMMA BeginPhase ==
  ASSUME RTypeOK, RTypeOK', Files, Phase, RehearseBegin
  PROVE  Phase' /\ Files'
<1> USE RehearserAssumption
<1> DEFINE new == <<Upgrade, now>>
<1>1. /\ UNCHANGED <<journal, archive, sidecar, prune, intact>>
      /\ pc' = [pc EXCEPT ![Rehearser] = "head"] /\ label' = [label EXCEPT ![Rehearser] = new]
      /\ reh' = [NoRehearsal EXCEPT !.pc = "backup", !.own = new]
      /\ begun' = Lens /\ kept' = Lens /\ noise' = FALSE /\ rebuilt' = FALSE
      /\ reh.pc = "never" \/ reh.own[2] < now
  BY DEF RehearseBegin, Begin
<1>2. /\ reh'.pc = "backup" /\ reh'.own = new /\ pc'[Rehearser] = "head"
      /\ label'[Rehearser] = new
      /\ \A w \in Workers \ {Rehearser} : pc'[w] = pc[w] /\ label'[w] = label[w]
  BY <1>1 DEF NoRehearsal, RTypeOK, TypeOK
<1>3. new \in Labels /\ now \in Int /\ reh.own[2] \in Int /\ new[1] = Upgrade /\ new[2] = now
  BY LabelsFromClock, BoundAssumption DEF RTypeOK, TypeOK, Labels
<1> HIDE DEF new
<1>4. new \notin Archives \cup prune.left \cup prune.cur
  BY <1>1, <1>3 DEF Files, LabelFresh
<1>5. archive[new].st = "absent" /\ archive[new].at = Nothing
  BY <1>3, <1>4 DEF Archives, Files, CapturedFirst
<1>6. \A j \in Journals : intact[new][j] = archive[new].at[j]
  <2>1. intact[new] \in Members
    BY <1>3 DEF RTypeOK
  <2>2. \A j \in Journals : intact[new][j] <= archive[new].at[j]
    BY <1>3 DEF Files, CapturedFirst
  <2> QED
    BY <1>5, <2>1, <2>2 DEF Nothing, Members
<1>7. Lens' = Lens /\ Archives' = Archives
  BY <1>1 DEF Lens, Archives
<1>8. UpgradeIsHis' /\ CapturedFirst' /\ CurrentIsGone'
  BY <1>1, <1>2 DEF Files, UpgradeIsHis, CapturedFirst, CurrentIsGone
<1>9. LabelFresh'
  <2> SUFFICES ASSUME NEW l \in Archives \cup prune.left \cup prune.cur, l[1] = Upgrade
               PROVE  l[2] <= now
    BY <1>1, <1>2, <1>3, <1>7 DEF LabelFresh
  <2>1. l[2] <= reh.own[2] /\ reh.own[2] < now
    BY <1>1 DEF Files, LabelFresh
  <2>2. l[2] \in Int
    <3>1. l \in Labels
      BY DEF Archives, RTypeOK, TypeOK
    <3> QED
      BY <3>1, BoundAssumption DEF Labels
  <2> QED
    BY <1>3, <2>1, <2>2
<1>10. Capturing'
  <2>1. \A j \in Journals : begun'[j] <= Len(journal'[j])
    <3>1. \A j \in Journals : Len(journal[j]) \in Nat
      BY DEF RTypeOK, TypeOK
    <3> QED
      BY <1>1, <3>1 DEF Lens
  <2>2. Taken'
    BY <1>1, <1>2, <1>5 DEF Taken
  <2> QED
    BY <1>1, <1>2, <1>4, <1>6, <2>1, <2>2 DEF Capturing
<1> QED
  BY <1>2, <1>8, <1>9, <1>10 DEF Phase, Files, Rehearsing

\* The steps that read, build, stop and compare go on from step to step, with the label they began with.
LEMMA RehearsalMoves ==
  ASSUME RTypeOK, RehearseStep, ~RehearseBegin, ~StackStart
  PROVE  /\ UNCHANGED <<vars, intact, begun, kept>>
         /\ reh'.own = reh.own
         /\ reh'.pc \in Rehearsing \cup {"green", "failed", "died"}
         /\ reh'.pc \in {"green", "failed"} => Verdict
         /\ reh'.pc = "start" => StackStop
<1> USE DEF RTypeOK, Rehearsing
<1>1. CASE RehearsePick
  BY <1>1 DEF RehearsePick
<1>2. CASE ReadBefore
  BY <1>2 DEF ReadBefore
<1>3. CASE LinesBefore
  BY <1>3 DEF LinesBefore
<1>4. CASE Rebuild
  BY <1>4 DEF Rebuild
<1>5. CASE StackStop
  BY <1>5 DEF StackStop
<1>6. CASE ReadAfter
  BY <1>6 DEF ReadAfter
<1>7. CASE LinesAfter
  BY <1>7 DEF LinesAfter
<1>8. CASE Verdict
  BY <1>8 DEF Verdict
<1>9. CASE RehearseDies
  BY <1>9 DEF RehearseDies
<1> QED
  BY <1>1, <1>2, <1>3, <1>4, <1>5, <1>6, <1>7, <1>8, <1>9 DEF RehearseStep

\* They keep what is known, and only a verdict says that it failed.
LEMMA ReadingPhase ==
  ASSUME RTypeOK, RTypeOK', Files, Phase, NoFalseAlarm, RehearseStep,
         ~RehearseBegin, ~StackStart
  PROVE  Phase' /\ Files' /\ NoFalseAlarm'
<1>1. /\ UNCHANGED <<vars, intact, begun, kept>>
      /\ reh'.own = reh.own /\ reh'.pc \notin {"never", "backup"}
  BY RehearsalMoves DEF Rehearsing
<1>2. Files'
  BY <1>1, FilesKept DEF vars
<1>3. BackedUp => BackedUp'
  BY <1>1 DEF BackedUp, Taken, Verifies, HoldsBegun, vars
<1>4. CutShows => CutShows'
  BY <1>1 DEF CutShows
<1>5. Lens' = Lens
  BY <1>1 DEF Lens, vars
<1>6. /\ reh.pc # "backup" => pc'[Rehearser] \in {"idle", "done"}
      /\ reh.pc = "backup" => pc'[Rehearser] = "done"
  BY <1>1 DEF Phase, vars, RehearseStep, RehearsePick, ReadBefore, LinesBefore, Rebuild,
       StackStop, ReadAfter, LinesAfter, Verdict, RehearseDies
<1>7. ASSUME reh.pc \in Rehearsing, QuietAgrees, reh'.pc \in Rehearsing
      PROVE  QuietAgrees'
  <2> SUFFICES ASSUME ~noise'
               PROVE  QuietAgrees'
    BY DEF QuietAgrees
  <2>1. ~noise
    BY <1>7 DEF RehearseStep, RehearsePick, ReadBefore, LinesBefore, Rebuild, StackStop,
         ReadAfter, LinesAfter, Verdict, RehearseDies, Rehearsing, RTypeOK
  <2>2. \A j \in Journals : intact'[reh'.own][j] = archive'[reh'.own].at[j]
    BY <1>1, <1>7, <2>1 DEF QuietAgrees, vars
  <2>3. CASE ReadBefore
    BY <1>1, <2>2, <2>3 DEF ReadBefore, DomainReading, QuietAgrees, RTypeOK, vars
  <2>4. CASE LinesBefore
    BY <1>1, <1>5, <1>7, <2>1, <2>2, <2>4 DEF LinesBefore, QuietAgrees, RTypeOK, vars
  <2>5. CASE Rebuild \/ StackStop
    BY <1>1, <1>5, <1>7, <2>1, <2>2, <2>5 DEF Rebuild, StackStop, QuietAgrees, RTypeOK, vars
  <2>6. CASE ReadAfter
    <3>1. PICK d \in DomainReading :
            /\ reh' = [reh EXCEPT !.pc = "afterLines", !.ok = reh.dom = Unavailable \/ d = reh.dom]
            /\ noise' = (noise \/ d = Unavailable)
      BY <2>6 DEF ReadAfter
    <3>2. d = Len(journal[Log])
      BY <3>1 DEF DomainReading
    <3>3. reh.dom \in {Unavailable, Len(journal[Log])} /\ reh.lines = Lens
      BY <1>7, <2>1, <2>6 DEF QuietAgrees, ReadAfter
    <3>4. reh'.pc = "afterLines" /\ reh'.ok /\ reh'.lines = reh.lines
      BY <3>1, <3>2, <3>3 DEF RTypeOK
    <3> QED
      BY <1>5, <2>2, <3>3, <3>4 DEF QuietAgrees
  <2>7. CASE LinesAfter
    <3>1. reh.ok /\ reh.lines = Lens
      BY <1>7, <2>1, <2>7 DEF QuietAgrees, LinesAfter
    <3>2. reh'.pc = "verdict" /\ reh'.ok
      BY <2>7, <3>1 DEF LinesAfter, RTypeOK
    <3> QED
      BY <2>2, <3>2 DEF QuietAgrees
  <2> QED
    BY <1>7, <2>3, <2>4, <2>5, <2>6, <2>7 DEF RehearseStep, RehearsePick, Verdict,
       RehearseDies, Rehearsing, RTypeOK
<1>8. ASSUME reh.pc = "backup", reh'.pc \in Rehearsing
      PROVE  CutShows' /\ QuietAgrees' /\ BackedUp'
  <2>1. RehearsePick
    BY <1>8 DEF RehearseStep, ReadBefore, LinesBefore, Rebuild, StackStop,
         ReadAfter, LinesAfter, Verdict, RehearseDies, Rehearsing
  <2>2. Capturing /\ BackedUp /\ reh'.pc = "before"
    BY <1>8, <2>1 DEF RehearsePick, Phase, Rehearsing, RTypeOK
  <2>3. CutShows'
    BY <1>1, <2>2 DEF Capturing, CutShows
  <2>4. QuietAgrees'
    BY <1>1, <2>2 DEF Capturing, QuietAgrees, vars
  <2> QED
    BY <1>3, <2>2, <2>3, <2>4
<1>9. Phase'
  <2>1. CASE reh.pc = "backup"
    BY <1>1, <1>6, <1>8, <2>1 DEF Phase
  <2>2. CASE reh.pc # "backup"
    <3>1. reh.pc \in Rehearsing
      BY <2>2 DEF RehearseStep, RehearsePick, ReadBefore, LinesBefore, Rebuild, StackStop,
           ReadAfter, LinesAfter, Verdict, RehearseDies, Rehearsing
    <3>2. BackedUp /\ pc[Rehearser] = "done" /\ CutShows /\ QuietAgrees
      BY <3>1 DEF Phase
    <3>3. pc' = pc
      BY <1>1 DEF vars
    <3> QED
      BY <1>1, <1>3, <1>4, <1>7, <3>1, <3>2, <3>3 DEF Phase
  <2> QED
    BY <2>1, <2>2
<1>10. NoFalseAlarm'
  <2> SUFFICES ASSUME reh'.pc = "failed", ~noise', reh'.arch = reh'.own
               PROVE  FALSE
    BY DEF NoFalseAlarm
  <2>1. Verdict
    BY RehearsalMoves
  <2>2. /\ reh.pc = "verdict" /\ ~noise /\ reh.arch = reh.own
        /\ ~(reh.ok /\ LivePrefix(reh.arch))
    BY <2>1 DEF Verdict, RTypeOK
  <2>3. QuietAgrees
    BY <2>2 DEF Phase, Rehearsing
  <2> QED
    BY <2>2, <2>3 DEF QuietAgrees, LivePrefix
<1> QED
  BY <1>2, <1>9, <1>10

-----------------------------------------------------------------------------
(* The invariant *)

LEMMA RIInvInit == RInit => RIInv
<1> SUFFICES ASSUME RInit
             PROVE  RIInv
  OBVIOUS
<1>1. RTypeOK
  BY RTypeInit
<1>2. /\ \A w \in Workers : pc[w] = "idle"
      /\ \A l \in Labels : archive[l] = NoArchive
      /\ Archives = {} /\ prune.left = {} /\ prune.cur = {}
      /\ \A l \in Labels : intact[l] = Nothing
  BY DEF RInit, Init, NoArchive, NoPrune, Archives
<1>3. reh.pc = "never" /\ reh.own = <<Upgrade, 0>>
  BY DEF RInit, NoRehearsal
<1>4. UpgradeIsHis /\ LabelFresh /\ CurrentIsGone
  BY <1>2, <1>3 DEF UpgradeIsHis, LabelFresh, CurrentIsGone, Running
<1>5. CapturedFirst
  BY <1>2 DEF CapturedFirst, NoArchive, Nothing
<1>6. Phase /\ NoFalseAlarm
  BY <1>2, <1>3, RehearserAssumption DEF Phase, NoFalseAlarm, Rehearsing
<1> QED
  BY <1>1, <1>4, <1>5, <1>6 DEF RIInv, Files

LEMMA RIInvStep == RIInv /\ [RNext]_rvars => RIInv'
<1> SUFFICES ASSUME RIInv, [RNext]_rvars
             PROVE  Files' /\ Phase' /\ NoFalseAlarm'
  BY RTypeStep DEF RIInv
<1>1. RTypeOK /\ RTypeOK' /\ Files /\ Phase /\ NoFalseAlarm
  BY RTypeStep DEF RIInv
<1>2. CASE BesideStep
  <2>1. Files'
    BY <1>1, <1>2, BesideFiles
  <2>2. Phase'
    BY <1>1, <1>2, BesideOthersPhase, OwnBackupPhase
  <2>3. NoFalseAlarm'
    BY <1>1, <1>2 DEF BesideStep, NoFalseAlarm
  <2> QED
    BY <2>1, <2>2, <2>3
<1>3. ASSUME NEW j \in Journals, RAppend(j)
      PROVE  Files' /\ Phase' /\ NoFalseAlarm'
  <2>1. Phase'
    BY <1>1, <1>3, AppendPhase
  <2>2. Files'
    BY <1>1, <1>3, FilesKept DEF RAppend, Append1, workerVars
  <2>3. NoFalseAlarm'
    BY <1>1, <1>3 DEF RAppend, NoFalseAlarm
  <2> QED
    BY <2>1, <2>2, <2>3
<1>4. CASE WatchStarts \/ StackStart
  <2>1. /\ UNCHANGED <<archive, sidecar, workerVars, prune, rebuilt, begun>>
        /\ reh' = reh \/ (reh.pc = "start" /\ reh' = [reh EXCEPT !.pc = "after"])
        /\ Replay \/ UNCHANGED <<journal, intact, kept, noise>>
    BY <1>4 DEF WatchStarts, StackStart, Start
  <2>2. Phase' /\ Files'
    BY <1>1, <2>1, ReplayPhase
  <2>3. NoFalseAlarm'
    <3>1. noise' = noise \/ noise' = TRUE
      BY <2>1 DEF Replay
    <3>2. reh'.pc = "failed" => reh' = reh
      BY <1>1, <2>1 DEF RTypeOK
    <3> QED
      BY <1>1, <3>1, <3>2 DEF NoFalseAlarm
  <2> QED
    BY <2>2, <2>3
<1>5. CASE ServiceEnds \/ UNCHANGED rvars
  <2>1. UNCHANGED <<vars, builds, reh, intact, begun, kept, noise>>
    BY <1>5 DEF ServiceEnds, rvars, builds
  <2>2. Files'
    BY <1>1, <2>1, FilesKept DEF vars
  <2>3. Phase'
    <3>1. UNCHANGED <<archive, sidecar, workerVars, prune, rebuilt, begun>>
          /\ UNCHANGED <<journal, intact, kept, noise>> /\ reh' = reh
      BY <2>1 DEF vars, builds, workerVars
    <3> QED
      BY <1>1, <3>1, ReplayPhase
  <2>4. NoFalseAlarm'
    BY <1>1, <2>1 DEF NoFalseAlarm
  <2> QED
    BY <2>2, <2>3, <2>4
<1>6. CASE RehearseBegin
  <2>1. Phase' /\ Files'
    BY <1>1, <1>6, BeginPhase
  <2>2. NoFalseAlarm'
    BY <1>6 DEF RehearseBegin, NoRehearsal, NoFalseAlarm
  <2> QED
    BY <2>1, <2>2
<1>7. CASE RehearseStep /\ ~RehearseBegin /\ ~StackStart
  BY <1>1, <1>7, ReadingPhase
<1> QED
  BY <1>2, <1>3, <1>4, <1>5, <1>6, <1>7 DEF RNext

LEMMA RIInvAlways == RSpec => []RIInv
BY RIInvInit, RIInvStep, PTL DEF RSpec

-----------------------------------------------------------------------------
(* The theorems *)

\* The shape of every variable of the rehearsal and of the backup beside it.
THEOREM RehearsalTyped == RSpec => []RTypeOK
<1>1. RIInv => RTypeOK
  BY DEF RIInv
<1> QED
  BY <1>1, RIInvAlways, PTL

\* A quiet rehearsal whose upgrade lost nothing is never told that it failed.
THEOREM FailureHasReason == RSpec => []NoFalseAlarm
<1>1. RIInv => NoFalseAlarm
  BY DEF RIInv
<1> QED
  BY <1>1, RIInvAlways, PTL

\* A GREEN verdict on the rehearsal's own archive: every entry that was there
\* when it began is there.
THEOREM GreenIsSafe == RSpec => GreenKeepsWhatWas
<1> DEFINE Keeps ==
      reh.pc = "verdict" /\ reh'.pc = "green" /\ reh.arch = reh.own =>
        \A j \in Journals : kept[j] = begun[j]
<1>1. RIInv /\ [RNext]_rvars => [Keeps]_rvars
  <2> SUFFICES ASSUME RIInv, [RNext]_rvars, reh.pc = "verdict", reh'.pc = "green",
                      reh.arch = reh.own, NEW j \in Journals
               PROVE  kept[j] = begun[j]
    OBVIOUS
  <2>1. RTypeOK /\ CutShows /\ BackedUp
    BY DEF RIInv, Phase, Rehearsing
  <2>2. RehearseStep /\ ~RehearseBegin /\ ~StackStart
    BY <2>1 DEF RNext, RAppend, WatchStarts, ServiceEnds, BesideStep, RehearseBegin, StackStart,
         Ended, NoRehearsal, rvars, RTypeOK
  <2>3. archive[reh.own].st = "whole" /\ LivePrefix(reh.own)
    <3>1. Verdict
      BY <2>1, <2>2, RehearsalMoves
    <3> QED
      BY <2>1, <3>1 DEF Verdict, RTypeOK
  <2>4. HoldsBegun /\ archive[reh.own].at[j] = intact[reh.own][j]
    BY <2>1, <2>3 DEF BackedUp, Taken, LivePrefix
  <2>5. archive[reh.own].at[j] \in Nat /\ kept[j] \in Nat /\ begun[j] \in Nat
    <3>1. archive[reh.own].at \in Members /\ kept \in Members /\ begun \in Members
      BY <2>1 DEF RTypeOK, TypeOK
    <3> QED
      BY <3>1 DEF Members
  <2> QED
    BY <2>1, <2>4, <2>5 DEF CutShows, HoldsBegun
<1> QED
  BY <1>1, RIInvAlways, PTL DEF GreenKeepsWhatWas, RSpec

\* The stack is stopped only over a backup that can be gone back to.
THEOREM SwapIsBackedUp == RSpec => BackedUpBeforeSwap
<1> DEFINE Backed ==
      reh.pc = "stop" /\ reh'.pc = "start" =>
        \/ archive[reh.own].st = "absent"
        \/ Verifies(reh.own) /\ \A j \in Journals : archive[reh.own].at[j] >= begun[j]
<1>1. RIInv => Backed
  BY DEF RIInv, Phase, Rehearsing, BackedUp, Taken, HoldsBegun
<1> QED
  BY <1>1, RIInvAlways, PTL DEF BackedUpBeforeSwap

\* The retention theorem, beside a rehearsal too.
THEOREM NewestSparedBesideRehearsal == RSpec => PruneSparesNewest
<1> DEFINE Spares ==
      \A l \in Archives :
        archive'[l].st = "absent" =>
          Cardinality({k \in Archives : NameAfter(k, l)}) >= prune.keep
<1>1. RTypeOK /\ Sparing /\ [RNext]_rvars => [Spares]_vars /\ Sparing'
  <2> SUFFICES ASSUME RTypeOK, Sparing, [RNext]_rvars
               PROVE  [Spares]_vars /\ Sparing'
    OBVIOUS
  <2>1. CASE [Next]_vars
    BY <2>1, SparedAtDeletion, SparingStep DEF RTypeOK
  <2>2. CASE UNCHANGED <<now, archive, sidecar, workerVars, prune>>
    <3>1. Archives' = Archives
      BY <2>2 DEF Archives
    <3>2. Sparing'
      BY <2>2, <3>1 DEF Sparing
    <3>3. Spares
      BY <2>2 DEF Archives
    <3> QED
      BY <3>2, <3>3
  <2> QED
    BY <2>1, <2>2, NextOrReplay
<1>2. RInit => Sparing
  BY SparingInit DEF RInit
<1>3. RSpec => []Sparing
  BY <1>1, <1>2, RehearsalTyped, PTL DEF RSpec
<1> QED
  BY <1>1, <1>3, RehearsalTyped, PTL DEF PruneSparesNewest, RSpec
=============================================================================
