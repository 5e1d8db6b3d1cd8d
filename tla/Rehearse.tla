------------------------------- MODULE Rehearse -------------------------------
(***************************************************************************)
(* The upgrade rehearsal (ops-tools: rehearse.rs), composed with the       *)
(* backup it takes and the prune that may run beside it (Backup), over a   *)
(* service that keeps appending, that the watch line of cron restarts, and *)
(* whose rebuilt binary may be faulty: when it replays a journal it may    *)
(* cut it short or rewrite entries of it.                                  *)
(***************************************************************************)
EXTENDS Backup

CONSTANTS
  Rehearser,   \* the worker whose backup is the rehearsal's
  Upgrade      \* the name its backups have

ASSUMPTION RehearserAssumption == Rehearser \in Workers /\ Upgrade \in Tenants

VARIABLES
  service,   \* "up", "stopping" (signalled, still answering and writing) or "down"
  rebuilt,   \* the release binaries are the rebuilt ones
  upgraded,  \* the running service is of the rebuilt binaries
  reh,       \* the rehearsal: its step, its own archive and the one it picked,
             \* the domain reading, the line counts, whether they came out equal
  intact,    \* history: intact[l][j]: the leading entries archive l captured of
             \* j that the live journal still has
  begun,     \* history: the length of each journal when the rehearsal began
  kept,      \* history: how many of those leading entries are still there
  noise      \* history: what may make a rehearsal fail has happened since its
             \* first reading

rvars == <<vars, service, rebuilt, upgraded, reh, intact, begun, kept, noise>>
builds == <<rebuilt, upgraded>>

Lens == [j \in Journals |-> Len(journal[j])]
AtMost(n, m) == IF m < n THEN m ELSE n

NoRehearsal ==
  [pc |-> "never", own |-> <<Upgrade, 0>>, arch |-> <<Upgrade, 0>>,
   dom |-> Unavailable, lines |-> Nothing, ok |-> FALSE]

Rehearsing == {"before", "beforeLines", "rebuild", "stop", "start", "after", "afterLines",
               "verdict"}

\* The process of the rehearsal and the process of its backup are one.
Ended ==
  \/ reh.pc \in {"never", "green", "failed", "died"}
  \/ reh.pc = "backup" /\ pc[Rehearser] = "idle"

\* Of the archives named upgrade-, the one modified last. Rehearsals follow one
\* another and the clock does not run back, so this is the latest second; an
\* archive whose backup died counts.
NewestUpgrade ==
  {l \in Archives : l[1] = Upgrade /\ \A k \in Archives : k[1] = Upgrade => k[2] <= l[2]}

-----------------------------------------------------------------------------
(* The service *)

HistoryOfArchives ==
  intact' = [l \in Labels |-> [j \in Journals |->
               IF archive'[l].at[j] # archive[l].at[j] THEN archive'[l].at[j]
               ELSE intact[l][j]]]

\* The service appends as long as it runs, signalled or not.
RAppend(j) ==
  /\ service # "down"
  /\ Append1(j)
  /\ noise' = (noise \/ reh.pc \in Rehearsing)
  /\ UNCHANGED <<service, builds, reh, intact, begun, kept>>

\* A start replays the journals; a faulty binary keeps only n entries of one,
\* and cuts the rest off or writes others in their place.
Replay ==
  \/ UNCHANGED <<journal, intact, kept, noise>>
  \/ /\ rebuilt
     /\ \E j \in Journals : \E n \in 0 .. Len(journal[j]) - 1 :
          /\ journal' \in {journal, [journal EXCEPT ![j] = SubSeq(@, 1, n)]}
          /\ intact' = [l \in Labels |-> [intact[l] EXCEPT ![j] = AtMost(@, n)]]
          /\ kept' = [kept EXCEPT ![j] = AtMost(@, n)]
     /\ noise' = TRUE

Start ==
  /\ service' = "up"
  /\ upgraded' = rebuilt
  /\ Replay

\* The watch line finds the service down and starts it.
WatchStarts ==
  /\ service = "down"
  /\ Start
  /\ UNCHANGED <<now, archive, sidecar, workerVars, prune, rebuilt, reh, begun>>

\* A signalled service is gone; or it crashes, or the watch stops it as stale.
ServiceEnds ==
  /\ service # "down"
  /\ service' = "down"
  /\ UNCHANGED <<vars, builds, reh, intact, begun, kept, noise>>

-----------------------------------------------------------------------------
(* cmd_rehearse *)

\* 1/5: perform_backup under the name upgrade. A rehearsal lasts longer than a
\* second: the next one has another label. What is installed by then counts as
\* the old binaries, and those are trusted: a bad upgrade has been undone.
RehearseBegin ==
  /\ Ended
  /\ reh.pc = "never" \/ reh.own[2] < now
  /\ Begin(Rehearser, Upgrade)
  /\ reh' = [NoRehearsal EXCEPT !.pc = "backup", !.own = <<Upgrade, now>>]
  /\ begun' = Lens
  /\ kept' = Lens
  /\ noise' = FALSE
  /\ rebuilt' = FALSE /\ upgraded' = FALSE
  /\ UNCHANGED <<service, intact>>

\* The archive it will compare with is looked up by name, not taken from the
\* backup: a prune may have left none (it dies) or an older one.
RehearsePickAnyway ==   \* faulty: also when the backup died
  /\ reh.pc = "backup"
  /\ pc[Rehearser] \in {"done", "idle"}
  /\ IF NewestUpgrade = {} THEN reh' = [reh EXCEPT !.pc = "died"]
     ELSE \E l \in NewestUpgrade : reh' = [reh EXCEPT !.pc = "before", !.arch = l]
  /\ UNCHANGED <<vars, service, builds, intact, begun, kept, noise>>
RehearsePick ==
  /\ reh.pc = "backup"
  /\ pc[Rehearser] = "done"
  /\ IF NewestUpgrade = {} THEN reh' = [reh EXCEPT !.pc = "died"]
     ELSE \E l \in NewestUpgrade : reh' = [reh EXCEPT !.pc = "before", !.arch = l]
  /\ UNCHANGED <<vars, service, builds, intact, begun, kept, noise>>

\* The log's tree size, asked of the running service; no answer counts as null.
LastIndex ==   \* faulty: an index for a size
  {Unavailable} \cup (IF service = "down" THEN {} ELSE {Len(journal[Log]) - 1})
DomainReading == {Unavailable} \cup (IF service = "down" THEN {} ELSE {Len(journal[Log])})

\* 2/5: the domain readings, then the lines of the journals.
ReadBefore ==
  /\ reh.pc = "before"
  /\ \E d \in DomainReading : reh' = [reh EXCEPT !.pc = "beforeLines", !.dom = d]
  /\ UNCHANGED <<vars, service, builds, intact, begun, kept, noise>>

LinesBefore ==
  /\ reh.pc = "beforeLines"
  /\ reh' = [reh EXCEPT !.pc = "rebuild", !.lines = Lens]
  /\ UNCHANGED <<vars, service, builds, intact, begun, kept, noise>>

\* 3/5: cargo build; one that fails ends the rehearsal, with some rebuilt.
Rebuild ==
  /\ reh.pc = "rebuild"
  /\ \E ok \in BOOLEAN : reh' = [reh EXCEPT !.pc = IF ok THEN "stop" ELSE "died"]
  /\ rebuilt' = TRUE
  /\ UNCHANGED <<vars, service, upgraded, intact, begun, kept, noise>>

\* 4/5: stack.sh stop signals and does not wait.
StackStop ==
  /\ reh.pc = "stop"
  /\ service' = IF service = "up" THEN "stopping" ELSE service
  /\ reh' = [reh EXCEPT !.pc = "start"]
  /\ UNCHANGED <<vars, builds, intact, begun, kept, noise>>

\* stack.sh start, `up` (schedule.rs:65-66), uses a service again that still
\* answers, signalled or not; under a new contract it does so after the ten
\* seconds that it waits for the port.
StackStart ==
  /\ reh.pc = "start"
  /\ reh' = [reh EXCEPT !.pc = "after"]
  /\ \/ service = "down" /\ Start
     \/ /\ service # "down"
        /\ UNCHANGED <<service, upgraded, journal, intact, kept, noise>>
  /\ UNCHANGED <<now, archive, sidecar, workerVars, prune, rebuilt, begun>>

\* 5/5: the same readings again. A null before is not compared.
ReadAfter ==
  /\ reh.pc = "after"
  /\ \E d \in DomainReading :
       /\ reh' = [reh EXCEPT !.pc = "afterLines",
                             !.ok = reh.dom = Unavailable \/ d = reh.dom]
       /\ noise' = (noise \/ d = Unavailable)
  /\ UNCHANGED <<vars, service, builds, intact, begun, kept>>

LinesAfter ==
  /\ reh.pc = "afterLines"
  /\ reh' = [reh EXCEPT !.pc = "verdict", !.ok = @ /\ reh.lines = Lens]
  /\ UNCHANGED <<vars, service, builds, intact, begun, kept, noise>>

\* Every member of the archive is a byte prefix of the live journal.
LongEnough(l) == \A j \in Journals : archive[l].at[j] <= Len(journal[j])   \* faulty
LiveEqual(l) ==   \* faulty: the live journal is the captured one
  \A j \in Journals : archive[l].at[j] = intact[l][j] /\ intact[l][j] = Len(journal[j])
LivePrefix(l) == \A j \in Journals : archive[l].at[j] = intact[l][j]

\* tar_members dies if the archive is gone, or was cut short.
Verdict ==
  /\ reh.pc = "verdict"
  /\ reh' = [reh EXCEPT !.pc = IF archive[reh.arch].st # "whole" THEN "died"
                               ELSE IF reh.ok /\ LivePrefix(reh.arch) THEN "green"
                               ELSE "failed"]
  /\ UNCHANGED <<vars, service, builds, intact, begun, kept, noise>>

\* A write of the readings or of the report fails, stack.sh fails, or the
\* process is killed.
RehearseDies ==
  /\ reh.pc \in Rehearsing
  /\ reh' = [reh EXCEPT !.pc = "died"]
  /\ UNCHANGED <<vars, service, builds, intact, begun, kept, noise>>

-----------------------------------------------------------------------------
RInit ==
  /\ Init
  /\ service = "up"
  /\ rebuilt = FALSE /\ upgraded = FALSE
  /\ reh = NoRehearsal
  /\ intact = [l \in Labels |-> Nothing]
  /\ begun = Nothing
  /\ kept = Nothing
  /\ noise = FALSE

RehearseStep ==
  \/ RehearseBegin \/ RehearsePick \/ ReadBefore \/ LinesBefore \/ Rebuild \/ StackStop
  \/ StackStart \/ ReadAfter \/ LinesAfter \/ Verdict \/ RehearseDies

\* The steps of Backup, beside those: a backup begins as itself only if it is
\* not the rehearsal's.
BesideStep ==
  /\ \/ Tick \/ PruneStep
     \/ \E w \in Workers :
          \/ ReadHead(w) \/ List(w) \/ TarMember(w) \/ TarEnd(w) \/ TarFail(w)
          \/ ReadSums(w) \/ SumsFail(w) \/ WriteSidecar(w) \/ Crash(w)
          \/ w # Rehearser /\ \E t \in Tenants \ {Upgrade} : Begin(w, t)
  /\ HistoryOfArchives
  /\ UNCHANGED <<service, builds, reh, begun, kept, noise>>

RNext ==
  \/ \E j \in Journals : RAppend(j)
  \/ WatchStarts \/ ServiceEnds
  \/ RehearseStep
  \/ BesideStep

RSpec == RInit /\ [][RNext]_rvars

-----------------------------------------------------------------------------
(* Properties *)

\* The rehearsal's variables keep their shape, beside those of Backup.
RTypeOK ==
  /\ TypeOK
  /\ service \in {"up", "stopping", "down"}
  /\ rebuilt \in BOOLEAN /\ upgraded \in BOOLEAN
  /\ reh \in [pc : Rehearsing \cup {"never", "backup", "green", "failed", "died"},
              own : Labels, arch : Labels, dom : Nat \cup {Unavailable},
              lines : Members, ok : BOOLEAN]
  /\ intact \in [Labels -> Members]
  /\ begun \in Members /\ kept \in Members
  /\ noise \in BOOLEAN

\* GREEN proves the upgrade kept the state (rehearse.rs 2-4, 277-278): no entry
\* that was there when the rehearsal began has been cut off or rewritten, also
\* when the service was restarted by the watch, appended between the readings or
\* made up for lost lines - unless a prune took the archive of this rehearsal,
\* so that the comparison fell back on an older one.
GreenKeepsWhatWas ==
  [][reh.pc = "verdict" /\ reh'.pc = "green" /\ reh.arch = reh.own =>
       \A j \in Journals : kept[j] = begun[j]]_rvars

\* FAILED is never said of a quiet deployment whose upgrade lost nothing: an
\* entry came or went since the first reading, a reading got no answer, or the
\* comparison fell back on an older archive.
NoFalseAlarm ==
  reh.pc = "failed" => noise \/ reh.arch # reh.own

\* The stack is not stopped before a backup is there to go back to: one that
\* verifies and that holds all that was journalled when the rehearsal began,
\* unless a prune has taken it.
BackedUpBeforeSwap ==
  [][reh.pc = "stop" /\ reh'.pc = "start" =>
       \/ archive[reh.own].st = "absent"
       \/ Verifies(reh.own) /\ \A j \in Journals : archive[reh.own].at[j] >= begun[j]]_rvars
=============================================================================
