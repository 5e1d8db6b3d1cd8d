# Verification of the pilot deployment's operations programs

This directory specifies, in TLA+, the two Rust programs that operate the pilot
deployment: `unidpp-stack` (`ops/`), which starts, reconciles, stops and seeds the
stack of services, and `unidpp-ops` (`ops-tools/`), which backs it up, prunes,
restores, recovers and rehearses. The services themselves live in other
repositories and appear here as these programs use them.

Neither program is concurrent inside. What is hard is outside: they run from cron
and by hand at the same time, without a lock, over shared files (`run/*.pid`,
`backups/`, `demo/`, `tenants/`), over processes that come and go, and over services
that keep writing while they are copied; each run may die at any call.

## Inventory

| component | state it keeps | operations | properties that make it correct |
|---|---|---|---|
| orchestrator, `ops/src/main.rs` | `run/<name>.pid`, the processes and ports, the release binaries | `up` (reconcile, start_service, ensure_named_tunnel), `down`, `status`, `verify` | every process is named by its pid file; only the stale is killed; downtime and drift heal; a run ends |
| seed, `ops/src/seed.rs`, `cmd_seed_jp` | what the registry, issuer and JP node journalled; `demo/`, `passports/pilot-e8.json` | `seed`, `seed-jp` | re-running is harmless and completes what failed; the notarised hash and head are of one view |
| backup, `ops-tools/src/backup.rs`, `util.rs` | `backups/<label>.tar.gz` and `.json` | `backup`, `verify` | a pair that verifies is consistent with its recorded tree head; success means all is there |
| retention, `schedule.rs` | the same files | `prune` | the newest are spared |
| restore, decommission, drill: `restore.rs`, `bundle.rs`, `drill.rs` | `tenants/<name>`, renamed-aside directories, `backups/` | `restore`, `decommission`, `drill`, `bundle` | nothing is ever lost: it is live, aside or archived; a restored tenant reads the journals it was given |
| recover, `recover.rs` | the deployment's root | `recover`, `drill --recover` | never under running services; an interrupted recovery is noticed |
| schedule, `schedule.rs` | the crontab | `schedule --install`, `--watch --install` | no other line is lost; one line per marker |
| rehearsal, `rehearse.rs` | `backups/upgrade-*` | `rehearse-upgrade` | GREEN only if nothing was lost |
| tenant and bundle runners, `cmd_tenant`, `unidpp-run.rs` | pid files of a tenant or bundle | `up`, `stop`, `status` | as the orchestrator, without the probes |

Interactions: cron's watch line runs `up` every ten minutes and its nightly line runs
`backup`; `rehearse-upgrade` runs a backup, `stop` and `start`; a drill runs a backup and a
restore; a decommission stops a tenant, bundles and renames it; `seed` needs what `up`
started. All of them share files, and none of them takes a lock. `PROJECT.json` lists the
hazards this leads to, at their lines, with the properties that cover each.

## Modules

* **Backup** (`MCBackup`, `BackupProofs`): the backup and its retention beside live journals.
* **Vault**, **BackupRefinement** (`MCBackupRefinement`, `RefinementProofs`): what a backup promises
  whoever reads `backups/`, and that Backup implements it.
* **Rehearse** (`MCRehearse`, `RehearseProofs`): the upgrade rehearsal; it EXTENDS Backup, whose steps it takes.
* **Stack** (`MCStack`, `StackProofs`): the orchestrator's `up` and `down`.
* **Seed** (`MCSeed`, `SeedProofs`): the walkthrough seed and the JP seed against unreliable calls.
* **Recover** (`MCRecover`, `RecoverProofs`): disaster recovery beside services.
* **Tenants** (`MCTenants`, `TenantsProofs`, `JournalsProofs`): restore, drill, data bundle and decommission beside
  tenants' services, backups and prunes.

Backup models the promise the whole durability story rests on, Stack the program's most entangled
control, Seed its only distributed protocol; Recover, Rehearse and Tenants are the three things the
backups are for. Rehearse is composed with Backup. Recover and Tenants take an archive as one thing that
appears at once, which is what Vault says and the refinement shows; each has its own view of the files.

### Backup

State: the `journal`s as sequences of entries, an entry being how much of an upstream journal it
relies on; the clock; the files under `backups/` by label; and per backup process its step and
its memory (label, tree head, listed payload, what tar has yet to read, checksums). Journals are
append-only, so what an archive or a checksum says of a journal is a length.
`perform_backup` is one action per call that reads or writes something others change: `Begin`
(label), `ReadHead`, `List`, one `TarMember` per file, `TarEnd` or `TarFail`, `ReadSums` or
`SumsFail`, `WriteSidecar`; a process can `Crash` in any of them, in the last leaving a torn
sidecar. `verify_archive` is the predicate `Verifies`. A prune lists once (`PruneList`) and then deletes
file by file. The services' appends and the clock are the environment.

Left out: the files that do not change (manifest, scripts, seed), the text of names (a label is its
tenant and second, the order of names is an order of tenants and then seconds), the archive's
other tar metadata. Assumed: two backups of one name do not start in the same second (`Begin`'s
guard; they would write one file), and the clock does not run backwards.

### Vault and its refinement

Vault's state is the length of each journal, each backup process's lengths as it began (`since`), and the
snapshots by label. Its steps are growth, `Begin`, `Publish` of anything between `since` and now whose head
counts no entry it lacks, and `Withdraw`. `BackupRefinement` adds the history variable `since` to Backup and maps a
label to a snapshot when archive and sidecar are there and the pair verifies: the step that publishes is
`WriteSidecar`, or, when an earlier sidecar of the same label happens to match, the end of tar, and a
backup that overwrites, a prune or a crash withdraws.

### Rehearse

State, beside Backup's: the service (up, signalled but still answering and writing, or down), whether the release binaries are rebuilt and are the ones that run, and the rehearsal: its
step, the label of its backup, the archive it looked up, the readings and their comparison. `cmd_rehearse` is
`RehearseBegin`, the steps of Backup, `RehearsePick`, `ReadBefore`, `LinesBefore`, `Rebuild`, `StackStop`,
`StackStart`, `ReadAfter`, `LinesAfter`, `Verdict`; it may die in any. When a rebuilt binary starts (by the
rehearsal, or by the watch, at any time after the rebuild) it replays the journals and may cut one short or
write others over entries of it (`Replay`). The watch restarts a service that is down, and a service can crash. `intact`, `begun`,
`kept` and `noise` are history: how much of what an archive captured, and of what was there at the beginning, is still
in place, and whether anything happened that the readings would notice.

Assumed: rehearsals are more than a second apart (their labels differ, and `newest_by_mtime` is the latest second); the
binaries installed when one begins are trusted. `stack.sh`, which the rehearsal runs to stop and to start (`rehearse.rs:232-244`), is not in the
repository: `schedule.rs:65-66` calls the orchestrator its successor, and `StackStop` and `StackStart` are what `down` and `up` do.
GREEN may be said while the old process still answers (`stop` does not wait, and `start` uses again what answers, if the
upgrade changed the contract then after ten seconds of waiting for the port): it is then true, and vacuous of the upgrade.

### Stack

State: golden, binary, process table, ports, the processes that hung (`mute`), pid files; each run of `up` with its step, its position in
the order and its last child; the run of `down`. A contract is a version number; `trim()` and the
comparison of bodies are the comparison of numbers. `Contracts` are the repositories with a golden that can be read and that their
service serves: of the others `is_current` is always false (`main.rs:317`), so that each run kills, rebuilds and restarts them. `reconcile` is `Check`, `Stale`, `Kill`, `Unlink`,
`Drain`, `Build`; `start_service` is `Start`, `Port`, `Build`, `Spawn`, `WritePid`, then `Healthy` or
`NotHealthy`; a tunnel is `Tunnel` and `WritePid`. Every early return and `die` is there.

A pid can be used again as soon as its entry is free; a child that exited stays a zombie while
the run that spawned it lives, as no code waits for it (so `kill -0` finds it, and the loop's
"exited during startup" is not met). A service told to stop answers until it is gone. One that hangs (`Hangs`) keeps its port and does not
answer `/healthz`, or not with its name: `is_ours` is false of it, no run kills it, and every run dies at its port (`main.rs:463-469`) until
it crashes, is told to stop by `down` and does, or recovers (`Recovers`). `port_taken` binds
the port for an instant, in which a service's own bind fails (`Probed`). `down` passes over a name without a pid file; what it read it
removes by name, whoever has written it since.

The environment disturbs finitely often (`budget`): a commit, a crash, a hang, a foreign listener, a
reboot, an operator's `up` or `down`, a failed build, a probe that times out, a wait that is too
short, a run killed. `cause` is a history variable that records the three circumstances in
which the code does lose track of a process: two commands at work on one name ("overlap"), a
wait that was too short ("slow"), a run killed over a fresh child ("killed"). `NoOrphans` says that
there are no others. A fourth ("reused") is a process that is given a pid which the leftover pid file of another
name still has: it is tracked as any other, but when a stale service crashes between the second probe and the
`kill`, and its pid goes to a process just spawned for another name, the `kill` (`main.rs:337-342`) is sent to that one.
`KeepsTheCurrent` excepts that case and no other: nothing else that is current, or of another name, is killed (a service without a contract
never is current). A service that hung and recovers between the two probes of a run, as one whose probe timed out, counts as "slow".

`HealsDowntime` has no such exceptions, and says what can be said: once the disturbances end, each service ends up answering for good; one
without a contract answers again and again, its own runs stopping it; and the one case in which it may not answer is that its port, or that
of a service before it in the order, stays held for good by a process that hung or by another program (`Blocked`). `HealsDrift` says the
same of the committed contract, while none of the causes arose. Left out: the environment of a service, logs, `status` and `verify`.

### Seed

State: what the services hold (units, items, bindings counted, the events in order), requests whose
client gave up and that may still be carried out (`wire`), each run's step in its script, the view it
holds, the files written from it and the archive's snapshots. A run is a script of creations; some
are guarded by a read that skips (`Skipped`), and a read without an answer counts as "none there"
(`AssumedPresent`, the code's `unwrap_or(0)` and `unwrap_or(false)`). A POST that fails loses the
request, or the answer, or is late. The fetch of the view is checked for an answer and not for its status
(`seed.rs:328-331`): an error's body (`ErrorBody`, `ViewRefused`) goes to the artifact and to the projector's store like a view, and the run
goes on. Items and lens profiles are one kind here: both answer 409. `cause`
records an unanswered read, a late request, overlapping runs ("overlap") and an error taken for the view ("view"). The first three may leave duplicates, and
are excepted from `Idempotent`; the last is not, and `CompleteIsSeeded` says that a completed run left the view or, only if one was answered, an error. Left out: the artifacts that only
report, the renders of steps 8 to 10 (they read), the CLI's grade (a way to die).

### Recover

State: per file, the copy at its live place and the copies set aside, by the stamp of the recovery that moved
them; a copy is the set of the entries it holds (0 for the file itself, so that an empty file is not a
missing one). Per service: whether it is up or stopping, the place of the file it has open (a rename moves
the file with its writer) and whether its pid file is there. The running recovery: its step, stamp and position.
`RecoverStart` has both refusals (`Refused`), `SetAside` is one rename, `Unpack` one member, `RecoverDies`
a death in any of them, with a member cut short. The environment loses targets before the start, starts
(`ServiceUp`), stops and crashes services; they append. A service with a journal and without its manifest is not
started (`Needs`). `beside` is a history variable: a service was started while a recovery ran, which no check prevents.

Assumed: the archive is one that verifies, and does not change; two recoveries do not start in one second
(the second would set aside over the first's files). Left out: `drill --recover`, which unpacks into a scratch directory.

### Tenants

State: the clock; the journals by path, each the set of its entries; the directories of `tenants/` with the journal
paths that their manifests name; what verifies in `backups/`; the registry of each tenant, with the file it has open; and the
running job of `unidpp-ops` with its step and memory. A path is a sequence of names; `tenants/acme.pre-restore.<second>`
is `<<"tenants">>, <<"acme", "pre-restore", second>>`, so a rename (`Rename`) moves the paths below it, with the writers that
have them open. `Land` is `rewritten_member_name`, `Lands` adds the target directory, `Rewrite` is
`rewrite_state_files`; `RestoreBegin` has the refusal and `--force`, then `SetAside`, `MakeDir`, one `Unpack` per
member, `RestoreDone` (the manifest). A drill is a backup, a look-up by time, the steps of a restore, the parity
and the removal; a decommission is the data bundle (`ListJournals`, `CopyJournal` per file, `PublishBundle`), a look-up by
name and verification, the rename. `Reinstate` is the reversal that is printed: what a restore or a decommission set aside gets its name back. `JobDies` is a death in any step, with the
member or the manifest cut short. `Up`, `Append1` and `Gone` are the services: `up` checks nothing but a live
pid, no stop waits. `beside` is a history variable: a service was started on a tenant that a restore was unpacking.

Assumed: one job at a time, beside which backups, prunes and services go on; the registry stands for a tenant's
services that keep a journal; each tenant has ports of its own ("review the binds"); a pid is not used again (Stack has that); an archive
and its sidecar appear at once (Vault); the clock moves between runs, and a label is not taken again in the second in which a job reads it. A full bundle
carries the same journals as a data bundle and is not distinguished. The decommission's `tenants/up.sh` is not in the repository; the code ignores that it
fails, and so the service may go on running. A drill tenant that was kept is not started.

## What the runs check

| run | question | instance |
|---|---|---|
| backup_capture | does what verifies hang together, and does Backup implement Vault? `TypeOK`, `ConsistencyPoint`, `CausalCapture`, `CompletedIsWhole`, `ImplementsVault` | one worker, the log's journal and one that refers to it, two entries each, one label (each backup overwrites the last), prune |
| rehearse | can a rehearsal be believed? `RTypeOK`, `NoFalseAlarm`, `GreenKeepsWhatWas`, `BackedUpBeforeSwap`, `PruneSparesNewest` | one journal of one entry, two seconds, hence two rehearsals, keep 1 |
| backup_prune_order | (violation) does prune keep the latest? | two tenants, two seconds, no entries |
| stack_tracked | are pid files and processes in step? `TypeOK`, `NoOrphans`, `KeepsTheCurrent` | a service and a tunnel, watch and operator, 2 pids (symmetric), 3 disturbances, hangs among them |
| stack_heal | do downtime and drift heal? `HealsDowntime`, `HealsDrift` | two services in order, the first without a contract, the watch, 3 pids, 2 disturbances, `down` and hangs among them |
| stack_two_ups | what do two runs do to each other? `HealsDowntime`, `UpEnds` | one service, two runs, 4 pids, 2 disturbances |
| stack_drift | (violation) does drift heal whatever happened? `HealsDriftLikeDowntime` | one service, the watch, a `down`, a commit |
| seed_runs | is re-running harmless, and enough? `TypeOK`, `Idempotent`, `SnapshotCoherent`, `CompleteIsSeeded`, `SeedCompletes` | two operators and a JP seed, two events, 3 disturbances |
| recover_runs | is anything lost, or stranded, over deaths and `--force`? `TypeOK`, `NothingLost`, `SeenNotStranded`, `RecoveredIsArchive` | five files in four targets, the registry and a tenant's service, any loss, two seconds, two entries, one death |
| recover_strands | (violation) does recover refuse while any service is up? | the same |
| tenants | do restore, drill, bundle and decommission keep what they promise beside everything else? `TypeOK`, `NothingLost`, `WritesOwn`, `RestoredHoldsArchive`, `DecommissionedIsBundled` | a tenant and a name to restore to, backups of the deployment and of the tenant, three runs, two seconds, one entry beyond the three at the start |
| restore_replays | (violation) does a restored deployment replay what was backed up? `RestoredReplays` | the same |

Bounds. `MaxTime`, `MaxEntries` and `MaxKeep` (Backup): the properties compare two journals, or two
archives, at a time; two entries let a journal grow between any two reads, two seconds let a label
differ and be overwritten, and the theorems hold for any bound. In Recover, two seconds let a second
recovery set aside beside the first, and one death is the interruption that `--force` is for. `MaxEvents` (Stack, Seed) bounds the disturbances; in the liveness runs the pids are enough
for the services, a stale predecessor and one to spare; `stack_tracked` has one for each
of its names, so that they are used again across names and the code's way out when there is none
(`SpawnFails`) is reached too. Its three disturbances meet all four causes; for a
kill to be sent to the process that has the reused pid takes a fourth (with `MaxEvents = 4` there are four
million states, more than a run kept beside the code should take), and is left to the theorem `KillsOnlyStale`.
All disturbances end at some time in a liveness property's behaviours:
that is what "heals" means. In Rehearse, one entry that can be lost, replaced or appended is enough for each
comparison to go wrong, and two seconds for an older archive to be found; other backups beside a rehearsal are in the module but not in the instance (their labels are others, and `backups/` under several backups is what `Refinement` covers for any number). In Tenants, three runs are a backup or a bundle, what follows
from it, and one that interferes (a prune, a second restore with `--force` after a death); the theorems hold for any number. Deadlock
is checked in all passing runs but `tenants`: there, when the runs are used up and the manifests are torn, no tenant can be started and
nothing is left to do. Symmetry (of pids) is used in one run
that has no liveness property.

Fairness. Stack: cron starts the watch (`WF` on its `UpStart`); a run takes its steps, since every
call in it is bounded by a timeout or by a number of tries; a process that starts binds or exits, one
that was told to stop stops, unless it hung. Nothing else is fair: no operator needs to act, and nothing makes a hung process recover or
leave its port, or another program leave one (no code of the repository does). Seed: the operator
starts the seed again as long as no run has come to its snapshot, and a started run goes on, every request having a
20-second limit.

Every property has a mutant: a plausible bug in a mapped definition (a variant defined above it, marked
`faulty`) under which the run fails.

## Findings

1. *prune* orders archives of different names by name first, so with backups of two names it
   deletes the later and keeps the earlier (`schedule.rs:181`, against the comment in
   `util.rs:288-289`). Drills (`drill-`) and rehearsals (`upgrade-`) make such names routine.
2. *Drift of an orphan never heals*: a listener whose pid file a concurrent `down` removed is
   judged stale by every run from the next commit on, and not told to stop, as no file names its pid (`main.rs:337-345`). The wait for its
   port runs out, the build is forced, and `start_service` finds it healthy, says "already healthy (reusing)" and
   goes on (459-462): nothing fails, and the old contract is served for ever, against the comment at 322. Downtime does heal in the same circumstances.
3. *A restored deployment does not replay its run/ journals*: `run/log-journal.jsonl` is unpacked to
   `tenants/T/run/log-journal.jsonl`, while the rewritten manifest names `tenants/T/log-journal.jsonl`
   (`restore.rs:101` and 52-66, against the usage text, `ops-tools/src/main.rs:65-66`). The same
   holds of a data bundle, whose journals arrive under `tenants/T/tenants/T/`. Nothing is lost: the service
   starts on an empty journal beside the restored one.
4. *recover does not see every running service*: it looks for live pids in `run/*.pid` alone, so it
   sets aside the journal of a service that `down` has signalled and that is not gone, or of a
   tenant's, whose pid file is in `run/tenants/<name>/` (`recover.rs:20`, against the comment at 18-19).
   What such a service writes is not lost: it is in the copy set aside.

Without a run of their own, as the modules state them outright: an error can pass for the view, since the seed looks at no status when it
fetches the passport (`seed.rs:328-331`), writes the body that came to the artifact and to the projector's store copy, and completes, though
`README.md:65` says that both are the passport document (`ViewRefused`, and the second case of `HoldsAnswer`; running the seed again puts it right); and each `seed-jp` adds a binding (`main.rs:830`), though `main.rs:594` calls it idempotent;
Seed models it so.

## What is proved

`BackupProofs` proves, for any journals with any reference structure, any tenants, workers and bounds:

* `TypeCorrect`: `TypeOK` always holds;
* `Causal`: `CausalCapture`: an archive never has a record without the upstream entries it relies
  on, when the payload lists the record's journal first;
* `HeadIsCovered`: `ConsistencyPoint`: in a pair that verifies, the head never counts entries the archive lacks;
* `SuccessIsWhole`: `CompletedIsWhole`: success left a pair that verifies with everything listed;
* `NewestSpared`: `PruneSparesNewest`: a prune deletes an archive only while `keep` archives with later names remain.

They assume the named ASSUMPTIONs of `Backup`: the order of the payload and of names is a strict
order, every journal's upstream is a journal, the log is one, and "unavailable" is no number.

None of these is inductive. A file says nothing of the process that is about to write it, so
`IInv` adds what each running backup knows (`Knowledge`): while tar runs, what is stored sorts before
what is left (`TarOrdered`); what was listed exists and is either left or stored (`ListedStored`); the
head it read is covered by what it stored, or the log is still to be read (`HeadCovered`); the checksums
it holds are the archive's, if a prune left it (`SumsAreStored`). `OwnLabels` keeps others out of its
files; `RefsResolve` and `Captured` tie archives to journals. The lemmas follow that line: what a step
may do to journals (`JournalsGrow`), to archives (`ArchiveStep`) and to other processes (`OthersStep`);
then one lemma per conjunct; the knowledge of a process under others' steps and under its own;
and the theorems from `Inductive`. `NewestSpared` has an invariant of its own, `Sparing`: beside each name still on the prune's list
there are `keep` later archives that are not on it. It holds when the list is made, because the newest name on the list (the one whose set of later names is
minimal under strict inclusion, which is well-founded on finite sets: `BeyondSpares`) has `keep` names after it and none of those is on the list; after
that nobody but the prune removes an archive.

`RefinementProofs` proves `Refinement`: `HSpec => ImplementsVault`, under the same assumptions.
The initial state maps to Vault's; then each step of each process, of the deployment and of the prune maps to one
step of Vault or leaves its variables alone. The steps need two facts that no file shows, and that an invariant
carries along with `IInv`: whatever a running backup stored or will store of a journal is at least what was there when it
began (journals only grow), and a head that is recorded is covered. Most labels do not change in a step; the lemmas say which
one can and that it goes from a snapshot to none or to a fresh one.

`TenantsProofs` proves, for any names, bounds and number of runs:

* `NeverTheOrigins`: `WritesOwn`. Not inductive: the process has its file from a manifest, the manifest from an archive through
  `Rewrite`, and the file moves with every rename. `IInv` (`TenantsInductive`) says that every manifest of a tenant whose
  restore ended names paths below that tenant's own name, live or aside, that archives hold manifests whose paths are rewritable, and that the
  directory being unpacked is not counted as restored; the lemmas on paths say that `Rewrite` lands in the tenant and that
  `Moved` keeps the name a path belongs to.
* `FinalBundleIsWhole`: `DecommissionedIsBundled`, by an invariant on the job: what it had at the listing is in what it copied or is
  still to be copied from a file that has only grown; no data bundle of the tenant has a later label; so the bundle it found is its own unless a prune took that.

`JournalsProofs` proves the rest of Tenants, with the lemmas on paths of `TenantsProofs`:

* `TypeCorrect` (`TypeOK`) and `NeverDeleted` (`NothingLost`). A rename moves files with their writers and an unpacking creates files, so
  the question is whether one can land on another. `KInv` says that a journal under `tenants/` is in a tenant that is there (`DiskGood`), so
  that a directory that is made is empty (`Absent`); that while it is unpacked every entry is elsewhere and the services write elsewhere
  (`Apart`), so that a member cut short costs nothing; and that only a drill's own manifest names a drill's journals (`TenantGood`, `ArchGood`, `ProcGood`),
  so that a drill's tenant may be removed. `beside` is excepted: a service started on a tenant that is being unpacked writes a file that the unpacking replaces.
* `RestoreIsWhole` (`RestoredHoldsArchive`), by `Unpacked`: what is unpacked stays as archived. It excepts `beside`, an archive that a prune took, and members of
  several tenants that land on one name (`Collides`), where the code does write one over the other.

`RehearseProofs` proves, for any journals, tenants and workers beside the rehearsal, on `BackupProofs`:

* `RehearsalTyped` (`RTypeOK`), `FailureHasReason` (`NoFalseAlarm`), `GreenIsSafe` (`GreenKeepsWhatWas`), `SwapIsBackedUp`
  (`BackedUpBeforeSwap`) and `NewestSparedBesideRehearsal` (`PruneSparesNewest` again, for the composed system).

The invariant `RIInv` has two parts. `Files`: only the rehearsal writes archives of its name, at a label that no archive and no prune's list
is ahead of. `Phase`: while its backup runs, what tar has stored, or has yet to store, is at least what was there at the beginning (`Capturing`); then the pair is
one to go back to, unless a prune took it (`BackedUp`); from then on whatever a replay cuts off of the beginning it cuts off of what the archive captured (`CutShows`),
which is why the comparison with the archive suffices for GREEN; and while nothing came or went the readings can only agree (`QuietAgrees`).

`StackProofs` proves, for any services, tunnels, repositories, pids, runs and disturbances:

* `TypeCorrect` (`TypeOK`), `NothingUntracked` (`NoOrphans`) and `KillsOnlyStale` (`KeepsTheCurrent`).

A run checks a port, a pid file or a version, and acts on it steps later. `IInv` says what each check is still worth, as long as the circumstances of `cause` did not arise:
one command is at work on a name (`Alone`); nothing of the name runs when its pid file is removed or another is about to be spawned
(`Cleared`, `DownCleared`), its child alone after that (`Only`), on a port nobody else took (`PortKept`); a starting service has a run that waits for it
(`Awaited`); what was judged stale, and not hung when it was, stays stale, as versions only grow (`Outdated`; of one that hung the second probe says no); and, with no pid used again, a pid on file that is in use is the name's own (`OwnPids`).
The steps of a run are first brought to a few forms (`UForm`), so that each part of the invariant is argued once per form and not once per action.

`SeedProofs` proves, for any numbers of items, bindings and events and any runs:

* `TypeCorrect` (`TypeOK`), `RerunIsHarmless` (`Idempotent`), `SnapshotsCohere` (`SnapshotCoherent`) and `CompletionIsWhole`
  (`CompleteIsSeeded`).

A run remembers only its position. `IInv` says what a position stands for: all steps behind it are done, whoever did them (`Behind`); what it is about to
post has not been posted, if nothing went wrong that it cannot see (`Unposted`); past the script, what it fetched and wrote has all events, or is the body of an error
that was answered (`Fetched`);
with no overlap one seed runs, and what it fetched is the artifact (`Alone`).

`RecoverProofs` proves, for any files, targets, members, services, seconds and entries:

* `TypeCorrect` (`TypeOK`), `NeverDeleted` (`NothingLost`), `SeenWriteLive` (`SeenNotStranded`) and `DoneIsArchive` (`RecoveredIsArchive`).

A rename may replace a file. `IInv` says that it does not: the names the targets ahead get are free (`NameFree`), the targets behind are not back (`Cleared`); then the live
files are the members unpacked so far, and no service has one open (`Unpacking`), because those whose pid file is looked at are down while a recovery runs (`SeenKept`) and the others
follow their file aside. `RecoverAssumption` has that `Targets` and `Members` name each file once, as the list in `recover.rs:70-77` and an archive's payload do.

So every invariant and every action property that a passing run checks is a theorem, for every value of the constants. Only model-checked are the liveness properties (`HealsDowntime`,
`HealsDrift`, `UpEnds`, `SeedCompletes`): they rest on fairness, which is beyond the prover. The violation runs are counterexamples and need no proof.
Each invariant named above was checked by TLC on the instances of the runs before it was proved.

## Plan

1. Done: Backup, Vault and its refinement, Rehearse, Stack, Seed, Recover, Tenants; theorems for all their safety and action properties.
2. Open: Vault says nothing of what a restore or a rehearsal then does with a snapshot; Tenants and Recover take it for granted that an archive appears
   at once (which `Refinement` shows of Backup), and a theorem over the three together is not stated.
3. Open: the pid files of the tenant runner, beside Tenants' services.

## Not modelled

* `schedule`'s crontab lines: a read-modify-write of a table shared with every other program of the user. Two installs at once lose a
  line; `crontab` offers no lock and the code takes none, so that there is nothing to state but the race itself.
* `status` and `verify` of `unidpp-stack`: read-only probes that print.
* The full bundle's binaries, runbook and environment template, and `unidpp-run`, which runs them on another host: files that
  nothing here reads, and the tenant runner's loop once more.
* `drill --recover`: it unpacks into a scratch directory of its own and compares.
* The rendering of environments, argument parsing, the wording of reports: data.
