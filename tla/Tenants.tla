------------------------------- MODULE Tenants -------------------------------
(***************************************************************************)
(* What lands under tenants/ and leaves it: restore, the drill, bundle and *)
(* decommission (ops-tools: restore.rs, drill.rs, bundle.rs), beside the   *)
(* services that the tenant runner starts (ops: cmd_tenant), backups and a *)
(* prune. A job may die in any step; a service may be started, go on       *)
(* writing after its stop, or go, in any of them.                          *)
(*                                                                         *)
(* A path is a sequence of names, and a name is <<base>> or, of a directory*)
(* that was renamed aside or belongs to a drill, <<base, why, second>>. A  *)
(* journal is the set of its entries, each entry written once anywhere. An *)
(* archive and its sidecar are one thing: they appear at once (Vault).     *)
(***************************************************************************)
EXTENDS Integers, Sequences

CONSTANTS
  Names,         \* the tenants that may be started
  First,         \* the one that is there from the beginning
  BackupNames,   \* what a backup may be called: the deployment, or a tenant
  MaxTime,       \* bound: the last second of the clock
  MaxEntries,    \* bound: the last entry written
  MaxJobs        \* bound: runs of unidpp-ops

ASSUMPTION TenantsAssumption ==
  /\ First \in Names
  /\ MaxTime \in Nat /\ MaxEntries \in Nat \ (0 .. 2) /\ MaxJobs \in Nat

VARIABLES
  now,       \* the UTC clock, in seconds
  disk,      \* the journals: from paths to sets of entries
  tenant,    \* the directories of tenants/, by name: the manifest's journals, if it
             \* is there, and (history) whether its restore came to the end
  arch,      \* what verifies in backups/: origin's manifest, and files by path
  proc,      \* each tenant's registry, if it runs: the file it has open
  job,       \* the running job of unidpp-ops
  jobs,      \* runs of unidpp-ops that may yet be started
  count,     \* entries written so far
  beside     \* history: a service was started on a tenant being unpacked

vars == <<now, disk, tenant, arch, proc, job, jobs, count, beside>>

TenantsDir == <<"tenants">>
Run == <<"run">>
Registry == <<"registry-journal.jsonl">>
LogJournal == <<"log-journal.jsonl">>

Dir(t) == <<TenantsDir, t>>
In(t, p) == Len(p) > 2 /\ SubSeq(p, 1, 2) = Dir(t)
Inside(p) == SubSeq(p, 3, Len(p))

RootManifest == [registry |-> <<Registry>>, log |-> <<Run, LogJournal>>]
NoManifest == <<>>

Labels == [of : BackupNames \cup Names \cup {"drill"}, kind : {"backup", "data"}, at : 0 .. MaxTime]
Nowhere == [of |-> "", kind |-> "backup", at |-> 0]
None == [man |-> NoManifest, files |-> <<>>]
Published == {l \in Labels : arch[l] # None}

Dead == [file |-> <<>>, whole |-> FALSE]

Idle == [pc |-> "idle", kind |-> "none", t |-> <<First>>, src |-> Nowhere, own |-> Nowhere,
         left |-> {}, got |-> <<>>, had |-> {}]

\* Of the files of a copy, the next one, in one order.
Next1 == CHOOSE p \in job.left : TRUE

Put(f, p, content) == [q \in DOMAIN f \cup {p} |-> IF q = p THEN content ELSE f[q]]
Without(f, S) == [q \in DOMAIN f \ S |-> f[q]]
Entries(f) == UNION {f[p] : p \in DOMAIN f}

\* rename(2) of tenants/<t>: everything in it moves, with those who have it open.
Moved(p, t, u) == IF In(t, p) THEN Dir(u) \o Inside(p) ELSE p
Rename(t, u) ==
  /\ disk' = [q \in {Moved(p, t, u) : p \in DOMAIN disk} |->
                disk[CHOOSE p \in DOMAIN disk : Moved(p, t, u) = q]]
  /\ tenant' = Put(Without(tenant, {t}), u, tenant[t])
  /\ proc' = [n \in Names |-> [proc[n] EXCEPT !.file = Moved(@, t, u)]]

-----------------------------------------------------------------------------
(* The tenant runner and its services *)

Alive(n) == proc[n] # Dead
Started(n) == <<n>> \in DOMAIN tenant /\ tenant[<<n>>].man # NoManifest

\* `up`, where no process is left over: one on file counts as running, and one
\* that was signalled and is not gone has the port, so that a new one ends. The
\* service opens the journal that the manifest names, or makes it, if the
\* directory is there.
Up(n) ==
  LET f == tenant[<<n>>].man.registry IN
    /\ Started(n)
    /\ ~Alive(n)
    /\ f[1] = TenantsDir => f[2] \in DOMAIN tenant
    /\ proc' = [proc EXCEPT ![n] = [file |-> f, whole |-> tenant[<<n>>].whole]]
    /\ disk' = IF f \in DOMAIN disk THEN disk ELSE Put(disk, f, {})
    /\ beside' = (beside \/ (job.pc = "unpack" /\ In(job.t, f)))
    /\ UNCHANGED <<now, tenant, arch, job, jobs, count>>

\* Signalled by a `stop` that does not wait, or crashed: it goes when it goes.
Gone(n) ==
  /\ Alive(n)
  /\ proc' = [proc EXCEPT ![n] = Dead]
  /\ UNCHANGED <<now, disk, tenant, arch, job, jobs, count, beside>>

\* A service appends until it is gone, wherever its file has been moved.
Append1(n) ==
  /\ Alive(n)
  /\ count < MaxEntries
  /\ count' = count + 1
  /\ disk' = Put(disk, proc[n].file, disk[proc[n].file] \cup {count + 1})
  /\ UNCHANGED <<now, tenant, arch, proc, job, jobs, beside>>

-----------------------------------------------------------------------------
(* backups/ *)

\* Backups and prunes run beside a job; the jobs follow one another. A second may
\* pass before a run.
NextRun ==
  /\ jobs > 0 /\ jobs' = jobs - 1
  /\ now' \in {now, now + 1} \cap 0 .. MaxTime
NextJob == job.pc = "idle" /\ NextRun

\* perform_backup: every journal of the deployment, its tenants and what was set
\* aside of them; the sidecar's origin is the name it was given. (A label that a
\* job has read is not taken again within its second.)
Capture(b) ==
  LET l == [of |-> b, kind |-> "backup", at |-> now'] IN
    /\ l \notin Published /\ l # job.src
    /\ arch' = [arch EXCEPT ![l] = [man |-> RootManifest, files |-> disk]]

Backup(b) ==
  /\ NextRun
  /\ Capture(b)
  /\ UNCHANGED <<disk, tenant, proc, job, count, beside>>

\* A prune takes whichever sort beyond the newest names, bundles too.
Prune(l) ==
  /\ NextRun
  /\ l \in Published
  /\ arch' = [arch EXCEPT ![l] = None]
  /\ UNCHANGED <<disk, tenant, proc, job, count, beside>>

-----------------------------------------------------------------------------
(* cmd_restore *)

\* Where a member is written, in the tenant's directory: the journals of the
\* archive's own tenant are renamed to the restored one, others keep their path.
LandAll(m, origin, t) ==   \* faulty: every tenant's
  IF m[1] = TenantsDir THEN Dir(t) \o Inside(m) ELSE m
Land(m, origin, t) ==
  IF In(origin, m) THEN Dir(t) \o Inside(m) ELSE m

LandsAtOrigin(m, l, t) == Land(m, <<l.of>>, t)   \* faulty: as recover does
Lands(m, l, t) == Dir(t) \o Land(m, <<l.of>>, t)

\* The manifest's journal paths, in the restored tenant.
RewriteRoot(p, t) ==   \* faulty: a tenant's own paths are left
  IF p[1] = TenantsDir THEN p ELSE Dir(t) \o <<p[Len(p)]>>
Rewrite(p, t) ==
  CASE p[1] = TenantsDir /\ Len(p) > 2 -> Dir(t) \o Inside(p)
    [] p = <<Registry>> -> Dir(t) \o p
    [] p[1] = Run /\ Len(p) = 2 -> Dir(t) \o Tail(p)
    [] OTHER -> p

\* verify_archive, and the refusal of an existing tenant without --force.
RestoreBegin(l, n, force) ==
  /\ NextJob
  /\ l \in Published
  /\ <<n>> \in DOMAIN tenant => force
  /\ job' = [Idle EXCEPT !.pc = "aside", !.kind = "restore", !.t = <<n>>, !.src = l]
  /\ UNCHANGED <<disk, tenant, arch, proc, count, beside>>

\* The existing directory is renamed aside: tenants/<t>.pre-restore.<second>.
SetAsideNothing ==   \* faulty: unpacked over what is there
  /\ job.pc = "aside"
  /\ job' = [job EXCEPT !.pc = "mkdir"]
  /\ UNCHANGED <<now, disk, tenant, arch, proc, jobs, count, beside>>
SetAside ==
  LET aside == <<job.t[1], "pre-restore", now>> IN
    /\ job.pc = "aside"
    /\ aside \notin DOMAIN tenant
    /\ job' = [job EXCEPT !.pc = "mkdir"]
    /\ IF job.t \in DOMAIN tenant THEN Rename(job.t, aside)
       ELSE UNCHANGED <<disk, tenant, proc>>
    /\ UNCHANGED <<now, arch, jobs, count, beside>>

\* The members are listed, the manifest being the first of a backup. An archive
\* that a prune has taken ends the job (JobDies).
MakeDir ==
  /\ job.pc = "mkdir"
  /\ job.src \in Published
  /\ tenant' = Put(tenant, job.t, [man |-> arch[job.src].man, whole |-> FALSE])
  /\ job' = [job EXCEPT !.pc = "unpack", !.left = DOMAIN arch[job.src].files]
  /\ UNCHANGED <<now, disk, arch, proc, jobs, count, beside>>

Unpack ==
  /\ job.pc = "unpack"
  /\ job.left # {}
  /\ job.src \in Published
  /\ disk' = Put(disk, Lands(Next1, job.src, job.t), arch[job.src].files[Next1])
  /\ job' = [job EXCEPT !.left = @ \ {Next1}]
  /\ UNCHANGED <<now, tenant, arch, proc, jobs, count, beside>>

\* The restored manifest becomes the tenant's own.
RestoreDone ==
  /\ job.pc = "unpack"
  /\ job.left = {}
  /\ LET man == tenant[job.t].man IN
       tenant' = Put(tenant, job.t, [man |-> [k \in DOMAIN man |-> Rewrite(man[k], job.t)],
                                     whole |-> TRUE])
  /\ job' = IF job.kind = "drill" THEN [job EXCEPT !.pc = "parity"] ELSE Idle
  /\ UNCHANGED <<now, disk, arch, proc, jobs, count, beside>>

-----------------------------------------------------------------------------
(* drill *)

Newest(L) == {l \in L : \A k \in L : k.at <= l.at}

DrillBegin ==
  /\ NextJob
  /\ <<"drill", "at", now'>> \notin DOMAIN tenant
  /\ Capture("drill")
  /\ job' = [Idle EXCEPT !.pc = "pick", !.kind = "drill", !.t = <<"drill", "at", now'>>]
  /\ UNCHANGED <<disk, tenant, proc, count, beside>>

\* The archive is looked up again; a prune may have left an older drill's.
DrillPick ==
  /\ job.pc = "pick"
  /\ \E l \in Newest({k \in Published : k.of = "drill"}) :
       job' = [job EXCEPT !.pc = "aside", !.src = l]
  /\ UNCHANGED <<now, disk, tenant, arch, proc, jobs, count, beside>>

\* Every member is read back. A drill that fails removes its tenant as well.
Parity == \A m \in DOMAIN arch[job.src].files :
            disk[Lands(m, job.src, job.t)] = arch[job.src].files[m]

DrillEnd(keep) ==
  /\ job.pc = "parity"
  /\ job.src \in Published
  /\ IF keep /\ Parity THEN UNCHANGED <<disk, tenant>>
     ELSE /\ disk' = Without(disk, {p \in DOMAIN disk : In(job.t, p)})
          /\ tenant' = Without(tenant, {job.t})
  /\ job' = Idle
  /\ UNCHANGED <<now, arch, proc, jobs, count, beside>>

-----------------------------------------------------------------------------
(* cmd_bundle --data-only, alone or as the first part of cmd_decommission *)

\* A decommission first calls tenants/up.sh to stop the tenant: nobody waits for
\* the service to be gone, and a call that fails (there is no such script) is
\* ignored.
BundleBegin(n, kind) ==
  /\ NextJob
  /\ <<n>> \in DOMAIN tenant
  /\ job' = [Idle EXCEPT !.pc = "list", !.kind = kind, !.t = <<n>>]
  /\ UNCHANGED <<disk, tenant, arch, proc, count, beside>>

\* The label is fixed, and the journals under the tenant are listed.
ListJournals ==
  LET own == [of |-> job.t[1], kind |-> "data", at |-> now]
      found == {p \in DOMAIN disk : In(job.t, p)}
  IN
    /\ job.pc = "list"
    /\ Started(job.t[1])
    /\ own \notin Published
    /\ job' = [job EXCEPT !.pc = "copy", !.own = own, !.left = found,
                          !.had = UNION {disk[p] : p \in found}]
    /\ UNCHANGED <<now, disk, tenant, arch, proc, jobs, count, beside>>

CopyJournal ==
  /\ job.pc = "copy"
  /\ job.left # {}
  /\ job' = [job EXCEPT !.got = Put(@, Next1, disk[Next1]), !.left = @ \ {Next1}]
  /\ UNCHANGED <<now, disk, tenant, arch, proc, jobs, count, beside>>

\* Packed and checksummed: the members of the bundle's one directory have the
\* journals' paths.
PublishBundle ==
  /\ job.pc = "copy"
  /\ job.left = {}
  /\ arch' = [arch EXCEPT ![job.own] = [man |-> tenant[job.t].man, files |-> job.got]]
  /\ job' = IF job.kind = "decommission" THEN [job EXCEPT !.pc = "verify"] ELSE Idle
  /\ UNCHANGED <<now, disk, tenant, proc, jobs, count, beside>>

\* newest_by_name, and verify_archive on what it found.
Bundles == {l \in Published : l.kind = "data" /\ l.of = job.t[1]}
OldestBundle == {l \in Bundles : \A k \in Bundles : l.at <= k.at}   \* faulty: ascending
NewestBundle == Newest(Bundles)

VerifyBundle ==
  /\ job.pc = "verify"
  /\ \E l \in NewestBundle : job' = [job EXCEPT !.pc = "retire", !.src = l]
  /\ UNCHANGED <<now, disk, tenant, arch, proc, jobs, count, beside>>

\* The tenant is moved to tenants/<t>.retired.<second>.
Retire ==
  LET aside == <<job.t[1], "retired", now>> IN
    /\ job.pc = "retire"
    /\ aside \notin DOMAIN tenant
    /\ Rename(job.t, aside)
    /\ job' = Idle
    /\ UNCHANGED <<now, arch, jobs, count, beside>>

\* The reversal that is printed (or that of a restore), by the jobs' operator: what
\* was set aside of the tenant gets its name back.
Reinstate(n) ==
  /\ job.pc = "idle"
  /\ <<n>> \notin DOMAIN tenant
  /\ \E why \in {"pre-restore", "retired"}, at \in 0 .. MaxTime :
       <<n, why, at>> \in DOMAIN tenant /\ Rename(<<n, why, at>>, <<n>>)
  /\ UNCHANGED <<now, arch, job, jobs, count, beside>>

\* Killed, or die(): the archive is gone, a name is taken. A member is cut short,
\* or the manifest, when it is unpacked or rewritten.
JobDies ==
  /\ job.pc # "idle"
  /\ job' = Idle
  /\ tenant' \in {tenant} \cup
       (IF job.pc = "mkdir" \/ (job.pc = "unpack" /\ job.left = {})
        THEN {Put(tenant, job.t, [man |-> NoManifest, whole |-> FALSE])} ELSE {})
  /\ disk' \in {disk} \cup
       (IF job.pc = "unpack" /\ job.left # {}
        THEN {Put(disk, Lands(Next1, job.src, job.t), {})} ELSE {})
  /\ UNCHANGED <<now, arch, proc, jobs, count, beside>>

-----------------------------------------------------------------------------
Init ==
  /\ now = 0
  /\ disk = [p \in {<<Registry>>, <<Run, LogJournal>>, Dir(<<First>>) \o <<Registry>>} |->
               CASE p = <<Registry>> -> {1} [] p[1] = Run -> {2} [] OTHER -> {3}]
  /\ tenant = [t \in {<<First>>} |-> [man |-> [registry |-> Dir(t) \o <<Registry>>], whole |-> TRUE]]
  /\ arch = [l \in Labels |-> None]
  /\ proc = [n \in Names |-> Dead]
  /\ job = Idle
  /\ jobs = MaxJobs
  /\ count = 3
  /\ beside = FALSE

Service(n) == Up(n) \/ Append1(n) \/ Gone(n)
Restore ==
  \/ \E l \in Labels, n \in Names, force \in BOOLEAN : RestoreBegin(l, n, force)
  \/ SetAside \/ MakeDir \/ Unpack \/ RestoreDone
DrillJob == DrillBegin \/ DrillPick \/ \E keep \in BOOLEAN : DrillEnd(keep)
Decommission ==
  \/ \E n \in Names, kind \in {"bundle", "decommission"} : BundleBegin(n, kind)
  \/ ListJournals \/ CopyJournal \/ PublishBundle \/ VerifyBundle \/ Retire

Next ==
  \/ \E n \in Names : Service(n) \/ Reinstate(n)
  \/ \E b \in BackupNames : Backup(b)
  \/ \E l \in Labels : Prune(l)
  \/ Restore \/ DrillJob \/ Decommission \/ JobDies

Spec == Init /\ [][Next]_vars

-----------------------------------------------------------------------------
(* Properties *)

\* Every variable keeps its shape; the files that processes and manifests' tenants
\* have are where the model looks for them.
TypeOK ==
  /\ now \in 0 .. MaxTime /\ jobs \in 0 .. MaxJobs /\ count \in 3 .. MaxEntries
  /\ \A p \in DOMAIN disk :
       /\ disk[p] \subseteq 1 .. count
       /\ p[1] = TenantsDir => Len(p) > 2 /\ p[2] \in DOMAIN tenant
  /\ \A l \in Labels : Entries(arch[l].files) \subseteq 1 .. count
  /\ \A n \in Names : Alive(n) => proc[n].file \in DOMAIN disk
  /\ job.pc \in {"idle", "aside", "mkdir", "unpack", "pick", "parity", "list", "copy",
                 "verify", "retire"}

\* "Renamed aside, never deleted" (restore.rs 3, bundle.rs 273-274): an entry ever
\* written is in some journal - live, aside, in the root - whatever died, was
\* forced, was replaced or was still being written, unless a service was started
\* on a tenant that a restore was unpacking.
NothingLost == ~beside => Entries(disk) = 1 .. count

\* "A restored deployment must never write the origin's journals" (restore.rs 5-6):
\* a service that was started on a tenant whose last restore came to its end
\* writes that tenant's journals, live or where they were set aside.
WritesOwn ==
  \A n \in Names : Alive(n) /\ proc[n].whole =>
    proc[n].file[1] = TenantsDir /\ proc[n].file[2][1] = n

\* "Rewriting them all would collide sibling tenants onto the same filenames"
\* (restore.rs 99-100): a restore that ends left every member under the tenant as
\* it was archived, unless the archive has journals both of its origin and of a
\* tenant of the restored name, or a service was started beside it.
Collides(l, t) ==
  <<l.of>> # t /\ \E p, q \in DOMAIN arch[l].files : In(<<l.of>>, p) /\ In(t, q)

RestoredHoldsArchive ==
  [][RestoreDone /\ job.src \in Published /\ ~beside /\ ~Collides(job.src, job.t) =>
       \A m \in DOMAIN arch[job.src].files :
         disk[Lands(m, job.src, job.t)] = arch[job.src].files[m]]_vars

\* "Prove its state is preserved (a final verified data-only bundle), then move it
\* aside" (bundle.rs 271-273): what the tenant had journalled when the final
\* bundle was begun is in the bundle that decommission found and verified, unless a
\* prune took either.
DecommissionedIsBundled ==
  [][Retire /\ {job.src, job.own} \subseteq Published =>
       job.had \subseteq Entries(arch[job.src].files)]_vars

\* "What a restore replays up to" (ops-tools/src/main.rs 65-66): when a restore has
\* ended, the journal that the tenant's manifest names for a service holds what
\* the archive has of the journal that the origin's manifest named for it.
RestoredReplays ==
  [][RestoreDone /\ job.src \in Published /\ ~beside =>
       LET a == arch[job.src] IN
         \A k \in DOMAIN a.man :
           LET p == tenant'[job.t].man[k] IN
             a.man[k] \in DOMAIN a.files =>
               p \in DOMAIN disk /\ disk[p] = a.files[a.man[k]]]_vars
=============================================================================
