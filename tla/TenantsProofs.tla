---------------------------- MODULE TenantsProofs ----------------------------
(***************************************************************************)
(* Proofs about Tenants, for any tenants, names of backups and bounds.     *)
(***************************************************************************)
EXTENDS Tenants, SequenceTheorems, TLAPS

Path(p) == \E S : p \in Seq(S)

\* A path in a directory of tenants/ whose name begins with n.
OwnPath(p, n) == Path(p) /\ Len(p) > 2 /\ p[1] = TenantsDir /\ p[2][1] = n

\* What manifests name: the root's journal, or one of a tenant.
Known(p) == p = <<Registry>> \/ (Path(p) /\ Len(p) > 2 /\ p[1] = TenantsDir)

Manifest(m) == "registry" \in DOMAIN m /\ Known(m.registry)

-----------------------------------------------------------------------------
(* Paths *)

\* Concatenation to a pair.
LEMMA PairConcat ==
  ASSUME NEW S, NEW a \in Seq(S), NEW b \in Seq(S), Len(a) = 2
  PROVE  /\ a \o b \in Seq(S) /\ Len(a \o b) = 2 + Len(b)
         /\ (a \o b)[1] = a[1] /\ (a \o b)[2] = a[2]
<1> DEFINE c == a \o b
<1>1. c \in Seq(S)  BY ConcatProperties
<1>2. Len(c) = Len(a) + Len(b)  BY ConcatProperties
<1>3. \A i \in 1 .. Len(a) + Len(b) : c[i] = IF i <= Len(a) THEN a[i] ELSE b[i - Len(a)]
  BY ConcatProperties
<1> HIDE DEF c
<1>4. Len(b) \in Nat /\ Len(c) = 2 + Len(b) /\ c[1] = a[1] /\ c[2] = a[2]  BY <1>2, <1>3
<1>5. QED  BY <1>1, <1>4 DEF c

LEMMA DirIsPair ==
  ASSUME NEW u, NEW T, TenantsDir \in T, u \in T
  PROVE  Dir(u) \in Seq(T) /\ Len(Dir(u)) = 2 /\ Dir(u)[1] = TenantsDir /\ Dir(u)[2] = u
BY DEF Dir

LEMMA InsideDir ==
  ASSUME NEW p, Path(p), Len(p) > 2, NEW u
  PROVE  /\ Path(Dir(u) \o Inside(p))
         /\ Len(Dir(u) \o Inside(p)) > 2
         /\ (Dir(u) \o Inside(p))[1] = TenantsDir
         /\ (Dir(u) \o Inside(p))[2] = u
<1>1. PICK S : p \in Seq(S)  BY DEF Path
<1> DEFINE T == S \cup {TenantsDir, u}
<1>2. p \in Seq(T) /\ Len(p) \in Nat  BY <1>1
<1>3. Inside(p) \in Seq(T) /\ Len(Inside(p)) = Len(p) - 2
  <2>1. \A i \in 3 .. Len(p) : p[i] \in T  BY <1>2
  <2>2. QED  BY <1>2, <2>1 DEF Inside
<1>4. Dir(u) \in Seq(T) /\ Len(Dir(u)) = 2 /\ Dir(u)[1] = TenantsDir /\ Dir(u)[2] = u
  BY DirIsPair
<1> HIDE DEF T
<1>5. /\ Dir(u) \o Inside(p) \in Seq(T) /\ Len(Dir(u) \o Inside(p)) = 2 + Len(Inside(p))
      /\ (Dir(u) \o Inside(p))[1] = Dir(u)[1] /\ (Dir(u) \o Inside(p))[2] = Dir(u)[2]
  BY <1>3, <1>4, PairConcat
<1>6. Path(Dir(u) \o Inside(p))  BY <1>5 DEF Path
<1>7. Len(Dir(u) \o Inside(p)) > 2  BY <1>2, <1>3, <1>5
<1>8. QED  BY <1>4, <1>5, <1>6, <1>7

\* A rename of a tenant's directory to a name that begins alike keeps a path its
\* tenant's.
LEMMA MovedOwn ==
  ASSUME NEW f, NEW n, OwnPath(f, n), NEW t, NEW u, t[1] = u[1]
  PROVE  OwnPath(Moved(f, t, u), n)
<1>1. CASE ~In(t, f)  BY <1>1 DEF Moved
<1>2. CASE In(t, f)
  <2>1. f[2] = t
    <3>1. PICK S : f \in Seq(S)  BY DEF OwnPath, Path
    <3>2. SubSeq(f, 1, 2)[2] = f[2]  BY <3>1 DEF OwnPath
    <3>3. SubSeq(f, 1, 2) = Dir(t)  BY <1>2 DEF In
    <3>4. Dir(t)[2] = t  BY DEF Dir
    <3>5. QED  BY <3>2, <3>3, <3>4
  <2>2. QED  BY <1>2, <2>1, InsideDir DEF Moved, OwnPath
<1>3. QED  BY <1>1, <1>2

\* The root's journal, in a tenant.
LEMMA RegistryOwn == ASSUME NEW t PROVE OwnPath(Dir(t) \o <<Registry>>, t[1])
<1> DEFINE T == {TenantsDir, t, Registry}
           p == <<Registry>>
<1>1. p \in Seq(T) /\ Len(p) = 1  OBVIOUS
<1>2. Dir(t) \in Seq(T) /\ Len(Dir(t)) = 2 /\ Dir(t)[1] = TenantsDir /\ Dir(t)[2] = t
  BY DirIsPair
<1> HIDE DEF T, p
<1>3. /\ Dir(t) \o p \in Seq(T) /\ Len(Dir(t) \o p) = 2 + Len(p)
      /\ (Dir(t) \o p)[1] = Dir(t)[1] /\ (Dir(t) \o p)[2] = Dir(t)[2]
  BY <1>1, <1>2, PairConcat
<1>4. Path(Dir(t) \o p)  BY <1>3 DEF Path
<1>5. QED  BY <1>1, <1>2, <1>3, <1>4 DEF OwnPath, p

\* The rewriting moves a path that a manifest may name to the restored tenant.
LEMMA RewriteOwn ==
  ASSUME NEW p, Known(p), NEW t
  PROVE  OwnPath(Rewrite(p, t), t[1])
<1>1. CASE p = <<Registry>>
  <2>1. p[1] # TenantsDir /\ p[1] # Run  BY <1>1 DEF Registry, TenantsDir, Run
  <2>2. Rewrite(p, t) = Dir(t) \o <<Registry>>  BY <1>1, <2>1 DEF Rewrite
  <2>3. QED  BY <2>2, RegistryOwn
<1>2. CASE p # <<Registry>>
  <2>1. Path(p) /\ Len(p) > 2 /\ p[1] = TenantsDir  BY <1>2 DEF Known
  <2>2. p[1] # Run  BY <2>1 DEF TenantsDir, Run
  <2>3. Rewrite(p, t) = Dir(t) \o Inside(p)  BY <1>2, <2>1, <2>2 DEF Rewrite
  <2>4. QED  BY <2>1, <2>3, InsideDir DEF OwnPath
<1>3. QED  BY <1>1, <1>2

-----------------------------------------------------------------------------
(* The inductive invariant *)

Shape ==
  /\ DOMAIN job = {"pc", "kind", "t", "src", "own", "left", "got", "had"}
  /\ DOMAIN arch = Labels
  /\ DOMAIN proc = Names /\ \A n \in Names : DOMAIN proc[n] = {"file", "whole"}

\* A manifest is torn, or names journals where restore knows to look for them; one
\* that was rewritten names journals of its own tenant, wherever that was moved.
OwnDirs ==
  \A t \in DOMAIN tenant :
    /\ tenant[t].man = NoManifest \/ Manifest(tenant[t].man)
    /\ tenant[t].whole => OwnPath(tenant[t].man.registry, t[1])

ArchivedManifests == \A l \in Published : Manifest(arch[l].man)

OwnFiles == \A n \in Names : proc[n].whole => OwnPath(proc[n].file, n)

\* The tenant that a job unpacks or copies stays where it is.
Holding == {"unpack", "copy", "verify", "retire"}
JobTenant ==
  /\ job.pc \in Holding => job.t \in DOMAIN tenant /\ Manifest(tenant[job.t].man)
  /\ job.pc = "list" => job.t = <<job.t[1]>>

IInv == Shape /\ OwnDirs /\ ArchivedManifests /\ OwnFiles /\ JobTenant

LEMMA OwnIsKnown ==
  ASSUME NEW p, NEW n, OwnPath(p, n)
  PROVE  Known(p)
BY DEF OwnPath, Known

LEMMA RootIsManifest == Manifest(RootManifest)
<1>1. "registry" \in DOMAIN RootManifest /\ RootManifest.registry = <<Registry>>
  BY DEF RootManifest
<1>2. QED  BY <1>1 DEF Manifest, Known

\* A torn manifest is none.
LEMMA TornIsNone == NoManifest # RootManifest /\ ~Manifest(NoManifest)
BY DEF NoManifest, RootManifest, Manifest

\* A directory is renamed to a name that begins alike.
LEMMA RenameOwn ==
  ASSUME Shape, OwnDirs, OwnFiles, NEW t \in DOMAIN tenant, NEW u, t[1] = u[1], Rename(t, u)
  PROVE  /\ OwnDirs' /\ OwnFiles'
         /\ DOMAIN proc' = Names /\ \A n \in Names : DOMAIN proc'[n] = {"file", "whole"}
<1>1. OwnDirs'
  <2> SUFFICES ASSUME NEW q \in DOMAIN tenant'
               PROVE  /\ tenant'[q].man = NoManifest \/ Manifest(tenant'[q].man)
                      /\ tenant'[q].whole => OwnPath(tenant'[q].man.registry, q[1])
    BY DEF OwnDirs
  <2>1. \/ q = u /\ tenant'[q] = tenant[t]
        \/ q \in DOMAIN tenant /\ tenant'[q] = tenant[q]
    BY DEF Rename, Put, Without
  <2>2. QED  BY <2>1 DEF OwnDirs
<1>2. \A n \in Names : /\ DOMAIN proc'[n] = {"file", "whole"}
                       /\ proc'[n].whole = proc[n].whole
                       /\ proc'[n].file = Moved(proc[n].file, t, u)
  BY DEF Rename, Shape
<1>3. OwnFiles'  BY <1>2, MovedOwn DEF OwnFiles
<1>4. DOMAIN proc' = Names  BY DEF Rename
<1>5. QED  BY <1>1, <1>2, <1>3, <1>4

\* A directory is made, or its manifest written.
LEMMA PutOwn ==
  ASSUME OwnDirs, NEW t, NEW e, tenant' = Put(tenant, t, e),
         e.man = NoManifest \/ Manifest(e.man),
         e.whole => OwnPath(e.man.registry, t[1])
  PROVE  /\ OwnDirs' /\ t \in DOMAIN tenant' /\ tenant'[t] = e
<1>1. \A q \in DOMAIN tenant' : (q = t /\ tenant'[q] = e)
                                \/ (q \in DOMAIN tenant /\ tenant'[q] = tenant[q])
  BY DEF Put
<1>2. t \in DOMAIN tenant' /\ tenant'[t] = e  BY DEF Put
<1>3. QED  BY <1>1, <1>2 DEF OwnDirs

LEMMA InitIInv == Init => IInv
<1> SUFFICES ASSUME Init PROVE IInv  OBVIOUS
<1>1. Shape  BY DEF Init, Shape, Idle, Dead
<1>2. OwnDirs
  <2>1. DOMAIN tenant = {<<First>>}  BY DEF Init
  <2>2. tenant[<<First>>].man.registry = Dir(<<First>>) \o <<Registry>>
        /\ "registry" \in DOMAIN tenant[<<First>>].man
    BY DEF Init
  <2>3. QED  BY <2>1, <2>2, RegistryOwn, OwnIsKnown DEF OwnDirs, Manifest
<1>3. ArchivedManifests  BY DEF Init, ArchivedManifests, Published
<1>4. OwnFiles  BY DEF Init, OwnFiles, Dead
<1>5. JobTenant  BY DEF Init, JobTenant, Holding, Idle
<1>6. QED  BY <1>1, <1>2, <1>3, <1>4, <1>5 DEF IInv

-----------------------------------------------------------------------------
(* The steps *)

\* A step of the deployment: it starts and ends services and writes journals.
LEMMA ServiceKeeps ==
  ASSUME IInv, NEW n \in Names, Service(n)
  PROVE  IInv'
<1>1. UNCHANGED <<tenant, arch, job>>  BY DEF Service, Up, Append1, Gone
<1>2. OwnDirs' /\ ArchivedManifests' /\ JobTenant'
  BY <1>1 DEF IInv, OwnDirs, ArchivedManifests, Published, JobTenant
<1>3. CASE Up(n)
  <2> DEFINE f == tenant[<<n>>].man.registry
  <2>1. proc' = [proc EXCEPT ![n] = [file |-> f, whole |-> tenant[<<n>>].whole]]
        /\ <<n>> \in DOMAIN tenant
    BY <1>3 DEF Up, Started
  <2>2. tenant[<<n>>].whole => OwnPath(f, n)
    <3>1. <<n>>[1] = n  OBVIOUS
    <3>2. QED  BY <2>1, <3>1 DEF IInv, OwnDirs
  <2>3. Shape'  BY <1>1, <2>1 DEF IInv, Shape
  <2>4. OwnFiles'  BY <2>1, <2>2 DEF IInv, Shape, OwnFiles
  <2>5. QED  BY <1>2, <2>3, <2>4 DEF IInv
<1>4. CASE Append1(n)
  BY <1>1, <1>2, <1>4 DEF Append1, IInv, Shape, OwnFiles
<1>5. CASE Gone(n)
  <2>1. proc' = [proc EXCEPT ![n] = Dead]  BY <1>5 DEF Gone
  <2>2. Shape'  BY <1>1, <2>1 DEF IInv, Shape, Dead
  <2>3. OwnFiles'  BY <2>1 DEF IInv, Shape, OwnFiles, Dead
  <2>4. QED  BY <1>2, <2>2, <2>3 DEF IInv
<1>6. QED  BY <1>3, <1>4, <1>5 DEF Service

\* A backup holds the root's manifest.
LEMMA CaptureKeeps ==
  ASSUME IInv, NEW b, Capture(b)
  PROVE  ArchivedManifests' /\ DOMAIN arch' = Labels
<1> DEFINE l == [of |-> b, kind |-> "backup", at |-> now']
<1>1. arch' = [arch EXCEPT ![l] = [man |-> RootManifest, files |-> disk]]  BY DEF Capture
<1>2. DOMAIN arch' = Labels  BY <1>1 DEF IInv, Shape
<1>3. \A k \in Labels : arch'[k] = arch[k] \/ arch'[k].man = RootManifest
  BY <1>1 DEF IInv, Shape
<1>4. QED  BY <1>2, <1>3, RootIsManifest DEF IInv, ArchivedManifests, Published

LEMMA ArchiveKeeps ==
  ASSUME IInv, (\E b \in BackupNames : Backup(b)) \/ (\E l \in Labels : Prune(l))
  PROVE  IInv'
<1>1. UNCHANGED <<tenant, proc, job>>  BY DEF Backup, Prune
<1>2. ArchivedManifests' /\ DOMAIN arch' = Labels
  <2>1. CASE \E b \in BackupNames : Backup(b)  BY <2>1, CaptureKeeps DEF Backup
  <2>2. CASE \E l \in Labels : Prune(l)
    <3>1. PICK l \in Labels : arch' = [arch EXCEPT ![l] = None]  BY <2>2 DEF Prune
    <3>2. QED  BY <3>1 DEF IInv, Shape, ArchivedManifests, Published
  <2>3. QED  BY <2>1, <2>2
<1>3. QED  BY <1>1, <1>2 DEF IInv, Shape, OwnDirs, OwnFiles, JobTenant

\* A job begins, or goes on without a change to tenants or archives.
LEMMA JobKeeps ==
  ASSUME IInv, UNCHANGED <<tenant, proc>>, DOMAIN job' = DOMAIN job,
         arch' = arch \/ (ArchivedManifests' /\ DOMAIN arch' = Labels),
         job'.pc \in Holding => job'.t \in DOMAIN tenant /\ Manifest(tenant[job'.t].man),
         job'.pc = "list" => job'.t = <<job'.t[1]>>
  PROVE  IInv'
BY DEF IInv, Shape, OwnDirs, OwnFiles, JobTenant, ArchivedManifests, Published

LEMMA RestoreKeeps == ASSUME IInv, Restore PROVE IInv'
<1> USE DEF IInv, Shape, Holding
<1>1. ASSUME NEW l \in Labels, NEW n \in Names, NEW force \in BOOLEAN, RestoreBegin(l, n, force)
      PROVE  IInv'
  <2>1. UNCHANGED <<tenant, proc, arch>> /\ job'.pc = "aside" /\ DOMAIN job' = DOMAIN job
    BY <1>1 DEF RestoreBegin, Idle
  <2>2. QED  BY <2>1, JobKeeps
<1>2. CASE SetAside
  <2> DEFINE aside == <<job.t[1], "pre-restore", now>>
  <2>1. arch' = arch /\ job' = [job EXCEPT !.pc = "mkdir"]  BY <1>2 DEF SetAside
  <2>2. DOMAIN job' = DOMAIN job /\ job'.pc = "mkdir"  BY <2>1
  <2>3. CASE job.t \in DOMAIN tenant
    <3>1. Rename(job.t, aside)  BY <1>2, <2>3 DEF SetAside
    <3>2. job.t[1] = aside[1]  OBVIOUS
    <3> HIDE DEF aside
    <3>3. OwnDirs' /\ OwnFiles' /\ DOMAIN proc' = Names
          /\ \A n \in Names : DOMAIN proc'[n] = {"file", "whole"}
      BY <2>3, <3>1, <3>2, RenameOwn
    <3>4. QED  BY <2>1, <2>2, <3>3 DEF ArchivedManifests, Published, JobTenant
  <2>4. CASE job.t \notin DOMAIN tenant
    <3>1. UNCHANGED <<tenant, proc>>  BY <1>2, <2>4 DEF SetAside
    <3>2. QED  BY <2>1, <2>2, <3>1, JobKeeps
  <2>5. QED  BY <2>3, <2>4
<1>3. CASE MakeDir
  <2> DEFINE e == [man |-> arch[job.src].man, whole |-> FALSE]
  <2>1. tenant' = Put(tenant, job.t, e) /\ UNCHANGED <<arch, proc>> /\ job.src \in Published
    BY <1>3 DEF MakeDir
  <2>2. DOMAIN job' = DOMAIN job /\ job'.t = job.t /\ job'.pc = "unpack"  BY <1>3 DEF MakeDir
  <2>3. Manifest(e.man)  BY <2>1 DEF ArchivedManifests
  <2>4. ~e.whole  OBVIOUS
  <2> HIDE DEF e
  <2>5. OwnDirs' /\ job.t \in DOMAIN tenant' /\ tenant'[job.t] = e
    BY <2>1, <2>3, <2>4, PutOwn
  <2>6. QED  BY <2>1, <2>2, <2>3, <2>5 DEF ArchivedManifests, Published, OwnFiles, JobTenant
<1>4. CASE Unpack
  <2>1. UNCHANGED <<tenant, proc, arch>> /\ job'.t = job.t /\ job.pc = "unpack"
        /\ job'.pc = "unpack" /\ DOMAIN job' = DOMAIN job
    BY <1>4 DEF Unpack
  <2>2. QED  BY <2>1, JobKeeps DEF JobTenant
<1>5. CASE RestoreDone
  <2> DEFINE man == tenant[job.t].man
             e == [man |-> [k \in DOMAIN man |-> Rewrite(man[k], job.t)], whole |-> TRUE]
  <2>1. tenant' = Put(tenant, job.t, e) /\ UNCHANGED <<arch, proc>> /\ job.pc = "unpack"
    BY <1>5 DEF RestoreDone
  <2>2. DOMAIN job' = DOMAIN job /\ job'.pc \in {"parity", "idle"}
    BY <1>5 DEF RestoreDone, Idle
  <2>3. Manifest(man)  BY <2>1 DEF JobTenant
  <2>4. "registry" \in DOMAIN e.man /\ e.man.registry = Rewrite(man.registry, job.t)
    BY <2>3 DEF Manifest
  <2>5. OwnPath(e.man.registry, job.t[1])  BY <2>3, <2>4, RewriteOwn DEF Manifest
  <2>6. Manifest(e.man)  BY <2>4, <2>5, OwnIsKnown DEF Manifest
  <2> HIDE DEF e
  <2>7. OwnDirs'  BY <2>1, <2>5, <2>6, PutOwn
  <2>8. QED  BY <2>1, <2>2, <2>7 DEF ArchivedManifests, Published, OwnFiles, JobTenant
<1>6. QED  BY <1>1, <1>2, <1>3, <1>4, <1>5 DEF Restore

LEMMA DrillKeeps == ASSUME IInv, DrillJob PROVE IInv'
<1> USE DEF IInv, Shape, Holding
<1>1. CASE DrillBegin
  <2>1. UNCHANGED <<tenant, proc>> /\ job'.pc = "pick" /\ DOMAIN job' = DOMAIN job
    BY <1>1 DEF DrillBegin, Idle
  <2>2. ArchivedManifests' /\ DOMAIN arch' = Labels  BY <1>1, CaptureKeeps DEF DrillBegin
  <2>3. QED  BY <2>1, <2>2, JobKeeps
<1>2. CASE DrillPick
  <2>1. UNCHANGED <<tenant, proc, arch>> /\ job'.pc = "aside" /\ DOMAIN job' = DOMAIN job
    BY <1>2 DEF DrillPick
  <2>2. QED  BY <2>1, JobKeeps
<1>3. ASSUME NEW keep \in BOOLEAN, DrillEnd(keep) PROVE IInv'
  <2>1. UNCHANGED <<arch, proc>> /\ job' = Idle  BY <1>3 DEF DrillEnd
  <2>2. tenant' = tenant \/ tenant' = Without(tenant, {job.t})  BY <1>3 DEF DrillEnd
  <2>3. OwnDirs'  BY <2>2 DEF OwnDirs, Without
  <2>4. QED  BY <2>1, <2>3 DEF Idle, ArchivedManifests, Published, OwnFiles, JobTenant
<1>4. QED  BY <1>1, <1>2, <1>3 DEF DrillJob

LEMMA DecommissionKeeps == ASSUME IInv, Decommission PROVE IInv'
<1> USE DEF IInv, Shape, Holding
<1>1. ASSUME NEW n \in Names, NEW kind, BundleBegin(n, kind) PROVE IInv'
  <2>1. UNCHANGED <<tenant, proc, arch>> /\ job'.pc = "list" /\ job'.t = <<n>>
        /\ DOMAIN job' = DOMAIN job
    BY <1>1 DEF BundleBegin, Idle
  <2>2. QED  BY <2>1, JobKeeps
<1>2. CASE ListJournals
  <2>1. UNCHANGED <<tenant, proc, arch>> /\ job'.t = job.t /\ DOMAIN job' = DOMAIN job
        /\ job'.pc = "copy" /\ job.pc = "list"
    BY <1>2 DEF ListJournals
  <2>2. job.t \in DOMAIN tenant /\ Manifest(tenant[job.t].man)
    BY <1>2, <2>1 DEF ListJournals, Started, OwnDirs, JobTenant
  <2>3. QED  BY <2>1, <2>2, JobKeeps
<1>3. CASE CopyJournal
  <2>1. UNCHANGED <<tenant, proc, arch>> /\ job'.t = job.t /\ job.pc = "copy"
        /\ job'.pc = "copy" /\ DOMAIN job' = DOMAIN job
    BY <1>3 DEF CopyJournal
  <2>2. QED  BY <2>1, JobKeeps DEF JobTenant
<1>4. CASE PublishBundle
  <2> DEFINE e == [man |-> tenant[job.t].man, files |-> job.got]
  <2>1. /\ UNCHANGED <<tenant, proc>> /\ job.pc = "copy" /\ DOMAIN job' = DOMAIN job
        /\ job'.pc = "idle" \/ (job'.pc = "verify" /\ job'.t = job.t)
        /\ arch' = [arch EXCEPT ![job.own] = e]
    BY <1>4 DEF PublishBundle, Idle
  <2>2. job.t \in DOMAIN tenant /\ Manifest(tenant[job.t].man) /\ Manifest(e.man)
    BY <2>1 DEF JobTenant
  <2> HIDE DEF e
  <2>3. ArchivedManifests' /\ DOMAIN arch' = Labels
    BY <2>1, <2>2 DEF ArchivedManifests, Published
  <2>4. QED  BY <2>1, <2>2, <2>3, JobKeeps
<1>5. CASE VerifyBundle
  <2>1. UNCHANGED <<tenant, proc, arch>> /\ job.pc = "verify" /\ job'.pc = "retire"
        /\ job'.t = job.t /\ DOMAIN job' = DOMAIN job
    BY <1>5 DEF VerifyBundle
  <2>2. QED  BY <2>1, JobKeeps DEF JobTenant
<1>6. CASE Retire
  <2> DEFINE aside == <<job.t[1], "retired", now>>
  <2>1. arch' = arch /\ job' = Idle /\ job.pc = "retire" /\ Rename(job.t, aside)
    BY <1>6 DEF Retire
  <2>2. job.t \in DOMAIN tenant /\ job.t[1] = aside[1]  BY <2>1 DEF JobTenant
  <2> HIDE DEF aside
  <2>3. OwnDirs' /\ OwnFiles' /\ DOMAIN proc' = Names
        /\ \A n \in Names : DOMAIN proc'[n] = {"file", "whole"}
    BY <2>1, <2>2, RenameOwn
  <2>4. QED  BY <2>1, <2>3 DEF ArchivedManifests, Published, JobTenant, Idle
<1>7. QED  BY <1>1, <1>2, <1>3, <1>4, <1>5, <1>6 DEF Decommission

LEMMA ReinstateKeeps == ASSUME IInv, NEW n \in Names, Reinstate(n) PROVE IInv'
<1> USE DEF IInv, Shape
<1>1. PICK why \in {"pre-restore", "retired"}, at \in 0 .. MaxTime :
        <<n, why, at>> \in DOMAIN tenant /\ Rename(<<n, why, at>>, <<n>>)
  BY DEF Reinstate
<1> DEFINE t == <<n, why, at>>
<1>2. UNCHANGED <<arch, job>> /\ job.pc = "idle"  BY DEF Reinstate
<1>3. t[1] = <<n>>[1] /\ t \in DOMAIN tenant /\ Rename(t, <<n>>)  BY <1>1
<1> HIDE DEF t
<1>4. OwnDirs' /\ OwnFiles' /\ DOMAIN proc' = Names
      /\ \A m \in Names : DOMAIN proc'[m] = {"file", "whole"}
  BY <1>3, RenameOwn
<1>5. QED  BY <1>2, <1>4 DEF ArchivedManifests, Published, JobTenant, Holding

LEMMA DeathKeeps == ASSUME IInv, JobDies PROVE IInv'
<1> USE DEF IInv, Shape
<1> DEFINE torn == [man |-> NoManifest, whole |-> FALSE]
<1>1. UNCHANGED <<arch, proc>> /\ job' = Idle  BY DEF JobDies
<1>2. tenant' = tenant \/ tenant' = Put(tenant, job.t, torn)  BY DEF JobDies
<1>3. torn.man = NoManifest /\ ~torn.whole  OBVIOUS
<1> HIDE DEF torn
<1>4. OwnDirs'  BY <1>2, <1>3, PutOwn DEF OwnDirs
<1>5. QED  BY <1>1, <1>4 DEF ArchivedManifests, Published, OwnFiles, JobTenant, Holding, Idle

LEMMA StepIInv == IInv /\ [Next]_vars => IInv'
<1> SUFFICES ASSUME IInv, [Next]_vars PROVE IInv'  OBVIOUS
<1>1. CASE Next
  BY <1>1, ServiceKeeps, ReinstateKeeps, ArchiveKeeps, RestoreKeeps, DrillKeeps,
     DecommissionKeeps, DeathKeeps DEF Next
<1>2. CASE UNCHANGED vars
  BY <1>2 DEF vars, IInv, Shape, OwnDirs, ArchivedManifests, Published, OwnFiles, JobTenant
<1>3. QED  BY <1>1, <1>2

\* What services and archives know of tenants holds in every state (restore.rs,
\* bundle.rs, drill.rs, beside cmd_tenant).
THEOREM TenantsInductive == Spec => []IInv
BY InitIInv, StepIInv, PTL DEF Spec

\* "A restored deployment must never write the origin's journals" (restore.rs 5-6),
\* for any number of tenants, restores, deaths, forced replacements and reversals.
THEOREM NeverTheOrigins == Spec => []WritesOwn
<1>1. IInv => WritesOwn  BY DEF IInv, OwnFiles, OwnPath, WritesOwn
<1>2. QED  BY <1>1, TenantsInductive, PTL

-----------------------------------------------------------------------------
(* What a decommission calls preserved *)

Clock == now \in 0 .. MaxTime /\ \A l \in Published : l.at \in 0 .. now

OwnLabel ==
  /\ job.own.of = job.t[1] /\ job.own.kind = "data" /\ job.own.at \in 0 .. now
  /\ \A l \in Published : l.kind = "data" /\ l.of = job.t[1] => l.at <= job.own.at

\* What was listed is copied, or still there.
Copying ==
  job.pc = "copy" =>
    /\ OwnLabel
    /\ job.left \subseteq DOMAIN disk /\ job.left \cap DOMAIN job.got = {}
    /\ job.had \subseteq Entries(job.got) \cup UNION {disk[p] : p \in job.left}

\* The final bundle, if no prune took it, holds it; so does what was looked up.
Bundled ==
  job.pc \in {"verify", "retire"} =>
    /\ OwnLabel
    /\ job.own \in Published => job.had \subseteq Entries(arch[job.own].files)
    /\ job.own \in Published /\ job.pc = "retire" => job.src = job.own

Listing == job.pc = "list" => job.got = <<>>

BInv == Clock /\ Listing /\ Copying /\ Bundled

LEMMA InitBInv == Init => BInv
BY TenantsAssumption DEF Init, BInv, Clock, Listing, Published, Copying, Bundled, Idle

\* Services write over nothing.
LEMMA ServiceGrows ==
  ASSUME NEW n \in Names, Service(n)
  PROVE  /\ UNCHANGED <<now, arch, job>>
         /\ \A p \in DOMAIN disk : p \in DOMAIN disk' /\ disk[p] \subseteq disk'[p]
<1>1. CASE Up(n)  BY <1>1 DEF Up, Put
<1>2. CASE Append1(n)  BY <1>2 DEF Append1, Put
<1>3. CASE Gone(n)  BY <1>3 DEF Gone
<1>4. QED  BY <1>1, <1>2, <1>3 DEF Service

LEMMA ServiceBundles == ASSUME BInv, NEW n \in Names, Service(n) PROVE BInv'
<1>1. /\ UNCHANGED <<now, arch, job>>
      /\ \A p \in DOMAIN disk : p \in DOMAIN disk' /\ disk[p] \subseteq disk'[p]
  BY ServiceGrows
<1>2. Clock' /\ Listing' /\ Bundled'
  BY <1>1 DEF BInv, Clock, Listing, Published, Bundled, OwnLabel
<1>3. Copying'
  <2> SUFFICES ASSUME job.pc = "copy" PROVE Copying'  BY <1>1 DEF Copying
  <2>1. OwnLabel' /\ job.left \subseteq DOMAIN disk'
    BY <1>1 DEF BInv, Copying, OwnLabel, Published
  <2>2. UNION {disk[p] : p \in job.left} \subseteq UNION {disk'[p] : p \in job.left}
    BY <1>1 DEF BInv, Copying
  <2>3. QED  BY <1>1, <2>1, <2>2 DEF BInv, Copying
<1>4. QED  BY <1>2, <1>3 DEF BInv

\* A backup has no bundle's label.
LEMMA CaptureLabel ==
  ASSUME IInv, BInv, NEW b, Capture(b), NextRun
  PROVE  /\ now \in 0 .. now' /\ now' \in 0 .. MaxTime
         /\ \A k \in Published' : k \in Published \/ (k.kind = "backup" /\ k.at = now')
         /\ \A k \in Labels : k.kind = "data" => arch'[k] = arch[k]
<1> DEFINE l == [of |-> b, kind |-> "backup", at |-> now']
<1>1. now \in 0 .. now' /\ now' \in 0 .. MaxTime  BY DEF BInv, Clock, NextRun
<1>2. arch' = [arch EXCEPT ![l] = [man |-> RootManifest, files |-> disk]]  BY DEF Capture
<1>3. \A k \in Labels : k # l => arch'[k] = arch[k]  BY <1>2 DEF IInv, Shape
<1>4. QED  BY <1>1, <1>3 DEF Published

LEMMA ArchiveBundles ==
  ASSUME IInv, BInv, (\E b \in BackupNames : Backup(b)) \/ (\E l \in Labels : Prune(l))
  PROVE  BInv'
<1>1. UNCHANGED <<disk, job>> /\ now \in 0 .. now' /\ now' \in 0 .. MaxTime
  BY DEF Backup, Prune, NextRun, BInv, Clock
<1>2. /\ \A k \in Published' : k \in Published \/ (k.kind = "backup" /\ k.at = now')
      /\ \A k \in Published' : k.kind = "data" => arch'[k] = arch[k]
  <2>1. CASE \E b \in BackupNames : Backup(b)
    BY <2>1, CaptureLabel DEF Backup, Published
  <2>2. CASE \E l \in Labels : Prune(l)
    <3>1. PICK l \in Labels : arch' = [arch EXCEPT ![l] = None]  BY <2>2 DEF Prune
    <3>2. QED  BY <3>1 DEF IInv, Shape, Published
  <2>3. QED  BY <2>1, <2>2
<1>3. Clock' /\ Listing'  BY <1>1, <1>2 DEF BInv, Clock, Listing
<1>4. OwnLabel => OwnLabel'  BY <1>1, <1>2 DEF OwnLabel, BInv, Clock
<1>5. Copying'  BY <1>1, <1>4 DEF BInv, Copying
<1>6. Bundled'
  <2>1. OwnLabel /\ job.own \in Published' => job.own \in Published /\ arch'[job.own] = arch[job.own]
    BY <1>2 DEF OwnLabel
  <2>2. QED  BY <1>1, <1>4, <2>1 DEF BInv, Bundled
<1>7. QED  BY <1>3, <1>5, <1>6 DEF BInv

\* A step of a job, or of its end, that has nothing to do with a bundle.
LEMMA OtherBundles ==
  ASSUME BInv, now \in 0 .. now', now' \in 0 .. MaxTime,
         \A l \in Published' : l \in Published \/ l.at \in 0 .. now',
         job'.pc \notin {"copy", "verify", "retire"}, job'.pc = "list" => job'.got = <<>>
  PROVE  BInv'
BY DEF BInv, Clock, Listing, Copying, Bundled

LEMMA RestoreBundles == ASSUME IInv, BInv, Restore \/ DrillJob PROVE BInv'
<1> USE DEF IInv, Shape
<1>1. ASSUME NEW l \in Labels, NEW n \in Names, NEW force \in BOOLEAN, RestoreBegin(l, n, force)
      PROVE  BInv'
  <2>1. arch' = arch /\ job'.pc = "aside" /\ now \in 0 .. now' /\ now' \in 0 .. MaxTime
    BY <1>1 DEF RestoreBegin, Idle, NextJob, NextRun, BInv, Clock
  <2>2. QED  BY <2>1, OtherBundles DEF Published
<1>2. CASE SetAside \/ MakeDir \/ Unpack \/ RestoreDone
  <2>1. arch' = arch /\ now' = now
    BY <1>2 DEF SetAside, MakeDir, Unpack, RestoreDone
  <2>2. job'.pc \in {"mkdir", "unpack", "parity", "idle"}
    <3>1. CASE SetAside  BY <3>1 DEF SetAside
    <3>2. CASE MakeDir  BY <3>2 DEF MakeDir
    <3>3. CASE Unpack  BY <3>3 DEF Unpack
    <3>4. CASE RestoreDone  BY <3>4 DEF RestoreDone, Idle
    <3>5. QED  BY <1>2, <3>1, <3>2, <3>3, <3>4
  <2>3. QED  BY <2>1, <2>2, OtherBundles DEF Published, BInv, Clock
<1>3. CASE DrillBegin
  <2>1. Capture("drill") /\ NextRun /\ job'.pc = "pick"  BY <1>3 DEF DrillBegin, NextJob, Idle
  <2>2. QED  BY <2>1, CaptureLabel, OtherBundles
<1>4. ASSUME DrillPick \/ \E keep \in BOOLEAN : DrillEnd(keep) PROVE BInv'
  <2>1. arch' = arch /\ now' = now  BY <1>4 DEF DrillPick, DrillEnd
  <2>2. CASE DrillPick
    <3>1. job'.pc = "aside"  BY <2>2 DEF DrillPick
    <3>2. QED  BY <2>1, <3>1, OtherBundles DEF Published, BInv, Clock
  <2>3. CASE \E keep \in BOOLEAN : DrillEnd(keep)
    <3>1. job'.pc = "idle"  BY <2>3 DEF DrillEnd, Idle
    <3>2. QED  BY <2>1, <3>1, OtherBundles DEF Published, BInv, Clock
  <2>4. QED  BY <1>4, <2>2, <2>3
<1>5. QED  BY <1>1, <1>2, <1>3, <1>4 DEF Restore, DrillJob

LEMMA DecommissionBundles == ASSUME IInv, BInv, Decommission PROVE BInv'
<1> USE DEF IInv, Shape
<1>1. ASSUME NEW n \in Names, NEW kind, BundleBegin(n, kind) PROVE BInv'
  <2>1. arch' = arch /\ job'.pc = "list" /\ now \in 0 .. now' /\ now' \in 0 .. MaxTime
    BY <1>1 DEF BundleBegin, Idle, NextJob, NextRun, BInv, Clock
  <2>2. job'.got = <<>>  BY <1>1 DEF BundleBegin, Idle
  <2>3. QED  BY <2>1, <2>2, OtherBundles DEF Published
<1>2. CASE ListJournals
  <2> DEFINE own == [of |-> job.t[1], kind |-> "data", at |-> now]
             found == {p \in DOMAIN disk : In(job.t, p)}
             had == UNION {disk[p] : p \in found}
  <2>1. UNCHANGED <<disk, arch, now>>  BY <1>2 DEF ListJournals
  <2>2. job' = [job EXCEPT !.pc = "copy", !.own = own, !.left = found, !.had = had]
    BY <1>2 DEF ListJournals
  <2>3. OwnLabel'  BY <2>1, <2>2 DEF OwnLabel, BInv, Clock, Published
  <2>4. found \subseteq DOMAIN disk  OBVIOUS
  <2>5. job.got = <<>>  BY <1>2 DEF ListJournals, BInv, Listing
  <2> HIDE DEF own, found
  <2>6. job'.pc = "copy" /\ job'.left = found /\ job'.had = had /\ job'.got = job.got  BY <2>2
  <2>7. Copying'  BY <2>1, <2>3, <2>4, <2>5, <2>6 DEF Copying
  <2>8. QED  BY <2>1, <2>6, <2>7 DEF BInv, Clock, Listing, Published, Bundled
<1>3. CASE CopyJournal
  <2>1. Next1 \in job.left  BY <1>3 DEF CopyJournal, Next1
  <2>2. /\ UNCHANGED <<disk, arch, now>> /\ job.pc = "copy"
        /\ job' = [job EXCEPT !.got = Put(job.got, Next1, disk[Next1]), !.left = @ \ {Next1}]
    BY <1>3 DEF CopyJournal
  <2> DEFINE p == Next1
  <2> HIDE DEF p
  <2>3. /\ job'.got = Put(job.got, p, disk[p]) /\ job'.left = job.left \ {p}
        /\ job'.pc = "copy" /\ job'.own = job.own /\ job'.t = job.t /\ job'.had = job.had
    BY <2>2 DEF p
  <2>4. p \in job.left /\ p \notin DOMAIN job.got  BY <2>1, <2>2 DEF p, BInv, Copying
  <2>5. /\ DOMAIN job'.got = DOMAIN job.got \cup {p} /\ job'.got[p] = disk[p]
        /\ \A q \in DOMAIN job.got : job'.got[q] = job.got[q]
    BY <2>3, <2>4 DEF Put
  <2>6. Entries(job'.got) = Entries(job.got) \cup disk[p]  BY <2>5 DEF Entries
  <2>7. UNION {disk[q] : q \in job.left} \subseteq disk[p] \cup UNION {disk[q] : q \in job.left \ {p}}
    OBVIOUS
  <2>8. OwnLabel'  BY <2>2, <2>3 DEF OwnLabel, BInv, Copying, Published
  <2>9. job'.left \subseteq DOMAIN disk /\ job'.left \cap DOMAIN job'.got = {}
    BY <2>2, <2>3, <2>5 DEF BInv, Copying
  <2>10. job'.had \subseteq Entries(job'.got) \cup UNION {disk[q] : q \in job'.left}
    BY <2>2, <2>3, <2>6, <2>7 DEF BInv, Copying
  <2>11. QED  BY <2>2, <2>3, <2>8, <2>9, <2>10 DEF BInv, Clock, Listing, Published, Copying, Bundled
<1>4. CASE PublishBundle
  <2> DEFINE e == [man |-> tenant[job.t].man, files |-> job.got]
  <2>1. /\ now' = now /\ job.pc = "copy" /\ job.left = {} /\ arch' = [arch EXCEPT ![job.own] = e]
        /\ job' = Idle \/ job' = [job EXCEPT !.pc = "verify"]
    BY <1>4 DEF PublishBundle
  <2>2. e.files = job.got  OBVIOUS
  <2> HIDE DEF e
  <2>3. OwnLabel /\ job.had \subseteq Entries(job.got)  BY <2>1 DEF BInv, Copying
  <2>4. \A l \in Published' : l \in Published \/ l = job.own  BY <2>1 DEF Published
  <2>5. Clock'  BY <2>1, <2>3, <2>4 DEF BInv, Clock, OwnLabel
  <2>6. CASE job' = Idle  BY <2>5, <2>6 DEF Idle, BInv, Listing, Copying, Bundled
  <2>7. CASE job' = [job EXCEPT !.pc = "verify"]
    <3>1. job'.pc = "verify" /\ job'.own = job.own /\ job'.t = job.t /\ job'.had = job.had
      BY <2>7
    <3>2. OwnLabel'  BY <2>1, <2>3, <2>4, <3>1 DEF OwnLabel
    <3>3. job.own \in Published' => arch'[job.own].files = job.got
      BY <2>1, <2>2 DEF Published
    <3>4. QED  BY <2>3, <2>5, <3>1, <3>2, <3>3 DEF BInv, Listing, Copying, Bundled
  <2>8. QED  BY <2>1, <2>6, <2>7
<1>5. CASE VerifyBundle
  <2>1. UNCHANGED <<arch, now>> /\ job.pc = "verify"  BY <1>5 DEF VerifyBundle
  <2>2. PICK l \in NewestBundle : job' = [job EXCEPT !.pc = "retire", !.src = l]
    BY <1>5 DEF VerifyBundle
  <2>3. job'.pc = "retire" /\ job'.src = l /\ job'.own = job.own /\ job'.t = job.t /\ job'.had = job.had
    BY <2>2
  <2>4. OwnLabel' /\ OwnLabel  BY <2>1, <2>3 DEF BInv, Bundled, OwnLabel, Published
  <2>5. l \in Published /\ l.kind = "data" /\ l.of = job.t[1]
        /\ \A k \in Bundles : k.at <= l.at
    BY <2>2 DEF NewestBundle, Newest, Bundles
  <2>6. ASSUME job.own \in Published PROVE l = job.own
    <3>1. job.own \in Bundles  BY <2>4, <2>6 DEF Bundles, OwnLabel
    <3>2. l.at <= job.own.at /\ job.own.at <= l.at  BY <2>4, <2>5, <3>1 DEF OwnLabel
    <3>3. l.at \in Int /\ job.own.at \in Int /\ l \in Labels /\ job.own \in Labels
      BY <2>4, <2>5, <2>6 DEF OwnLabel, Published, Labels
    <3>4. l.at = job.own.at  BY <3>2, <3>3
    <3>5. QED  BY <2>4, <2>5, <3>3, <3>4 DEF OwnLabel, Labels
  <2>7. QED  BY <2>1, <2>3, <2>4, <2>6 DEF BInv, Clock, Listing, Published, Copying, Bundled
<1>6. CASE Retire
  <2>1. arch' = arch /\ now' = now /\ job' = Idle  BY <1>6 DEF Retire
  <2>2. QED  BY <2>1, OtherBundles DEF Published, BInv, Clock, Idle
<1>7. QED  BY <1>1, <1>2, <1>3, <1>4, <1>5, <1>6 DEF Decommission

LEMMA StepBInv == IInv /\ BInv /\ [Next]_vars => BInv'
<1> SUFFICES ASSUME IInv, BInv, [Next]_vars PROVE BInv'  OBVIOUS
<1>1. ASSUME NEW n \in Names, Reinstate(n) PROVE BInv'
  BY <1>1, OtherBundles DEF Reinstate, Published, BInv, Clock
<1>2. CASE JobDies
  BY <1>2, OtherBundles DEF JobDies, Idle, Published, BInv, Clock
<1>3. CASE UNCHANGED vars
  BY <1>3 DEF vars, BInv, Clock, Listing, Published, OwnLabel, Copying, Bundled
<1>4. QED
  BY <1>1, <1>2, <1>3, ServiceBundles, ArchiveBundles, RestoreBundles, DecommissionBundles DEF Next

\* "Prove its state is preserved (a final verified data-only bundle), then move it
\* aside" (bundle.rs 271-273): whatever dies, writes or is pruned meanwhile.
THEOREM FinalBundleIsWhole == Spec => DecommissionedIsBundled
<1>1. IInv /\ BInv =>
        (Retire /\ {job.src, job.own} \subseteq Published => job.had \subseteq Entries(arch[job.src].files))
  BY DEF BInv, Bundled, Retire
<1>2. Spec => [](IInv /\ BInv)
  BY InitIInv, InitBInv, StepIInv, StepBInv, PTL DEF Spec
<1>3. QED  BY <1>1, <1>2, PTL DEF DecommissionedIsBundled
=============================================================================
