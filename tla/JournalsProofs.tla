---------------------------- MODULE JournalsProofs ----------------------------
(***************************************************************************)
(* Proofs about Tenants: what becomes of the journals, for any tenants,    *)
(* names of backups and bounds.                                            *)
(***************************************************************************)
EXTENDS TenantsProofs

-----------------------------------------------------------------------------
(* The inductive invariant *)

\* What journals are called: on disk, in archives, on the way from one to the other.
GoodPath(p) == Path(p) /\ Len(p) > 0

Counters == now \in 0 .. MaxTime /\ jobs \in 0 .. MaxJobs /\ count \in 3 .. MaxEntries

\* A journal under tenants/ is in a tenant that is there.
DiskGood ==
  \A p \in DOMAIN disk :
    /\ GoodPath(p) /\ disk[p] \subseteq 1 .. count
    /\ p[1] = TenantsDir => Len(p) > 2 /\ p[2] \in DOMAIN tenant

\* A drill has a tenant of its own, which goes with the drill; the other jobs are
\* about a tenant that has its name. Nothing names a journal of a drill's tenant
\* but its own manifest, so that no service writes there.
DrillDir(t) == Len(t) = 3 /\ t[2] = "at"
DrillFile(p) == p[1] = TenantsDir /\ DrillDir(p[2])

TenantGood ==
  \A t \in DOMAIN tenant :
    tenant[t].man # NoManifest => DrillDir(t) \/ ~DrillFile(tenant[t].man.registry)
ArchGood ==
  /\ \A l \in Labels : Entries(arch[l].files) \subseteq 1 .. count
  /\ \A l \in Labels : \A p \in DOMAIN arch[l].files : GoodPath(p)
  /\ \A l \in Published : ~DrillFile(arch[l].man.registry)
ProcGood ==
  \A n \in Names : Alive(n) => proc[n].file \in DOMAIN disk /\ ~DrillFile(proc[n].file)
JobGood ==
  /\ job.pc \in {"idle", "aside", "mkdir", "unpack", "pick", "parity", "list", "copy",
                 "verify", "retire"}
  /\ IF job.kind = "drill" THEN DrillDir(job.t) ELSE job.t = <<job.t[1]>>
  /\ job.pc = "parity" => job.kind = "drill"
  /\ job.pc \in {"list", "copy", "verify", "retire"} => job.kind # "drill"
  /\ \A p \in job.left \cup DOMAIN job.got : GoodPath(p)
  /\ Entries(job.got) \subseteq 1 .. count

\* A tenant is not there when its directory is made, a drill's at no time before.
Absent ==
  job.pc = "mkdir" \/ (job.kind = "drill" /\ job.pc \in {"pick", "aside"})
    => job.t \notin DOMAIN tenant

\* While a tenant is unpacked, and a drill's until it goes, all entries are in
\* journals elsewhere, and services write there.
Elsewhere == UNION {disk[p] : p \in {q \in DOMAIN disk : ~In(job.t, q)}}
Apart ==
  job.pc \in {"unpack", "parity"} /\ ~beside =>
    /\ 1 .. count \subseteq Elsewhere
    /\ \A n \in Names : Alive(n) => ~In(job.t, proc[n].file)

\* What has been unpacked is as it was archived.
Unpacked ==
  job.pc = "unpack" /\ job.src \in Published =>
    /\ job.left \subseteq DOMAIN arch[job.src].files
    /\ ~beside /\ ~Collides(job.src, job.t) =>
         \A m \in DOMAIN arch[job.src].files \ job.left :
           /\ Lands(m, job.src, job.t) \in DOMAIN disk
           /\ disk[Lands(m, job.src, job.t)] = arch[job.src].files[m]

KInv ==
  /\ Counters /\ DiskGood /\ TenantGood /\ ArchGood /\ ProcGood /\ JobGood
  /\ Absent /\ Apart /\ Unpacked /\ NothingLost

LEMMA Typed == KInv => TypeOK
  BY DEF KInv, Counters, DiskGood, ArchGood, ProcGood, JobGood, TypeOK

-----------------------------------------------------------------------------
(* Paths *)

LEMMA InIff ==
  ASSUME NEW p, Path(p), NEW t
  PROVE  In(t, p) <=> Len(p) > 2 /\ p[1] = TenantsDir /\ p[2] = t
<1>1. PICK S : p \in Seq(S)
  BY DEF Path
<1>2. CASE Len(p) > 2
  <2> DEFINE T == S \cup {TenantsDir, t}
  <2>1. SubSeq(p, 1, 2) \in Seq(T) /\ Len(SubSeq(p, 1, 2)) = 2
        /\ SubSeq(p, 1, 2)[1] = p[1] /\ SubSeq(p, 1, 2)[2] = p[2]
    <3>1. SubSeq(p, 1, 2) \in Seq(S) /\ Len(SubSeq(p, 1, 2)) = 2
          /\ SubSeq(p, 1, 2)[1] = p[1] /\ SubSeq(p, 1, 2)[2] = p[2]
      BY <1>1, <1>2
    <3>2. QED
      BY <3>1
  <2>2. Dir(t) \in Seq(T) /\ Len(Dir(t)) = 2 /\ Dir(t)[1] = TenantsDir /\ Dir(t)[2] = t
    BY DirIsPair
  <2> HIDE DEF T
  <2>3. ASSUME NEW a \in Seq(T), NEW b \in Seq(T), Len(a) = 2, Len(b) = 2, a[1] = b[1], a[2] = b[2]
        PROVE  a = b
    <3>1. \A i \in 1 .. Len(a) : a[i] = b[i]
      BY <2>3
    <3>2. QED
      BY <2>3, <3>1, SeqEqual
  <2>4. SubSeq(p, 1, 2) = Dir(t) <=> p[1] = TenantsDir /\ p[2] = t
    BY <2>1, <2>2, <2>3
  <2>5. QED
    BY <1>2, <2>4 DEF In
<1>3. CASE ~(Len(p) > 2)
  BY <1>3 DEF In
<1>4. QED
  BY <1>2, <1>3

LEMMA PairConcatAt ==
  ASSUME NEW S, NEW a \in Seq(S), NEW b \in Seq(S), Len(a) = 2
  PROVE  Len(a \o b) = 2 + Len(b) /\ \A i \in 1 .. Len(b) : (a \o b)[2 + i] = b[i]
<1> DEFINE c == a \o b
<1>1. /\ Len(c) = Len(a) + Len(b)
      /\ \A i \in 1 .. Len(a) + Len(b) : c[i] = IF i <= Len(a) THEN a[i] ELSE b[i - Len(a)]
  BY ConcatProperties
<1> HIDE DEF c
<1>2. Len(b) \in Nat
  OBVIOUS
<1>3. ASSUME NEW i \in 1 .. Len(b) PROVE c[2 + i] = b[i]
  <2>1. 2 + i \in 1 .. 2 + Len(b) /\ ~(2 + i <= 2) /\ (2 + i) - 2 = i
    BY <1>2
  <2>2. QED
    BY <1>1, <2>1
<1>4. QED
  BY <1>1, <1>3 DEF c

\* What is put in a directory tells what it was.
LEMMA DirConcat ==
  ASSUME NEW u, NEW p, NEW q, Path(p), Path(q), Dir(u) \o p = Dir(u) \o q
  PROVE  p = q
<1>1. PICK S : p \in Seq(S)
  BY DEF Path
<1>2. PICK R : q \in Seq(R)
  BY DEF Path
<1> DEFINE T == S \cup R \cup {TenantsDir, u}
<1>3. p \in Seq(T) /\ q \in Seq(T)
  BY <1>1, <1>2
<1>4. Dir(u) \in Seq(T) /\ Len(Dir(u)) = 2
  BY DirIsPair
<1> HIDE DEF T
<1> DEFINE d == Dir(u)
<1> HIDE DEF d
<1>5. /\ Len(d \o p) = 2 + Len(p) /\ \A i \in 1 .. Len(p) : (d \o p)[2 + i] = p[i]
      /\ Len(d \o q) = 2 + Len(q) /\ \A i \in 1 .. Len(q) : (d \o q)[2 + i] = q[i]
  BY <1>3, <1>4, PairConcatAt DEF d
<1>6. Len(p) = Len(q) /\ d \o p = d \o q
  <2>1. Len(p) \in Nat /\ Len(q) \in Nat /\ d \o p = d \o q
    BY <1>3 DEF d
  <2>2. QED
    BY <1>5, <2>1
<1>7. ASSUME NEW i \in 1 .. Len(p) PROVE p[i] = q[i]
  BY <1>5, <1>6
<1>8. QED
  BY <1>3, <1>6, <1>7

LEMMA InsidePath ==
  ASSUME NEW p, Path(p), Len(p) > 2
  PROVE  /\ Path(Inside(p)) /\ Len(Inside(p)) = Len(p) - 2
         /\ \A i \in 3 .. Len(p) : Inside(p)[i - 2] = p[i]
<1>1. PICK S : p \in Seq(S)
  BY DEF Path
<1>2. \A i \in 3 .. Len(p) : p[i] \in S
  BY <1>1
<1>3. Inside(p) \in Seq(S) /\ Len(Inside(p)) = Len(p) - 2
      /\ \A i \in 1 .. Len(p) - 2 : Inside(p)[i] = p[i + 2]
  BY <1>1, <1>2 DEF Inside
<1>4. ASSUME NEW i \in 3 .. Len(p) PROVE Inside(p)[i - 2] = p[i]
  <2>1. i - 2 \in 1 .. Len(p) - 2 /\ (i - 2) + 2 = i
    BY <1>1
  <2>2. QED
    BY <1>3, <2>1
<1>5. QED
  BY <1>3, <1>4 DEF Path

LEMMA InsideInjective ==
  ASSUME NEW t, NEW p, NEW q, Path(p), Path(q), In(t, p), In(t, q), Inside(p) = Inside(q)
  PROVE  p = q
<1>1. Len(p) > 2 /\ Len(q) > 2 /\ p[1] = q[1] /\ p[2] = q[2]
  BY InIff
<1>2. PICK S : p \in Seq(S)
  BY DEF Path
<1>3. PICK R : q \in Seq(R)
  BY DEF Path
<1>4. Len(p) \in Nat /\ Len(q) \in Nat
  BY <1>2, <1>3
<1>5. Len(p) = Len(q)
  BY <1>1, <1>4, InsidePath
<1>6. ASSUME NEW i \in 1 .. Len(p) PROVE p[i] = q[i]
  <2>1. CASE i \in {1, 2}
    BY <1>1, <2>1
  <2>2. CASE i \notin {1, 2}
    <3>1. i \in 3 .. Len(p) /\ i \in 3 .. Len(q)
      BY <1>4, <1>5, <2>2
    <3>2. Inside(p)[i - 2] = p[i] /\ Inside(q)[i - 2] = q[i]
      BY <1>1, <3>1, InsidePath
    <3>3. QED
      BY <3>2
  <2>3. QED
    BY <2>1, <2>2
<1>7. p \in Seq(S \cup R) /\ q \in Seq(S \cup R)
  BY <1>2, <1>3
<1>8. QED
  BY <1>5, <1>6, <1>7

\* A path put in a tenant's directory is one of its journals'.
LEMMA InDir ==
  ASSUME NEW p, GoodPath(p), NEW t
  PROVE  /\ GoodPath(Dir(t) \o p) /\ In(t, Dir(t) \o p) /\ Len(Dir(t) \o p) > 2
         /\ (Dir(t) \o p)[1] = TenantsDir /\ (Dir(t) \o p)[2] = t
<1>1. PICK S : p \in Seq(S)
  BY DEF GoodPath, Path
<1> DEFINE T == S \cup {TenantsDir, t}
<1>2. p \in Seq(T) /\ Len(p) \in Nat
  BY <1>1
<1>3. Dir(t) \in Seq(T) /\ Len(Dir(t)) = 2 /\ Dir(t)[1] = TenantsDir /\ Dir(t)[2] = t
  BY DirIsPair
<1> HIDE DEF T
<1>4. /\ Dir(t) \o p \in Seq(T) /\ Len(Dir(t) \o p) = 2 + Len(p)
      /\ (Dir(t) \o p)[1] = TenantsDir /\ (Dir(t) \o p)[2] = t
  BY <1>2, <1>3, PairConcat
<1>5. Path(Dir(t) \o p) /\ Len(Dir(t) \o p) > 2
  BY <1>2, <1>4 DEF GoodPath, Path
<1>6. In(t, Dir(t) \o p)
  BY <1>4, <1>5, InIff
<1>7. QED
  BY <1>4, <1>5, <1>6 DEF GoodPath

LEMMA InsideGood ==
  ASSUME NEW p, GoodPath(p), NEW t, In(t, p)
  PROVE  GoodPath(Inside(p))
<1>1. Len(p) > 2 /\ Len(p) \in Nat
  BY InIff DEF GoodPath, Path
<1>2. QED
  BY <1>1, InsidePath DEF GoodPath

\* Where a path is after a rename.
LEMMA MovedFacts ==
  ASSUME NEW p, GoodPath(p), NEW t, NEW u
  PROVE  /\ GoodPath(Moved(p, t, u))
         /\ IF In(t, p) THEN Moved(p, t, u) = Dir(u) \o Inside(p) /\ In(u, Moved(p, t, u))
            ELSE Moved(p, t, u) = p
<1>1. CASE In(t, p)
  <2>1. Moved(p, t, u) = Dir(u) \o Inside(p)
    BY <1>1 DEF Moved
  <2>2. GoodPath(Dir(u) \o Inside(p)) /\ In(u, Dir(u) \o Inside(p))
    BY <1>1, InsideGood, InDir
  <2>3. QED
    BY <1>1, <2>1, <2>2
<1>2. CASE ~In(t, p)
  BY <1>2 DEF Moved
<1>3. QED
  BY <1>1, <1>2

LEMMA MovedInjective ==
  ASSUME DiskGood, NEW t, NEW u, u \notin DOMAIN tenant,
         NEW p \in DOMAIN disk, NEW q \in DOMAIN disk, Moved(p, t, u) = Moved(q, t, u)
  PROVE  p = q
<1>1. GoodPath(p) /\ GoodPath(q) /\ Path(p) /\ Path(q)
  BY DEF DiskGood, GoodPath
<1>2. ~In(u, p) /\ ~In(u, q)
  BY <1>1, InIff DEF DiskGood
<1>3. CASE In(t, p) /\ In(t, q)
  <2>1. Dir(u) \o Inside(p) = Dir(u) \o Inside(q)
    BY <1>3, Zenon DEF Moved
  <2>2. Path(Inside(p)) /\ Path(Inside(q))
    BY <1>1, <1>3, InsideGood DEF GoodPath
  <2>3. QED
    BY <1>1, <1>3, <2>1, <2>2, DirConcat, InsideInjective
<1>4. CASE ~(In(t, p) /\ In(t, q))
  BY <1>1, <1>2, <1>4, MovedFacts
<1>5. QED
  BY <1>3, <1>4

\* A rename takes every journal along, as it is.
LEMMA RenameDisk ==
  ASSUME DiskGood, NEW t, NEW u, u \notin DOMAIN tenant, Rename(t, u)
  PROVE  /\ DOMAIN disk' = {Moved(p, t, u) : p \in DOMAIN disk}
         /\ \A p \in DOMAIN disk : disk'[Moved(p, t, u)] = disk[p]
         /\ Entries(disk') = Entries(disk)
<1>1. disk' = [q \in {Moved(p, t, u) : p \in DOMAIN disk} |->
                 disk[CHOOSE p \in DOMAIN disk : Moved(p, t, u) = q]]
  BY DEF Rename
<1>2. DOMAIN disk' = {Moved(p, t, u) : p \in DOMAIN disk}
  BY <1>1
<1>3. ASSUME NEW p \in DOMAIN disk PROVE disk'[Moved(p, t, u)] = disk[p]
  <2> DEFINE r == CHOOSE q \in DOMAIN disk : Moved(q, t, u) = Moved(p, t, u)
  <2>1. r \in DOMAIN disk /\ Moved(r, t, u) = Moved(p, t, u)
    OBVIOUS
  <2>2. disk'[Moved(p, t, u)] = disk[r]
    BY <1>1
  <2> HIDE DEF r
  <2>3. r = p
    BY <2>1, MovedInjective
  <2>4. QED
    BY <2>2, <2>3
<1>4. Entries(disk') = Entries(disk)
  BY <1>2, <1>3 DEF Entries
<1>5. QED
  BY <1>2, <1>3, <1>4

\* Where a member of an archive lands.
LEMMA LandGood ==
  ASSUME NEW m, GoodPath(m), NEW l, NEW t
  PROVE  /\ GoodPath(Land(m, <<l.of>>, t))
         /\ GoodPath(Lands(m, l, t)) /\ In(t, Lands(m, l, t)) /\ Len(Lands(m, l, t)) > 2
         /\ Lands(m, l, t)[1] = TenantsDir /\ Lands(m, l, t)[2] = t
<1> DEFINE k == Land(m, <<l.of>>, t)
<1>1. GoodPath(k)
  <2>1. CASE In(<<l.of>>, m)
    BY <2>1, InsideGood, InDir DEF Land
  <2>2. CASE ~In(<<l.of>>, m)
    BY <2>2 DEF Land
  <2>3. QED
    BY <2>1, <2>2
<1>2. Lands(m, l, t) = Dir(t) \o k
  BY DEF Lands
<1> HIDE DEF k
<1>3. QED
  BY <1>1, <1>2, InDir DEF k

LEMMA LandsApart ==
  ASSUME NEW l, NEW t, NEW p, NEW q, p \in DOMAIN arch[l].files, q \in DOMAIN arch[l].files,
         GoodPath(p), GoodPath(q), ~Collides(l, t), Lands(p, l, t) = Lands(q, l, t)
  PROVE  p = q
<1> DEFINE o == <<l.of>>
<1>1. Land(p, o, t) = Land(q, o, t)
  <2>1. Path(Land(p, o, t)) /\ Path(Land(q, o, t))
    BY LandGood DEF GoodPath
  <2>2. Dir(t) \o Land(p, o, t) = Dir(t) \o Land(q, o, t)
    BY DEF Lands
  <2>3. QED
    BY <2>1, <2>2, DirConcat
<1>2. ASSUME NEW x, NEW y, GoodPath(x), GoodPath(y), x \in DOMAIN arch[l].files,
             y \in DOMAIN arch[l].files, Land(x, o, t) = Land(y, o, t), In(o, x), ~In(o, y)
      PROVE  FALSE
  <2>1. y = Dir(t) \o Inside(x)
    BY <1>2 DEF Land
  <2>2. In(t, y)
    BY <1>2, <2>1, InsideGood, InDir
  <2>3. o = t
    BY <1>2, <2>2 DEF Collides
  <2>4. QED
    BY <1>2, <2>2, <2>3
<1>3. CASE In(o, p) /\ In(o, q)
  <2>1. Dir(t) \o Inside(p) = Dir(t) \o Inside(q)
    BY <1>1, <1>3 DEF Land
  <2>2. Inside(p) = Inside(q)
    BY <1>3, <2>1, InsideGood, DirConcat DEF GoodPath
  <2>3. QED
    BY <1>3, <2>2, InsideInjective DEF GoodPath
<1>4. CASE ~In(o, p) /\ ~In(o, q)
  BY <1>1, <1>4 DEF Land
<1>5. QED
  BY <1>1, <1>2, <1>3, <1>4

-----------------------------------------------------------------------------
(* What services do *)

LEMMA ElsewhereGrows ==
  ASSUME job'.t = job.t,
         \A p \in DOMAIN disk : ~In(job.t, p) => p \in DOMAIN disk' /\ disk[p] \subseteq disk'[p]
  PROVE  Elsewhere \subseteq Elsewhere'
<1>1. Elsewhere' = UNION {disk'[p] : p \in {q \in DOMAIN disk' : ~In(job.t, q)}}
  BY DEF Elsewhere
<1>2. QED
  BY <1>1 DEF Elsewhere

LEMMA ElsewhereIsOnDisk == Elsewhere \subseteq Entries(disk) /\ Elsewhere' \subseteq Entries(disk)'
  BY DEF Elsewhere, Entries

\* A job that does not unpack, nor compare, has nothing to keep apart.
LEMMA JobApart ==
  ASSUME job'.pc \notin {"unpack", "parity"}
  PROVE  Apart' /\ Unpacked'
  BY DEF Apart, Unpacked

\* What has been unpacked stays as it is, if its journals and its archive do.
LEMMA UnpackedKept ==
  ASSUME KInv, UNCHANGED job, beside => beside',
         job.src \in Published' => job.src \in Published /\ arch'[job.src] = arch[job.src],
         job.pc = "unpack" /\ ~beside' =>
           \A p \in DOMAIN disk : In(job.t, p) => p \in DOMAIN disk' /\ disk'[p] = disk[p]
  PROVE  Unpacked'
<1> SUFFICES ASSUME job.pc = "unpack", job.src \in Published'
             PROVE  /\ job.left \subseteq DOMAIN arch'[job.src].files
                    /\ ~beside' /\ ~Collides(job.src, job.t)' =>
                         \A m \in DOMAIN arch'[job.src].files \ job.left :
                           /\ Lands(m, job.src, job.t) \in DOMAIN disk'
                           /\ disk'[Lands(m, job.src, job.t)] = arch'[job.src].files[m]
  BY DEF Unpacked
<1>1. job.src \in Published /\ arch'[job.src] = arch[job.src] /\ job.left \subseteq DOMAIN arch[job.src].files
  BY DEF KInv, Unpacked
<1>2. ASSUME ~beside', ~Collides(job.src, job.t)', NEW m \in DOMAIN arch[job.src].files \ job.left
      PROVE  /\ Lands(m, job.src, job.t) \in DOMAIN disk'
             /\ disk'[Lands(m, job.src, job.t)] = arch[job.src].files[m]
  <2>1. ~Collides(job.src, job.t)
    BY <1>1, <1>2 DEF Collides
  <2>2. /\ Lands(m, job.src, job.t) \in DOMAIN disk
        /\ disk[Lands(m, job.src, job.t)] = arch[job.src].files[m]
    BY <1>1, <1>2, <2>1 DEF KInv, Unpacked
  <2>3. GoodPath(m)
    BY <1>1, <1>2 DEF KInv, ArchGood, Published
  <2>4. In(job.t, Lands(m, job.src, job.t))
    BY <2>3, LandGood
  <2>5. QED
    BY <1>2, <2>2, <2>4
<1>3. QED
  BY <1>1, <1>2

LEMMA ManifestGood ==
  ASSUME NEW m, Manifest(m)
  PROVE  /\ GoodPath(m.registry)
         /\ m.registry[1] = TenantsDir => Len(m.registry) > 2
<1>1. CASE m.registry = <<Registry>>
  <2>1. <<Registry>> \in Seq({Registry}) /\ Len(<<Registry>>) = 1 /\ <<Registry>>[1] # TenantsDir
    BY DEF Registry, TenantsDir
  <2>2. Path(<<Registry>>)
    BY <2>1 DEF Path
  <2>3. QED
    BY <1>1, <2>1, <2>2 DEF GoodPath
<1>2. CASE m.registry # <<Registry>>
  <2>1. Path(m.registry) /\ Len(m.registry) > 2
    BY <1>2 DEF Manifest, Known
  <2>2. QED
    BY <2>1 DEF GoodPath
<1>3. QED
  BY <1>1, <1>2

LEMMA NotDrillDir == ASSUME NEW n PROVE ~DrillDir(<<n>>)
  BY DEF DrillDir

LEMMA UpJournals ==
  ASSUME IInv, KInv, NEW n \in Names, Up(n)
  PROVE  KInv'
<1> DEFINE f == tenant[<<n>>].man.registry
<1>1. /\ <<n>> \in DOMAIN tenant /\ tenant[<<n>>].man # NoManifest
      /\ f[1] = TenantsDir => f[2] \in DOMAIN tenant
      /\ proc' = [proc EXCEPT ![n] = [file |-> f, whole |-> tenant[<<n>>].whole]]
      /\ disk' = IF f \in DOMAIN disk THEN disk ELSE Put(disk, f, {})
      /\ beside' = (beside \/ (job.pc = "unpack" /\ In(job.t, f)))
      /\ UNCHANGED <<now, tenant, arch, job, jobs, count>>
  BY DEF Up, Started
<1>2. GoodPath(f) /\ (f[1] = TenantsDir => Len(f) > 2) /\ ~DrillFile(f)
  <2>1. Manifest(tenant[<<n>>].man)
    BY <1>1 DEF IInv, OwnDirs
  <2>2. QED
    BY <1>1, <2>1, ManifestGood, NotDrillDir DEF KInv, TenantGood
<1> HIDE DEF f
<1>3. /\ f \in DOMAIN disk'
      /\ \A p \in DOMAIN disk : p \in DOMAIN disk' /\ disk'[p] = disk[p]
      /\ \A p \in DOMAIN disk' : (p \in DOMAIN disk /\ disk'[p] = disk[p]) \/ (p = f /\ disk'[p] = {})
  BY <1>1 DEF Put
<1>4. Counters' /\ TenantGood' /\ ArchGood' /\ JobGood' /\ Absent'
  BY <1>1 DEF KInv, Counters, TenantGood, ArchGood, Published, JobGood, Absent
<1>5. DiskGood'
  BY <1>1, <1>2, <1>3 DEF KInv, DiskGood
<1>6. \A m \in Names : Alive(m)' => proc'[m].file = f \/ (Alive(m) /\ proc'[m].file = proc[m].file)
  BY <1>1 DEF Alive, IInv, Shape
<1>7. ProcGood'
  BY <1>2, <1>3, <1>6 DEF KInv, ProcGood
<1>8. Apart'
  <2> SUFFICES ASSUME job.pc \in {"unpack", "parity"}, ~beside'
               PROVE  /\ 1 .. count \subseteq Elsewhere'
                      /\ \A m \in Names : Alive(m)' => ~In(job.t, proc'[m].file)
    BY <1>1 DEF Apart
  <2>1. 1 .. count \subseteq Elsewhere'
    BY <1>1, <1>3, ElsewhereGrows DEF KInv, Apart
  <2>2. ~In(job.t, f)
    <3>1. CASE job.pc = "unpack"
      BY <1>1, <3>1
    <3>2. CASE job.pc = "parity"
      BY <1>2, <3>2, InIff DEF KInv, JobGood, DrillFile, GoodPath
    <3>3. QED
      BY <3>1, <3>2
  <2>3. QED
    BY <1>1, <1>6, <2>1, <2>2 DEF KInv, Apart
<1>9. Unpacked'
  BY <1>1, <1>3, UnpackedKept DEF Published
<1>10. NothingLost'
  <2> SUFFICES ASSUME ~beside' PROVE Entries(disk') = 1 .. count
    BY <1>1 DEF NothingLost
  <2>1. Entries(disk') = Entries(disk)
    BY <1>3 DEF Entries
  <2>2. QED
    BY <1>1, <2>1 DEF KInv, NothingLost
<1>11. QED
  BY <1>4, <1>5, <1>7, <1>8, <1>9, <1>10 DEF KInv

LEMMA AppendJournals ==
  ASSUME IInv, KInv, NEW n \in Names, Append1(n)
  PROVE  KInv'
<1> DEFINE f == proc[n].file
           more == disk[f] \cup {count + 1}
<1>1. /\ Alive(n) /\ count < MaxEntries /\ count' = count + 1 /\ disk' = Put(disk, f, more)
      /\ UNCHANGED <<now, tenant, arch, proc, job, jobs, beside>>
  BY DEF Append1
<1>2. f \in DOMAIN disk /\ GoodPath(f) /\ ~DrillFile(f)
  BY <1>1 DEF KInv, ProcGood, DiskGood
<1>3. DOMAIN disk' = DOMAIN disk /\ disk'[f] = more
      /\ \A p \in DOMAIN disk : p # f => disk'[p] = disk[p]
  BY <1>1, <1>2 DEF Put
<1>4. count \in Nat /\ 1 .. count' = 1 .. count \cup {count + 1} /\ count' \in 3 .. MaxEntries
  BY <1>1, TenantsAssumption DEF KInv, Counters
<1>5. Counters' /\ TenantGood' /\ ArchGood' /\ JobGood' /\ Absent'
  BY <1>1, <1>4 DEF KInv, Counters, TenantGood, ArchGood, Published, JobGood, Absent
<1>6. DiskGood'
  BY <1>1, <1>2, <1>3, <1>4 DEF KInv, DiskGood
<1>7. ProcGood'
  BY <1>1, <1>3 DEF KInv, ProcGood, Alive
<1>8. ~beside /\ job.pc \in {"unpack", "parity"} => ~In(job.t, f)
  BY <1>1 DEF KInv, Apart
<1>9. Apart'
  <2> SUFFICES ASSUME job.pc \in {"unpack", "parity"}, ~beside
               PROVE  1 .. count' \subseteq Elsewhere'
    BY <1>1 DEF KInv, Apart, Alive
  <2>1. Elsewhere \subseteq Elsewhere'
    <3>1. job'.t = job.t
      BY <1>1
    <3>2. \A p \in DOMAIN disk : p \in DOMAIN disk' /\ disk[p] \subseteq disk'[p]
      BY <1>3
    <3>3. QED
      BY <3>1, <3>2, ElsewhereGrows
  <2>2. count + 1 \in Elsewhere'
    BY <1>1, <1>2, <1>3, <1>8 DEF Elsewhere
  <2>3. QED
    BY <1>4, <2>1, <2>2 DEF KInv, Apart
<1>10. Unpacked'
  <2>1. job.pc = "unpack" /\ ~beside =>
          \A p \in DOMAIN disk : In(job.t, p) => p \in DOMAIN disk' /\ disk'[p] = disk[p]
    BY <1>3, <1>8
  <2>2. QED
    BY <1>1, <2>1, UnpackedKept DEF Published
<1>11. NothingLost'
  <2> SUFFICES ASSUME ~beside PROVE Entries(disk') = 1 .. count'
    BY <1>1 DEF NothingLost
  <2>1. Entries(disk') = Entries(disk) \cup {count + 1}
    BY <1>2, <1>3 DEF Entries
  <2>2. QED
    BY <1>4, <2>1 DEF KInv, NothingLost
<1>12. QED
  BY <1>5, <1>6, <1>7, <1>9, <1>10, <1>11 DEF KInv

LEMMA GoneJournals ==
  ASSUME IInv, KInv, NEW n \in Names, Gone(n)
  PROVE  KInv'
<1>1. /\ proc' = [proc EXCEPT ![n] = Dead]
      /\ UNCHANGED <<now, disk, tenant, arch, job, jobs, count, beside>>
  BY DEF Gone
<1>2. \A m \in Names : Alive(m)' => Alive(m) /\ proc'[m].file = proc[m].file
  BY <1>1 DEF Alive, IInv, Shape
<1>3. Counters' /\ DiskGood' /\ TenantGood' /\ ArchGood' /\ JobGood' /\ Absent' /\ NothingLost'
  BY <1>1 DEF KInv, Counters, DiskGood, TenantGood, ArchGood, Published, JobGood, Absent, NothingLost
<1>4. ProcGood' /\ Apart'
  BY <1>1, <1>2 DEF KInv, ProcGood, Apart, Elsewhere
<1>5. Unpacked'
  BY <1>1, UnpackedKept DEF Published
<1>6. QED
  BY <1>3, <1>4, <1>5 DEF KInv

-----------------------------------------------------------------------------
(* What becomes of archives *)

LEMMA RunCounted == ASSUME Counters, NextRun, count' = count PROVE Counters'
  BY TenantsAssumption DEF Counters, NextRun

LEMMA CaptureJournals ==
  ASSUME IInv, KInv, NEW b, Capture(b), count' = count
  PROVE  /\ ArchGood'
         /\ job.src \in Published' => job.src \in Published /\ arch'[job.src] = arch[job.src]
<1> DEFINE l == [of |-> b, kind |-> "backup", at |-> now']
           e == [man |-> RootManifest, files |-> disk]
<1>1. arch' = [arch EXCEPT ![l] = e] /\ l # job.src
  BY DEF Capture
<1>2. ~DrillFile(e.man.registry) /\ e.files = disk
  BY DEF RootManifest, DrillFile, Registry, TenantsDir
<1>3. Entries(disk) \subseteq 1 .. count /\ \A p \in DOMAIN disk : GoodPath(p)
  BY DEF KInv, DiskGood, Entries
<1> HIDE DEF l, e
<1>4. DOMAIN arch' = Labels /\ \A k \in Labels : arch'[k] = arch[k] \/ (k = l /\ arch'[k] = e)
  BY <1>1 DEF IInv, Shape
<1>5. ArchGood'
  BY <1>2, <1>3, <1>4 DEF KInv, ArchGood, Published
<1>6. QED
  BY <1>1, <1>4, <1>5 DEF Published

LEMMA BackupJournals ==
  ASSUME IInv, KInv, (\E b \in BackupNames : Backup(b)) \/ (\E l \in Labels : Prune(l))
  PROVE  KInv'
<1>1. UNCHANGED <<disk, tenant, proc, job, count, beside>> /\ NextRun
  BY DEF Backup, Prune
<1>2. /\ ArchGood'
      /\ job.src \in Published' => job.src \in Published /\ arch'[job.src] = arch[job.src]
  <2>1. CASE \E b \in BackupNames : Backup(b)
    BY <1>1, <2>1, CaptureJournals DEF Backup
  <2>2. ASSUME NEW l \in Labels, Prune(l)
        PROVE  /\ ArchGood'
               /\ job.src \in Published' => job.src \in Published /\ arch'[job.src] = arch[job.src]
    <3>1. arch' = [arch EXCEPT ![l] = None]
      BY <2>2 DEF Prune
    <3>2. \A k \in Labels : arch'[k] = None \/ arch'[k] = arch[k]
      BY <3>1 DEF IInv, Shape
    <3>3. None.files = <<>> /\ Entries(<<>>) = {} /\ DOMAIN <<>> = {}
      BY DEF None, Entries
    <3>4. ArchGood'
      BY <1>1, <3>2, <3>3 DEF KInv, ArchGood, Published
    <3>5. QED
      BY <3>2, <3>4 DEF Published
  <2>3. QED
    BY <1>1, <2>1, <2>2
<1>3. Counters'
  BY <1>1, RunCounted DEF KInv
<1>4. DiskGood' /\ TenantGood' /\ ProcGood' /\ JobGood' /\ Absent' /\ NothingLost' /\ Apart'
  BY <1>1 DEF KInv, DiskGood, TenantGood, ProcGood, Alive, JobGood, Absent, NothingLost, Apart,
                    Elsewhere
<1>5. Unpacked'
  BY <1>1, <1>2, UnpackedKept
<1>6. QED
  BY <1>2, <1>3, <1>4, <1>5 DEF KInv

-----------------------------------------------------------------------------
(* What a rename does *)

LEMMA RenameJournals ==
  ASSUME IInv, KInv, NEW t, NEW u, t \in DOMAIN tenant, u \notin DOMAIN tenant,
         ~DrillDir(t), ~DrillDir(u), Rename(t, u), UNCHANGED <<count, beside>>
  PROVE  DiskGood' /\ ProcGood' /\ TenantGood' /\ NothingLost'
<1>1. /\ tenant' = Put(Without(tenant, {t}), u, tenant[t])
      /\ proc' = [n \in Names |-> [proc[n] EXCEPT !.file = Moved(@, t, u)]]
  BY DEF Rename
<1>2. /\ DOMAIN disk' = {Moved(p, t, u) : p \in DOMAIN disk}
      /\ \A p \in DOMAIN disk : disk'[Moved(p, t, u)] = disk[p]
      /\ Entries(disk') = Entries(disk)
  BY RenameDisk DEF KInv
<1>3. /\ DOMAIN tenant' = (DOMAIN tenant \ {t}) \cup {u} /\ tenant'[u] = tenant[t]
      /\ \A q \in DOMAIN tenant : q # t => tenant'[q] = tenant[q]
  BY <1>1 DEF Put, Without
<1>4. ASSUME NEW p \in DOMAIN disk
      PROVE  /\ GoodPath(Moved(p, t, u)) /\ disk[p] \subseteq 1 .. count
             /\ Moved(p, t, u)[1] = TenantsDir =>
                  Len(Moved(p, t, u)) > 2 /\ Moved(p, t, u)[2] \in DOMAIN tenant'
  <2>1. GoodPath(p) /\ Path(p)
    BY DEF KInv, DiskGood, GoodPath
  <2>2. GoodPath(Moved(p, t, u)) /\ Path(Moved(p, t, u))
    BY <2>1, MovedFacts DEF GoodPath
  <2>3. CASE In(t, p)
    <3>1. In(u, Moved(p, t, u))
      BY <2>1, <2>3, MovedFacts
    <3>2. Len(Moved(p, t, u)) > 2 /\ Moved(p, t, u)[2] = u
      BY <2>2, <3>1, InIff
    <3>3. QED
      BY <1>3, <2>2, <3>2 DEF KInv, DiskGood
  <2>4. CASE ~In(t, p)
    <3>1. Moved(p, t, u) = p
      BY <2>1, <2>4, MovedFacts
    <3>2. p[1] = TenantsDir => Len(p) > 2 /\ p[2] # t /\ p[2] \in DOMAIN tenant
      BY <2>1, <2>4, InIff DEF KInv, DiskGood
    <3>3. QED
      BY <1>3, <2>1, <3>1, <3>2 DEF KInv, DiskGood
  <2>5. QED
    BY <2>3, <2>4
<1>5. DiskGood'
  <2> SUFFICES ASSUME NEW q \in DOMAIN disk'
               PROVE  /\ GoodPath(q) /\ disk'[q] \subseteq 1 .. count
                      /\ q[1] = TenantsDir => Len(q) > 2 /\ q[2] \in DOMAIN tenant'
    BY DEF DiskGood
  <2>1. PICK p \in DOMAIN disk : q = Moved(p, t, u)
    BY <1>2
  <2>2. disk'[q] = disk[p]
    BY <1>2, <2>1
  <2>3. QED
    BY <1>4, <2>1, <2>2
<1>6. ProcGood'
  <2> SUFFICES ASSUME NEW n \in Names, Alive(n)'
               PROVE  proc'[n].file \in DOMAIN disk' /\ ~DrillFile(proc'[n].file)
    BY DEF ProcGood
  <2>1. proc'[n] = [proc[n] EXCEPT !.file = Moved(proc[n].file, t, u)]
    BY <1>1
  <2>2. Alive(n)
    <3>1. CASE proc[n] = Dead
      <4>1. Moved(<<>>, t, u) = <<>>
        BY DEF Moved, In
      <4>2. proc'[n] = Dead
        BY <2>1, <3>1, <4>1 DEF Dead
      <4>3. QED
        BY <4>2 DEF Alive
    <3>2. QED
      BY <3>1 DEF Alive
  <2>3. proc'[n].file = Moved(proc[n].file, t, u)
    BY <2>1 DEF IInv, Shape
  <2>4. proc[n].file \in DOMAIN disk /\ ~DrillFile(proc[n].file) /\ GoodPath(proc[n].file)
    BY <2>2 DEF KInv, ProcGood, DiskGood
  <2>5. proc'[n].file \in DOMAIN disk'
    BY <1>2, <2>3, <2>4
  <2> DEFINE f == proc[n].file
             g == Moved(f, t, u)
  <2>6. ~DrillFile(g)
    <3>1. CASE In(t, f)
      <4>1. In(u, g) /\ GoodPath(g)
        BY <2>4, <3>1, MovedFacts
      <4> HIDE DEF g
      <4>2. g[2] = u
        BY <4>1, InIff DEF GoodPath
      <4>3. QED
        BY <4>2 DEF DrillFile
    <3>2. CASE ~In(t, f)
      BY <2>4, <3>2, MovedFacts
    <3>3. QED
      BY <3>1, <3>2
  <2>7. QED
    BY <2>3, <2>5, <2>6
<1>7. TenantGood'
  BY <1>3 DEF KInv, TenantGood
<1>8. NothingLost'
  BY <1>2 DEF KInv, NothingLost
<1>9. QED
  BY <1>5, <1>6, <1>7, <1>8

-----------------------------------------------------------------------------
(* The steps of a job *)

LEMMA AsideName == ASSUME NEW n, NEW why \in {"pre-restore", "retired"}, NEW at
                   PROVE  ~DrillDir(<<n, why, at>>)
  BY DEF DrillDir

\* What a new job begins with.
LEMMA IdleIsGood == Idle.left = {} /\ DOMAIN Idle.got = {} /\ Entries(Idle.got) = {}
                    /\ Idle.t = <<First>> /\ Idle.t[1] = First /\ Idle.kind = "none"
  BY DEF Idle, Entries

LEMMA FreshJob ==
  ASSUME job'.left = {}, job'.got = <<>>, job'.pc \in {"idle", "aside", "pick", "list"},
         IF job'.kind = "drill" THEN DrillDir(job'.t) ELSE job'.t = <<job'.t[1]>>,
         job'.pc = "list" => job'.kind # "drill"
  PROVE  JobGood'
<1>1. DOMAIN job'.got = {} /\ Entries(job'.got) = {}
  BY DEF Entries
<1>2. QED
  BY <1>1 DEF JobGood

\* A job that begins, leaving journals, tenants and services as they are.
LEMMA BeginJournals ==
  ASSUME KInv, UNCHANGED <<disk, tenant, proc, count, beside>>, Counters', ArchGood', JobGood',
         job'.pc \in {"idle", "aside", "pick", "list"}, Absent'
  PROVE  KInv'
<1>1. DiskGood' /\ TenantGood' /\ ProcGood' /\ NothingLost'
  BY DEF KInv, DiskGood, TenantGood, ProcGood, Alive, NothingLost
<1>2. Apart' /\ Unpacked'
  BY JobApart
<1>3. QED
  BY <1>1, <1>2 DEF KInv

LEMMA RestoreBeginJournals ==
  ASSUME IInv, KInv, NEW l \in Labels, NEW n \in Names, NEW force \in BOOLEAN, RestoreBegin(l, n, force)
  PROVE  KInv'
<1>1. /\ NextRun /\ UNCHANGED <<disk, tenant, arch, proc, count, beside>>
      /\ job' = [Idle EXCEPT !.pc = "aside", !.kind = "restore", !.t = <<n>>, !.src = l]
  BY DEF RestoreBegin, NextJob
<1>2. /\ job'.pc = "aside" /\ job'.kind = "restore" /\ job'.t = <<n>> /\ job'.left = {}
      /\ job'.got = <<>>
  BY <1>1 DEF Idle
<1>3. JobGood' /\ Absent'
  BY <1>2, FreshJob DEF Absent
<1>4. Counters' /\ ArchGood'
  BY <1>1, RunCounted DEF KInv, ArchGood, Published
<1>5. QED
  BY <1>1, <1>2, <1>3, <1>4, BeginJournals

LEMMA SetAsideJournals == ASSUME IInv, KInv, SetAside PROVE KInv'
<1> DEFINE aside == <<job.t[1], "pre-restore", now>>
<1>1. /\ job.pc = "aside" /\ aside \notin DOMAIN tenant /\ job' = [job EXCEPT !.pc = "mkdir"]
      /\ IF job.t \in DOMAIN tenant THEN Rename(job.t, aside) ELSE UNCHANGED <<disk, tenant, proc>>
      /\ UNCHANGED <<now, arch, jobs, count, beside>>
  BY DEF SetAside
<1>2. /\ job'.pc = "mkdir" /\ job'.t = job.t /\ job'.kind = job.kind
      /\ job'.left = job.left /\ job'.got = job.got
  BY <1>1 DEF IInv, Shape
<1>3. JobGood' /\ Counters' /\ ArchGood'
  BY <1>1, <1>2 DEF KInv, JobGood, Counters, ArchGood, Published
<1>4. Apart' /\ Unpacked'
  BY <1>2, JobApart
<1>5. ~DrillDir(aside)
  BY AsideName
<1> HIDE DEF aside
<1>6. CASE job.t \in DOMAIN tenant
  <2>1. job.t = <<job.t[1]>>
    BY <1>1, <1>6 DEF KInv, Absent, JobGood
  <2>2. ~DrillDir(job.t)
    BY <2>1, NotDrillDir
  <2>3. Rename(job.t, aside) /\ UNCHANGED <<count, beside>>
    BY <1>1, <1>6
  <2>4. DiskGood' /\ ProcGood' /\ TenantGood' /\ NothingLost'
    BY <1>1, <1>5, <1>6, <2>2, <2>3, RenameJournals
  <2>5. job.t \notin DOMAIN tenant'
    BY <1>1, <1>6, <2>3 DEF Rename, Put, Without
  <2>6. QED
    BY <1>2, <1>3, <1>4, <2>4, <2>5 DEF KInv, Absent
<1>7. CASE job.t \notin DOMAIN tenant
  BY <1>1, <1>2, <1>3, <1>4, <1>7 DEF KInv, DiskGood, TenantGood, ProcGood, Alive, NothingLost, Absent
<1>8. QED
  BY <1>6, <1>7

LEMMA MakeDirJournals == ASSUME IInv, KInv, MakeDir PROVE KInv'
<1> DEFINE e == [man |-> arch[job.src].man, whole |-> FALSE]
<1>1. /\ job.pc = "mkdir" /\ job.src \in Published /\ tenant' = Put(tenant, job.t, e)
      /\ job' = [job EXCEPT !.pc = "unpack", !.left = DOMAIN arch[job.src].files]
      /\ UNCHANGED <<now, disk, arch, proc, jobs, count, beside>>
  BY DEF MakeDir
<1>2. /\ job'.pc = "unpack" /\ job'.t = job.t /\ job'.kind = job.kind /\ job'.src = job.src
      /\ job'.left = DOMAIN arch[job.src].files /\ job'.got = job.got
  BY <1>1 DEF IInv, Shape
<1>3. ~DrillFile(e.man.registry)
  BY <1>1 DEF KInv, ArchGood
<1> HIDE DEF e
<1>4. /\ DOMAIN tenant' = DOMAIN tenant \cup {job.t} /\ tenant'[job.t] = e
      /\ \A t \in DOMAIN tenant : t # job.t => tenant'[t] = tenant[t]
  BY <1>1 DEF Put
<1>5. Counters' /\ ArchGood' /\ ProcGood' /\ NothingLost' /\ Absent'
  BY <1>1, <1>2 DEF KInv, Counters, ArchGood, Published, ProcGood, Alive, NothingLost, Absent
<1>6. DiskGood' /\ TenantGood'
  BY <1>1, <1>3, <1>4 DEF KInv, DiskGood, TenantGood
<1>7. JobGood'
  BY <1>1, <1>2 DEF KInv, JobGood, ArchGood, Published
<1>8. \A p \in DOMAIN disk : ~In(job.t, p)
  BY <1>1, InIff DEF KInv, DiskGood, Absent, GoodPath
<1>9. Apart'
  <2>1. Elsewhere' = Entries(disk)
    BY <1>1, <1>2, <1>8 DEF Elsewhere, Entries
  <2>2. QED
    BY <1>1, <1>2, <1>8, <2>1 DEF KInv, Apart, NothingLost, ProcGood, Alive
<1>10. Unpacked'
  BY <1>1, <1>2 DEF Unpacked
<1>11. QED
  BY <1>5, <1>6, <1>7, <1>9, <1>10 DEF KInv

\* A journal of the tenant that is unpacked is written.
LEMMA WriteUnpacked ==
  ASSUME IInv, KInv, job.pc = "unpack", NEW x, GoodPath(x), In(job.t, x), NEW c, c \subseteq 1 .. count,
         disk' = Put(disk, x, c), DOMAIN tenant \subseteq DOMAIN tenant',
         UNCHANGED <<count, proc, beside>>
  PROVE  DiskGood' /\ ProcGood' /\ NothingLost' /\ (job'.t = job.t => Apart')
<1>1. Len(x) > 2 /\ x[1] = TenantsDir /\ x[2] = job.t /\ job.t \in DOMAIN tenant
  BY InIff DEF GoodPath, IInv, JobTenant, Holding
<1>2. /\ DOMAIN disk' = DOMAIN disk \cup {x} /\ disk'[x] = c
      /\ \A p \in DOMAIN disk : p # x => disk'[p] = disk[p]
  BY DEF Put
<1>3. DiskGood'
  BY <1>1, <1>2 DEF KInv, DiskGood
<1>4. ProcGood'
  BY <1>2 DEF KInv, ProcGood, Alive
<1>5. Elsewhere \subseteq Entries(disk')
  BY <1>2 DEF Elsewhere, Entries
<1>6. Entries(disk') \subseteq 1 .. count
  BY <1>3 DEF DiskGood, Entries
<1>7. NothingLost'
  BY <1>5, <1>6 DEF KInv, Apart, NothingLost
<1>8. ASSUME job'.t = job.t PROVE Apart'
  <2>1. Elsewhere \subseteq Elsewhere'
    BY <1>2, <1>8, ElsewhereGrows
  <2>2. QED
    BY <1>8, <2>1 DEF KInv, Apart, Alive
<1>9. QED
  BY <1>3, <1>4, <1>7, <1>8

LEMMA UnpackJournals == ASSUME IInv, KInv, Unpack PROVE KInv'
<1> DEFINE m == Next1
           x == Lands(m, job.src, job.t)
           c == arch[job.src].files[m]
<1>1. /\ job.pc = "unpack" /\ job.src \in Published /\ disk' = Put(disk, x, c)
      /\ job' = [job EXCEPT !.left = job.left \ {m}] /\ m \in job.left
      /\ UNCHANGED <<now, tenant, arch, proc, jobs, count, beside>>
  BY DEF Unpack, Next1
<1> HIDE DEF m
<1>2. /\ job'.pc = "unpack" /\ job'.t = job.t /\ job'.kind = job.kind /\ job'.src = job.src
      /\ job'.left = job.left \ {m} /\ job'.got = job.got
  BY <1>1 DEF IInv, Shape
<1>3. /\ m \in DOMAIN arch[job.src].files /\ GoodPath(m) /\ job.src \in Labels
      /\ Entries(arch[job.src].files) \subseteq 1 .. count
  BY <1>1 DEF KInv, Unpacked, JobGood, ArchGood, Published
<1>4. c \subseteq 1 .. count /\ GoodPath(x) /\ In(job.t, x)
  BY <1>3, LandGood DEF Entries
<1>5. DiskGood' /\ ProcGood' /\ NothingLost' /\ Apart'
  <2> HIDE DEF x, c
  <2>1. QED
    BY <1>1, <1>2, <1>4, WriteUnpacked
<1>6. Counters' /\ TenantGood' /\ ArchGood' /\ JobGood' /\ Absent'
  BY <1>1, <1>2 DEF KInv, Counters, TenantGood, ArchGood, Published, JobGood, Absent
<1>7. Unpacked'
  <2> SUFFICES ASSUME ~beside, ~Collides(job.src, job.t),
                      NEW k \in DOMAIN arch[job.src].files \ (job.left \ {m})
               PROVE  /\ Lands(k, job.src, job.t) \in DOMAIN disk'
                      /\ disk'[Lands(k, job.src, job.t)] = arch[job.src].files[k]
    <3>1. job.left \ {m} \subseteq DOMAIN arch[job.src].files
      BY <1>1 DEF KInv, Unpacked
    <3>2. QED
      BY <1>1, <1>2, <3>1 DEF Unpacked, Published, Collides
  <2>1. CASE k = m
    BY <1>1, <2>1 DEF Put
  <2>2. CASE k # m
    <3>1. /\ Lands(k, job.src, job.t) \in DOMAIN disk
          /\ disk[Lands(k, job.src, job.t)] = arch[job.src].files[k]
      BY <1>1, <2>2 DEF KInv, Unpacked
    <3>2. GoodPath(k)
      BY <1>3 DEF KInv, ArchGood
    <3>3. Lands(k, job.src, job.t) # x
      BY <1>3, <2>2, <3>2, LandsApart
    <3>4. QED
      BY <1>1, <3>1, <3>3 DEF Put
  <2>3. QED
    BY <2>1, <2>2
<1>8. QED
  BY <1>5, <1>6, <1>7 DEF KInv

\* A sequence over a set is a path.
LEMMA SeqPath == ASSUME NEW S, NEW q \in Seq(S) PROVE Path(q)
  BY Zenon DEF Path

\* The rewriting names a journal of the restored tenant.
LEMMA RewriteIn ==
  ASSUME NEW p, Known(p), NEW t
  PROVE  Rewrite(p, t)[2] = t
<1>1. CASE p = <<Registry>>
  <2>1. p[1] # TenantsDir
    BY <1>1 DEF Registry, TenantsDir
  <2>2. Rewrite(p, t) = Dir(t) \o <<Registry>>
    BY <1>1, <2>1 DEF Rewrite
  <2>3. GoodPath(<<Registry>>)
    <3>1. <<Registry>> \in Seq({Registry}) /\ Len(<<Registry>>) = 1
      OBVIOUS
    <3>2. Path(<<Registry>>)
      BY <3>1, SeqPath
    <3>3. QED
      BY <3>1, <3>2 DEF GoodPath
  <2>4. QED
    BY <2>2, <2>3, InDir
<1>2. CASE p # <<Registry>>
  <2>1. Path(p) /\ Len(p) > 2 /\ p[1] = TenantsDir
    BY <1>2 DEF Known
  <2>2. p[1] # Run
    BY <2>1 DEF TenantsDir, Run
  <2>3. Rewrite(p, t) = Dir(t) \o Inside(p)
    BY <1>2, <2>1, <2>2 DEF Rewrite
  <2>4. QED
    BY <2>1, <2>3, InsideDir
<1>3. QED
  BY <1>1, <1>2

LEMMA RestoreDoneJournals == ASSUME IInv, KInv, RestoreDone PROVE KInv'
<1> DEFINE man == tenant[job.t].man
           e == [man |-> [k \in DOMAIN man |-> Rewrite(man[k], job.t)], whole |-> TRUE]
<1>1. /\ job.pc = "unpack" /\ tenant' = Put(tenant, job.t, e)
      /\ job' = IF job.kind = "drill" THEN [job EXCEPT !.pc = "parity"] ELSE Idle
      /\ UNCHANGED <<now, disk, arch, proc, jobs, count, beside>>
  BY DEF RestoreDone
<1>2. e.man.registry[2] = job.t
  <2>1. "registry" \in DOMAIN man /\ Known(man.registry)
    BY <1>1 DEF IInv, JobTenant, Holding, Manifest
  <2>2. e.man.registry = Rewrite(man.registry, job.t)
    BY <2>1
  <2>3. QED
    BY <2>1, <2>2, RewriteIn
<1> HIDE DEF e
<1>3. /\ DOMAIN tenant' = DOMAIN tenant \cup {job.t} /\ tenant'[job.t] = e
      /\ \A t \in DOMAIN tenant : t # job.t => tenant'[t] = tenant[t]
  BY <1>1 DEF Put
<1>4. TenantGood' /\ DiskGood'
  BY <1>1, <1>2, <1>3 DEF KInv, TenantGood, DrillFile, DiskGood
<1>5. Counters' /\ ArchGood' /\ ProcGood' /\ NothingLost'
  BY <1>1 DEF KInv, Counters, ArchGood, Published, ProcGood, Alive, NothingLost
<1>6. CASE job.kind = "drill"
  <2>1. /\ job'.pc = "parity" /\ job'.t = job.t /\ job'.kind = job.kind
        /\ job'.left = job.left /\ job'.got = job.got
    BY <1>1, <1>6 DEF IInv, Shape
  <2>2. JobGood' /\ Absent' /\ Apart' /\ Unpacked'
    BY <1>1, <1>6, <2>1 DEF KInv, JobGood, Absent, Apart, Elsewhere, Alive, Unpacked
  <2>3. QED
    BY <1>4, <1>5, <2>2 DEF KInv
<1>7. CASE job.kind # "drill"
  <2>1. job' = Idle
    BY <1>1, <1>7
  <2>2. JobGood' /\ Absent' /\ job'.pc = "idle"
    BY <2>1, IdleIsGood DEF JobGood, Absent, Idle
  <2>3. QED
    BY <1>4, <1>5, <2>2, JobApart DEF KInv
<1>8. QED
  BY <1>6, <1>7

LEMMA DrillJournals == ASSUME IInv, KInv, DrillJob PROVE KInv'
<1>1. CASE DrillBegin
  <2>1. /\ NextRun /\ Capture("drill") /\ <<"drill", "at", now'>> \notin DOMAIN tenant
        /\ job' = [Idle EXCEPT !.pc = "pick", !.kind = "drill", !.t = <<"drill", "at", now'>>]
        /\ UNCHANGED <<disk, tenant, proc, count, beside>>
    BY <1>1 DEF DrillBegin, NextJob
  <2>2. /\ job'.pc = "pick" /\ job'.kind = "drill" /\ job'.t = <<"drill", "at", now'>>
        /\ job'.left = {} /\ job'.got = <<>>
    BY <2>1 DEF Idle
  <2>3. JobGood' /\ Absent'
    BY <2>1, <2>2, FreshJob DEF Absent, DrillDir
  <2>4. Counters' /\ ArchGood'
    BY <2>1, RunCounted, CaptureJournals DEF KInv
  <2>5. QED
    BY <2>1, <2>2, <2>3, <2>4, BeginJournals
<1>2. CASE DrillPick
  <2>1. PICK l : job' = [job EXCEPT !.pc = "aside", !.src = l]
    BY <1>2 DEF DrillPick
  <2>2. job.pc = "pick" /\ UNCHANGED <<now, disk, tenant, arch, proc, jobs, count, beside>>
    BY <1>2 DEF DrillPick
  <2>3. /\ job'.pc = "aside" /\ job'.t = job.t /\ job'.kind = job.kind
        /\ job'.left = job.left /\ job'.got = job.got
    BY <2>1 DEF IInv, Shape
  <2>4. Counters' /\ ArchGood' /\ JobGood' /\ Absent'
    BY <2>2, <2>3 DEF KInv, Counters, ArchGood, Published, JobGood, Absent
  <2>5. QED
    BY <2>2, <2>3, <2>4, BeginJournals
<1>3. ASSUME NEW keep \in BOOLEAN, DrillEnd(keep) PROVE KInv'
  <2>1. /\ job.pc = "parity" /\ job' = Idle /\ UNCHANGED <<now, arch, proc, jobs, count, beside>>
        /\ \/ UNCHANGED <<disk, tenant>>
           \/ /\ disk' = Without(disk, {p \in DOMAIN disk : In(job.t, p)})
              /\ tenant' = Without(tenant, {job.t})
    BY <1>3 DEF DrillEnd
  <2>2. JobGood' /\ Absent' /\ job'.pc = "idle"
    BY <2>1, IdleIsGood DEF JobGood, Absent, Idle
  <2>3. Counters' /\ ArchGood'
    BY <2>1 DEF KInv, Counters, ArchGood, Published
  <2>4. CASE UNCHANGED <<disk, tenant>>
    BY <2>1, <2>2, <2>3, <2>4, BeginJournals
  <2>5. CASE /\ disk' = Without(disk, {p \in DOMAIN disk : In(job.t, p)})
             /\ tenant' = Without(tenant, {job.t})
    <3>1. /\ DOMAIN disk' = {p \in DOMAIN disk : ~In(job.t, p)}
          /\ \A p \in DOMAIN disk' : disk'[p] = disk[p]
      BY <2>5 DEF Without
    <3>2. /\ DOMAIN tenant' = DOMAIN tenant \ {job.t}
          /\ \A t \in DOMAIN tenant' : tenant'[t] = tenant[t]
      BY <2>5 DEF Without
    <3>3. DiskGood'
      BY <2>1, <3>1, <3>2, InIff DEF KInv, DiskGood, GoodPath
    <3>4. TenantGood'
      BY <3>2 DEF KInv, TenantGood
    <3>5. \A n \in Names : Alive(n) => ~In(job.t, proc[n].file)
      <4>1. DrillDir(job.t)
        BY <2>1 DEF KInv, JobGood
      <4>2. \A n \in Names : Alive(n) => Path(proc[n].file) /\ ~DrillFile(proc[n].file)
        BY DEF KInv, ProcGood, DiskGood, GoodPath
      <4>3. QED
        BY <4>1, <4>2, InIff DEF DrillFile
    <3>6. ProcGood'
      BY <2>1, <3>1, <3>5 DEF KInv, ProcGood, Alive
    <3>7. NothingLost'
      <4>1. Entries(disk') = Elsewhere
        BY <3>1 DEF Entries, Elsewhere
      <4>2. Entries(disk') \subseteq 1 .. count
        BY <2>1, <3>3 DEF DiskGood, Entries
      <4>3. QED
        BY <2>1, <4>1, <4>2 DEF KInv, Apart, NothingLost
    <3>8. QED
      BY <2>2, <2>3, <3>3, <3>4, <3>6, <3>7, JobApart DEF KInv
  <2>6. QED
    BY <2>1, <2>4, <2>5
<1>4. QED
  BY <1>1, <1>2, <1>3 DEF DrillJob

\* A step of a bundle that is not its end: it reads journals.
LEMMA BundleStep ==
  ASSUME KInv, UNCHANGED <<now, disk, tenant, proc, jobs, count, beside>>, ArchGood', JobGood',
         job'.pc \in {"list", "copy", "verify", "retire", "idle"}
  PROVE  KInv'
<1>1. Counters' /\ DiskGood' /\ TenantGood' /\ ProcGood' /\ NothingLost' /\ Absent'
  BY DEF KInv, Counters, DiskGood, TenantGood, ProcGood, Alive, NothingLost, Absent
<1>2. QED
  BY <1>1, JobApart DEF KInv

LEMMA DecommissionJournals == ASSUME IInv, BInv, KInv, Decommission PROVE KInv'
<1>1. ASSUME NEW n \in Names, NEW kind \in {"bundle", "decommission"}, BundleBegin(n, kind)
      PROVE  KInv'
  <2>1. /\ NextRun /\ UNCHANGED <<disk, tenant, arch, proc, count, beside>>
        /\ job' = [Idle EXCEPT !.pc = "list", !.kind = kind, !.t = <<n>>]
    BY <1>1 DEF BundleBegin, NextJob
  <2>2. /\ job'.pc = "list" /\ job'.kind = kind /\ job'.t = <<n>> /\ job'.left = {}
        /\ job'.got = <<>>
    BY <2>1 DEF Idle
  <2>3. JobGood' /\ Absent'
    BY <2>2, FreshJob DEF Absent
  <2>4. Counters' /\ ArchGood'
    BY <2>1, RunCounted DEF KInv, ArchGood, Published
  <2>5. QED
    BY <2>1, <2>2, <2>3, <2>4, BeginJournals
<1>2. CASE ListJournals
  <2>1. PICK own, had : job' = [job EXCEPT !.pc = "copy", !.own = own,
                                  !.left = {p \in DOMAIN disk : In(job.t, p)}, !.had = had]
    BY <1>2 DEF ListJournals
  <2>2. job.pc = "list" /\ UNCHANGED <<now, disk, tenant, arch, proc, jobs, count, beside>>
    BY <1>2 DEF ListJournals
  <2>3. /\ job'.pc = "copy" /\ job'.t = job.t /\ job'.kind = job.kind /\ job'.got = job.got
        /\ job'.left \subseteq DOMAIN disk
    BY <2>1 DEF IInv, Shape
  <2>4. JobGood' /\ ArchGood'
    BY <2>2, <2>3 DEF KInv, JobGood, ArchGood, Published, DiskGood
  <2>5. QED
    BY <2>2, <2>3, <2>4, BundleStep
<1>3. CASE CopyJournal
  <2> DEFINE p == Next1
  <2>1. /\ job.pc = "copy" /\ p \in job.left
        /\ job' = [job EXCEPT !.got = Put(job.got, p, disk[p]), !.left = job.left \ {p}]
        /\ UNCHANGED <<now, disk, tenant, arch, proc, jobs, count, beside>>
    BY <1>3 DEF CopyJournal, Next1
  <2> HIDE DEF p
  <2>2. /\ job'.pc = "copy" /\ job'.t = job.t /\ job'.kind = job.kind
        /\ job'.got = Put(job.got, p, disk[p]) /\ job'.left = job.left \ {p}
    BY <2>1 DEF IInv, Shape
  <2>3. p \in DOMAIN disk /\ GoodPath(p) /\ disk[p] \subseteq 1 .. count
    BY <2>1 DEF BInv, Copying, KInv, DiskGood
  <2>4. /\ DOMAIN job'.got = DOMAIN job.got \cup {p}
        /\ Entries(job'.got) \subseteq Entries(job.got) \cup disk[p]
    BY <2>2 DEF Put, Entries
  <2>5. JobGood' /\ ArchGood'
    BY <2>1, <2>2, <2>3, <2>4 DEF KInv, JobGood, ArchGood, Published
  <2>6. QED
    BY <2>1, <2>2, <2>5, BundleStep
<1>4. CASE PublishBundle
  <2> DEFINE e == [man |-> tenant[job.t].man, files |-> job.got]
  <2>1. /\ job.pc = "copy" /\ arch' = [arch EXCEPT ![job.own] = e]
        /\ job' = Idle \/ job' = [job EXCEPT !.pc = "verify"]
        /\ UNCHANGED <<now, disk, tenant, proc, jobs, count, beside>>
    BY <1>4 DEF PublishBundle
  <2>2. ~DrillFile(e.man.registry) /\ e.files = job.got
    <3>1. job.t \in DOMAIN tenant /\ tenant[job.t].man # NoManifest
      BY <2>1, TornIsNone DEF IInv, JobTenant, Holding
    <3>2. job.t = <<job.t[1]>>
      BY <2>1 DEF KInv, JobGood
    <3>3. ~DrillDir(job.t)
      BY <3>2, NotDrillDir
    <3>4. QED
      BY <3>1, <3>3 DEF KInv, TenantGood
  <2> HIDE DEF e
  <2>3. \A l \in Labels : arch'[l] = arch[l] \/ arch'[l] = e
    BY <2>1 DEF IInv, Shape
  <2>4. ArchGood'
    BY <2>1, <2>2, <2>3 DEF KInv, ArchGood, Published, JobGood
  <2>5. CASE job' = Idle
    <3>1. JobGood' /\ job'.pc = "idle"
      BY <2>5, IdleIsGood DEF JobGood, Idle
    <3>2. QED
      BY <2>1, <2>4, <3>1, BundleStep
  <2>6. CASE job' = [job EXCEPT !.pc = "verify"]
    <3>1. /\ job'.pc = "verify" /\ job'.t = job.t /\ job'.kind = job.kind
          /\ job'.got = job.got /\ job'.left = job.left
      BY <2>6 DEF IInv, Shape
    <3>2. JobGood'
      BY <2>1, <3>1 DEF KInv, JobGood
    <3>3. QED
      BY <2>1, <2>4, <3>1, <3>2, BundleStep
  <2>7. QED
    BY <2>1, <2>5, <2>6
<1>5. CASE VerifyBundle
  <2>1. PICK l : job' = [job EXCEPT !.pc = "retire", !.src = l]
    BY <1>5 DEF VerifyBundle
  <2>2. job.pc = "verify" /\ UNCHANGED <<now, disk, tenant, arch, proc, jobs, count, beside>>
    BY <1>5 DEF VerifyBundle
  <2>3. /\ job'.pc = "retire" /\ job'.t = job.t /\ job'.kind = job.kind
        /\ job'.got = job.got /\ job'.left = job.left
    BY <2>1 DEF IInv, Shape
  <2>4. JobGood' /\ ArchGood'
    BY <2>2, <2>3 DEF KInv, JobGood, ArchGood, Published
  <2>5. QED
    BY <2>2, <2>3, <2>4, BundleStep
<1>6. CASE Retire
  <2> DEFINE aside == <<job.t[1], "retired", now>>
  <2>1. /\ job.pc = "retire" /\ aside \notin DOMAIN tenant /\ Rename(job.t, aside) /\ job' = Idle
        /\ UNCHANGED <<now, arch, jobs, count, beside>>
    BY <1>6 DEF Retire
  <2>2. job.t \in DOMAIN tenant /\ job.t = <<job.t[1]>>
    BY <2>1 DEF IInv, JobTenant, Holding, KInv, JobGood
  <2>3. ~DrillDir(job.t) /\ ~DrillDir(aside)
    BY <2>2, NotDrillDir, AsideName
  <2> HIDE DEF aside
  <2>4. DiskGood' /\ ProcGood' /\ TenantGood' /\ NothingLost'
    BY <2>1, <2>2, <2>3, RenameJournals
  <2>5. JobGood' /\ Absent' /\ job'.pc = "idle"
    BY <2>1, IdleIsGood DEF JobGood, Absent, Idle
  <2>6. Counters' /\ ArchGood'
    BY <2>1 DEF KInv, Counters, ArchGood, Published
  <2>7. QED
    BY <2>4, <2>5, <2>6, JobApart DEF KInv
<1>7. QED
  BY <1>1, <1>2, <1>3, <1>4, <1>5, <1>6 DEF Decommission

LEMMA ReinstateJournals == ASSUME IInv, KInv, NEW n \in Names, Reinstate(n) PROVE KInv'
<1>1. PICK why \in {"pre-restore", "retired"}, at \in 0 .. MaxTime :
        <<n, why, at>> \in DOMAIN tenant /\ Rename(<<n, why, at>>, <<n>>)
  BY DEF Reinstate
<1>2. /\ job.pc = "idle" /\ <<n>> \notin DOMAIN tenant
      /\ UNCHANGED <<now, arch, job, jobs, count, beside>>
  BY DEF Reinstate
<1>3. ~DrillDir(<<n, why, at>>) /\ ~DrillDir(<<n>>)
  BY NotDrillDir, AsideName
<1>4. DiskGood' /\ ProcGood' /\ TenantGood' /\ NothingLost'
  <2> DEFINE t == <<n, why, at>>
             u == <<n>>
  <2>1. t \in DOMAIN tenant /\ u \notin DOMAIN tenant /\ ~DrillDir(t) /\ ~DrillDir(u) /\ Rename(t, u)
    BY <1>1, <1>2, <1>3
  <2> HIDE DEF t, u
  <2>2. QED
    BY <1>2, <2>1, RenameJournals
<1>5. Counters' /\ ArchGood' /\ JobGood' /\ Absent'
  BY <1>2 DEF KInv, Counters, ArchGood, Published, JobGood, Absent
<1>6. QED
  BY <1>2, <1>4, <1>5, JobApart DEF KInv

LEMMA DeathJournals == ASSUME IInv, KInv, JobDies PROVE KInv'
<1> DEFINE torn == [man |-> NoManifest, whole |-> FALSE]
           x == Lands(Next1, job.src, job.t)
<1>1. /\ job' = Idle /\ UNCHANGED <<now, arch, proc, jobs, count, beside>>
      /\ tenant' = tenant \/ tenant' = Put(tenant, job.t, torn)
      /\ disk' = disk \/ (job.pc = "unpack" /\ job.left # {} /\ disk' = Put(disk, x, {}))
  BY DEF JobDies
<1>2. job.left # {} => GoodPath(x) /\ In(job.t, x)
  <2>1. job.left # {} => Next1 \in job.left
    BY DEF Next1
  <2>2. QED
    BY <2>1, LandGood DEF KInv, JobGood
<1>3. torn.man = NoManifest
  OBVIOUS
<1> HIDE DEF torn, x
<1>4. DOMAIN tenant \subseteq DOMAIN tenant' /\ TenantGood'
  BY <1>1, <1>3 DEF Put, KInv, TenantGood
<1>5. DiskGood' /\ ProcGood' /\ NothingLost'
  <2>1. CASE disk' = disk
    BY <1>1, <1>4, <2>1 DEF KInv, DiskGood, ProcGood, Alive, NothingLost
  <2>2. CASE disk' # disk
    BY <1>1, <1>2, <1>4, <2>2, WriteUnpacked
  <2>3. QED
    BY <2>1, <2>2
<1>6. JobGood' /\ Absent' /\ job'.pc = "idle"
  BY <1>1, IdleIsGood DEF JobGood, Absent, Idle
<1>7. Counters' /\ ArchGood'
  BY <1>1 DEF KInv, Counters, ArchGood, Published
<1>8. QED
  BY <1>4, <1>5, <1>6, <1>7, JobApart DEF KInv

-----------------------------------------------------------------------------
(* The theorems *)

LEMMA InitKInv == Init => KInv
<1> SUFFICES ASSUME Init PROVE KInv
  OBVIOUS
<1> DEFINE own == Dir(<<First>>) \o <<Registry>>
<1>1. /\ DOMAIN disk = {<<Registry>>, <<Run, LogJournal>>, own}
      /\ disk[<<Registry>>] = {1} /\ disk[<<Run, LogJournal>>] = {2}
      /\ disk = [p \in {<<Registry>>, <<Run, LogJournal>>, own} |->
                   CASE p = <<Registry>> -> {1} [] p[1] = Run -> {2} [] OTHER -> {3}]
  BY DEF Init, Run, Registry, LogJournal
<1>2. /\ tenant = [t \in {<<First>>} |-> [man |-> [registry |-> Dir(t) \o <<Registry>>], whole |-> TRUE]]
      /\ arch = [l \in Labels |-> None] /\ proc = [n \in Names |-> Dead] /\ job = Idle
      /\ now = 0 /\ jobs = MaxJobs /\ count = 3 /\ beside = FALSE
  BY DEF Init
<1>3. GoodPath(<<Registry>>) /\ GoodPath(<<Run, LogJournal>>)
      /\ <<Registry>>[1] # TenantsDir /\ <<Run, LogJournal>>[1] # TenantsDir
  <2>1. <<Registry>> \in Seq({Registry}) /\ <<Run, LogJournal>> \in Seq({Run, LogJournal})
        /\ Len(<<Registry>>) = 1 /\ Len(<<Run, LogJournal>>) = 2
    OBVIOUS
  <2>2. Path(<<Registry>>) /\ Path(<<Run, LogJournal>>)
    BY <2>1, SeqPath
  <2>3. <<Registry>>[1] # TenantsDir /\ <<Run, LogJournal>>[1] # TenantsDir
    BY DEF Registry, Run, TenantsDir
  <2>4. QED
    BY <2>1, <2>2, <2>3 DEF GoodPath
<1>4. /\ GoodPath(own) /\ Len(own) > 2 /\ own[1] = TenantsDir /\ own[2] = <<First>>
  BY <1>3, InDir
<1>5. disk[own] = {3} /\ own # <<Registry>> /\ own # <<Run, LogJournal>>
  <2>1. own[1] # Run /\ own[1] # Registry
    BY <1>4 DEF TenantsDir, Run, Registry
  <2> HIDE DEF own
  <2>2. own # <<Registry>> /\ own # <<Run, LogJournal>>
    BY <2>1
  <2>3. QED
    BY <1>1, <2>1, <2>2
<1>6. Counters
  BY <1>2, TenantsAssumption DEF Counters
<1>7. tenant[<<First>>].man.registry = own /\ DOMAIN tenant = {<<First>>}
  BY <1>2
<1> HIDE DEF own
<1>8. DiskGood
  <2>1. {1} \subseteq 1 .. count /\ {2} \subseteq 1 .. count /\ {3} \subseteq 1 .. count
    BY <1>2
  <2>2. QED
    BY <1>1, <1>3, <1>4, <1>5, <1>7, <2>1 DEF DiskGood
<1>9. TenantGood
  BY <1>4, <1>7, NotDrillDir DEF TenantGood, DrillFile
<1>10. ArchGood
  <2>1. None.files = <<>> /\ Entries(<<>>) = {} /\ DOMAIN <<>> = {}
    BY DEF None, Entries
  <2>2. QED
    BY <1>2, <2>1 DEF ArchGood, Published
<1>11. ProcGood
  BY <1>2 DEF ProcGood, Alive
<1>12. JobGood /\ Absent /\ Apart /\ Unpacked
  BY <1>2, IdleIsGood DEF JobGood, Absent, Apart, Unpacked, Idle
<1>13. NothingLost
  <2>1. Entries(disk) = {1} \cup {2} \cup {3}
    BY <1>1, <1>5 DEF Entries
  <2>2. QED
    BY <1>2, <2>1 DEF NothingLost
<1>14. QED
  BY <1>6, <1>8, <1>9, <1>10, <1>11, <1>12, <1>13 DEF KInv

LEMMA StepKInv == IInv /\ BInv /\ KInv /\ [Next]_vars => KInv'
<1> SUFFICES ASSUME IInv, BInv, KInv, [Next]_vars PROVE KInv'
  OBVIOUS
<1>1. ASSUME NEW n \in Names, Service(n) PROVE KInv'
  BY <1>1, UpJournals, AppendJournals, GoneJournals DEF Service
<1>2. CASE Restore
  BY <1>2, RestoreBeginJournals, SetAsideJournals, MakeDirJournals, UnpackJournals,
     RestoreDoneJournals DEF Restore
<1>3. CASE UNCHANGED vars
  <2>1. UNCHANGED <<now, disk, tenant, arch, proc, job, jobs, count, beside>>
    BY <1>3 DEF vars
  <2>2. /\ Counters' /\ DiskGood' /\ TenantGood' /\ ArchGood' /\ ProcGood' /\ JobGood'
        /\ Absent' /\ Apart' /\ NothingLost'
    BY <2>1 DEF KInv, Counters, DiskGood, TenantGood, ArchGood, Published, ProcGood, Alive,
                JobGood, Absent, Apart, Elsewhere, NothingLost
  <2>3. Unpacked'
    BY <2>1, UnpackedKept DEF Published
  <2>4. QED
    BY <2>2, <2>3 DEF KInv
<1>4. QED
  BY <1>1, <1>2, <1>3, BackupJournals, DrillJournals, DecommissionJournals, ReinstateJournals,
     DeathJournals DEF Next

LEMMA KInvAlways == Spec => [](IInv /\ KInv)
<1>1. Spec => [](IInv /\ BInv /\ KInv)
  BY InitIInv, InitBInv, InitKInv, StepIInv, StepBInv, StepKInv, PTL DEF Spec
<1>2. QED
  BY <1>1, PTL

\* Every variable keeps its shape: a service's journal is on disk, wherever a rename
\* has moved it, and no journal is under a tenant that is not there.
THEOREM TypeCorrect == Spec => []TypeOK
  BY KInvAlways, Typed, PTL

\* "Renamed aside, never deleted" (restore.rs 3, bundle.rs 273-274): an entry ever
\* written is in some journal, for any number of tenants, jobs, deaths, archives and
\* services, unless one was started on a tenant that a restore was unpacking.
THEOREM NeverDeleted == Spec => []NothingLost
<1>1. KInv => NothingLost
  BY DEF KInv
<1>2. QED
  BY <1>1, KInvAlways, PTL

\* A restore that ends left every member as it was archived (restore.rs 99-100),
\* for any archive whose members do not collide.
THEOREM RestoreIsWhole == Spec => RestoredHoldsArchive
<1>1. KInv =>
        (RestoreDone /\ job.src \in Published /\ ~beside /\ ~Collides(job.src, job.t) =>
           \A m \in DOMAIN arch[job.src].files :
             disk[Lands(m, job.src, job.t)] = arch[job.src].files[m])
  BY DEF KInv, Unpacked, RestoreDone
<1>2. QED
  BY <1>1, KInvAlways, PTL DEF RestoredHoldsArchive
=============================================================================
