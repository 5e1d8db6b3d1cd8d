------------------------------- MODULE Recover -------------------------------
(***************************************************************************)
(* Disaster recovery (ops-tools/src/recover.rs): the live state is set     *)
(* aside, target by target, and an archive unpacked in its place, file by  *)
(* file. A recovery may die in any step and be run again with --force;     *)
(* services that it should have found stopped may be up, be stopping, or   *)
(* be started by the watch while it runs.                                  *)
(*                                                                         *)
(* A file is the set of the entries it holds, with 0 for the file itself:  *)
(* {} is no file, {0} an empty one. A service goes on writing the file it  *)
(* opened, wherever a rename has moved it; fs::write cuts the file short   *)
(* that is there (services append, so nothing is written back over it).    *)
(***************************************************************************)
EXTENDS Integers, Sequences, FiniteSets, SequencesExt

CONSTANTS
  Files, Target,   \* the deployment's files; Target[f]: the entry of the root f is (in)
  Targets,         \* the entries that recover sets aside, in its order
  RunDir,          \* the one of them with the pid files, run/
  Members,         \* the archive's members, in its order
  Services, Opens, \* the services that keep a journal; Opens[s]: that journal
  Needs,           \* Needs[s]: the files without which s is not started
  Seen,            \* the services with a pid file in run/ itself, not under it
  MaxTime,         \* bound: the last second of the clock
  MaxEntries,      \* bound: the last entry of a file
  MaxCrashes       \* bound: recoveries that die

ASSUMPTION RecoverAssumption ==
  /\ Targets \in Seq(ToSet(Targets)) /\ IsInjective(Targets)
  /\ Target \in [Files -> ToSet(Targets)]
  /\ RunDir \in ToSet(Targets)
  /\ Members \in Seq(Files) /\ IsInjective(Members)
  /\ Opens \in [Services -> Files] /\ Needs \in [Services -> SUBSET Files]
  /\ Seen \subseteq Services
  /\ MaxTime \in Nat /\ MaxEntries \in Nat \ {0} /\ MaxCrashes \in Nat

Live == -1
Places == {Live} \cup 0 .. MaxTime
Gone == {}
Empty == {0}

VARIABLES
  now,       \* the UTC clock, in seconds
  copy,      \* copy[f][p]: file f live, or set aside with stamp p
  last,      \* the number of the last entry written to each file
  svc,       \* each service: down, up or stopping
  handle,    \* the place of the file it has open
  pidfile,   \* whether its pid file is there
  rec,       \* the running recovery: its step, stamp, and position in that step
  crashes,   \* recoveries that may yet die
  beside     \* history: a service was started beside a running recovery

vars == <<now, copy, last, svc, handle, pidfile, rec, crashes, beside>>
svcVars == <<svc, handle, pidfile>>

Idle == [pc |-> "idle", stamp |-> 0, at |-> 1]

\* What a backup holds of a file: its first entry.
Archived(f) == IF f \in ToSet(Members) THEN {0, 1} ELSE Gone

SetAsideAt(p) == \E f \in Files : copy[f][p] # Gone
Leftover == \E p \in 0 .. MaxTime : SetAsideAt(p)

-----------------------------------------------------------------------------
(* The deployment *)

Tick ==
  /\ now < MaxTime
  /\ now' = now + 1
  /\ UNCHANGED <<copy, last, svcVars, rec, crashes, beside>>

\* `up`, the watch's or an operator's, or a tenant's: the service replays its
\* journal, or begins one. A run/ that is moved away in between costs the pid
\* file (cmd_up made the directory when it began).
ServiceUp(s) ==
  /\ svc[s] = "down"
  /\ \A f \in Needs[s] : copy[f][Live] # Gone
  /\ svc' = [svc EXCEPT ![s] = "up"]
  /\ handle' = [handle EXCEPT ![s] = Live]
  /\ copy' = [copy EXCEPT ![Opens[s]][Live] = @ \cup Empty]
  /\ \E written \in {TRUE} \cup (IF rec.pc = "aside" THEN {FALSE} ELSE {}) :
       pidfile' = [pidfile EXCEPT ![s] = written]
  /\ beside' = (beside \/ rec.pc # "idle")
  /\ UNCHANGED <<now, last, rec, crashes>>

Append1(s) ==
  LET f == Opens[s] IN
    /\ svc[s] \in {"up", "stopping"}
    /\ last[f] < MaxEntries
    /\ last' = [last EXCEPT ![f] = @ + 1]
    /\ copy' = [copy EXCEPT ![f][handle[s]] = @ \cup {last[f] + 1}]
    /\ UNCHANGED <<now, svcVars, rec, crashes, beside>>

\* `down` signals the pid on file, and removes the file before the service is
\* gone.
ServiceDown(s) ==
  /\ svc[s] = "up" /\ pidfile[s]
  /\ svc' = [svc EXCEPT ![s] = "stopping"]
  /\ pidfile' = [pidfile EXCEPT ![s] = FALSE]
  /\ UNCHANGED <<now, copy, last, handle, rec, crashes, beside>>

\* Stopped, or crashed: the pid file of a crash stays.
ServiceGone(s) ==
  /\ svc[s] # "down"
  /\ svc' = [svc EXCEPT ![s] = "down"]
  /\ UNCHANGED <<now, copy, last, handle, pidfile, rec, crashes, beside>>

-----------------------------------------------------------------------------
(* cmd_recover *)

\* A live pid in a file of run/ refuses; so does a former recovery's leftover,
\* without --force. Two recoveries in one second would set aside to one name: the
\* operator, who looks at the first before the second, is assumed to take longer.
RefusedUnlessForced(force) ==   \* faulty: --force is for both
  ~force /\ (Leftover \/ \E s \in Seen : pidfile[s] /\ svc[s] # "down")
Refused(force) == \/ \E s \in Seen : pidfile[s] /\ svc[s] # "down"
                  \/ Leftover /\ ~force

StampAhead == now + 1   \* faulty: local time for UTC
Stamp == now

RecoverStart(force) ==
  /\ rec.pc = "idle"
  /\ ~Refused(force)
  /\ ~SetAsideAt(now)
  /\ rec' = [pc |-> "aside", stamp |-> Stamp, at |-> 1]
  /\ UNCHANGED <<now, copy, last, svcVars, crashes, beside>>

\* What a rename of target t moves: its files, with those who have them open.
MovedOnce(t) ==   \* faulty: what an earlier attempt moved is not moved again
  {f \in Files : Target[f] = t /\ copy[f][Live] # Gone
                   /\ \A p \in 0 .. MaxTime : copy[f][p] = Gone}
Moved(t) == {f \in Files : Target[f] = t /\ copy[f][Live] # Gone}

SetAside ==
  LET t == Targets[rec.at] IN
    /\ rec.pc = "aside"
    /\ copy' = [f \in Files |->
                  IF f \in Moved(t)
                  THEN [copy[f] EXCEPT ![rec.stamp] = copy[f][Live], ![Live] = Gone]
                  ELSE copy[f]]
    /\ handle' = [s \in Services |->
                    IF handle[s] = Live /\ Opens[s] \in Moved(t) THEN rec.stamp ELSE handle[s]]
    /\ pidfile' = [s \in Services |-> pidfile[s] /\ t # RunDir]
    /\ rec' = IF rec.at = Len(Targets) THEN [rec EXCEPT !.pc = "unpack", !.at = 1]
              ELSE [rec EXCEPT !.at = @ + 1]
    /\ UNCHANGED <<now, last, svc, crashes, beside>>

\* fs::write: the member's bytes replace what is there.
Unpack ==
  /\ rec.pc = "unpack"
  /\ rec.at <= Len(Members)
  /\ copy' = [copy EXCEPT ![Members[rec.at]][Live] = Archived(Members[rec.at])]
  /\ rec' = [rec EXCEPT !.at = @ + 1]
  /\ UNCHANGED <<now, last, svcVars, crashes, beside>>

RecoverDone ==
  /\ rec.pc = "unpack"
  /\ rec.at > Len(Members)
  /\ rec' = Idle
  /\ UNCHANGED <<now, copy, last, svcVars, crashes, beside>>

\* Killed, or a rename or a write fails: die(). A write may be cut short.
RecoverDies ==
  /\ rec.pc # "idle"
  /\ crashes > 0 /\ crashes' = crashes - 1
  /\ rec' = Idle
  /\ copy' \in {copy} \cup
       (IF rec.pc = "unpack" /\ rec.at <= Len(Members)
        THEN {[copy EXCEPT ![Members[rec.at]][Live] = Empty]} ELSE {})
  /\ UNCHANGED <<now, last, svcVars, beside>>

-----------------------------------------------------------------------------
\* The deployment in service, or found after a loss: stopped, some targets gone.
Init ==
  /\ now = 0
  /\ \E lost \in SUBSET ToSet(Targets) :
       copy = [f \in Files |-> [p \in Places |->
                 IF p = Live /\ Target[f] \notin lost THEN {0, 1} ELSE Gone]]
  /\ last = [f \in Files |-> 1]
  /\ svc = [s \in Services |-> "down"]
  /\ handle = [s \in Services |-> Live]
  /\ pidfile = [s \in Services |-> FALSE]
  /\ rec = Idle
  /\ crashes = MaxCrashes
  /\ beside = FALSE

ServiceStep(s) == ServiceUp(s) \/ Append1(s) \/ ServiceDown(s) \/ ServiceGone(s)
RecoverStep == SetAside \/ Unpack \/ RecoverDone \/ RecoverDies

Next ==
  \/ Tick
  \/ \E s \in Services : ServiceStep(s)
  \/ \E force \in BOOLEAN : RecoverStart(force)
  \/ RecoverStep

Spec == Init /\ [][Next]_vars

-----------------------------------------------------------------------------
(* Properties *)

\* Every variable keeps its shape, and an open file is there.
TypeOK ==
  /\ now \in 0 .. MaxTime
  /\ copy \in [Files -> [Places -> SUBSET (0 .. MaxEntries)]]
  /\ last \in [Files -> 1 .. MaxEntries]
  /\ svc \in [Services -> {"down", "up", "stopping"}]
  /\ handle \in [Services -> Places]
  /\ pidfile \in [Services -> BOOLEAN]
  /\ rec \in [pc : {"idle", "aside", "unpack"}, stamp : 0 .. MaxTime, at : Nat \ {0}]
  /\ crashes \in 0 .. MaxCrashes
  /\ beside \in BOOLEAN
  /\ \A s \in Services : svc[s] # "down" => copy[Opens[s]][handle[s]] # Gone

\* "Renamed aside, never deleted" (recover.rs 5-8): an entry that a service ever
\* wrote is in some file, live or aside, or in the archive - whatever died, was
\* forced, was found running or still stopping - unless a service was started
\* beside a recovery, whose unpacking cuts the new journal short.
NothingLost ==
  ~beside => \A f \in Files : \A e \in 2 .. last[f] : \E p \in Places : e \in copy[f][p]

\* "Refuse while any is up (the rename-aside would strand live state)" (18-19):
\* a service that is up, has its pid file in run/ and was not started beside a
\* recovery writes the live journal.
SeenNotStranded ==
  ~beside => \A s \in Seen : svc[s] = "up" => handle[s] = Live

\* A recovery that reports done left the archive's state and nothing else,
\* whatever earlier attempts and the services between them left.
RecoveredIsArchive ==
  [][RecoverDone /\ ~beside => \A f \in Files : copy[f][Live] = Archived(f)]_vars

\* The same, of all services that still write (18-19).
NoneStranded ==
  ~beside => \A s \in Services : svc[s] # "down" => handle[s] = Live
=============================================================================
