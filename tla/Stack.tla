-------------------------------- MODULE Stack --------------------------------
(***************************************************************************)
(* The orchestrator `unidpp-stack` (ops/src/main.rs): runs of `up` that    *)
(* reconcile each service in order, the cron watch's and the operator's,   *)
(* and `down`, over processes, ports, pid files, binaries and committed    *)
(* contracts. No lock orders the runs: every probe, kill, file operation   *)
(* and spawn of theirs interleaves with the others' and with services that *)
(* start slowly, stop slowly, crash, hang, and find their port taken.      *)
(*                                                                         *)
(* A contract is a version number: a repository's golden is the number of  *)
(* its last commit, a binary and a process carry the one they were built   *)
(* from. Disturbances (commits, crashes, hangs, kills, slowness, a foreign *)
(* listener, a reboot, an operator's command) draw on one finite budget.   *)
(***************************************************************************)
EXTENDS Integers, Sequences, FiniteSets

CONSTANTS
  Services,      \* the listeners, each with a port of its own
  Tunnels,       \* the named tunnels (processes without a port)
  UpOrder,       \* the order in which cmd_up reconciles them
  DownOrder,     \* the order in which cmd_down stops them
  Repos, Repo,   \* Repo[s]: the family repository service s is built from
  Contracts,     \* the repositories with a golden that their service serves
  Tokens,        \* the tunnels that have a token, cloudflared being installed
  Pids,          \* process ids, used again once free
  Ups, Watch,    \* the runs of `up`: the cron watch's, and others (an operator's)
  Slow,          \* whether a service may outlast the orchestrator's waits
  MaxEvents      \* bound: the disturbances of a behaviour

Names == Services \cup Tunnels
RangeOf(s) == {s[i] : i \in DOMAIN s}

Nobody == "nobody"
Foreign == "foreign"
NoBin == -1

ASSUMPTION StackAssumption ==
  /\ Repo \in [Services -> Repos] /\ Contracts \subseteq Repos
  /\ Names # {} /\ Nobody \notin Names
  /\ {Nobody, Foreign} \cap Pids = {} /\ Nobody \notin Ups
  /\ UpOrder \in Seq(Names) /\ DownOrder \in Seq(Names)
  /\ RangeOf(UpOrder) = Names /\ RangeOf(DownOrder) = Names
  /\ Tokens \subseteq Tunnels
  /\ Services \cap Tunnels = {}
  /\ Watch \in Ups
  /\ MaxEvents \in Nat /\ Slow \in BOOLEAN

VARIABLES
  golden,    \* the committed contract of each repository
  bin,       \* the version of its release binary, or NoBin
  proc,      \* the process table
  port,      \* who is bound to each service's port
  mute,      \* the processes that hung: bound, and without an answer of theirs
  pidfile,   \* run/<name>.pid
  pc, at,    \* the step of each run of `up`, and its position in UpOrder
  child,     \* the process it spawned last
  down,      \* the run of `down`: its step and position in DownOrder
  budget,    \* disturbances left
  cause      \* history: what may have cost a process its pid file

vars == <<golden, bin, proc, port, mute, pidfile, pc, at, child, down, budget, cause>>
fileVars == <<golden, bin, pidfile>>
netVars == <<port, mute>>
upVars == <<pc, at, child>>

Free == [st |-> "free", of |-> Nobody, ver |-> NoBin, up |-> Nobody]
Living == {"starting", "serving", "stopping"}

-----------------------------------------------------------------------------
(* Probes *)

\* kill -0 succeeds on any entry of the process table: also on the child that
\* exited and that the run which spawned it has not waited for.
Alive(p) == p \in Pids /\ proc[p].st # "free"

PortTaken(s) == port[s] # Nobody

\* 200 at /healthz, and the repository's name. A process told to stop answers
\* until it is gone, one that hung does not.
IsOurs(s) ==
  /\ port[s] \in Pids /\ port[s] \notin mute
  /\ proc[port[s]].st \in {"serving", "stopping"}

\* Faulty variants: the currency of the binary on disk; the life of the pid on
\* file; contracts compared byte for byte, trailing newline included.
IsCurrentBinary(s) ==
  IsOurs(s) /\ Repo[s] \in Contracts /\ proc[port[s]].ver = bin[Repo[s]]
IsCurrentPid(s) == Alive(pidfile[s])
IsCurrentUntrimmed(s) == FALSE

\* Nothing is current without a golden to read, or when it serves no contract.
IsCurrent(s) ==
  IsOurs(s) /\ Repo[s] \in Contracts /\ proc[port[s]].ver = golden[Repo[s]]

Active(u) == pc[u] # "idle"
Target(u) == UpOrder[at[u]]

-----------------------------------------------------------------------------
(* What a step does to processes and runs *)

Signal(p) == [proc EXCEPT ![p] =
                IF @.st \in {"starting", "serving"} THEN [@ EXCEPT !.st = "stopping"] ELSE @]

\* A process is gone from its port; its entry stays while its parent runs.
Gone(p) ==
  /\ proc' = [proc EXCEPT ![p] = IF @.up # Nobody THEN [@ EXCEPT !.st = "zombie"] ELSE Free]
  /\ port' = [s \in Services |-> IF port[s] = p THEN Nobody ELSE port[s]]
  /\ mute' = mute \ {p}

\* The run ends: init adopts its children and reaps those that exited.
ReapedWithChildren(u) ==   \* faulty: no process group of their own
  [p \in Pids |-> IF proc[p].up # u THEN proc[p]
                  ELSE IF proc[p].st = "zombie" THEN Free
                  ELSE [proc[p] EXCEPT !.up = Nobody, !.st = "stopping"]]
Reaped(u) ==
  [p \in Pids |-> IF proc[p].up # u THEN proc[p]
                  ELSE IF proc[p].st = "zombie" THEN Free
                  ELSE [proc[p] EXCEPT !.up = Nobody]]

EndRun(u) ==
  /\ pc' = [pc EXCEPT ![u] = "idle"]
  /\ at' = [at EXCEPT ![u] = 1]
  /\ child' = [child EXCEPT ![u] = Nobody]
  /\ proc' = Reaped(u)

Goto(u, step) == pc' = [pc EXCEPT ![u] = step] /\ UNCHANGED <<at, child>>

\* The next listener, or the end of cmd_up.
NextTargetPastEnd(u) ==   \* faulty: off by one
  IF at[u] > Len(UpOrder)
  THEN EndRun(u)
  ELSE /\ at' = [at EXCEPT ![u] = @ + 1]
       /\ pc' = [pc EXCEPT ![u] = "check"]
       /\ UNCHANGED <<child, proc>>
NextTarget(u) ==
  IF at[u] = Len(UpOrder)
  THEN EndRun(u)
  ELSE /\ at' = [at EXCEPT ![u] = @ + 1]
       /\ pc' = [pc EXCEPT ![u] = "check"]
       /\ UNCHANGED <<child, proc>>

\* die(): the rest of the services are not reconciled.
Die(u) == EndRun(u)

\* History: two commands at work on the same name. A run is, from the probe
\* that was not satisfied until it goes on to the next name.
Engaged(u, n) == Active(u) /\ pc[u] # "check" /\ Target(u) = n
Meets(u) ==
  IF \/ \E v \in Ups \ {u} : Engaged(v, Target(u))
     \/ down.pc = "unlink" /\ DownOrder[down.at] = Target(u)
  THEN cause \cup {"overlap"} ELSE cause

\* History: a process gets the pid that the pid file of another name still has.
Reuses(p, n) == IF \E m \in Names \ {n} : pidfile[m] = p THEN {"reused"} ELSE {}

Disturb == budget > 0 /\ budget' = budget - 1

-----------------------------------------------------------------------------
(* cmd_up: reconcile *)

UpStart(u) ==
  /\ pc[u] = "idle"
  /\ pc' = [pc EXCEPT ![u] = "check"]
  /\ IF u = Watch THEN UNCHANGED budget ELSE Disturb
  /\ UNCHANGED <<fileVars, proc, netVars, at, child, down, cause>>

Check(u) ==
  /\ pc[u] = "check"
  /\ Target(u) \in Services
  /\ \/ /\ IsCurrent(Target(u))
        /\ NextTarget(u)
        /\ UNCHANGED cause
     \/ /\ ~IsCurrent(Target(u))
        /\ Goto(u, "stale")
        /\ cause' = Meets(u)
        /\ UNCHANGED proc
  /\ UNCHANGED <<fileVars, netVars, down, budget>>

\* A probe times out on a listener that is up, or its contract or the golden
\* cannot be read this once: that counts as a no.
ProbeFails(u) ==
  /\ pc[u] \in {"check", "stale", "start"}
  /\ Target(u) \in Services
  /\ IsOurs(Target(u))
  /\ Slow /\ Disturb
  /\ cause' = Meets(u) \cup {"slow"}
  /\ Goto(u, CASE pc[u] = "check" -> "stale" [] pc[u] = "stale" -> "start" [] OTHER -> "port")
  /\ UNCHANGED <<fileVars, proc, netVars, down>>

\* A second probe tells a stale listener from an absent one.
Stale(u) ==
  /\ pc[u] = "stale"
  /\ Goto(u, IF IsOurs(Target(u)) THEN "kill" ELSE "start")
  /\ UNCHANGED <<fileVars, proc, netVars, down, budget, cause>>

Kill(u) ==
  /\ pc[u] = "kill"
  /\ LET p == pidfile[Target(u)] IN proc' = IF Alive(p) THEN Signal(p) ELSE proc
  /\ Goto(u, "unlink")
  /\ UNCHANGED <<fileVars, netVars, down, budget, cause>>

Unlink(u) ==
  /\ pc[u] = "unlink"
  /\ pidfile' = [pidfile EXCEPT ![Target(u)] = Nobody]
  /\ Goto(u, "drain")
  /\ UNCHANGED <<golden, bin, proc, netVars, down, budget, cause>>

\* Up to ten seconds for the port; then on, whether it is free or not. An
\* orphan, which no pid file named, is never told to leave; one that hung may
\* not leave.
Drain(u) ==
  /\ pc[u] = "drain"
  /\ LET told == IsOurs(Target(u)) /\ proc[port[Target(u)]].st = "stopping"
     IN IF told
        THEN Slow /\ Disturb /\ cause' = cause \cup {"slow"}
        ELSE UNCHANGED <<budget, cause>>
  /\ Goto(u, "build")
  /\ UNCHANGED <<fileVars, proc, netVars, down>>

\* ensure_bin_opt: forced on the stale path, on demand before a spawn.
Build(u) ==
  /\ pc[u] \in {"build", "bin"}
  /\ LET r == Repo[Target(u)] IN
       bin' = IF pc[u] = "bin" /\ bin[r] # NoBin THEN bin ELSE [bin EXCEPT ![r] = golden[r]]
  /\ Goto(u, IF pc[u] = "build" THEN "start" ELSE "spawn")
  /\ UNCHANGED <<golden, pidfile, proc, netVars, down, budget, cause>>

BuildFails(u) ==
  /\ pc[u] = "build" \/ (pc[u] = "bin" /\ bin[Repo[Target(u)]] = NoBin)
  /\ Disturb
  /\ Die(u)
  /\ UNCHANGED <<fileVars, netVars, down, cause>>

-----------------------------------------------------------------------------
(* cmd_up: start_service *)

Start(u) ==
  /\ pc[u] = "start"
  /\ IF IsOurs(Target(u)) THEN NextTarget(u) ELSE Goto(u, "port") /\ UNCHANGED proc
  /\ UNCHANGED <<fileVars, netVars, down, budget, cause>>

Port(u) ==
  /\ pc[u] = "port"
  /\ IF PortTaken(Target(u)) THEN Die(u) ELSE Goto(u, "bin") /\ UNCHANGED proc
  /\ UNCHANGED <<fileVars, netVars, down, budget, cause>>

Spawn(u) ==
  /\ pc[u] = "spawn"
  /\ \E p \in Pids :
       /\ proc[p].st = "free"
       /\ proc' = [proc EXCEPT ![p] = [st |-> "starting", of |-> Target(u),
                                       ver |-> bin[Repo[Target(u)]], up |-> u]]
       /\ child' = [child EXCEPT ![u] = p]
       /\ cause' = cause \cup Reuses(p, Target(u))
  /\ pc' = [pc EXCEPT ![u] = "pidfile"]
  /\ UNCHANGED <<fileVars, netVars, at, down, budget>>

\* Here only for want of a pid; for a tunnel as well.
SpawnFails(u) ==
  /\ \/ pc[u] = "spawn"
     \/ /\ pc[u] = "check"
        /\ Target(u) \in Tokens /\ ~Alive(pidfile[Target(u)])
  /\ \A p \in Pids : proc[p].st # "free"
  /\ Die(u)
  /\ UNCHANGED <<fileVars, netVars, down, budget, cause>>

WritePidOnce(u) ==   \* faulty: a leftover pid file is not overwritten
  /\ pc[u] = "pidfile"
  /\ pidfile' = IF pidfile[Target(u)] = Nobody
                THEN [pidfile EXCEPT ![Target(u)] = child[u]] ELSE pidfile
  /\ IF Target(u) \in Services THEN Goto(u, "poll") /\ UNCHANGED proc ELSE NextTarget(u)
  /\ UNCHANGED <<golden, bin, netVars, down, budget, cause>>
WritePid(u) ==
  /\ pc[u] = "pidfile"
  /\ pidfile' = [pidfile EXCEPT ![Target(u)] = child[u]]
  /\ IF Target(u) \in Services THEN Goto(u, "poll") /\ UNCHANGED proc ELSE NextTarget(u)
  /\ UNCHANGED <<golden, bin, netVars, down, budget, cause>>

Healthy(u) ==
  /\ pc[u] = "poll"
  /\ IsOurs(Target(u))
  /\ NextTarget(u)
  /\ UNCHANGED <<fileVars, netVars, down, budget, cause>>

\* The tries are used up. A child still starting after a minute is slow, and
\* goes on starting when the run has given up. (A child that exited is waited
\* for as long: kill -0 finds it, so the other die() of the loop is not met.)
NotHealthyForever(u) ==   \* faulty: the tries are not counted
  /\ pc[u] = "poll"
  /\ ~IsOurs(Target(u))
  /\ Goto(u, "poll")
  /\ UNCHANGED <<fileVars, proc, netVars, down, budget, cause>>
NotHealthy(u) ==
  /\ pc[u] = "poll"
  /\ ~IsOurs(Target(u))
  /\ IF proc[child[u]].st = "starting"
     THEN Slow /\ Disturb /\ cause' = cause \cup {"slow"}
     ELSE UNCHANGED <<budget, cause>>
  /\ Die(u)
  /\ UNCHANGED <<fileVars, netVars, down>>

-----------------------------------------------------------------------------
(* cmd_up: ensure_named_tunnel *)

\* No token skips; a live pid is adopted, whatever it is; else spawn.
Tunnel(u) ==
  /\ pc[u] = "check"
  /\ Target(u) \in Tunnels
  /\ \/ /\ Target(u) \notin Tokens \/ Alive(pidfile[Target(u)])
        /\ NextTarget(u)
        /\ UNCHANGED cause
     \/ /\ Target(u) \in Tokens /\ ~Alive(pidfile[Target(u)])
        /\ \E p \in Pids :
             /\ proc[p].st = "free"
             /\ cause' = Meets(u) \cup Reuses(p, Target(u))
             /\ proc' = [proc EXCEPT ![p] = [st |-> "serving", of |-> Target(u),
                                             ver |-> NoBin, up |-> u]]
             /\ child' = [child EXCEPT ![u] = p]
        /\ pc' = [pc EXCEPT ![u] = "pidfile"]
        /\ UNCHANGED at
  /\ UNCHANGED <<fileVars, netVars, down, budget>>

-----------------------------------------------------------------------------
(* cmd_down *)

DownStart ==
  /\ down.pc = "idle"
  /\ Disturb
  /\ down' = [pc |-> "kill", at |-> 1]
  /\ UNCHANGED <<fileVars, proc, netVars, upVars, cause>>

DownNext == down' = IF down.at = Len(DownOrder) THEN [pc |-> "idle", at |-> 1]
                    ELSE [pc |-> "kill", at |-> down.at + 1]

\* A name without a pid file is passed over.
DownKill ==
  /\ down.pc = "kill"
  /\ LET n == DownOrder[down.at]  p == pidfile[n] IN
       \/ /\ p = Nobody
          /\ DownNext
          /\ UNCHANGED <<proc, cause>>
       \/ /\ p # Nobody
          /\ proc' = IF Alive(p) THEN Signal(p) ELSE proc
          /\ down' = [down EXCEPT !.pc = "unlink"]
          /\ cause' = IF \E u \in Ups : Engaged(u, n) THEN cause \cup {"overlap"} ELSE cause
  /\ UNCHANGED <<fileVars, netVars, upVars, budget>>

\* The pid file goes without a look at whether the process did, or at whether
\* it is still the one that was read.
DownUnlink ==
  /\ down.pc = "unlink"
  /\ pidfile' = [pidfile EXCEPT ![DownOrder[down.at]] = Nobody]
  /\ DownNext
  /\ UNCHANGED <<golden, bin, proc, netVars, upVars, budget, cause>>

-----------------------------------------------------------------------------
(* The services, and the world *)

Bind(p) ==
  /\ proc[p].st = "starting"
  /\ ~PortTaken(proc[p].of)
  /\ proc' = [proc EXCEPT ![p].st = "serving"]
  /\ port' = [port EXCEPT ![proc[p].of] = p]
  /\ UNCHANGED <<fileVars, mute, upVars, down, budget, cause>>

\* port_taken binds the port to probe it, for an instant.
Probed(s) == \E u \in Ups : pc[u] \in {"drain", "port"} /\ Target(u) = s

BindFails(p) ==
  /\ proc[p].st = "starting"
  /\ PortTaken(proc[p].of) \/ Probed(proc[p].of)
  /\ Gone(p)
  /\ UNCHANGED <<fileVars, upVars, down, budget, cause>>

Stopped(p) ==
  /\ proc[p].st = "stopping"
  /\ Gone(p)
  /\ UNCHANGED <<fileVars, upVars, down, budget, cause>>

Crash(p) ==
  /\ proc[p].st \in {"starting", "serving"}
  /\ Disturb
  /\ Gone(p)
  /\ UNCHANGED <<fileVars, upVars, down, cause>>

\* It keeps its port, and /healthz has no 200 or the discovery document no name.
Hangs(p) ==
  /\ p \in {port[s] : s \in Services} \ mute
  /\ Disturb
  /\ mute' = mute \cup {p}
  /\ UNCHANGED <<fileVars, proc, port, upVars, down, cause>>

\* Between the two probes of a run it makes the first a probe that timed out.
Recovers(p) ==
  /\ p \in mute
  /\ mute' = mute \ {p}
  /\ cause' = IF \E u \in Ups : /\ pc[u] = "stale" /\ Target(u) \in Services
                                /\ port[Target(u)] = p
              THEN cause \cup {"slow"} ELSE cause
  /\ UNCHANGED <<fileVars, proc, port, upVars, down, budget>>

\* A run is interrupted; a child without its pid file, or not yet serving,
\* is on its own.
UpKilled(u) ==
  /\ Active(u)
  /\ Disturb
  /\ cause' = IF pc[u] \in {"pidfile", "poll"} THEN cause \cup {"killed"} ELSE cause
  /\ EndRun(u)
  /\ UNCHANGED <<fileVars, netVars, down>>

Commit(r) ==
  /\ Disturb
  /\ golden' = [golden EXCEPT ![r] = @ + 1]
  /\ UNCHANGED <<bin, pidfile, proc, netVars, upVars, down, cause>>

ForeignBinds(s) ==
  /\ port[s] = Nobody
  /\ Disturb
  /\ port' = [port EXCEPT ![s] = Foreign]
  /\ UNCHANGED <<fileVars, mute, proc, upVars, down, cause>>

ForeignLeaves(s) ==
  /\ port[s] = Foreign
  /\ port' = [port EXCEPT ![s] = Nobody]
  /\ UNCHANGED <<fileVars, mute, proc, upVars, down, budget, cause>>

\* Every process is gone; the pid files are not.
Reboot ==
  /\ Disturb
  /\ proc' = [p \in Pids |-> Free]
  /\ port' = [s \in Services |-> Nobody]
  /\ mute' = {}
  /\ pc' = [u \in Ups |-> "idle"]
  /\ at' = [u \in Ups |-> 1]
  /\ child' = [u \in Ups |-> Nobody]
  /\ down' = [pc |-> "idle", at |-> 1]
  /\ UNCHANGED <<fileVars, cause>>

-----------------------------------------------------------------------------
Init ==
  /\ golden = [r \in Repos |-> 0]
  /\ bin \in [Repos -> {NoBin, 0}]
  /\ proc = [p \in Pids |-> Free]
  /\ port = [s \in Services |-> Nobody]
  /\ mute = {}
  /\ pidfile = [n \in Names |-> Nobody]
  /\ pc = [u \in Ups |-> "idle"]
  /\ at = [u \in Ups |-> 1]
  /\ child = [u \in Ups |-> Nobody]
  /\ down = [pc |-> "idle", at |-> 1]
  /\ budget = MaxEvents
  /\ cause = {}

UpStep(u) ==
  \/ Check(u) \/ Stale(u) \/ Kill(u) \/ Unlink(u) \/ Drain(u) \/ Build(u) \/ Start(u)
  \/ Port(u) \/ Spawn(u) \/ SpawnFails(u) \/ WritePid(u) \/ Healthy(u) \/ NotHealthy(u) \/ Tunnel(u)
ProcessStep(p) == Bind(p) \/ BindFails(p) \/ Stopped(p)
DownStep == DownKill \/ DownUnlink
Disturbance ==
  \/ \E p \in Pids : Crash(p) \/ Hangs(p)
  \/ \E u \in Ups : UpKilled(u) \/ BuildFails(u) \/ ProbeFails(u)
  \/ \E r \in Repos : Commit(r)
  \/ \E s \in Services : ForeignBinds(s)
  \/ DownStart \/ Reboot

Next ==
  \/ \E u \in Ups : UpStart(u) \/ UpStep(u)
  \/ \E p \in Pids : ProcessStep(p) \/ Recovers(p)
  \/ \E s \in Services : ForeignLeaves(s)
  \/ DownStep \/ Disturbance

\* cron starts the watch every ten minutes; a run takes its steps, its waits
\* being bounded; a process that starts gets there, and one that is told to stop
\* unless it hung. Nothing makes a process that hung recover or leave, nor
\* whatever else holds a port.
Fairness ==
  /\ WF_vars(UpStart(Watch))
  /\ \A u \in Ups : WF_vars(UpStep(u))
  /\ \A p \in Pids : WF_vars(p \notin mute /\ ProcessStep(p))
  /\ WF_vars(DownStep)

Spec == Init /\ [][Next]_vars
FairSpec == Spec /\ Fairness

-----------------------------------------------------------------------------
(* Properties *)

\* Every variable keeps its shape.
TypeOK ==
  /\ golden \in [Repos -> 0 .. MaxEvents]
  /\ bin \in [Repos -> NoBin .. MaxEvents]
  /\ proc \in [Pids -> [st : Living \cup {"free", "zombie"}, of : Names \cup {Nobody},
                        ver : NoBin .. MaxEvents, up : Ups \cup {Nobody}]]
  /\ port \in [Services -> Pids \cup {Nobody, Foreign}]
  /\ mute \subseteq Pids
  /\ pidfile \in [Names -> Pids \cup {Nobody}]
  /\ pc \in [Ups -> {"idle", "check", "stale", "kill", "unlink", "drain", "build", "start",
                     "port", "bin", "spawn", "pidfile", "poll"}]
  /\ at \in [Ups -> DOMAIN UpOrder]
  /\ child \in [Ups -> Pids \cup {Nobody}]
  /\ down \in [pc : {"idle", "kill", "unlink"}, at : DOMAIN DownOrder]
  /\ budget \in 0 .. MaxEvents
  /\ cause \subseteq {"overlap", "slow", "killed", "reused"}

Undisturbed == cause \subseteq {"reused"}

Tracked(p) ==
  \/ pidfile[proc[p].of] = p
  \/ \E u \in Ups : pc[u] = "pidfile" /\ child[u] = p

\* As long as no two commands were at work on one name, nothing outlasted the
\* orchestrator's waits and no run was killed over a child it had just spawned,
\* every service and tunnel that runs is named by its pid file, or is about to
\* be: whatever runs went on at once, crashed, was rebuilt, was refused its port
\* or rebooted (main.rs 332-357, 487-511, 524-570). It is what lets `down` stop,
\* and `up` replace, all there is.
NoOrphans ==
  Undisturbed => \A p \in Pids : proc[p].st \in {"starting", "serving"} => Tracked(p)

\* The reconciler kills a listener it judged stale two probes ago (325-342); in
\* the same circumstances it kills none that is current by then (without a
\* contract none ever is), and a process of another name only if it was given a
\* pid that a leftover pid file has.
KeepsTheCurrent ==
  [][\A u \in Ups, p \in Pids :
       /\ pc[u] = "kill" /\ pc'[u] = "unlink"
       /\ proc[p].st = "serving" /\ proc'[p].st = "stopping"
       => \/ ~Undisturbed
          \/ /\ proc[p].of = Target(u)
             /\ Repo[Target(u)] \in Contracts => proc[p].ver < golden[Repo[Target(u)]]
          \/ proc[p].of # Target(u) /\ cause = {"reused"}]_vars

\* A port held by what does not answer for the service makes every run die
\* there (463-469), so the services after it in the order are not reached.
Held(s) == PortTaken(s) /\ ~IsOurs(s)
Blocked(s) ==
  \E i, j \in DOMAIN UpOrder :
    i <= j /\ UpOrder[j] = s /\ UpOrder[i] \in Services /\ Held(UpOrder[i])

\* The watch heals downtime (321-323): disturbances being finite, every service
\* ends up answering for good, or only again and again when it has no contract to
\* be current by (315-318), its own runs stopping it each time; unless a port at
\* or before it stays held by a process that hung, or by another program.
HealsDowntime ==
  \A s \in Services :
    \/ <>[]Blocked(s)
    \/ Repo[s] \in Contracts /\ <>[]IsOurs(s)
    \/ Repo[s] \notin Contracts /\ []<>IsOurs(s)

ServesCommitted(s) ==
  IsOurs(s) /\ proc[port[s]].st = "serving" /\ proc[port[s]].ver = golden[Repo[s]]

\* And drift: in the absence of the causes above, every service that has a
\* contract ends up serving the committed one for good, but for the same
\* obstacle.
HealsDrift ==
  []Undisturbed =>
    \A s \in Services : Repo[s] \in Contracts => <>[]Blocked(s) \/ <>[]ServesCommitted(s)

\* `up` does not hang: a run ends, whatever its services do (every wait is
\* bounded by a number of tries).
UpEnds == \A u \in Ups : Active(u) ~> ~Active(u)

\* "The watch self-heals drift exactly as it heals downtime" (main.rs 322): with
\* no more exceptions than HealsDowntime has.
HealsDriftLikeDowntime ==
  \A s \in Services : Repo[s] \in Contracts => <>[]Blocked(s) \/ <>[]ServesCommitted(s)
=============================================================================
