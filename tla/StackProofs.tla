----------------------------- MODULE StackProofs -----------------------------
(***************************************************************************)
(* Proofs about Stack: that whatever runs is named by its pid file, and    *)
(* what the reconciler may kill, for any services, runs and disturbances.  *)
(***************************************************************************)
EXTENDS Stack, TLAPS

-----------------------------------------------------------------------------
(* The inductive invariant *)

Running(p) == proc[p].st \in {"starting", "serving"}

\* Nothing is of a version that has not been committed; a commit costs one of
\* the disturbances.
Versions ==
  /\ \A r \in Repos : bin[r] <= golden[r] /\ golden[r] + budget <= MaxEvents
  /\ \A p \in Pids : proc[p].of \in Services => proc[p].ver <= golden[Repo[proc[p].of]]

\* A port is held by the process that serves there, or did until it was told to
\* stop; what is still starting is a service, and every process has a name.
Bound ==
  /\ \A s \in Services : port[s] \in Pids =>
       proc[port[s]].of = s /\ proc[port[s]].st \in {"serving", "stopping"}
  /\ \A p \in Pids : proc[p].st = "serving" /\ proc[p].of \in Services => port[proc[p].of] = p
  /\ \A p \in Pids : proc[p].st = "starting" => proc[p].of \in Services
  /\ \A p \in Pids : proc[p].st # "free" => proc[p].of \in Names

\* A run is past its first probe only of a service; a tunnel's child has no other
\* step than its pid file.
OnService(u) == pc[u] \notin {"idle", "check", "pidfile"} => Target(u) \in Services

\* The child is in the process table as long as its parent has not gone on.
ChildThere(u) ==
  pc[u] \in {"pidfile", "poll"} =>
    /\ child[u] \in Pids
    /\ proc[child[u]].st # "free" /\ proc[child[u]].of = Target(u) /\ proc[child[u]].up = u

\* No two commands are at work on one name.
Alone ==
  /\ \A u, v \in Ups : \A n \in Names : Engaged(u, n) /\ Engaged(v, n) => u = v
  /\ \A u \in Ups : down.pc = "unlink" => ~Engaged(u, DownOrder[down.at])

\* A service that is starting is the child of a run that waits for it.
Awaited ==
  \A p \in Pids : proc[p].st = "starting" =>
    \E u \in Ups : pc[u] \in {"pidfile", "poll"} /\ child[u] = p

\* Nothing of the name runs when its pid file is removed, or when another process
\* is about to be spawned for it; after that, its child alone.
Cleared(u) ==
  pc[u] \in {"unlink", "bin", "spawn"} => \A p \in Pids : Running(p) => proc[p].of # Target(u)
Only(u) ==
  pc[u] \in {"pidfile", "poll"} =>
    \A p \in Pids : Running(p) /\ proc[p].of = Target(u) => p = child[u]
DownCleared ==
  down.pc = "unlink" => \A p \in Pids : Running(p) => proc[p].of # DownOrder[down.at]

\* The port that was free is taken by nobody of ours but the child.
PortKept(u) ==
  /\ pc[u] \in {"bin", "spawn"} => port[Target(u)] \notin Pids
  /\ pc[u] \in {"pidfile", "poll"} /\ Target(u) \in Services /\ port[Target(u)] \in Pids
       => port[Target(u)] = child[u]

\* What a run has judged stale, and not hung, stays stale; of a service without a
\* contract nothing is said.
Outdated(u) ==
  pc[u] \in {"stale", "kill"} /\ Repo[Target(u)] \in Contracts =>
    \A p \in Pids :
      /\ proc[p].st = "serving" /\ proc[p].of = Target(u)
      /\ p \notin mute \/ pc[u] = "kill"
      => proc[p].ver < golden[Repo[Target(u)]]

\* A pid on file that is in use is of the name's own process.
OwnPids ==
  cause = {} => \A n \in Names : Alive(pidfile[n]) => proc[pidfile[n]].of = n

Watched ==
  Undisturbed =>
    /\ Alone /\ Awaited /\ DownCleared
    /\ \A u \in Ups : Cleared(u) /\ Only(u) /\ PortKept(u) /\ Outdated(u)

IInv ==
  /\ TypeOK /\ Versions /\ Bound
  /\ \A u \in Ups : OnService(u) /\ ChildThere(u)
  /\ Watched /\ OwnPids /\ NoOrphans

-----------------------------------------------------------------------------
(* Constants and types *)

LEMMA Constants ==
  /\ Nobody \notin Pids /\ Foreign \notin Pids /\ Nobody \notin Ups /\ Nobody # Foreign
  /\ Services \cap Tunnels = {} /\ Services \subseteq Names /\ Tunnels \subseteq Names
  /\ \A s \in Services : Repo[s] \in Repos
  /\ Nobody \notin Names /\ Nobody \notin Services
  /\ MaxEvents \in Nat /\ NoBin = -1
  BY StackAssumption DEF StackAssumption, Names, Nobody, Foreign, NoBin

LEMMA Orders ==
  /\ Len(UpOrder) \in Nat /\ DOMAIN UpOrder = 1 .. Len(UpOrder) /\ 1 \in DOMAIN UpOrder
  /\ Len(DownOrder) \in Nat /\ DOMAIN DownOrder = 1 .. Len(DownOrder) /\ 1 \in DOMAIN DownOrder
  /\ \A i \in DOMAIN UpOrder : UpOrder[i] \in Names
  /\ \A i \in DOMAIN DownOrder : DownOrder[i] \in Names
<1>1. /\ UpOrder \in Seq(Names) /\ DownOrder \in Seq(Names)
      /\ RangeOf(UpOrder) = Names /\ RangeOf(DownOrder) = Names
  BY StackAssumption DEF StackAssumption
<1>2. PICK n \in Names : TRUE
  BY StackAssumption DEF StackAssumption
<1>3. /\ Len(UpOrder) \in Nat /\ DOMAIN UpOrder = 1 .. Len(UpOrder)
      /\ Len(DownOrder) \in Nat /\ DOMAIN DownOrder = 1 .. Len(DownOrder)
  BY <1>1
<1>4. DOMAIN UpOrder # {} /\ DOMAIN DownOrder # {}
  BY <1>1, <1>2 DEF RangeOf
<1>5. 1 \in DOMAIN UpOrder /\ 1 \in DOMAIN DownOrder
  BY <1>3, <1>4
<1>6. QED
  BY <1>1, <1>3, <1>5 DEF RangeOf

Statuses == {"starting", "serving", "stopping", "free", "zombie"}
Entry == [st : Statuses, of : Names \cup {Nobody}, ver : NoBin .. MaxEvents, up : Ups \cup {Nobody}]
Steps == {"idle", "check", "stale", "kill", "unlink", "drain", "build", "start",
          "port", "bin", "spawn", "pidfile", "poll"}

ProcType == proc \in [Pids -> Entry]
PortType == port \in [Services -> Pids \cup {Nobody, Foreign}] /\ mute \subseteq Pids
RunType ==
  pc \in [Ups -> Steps] /\ at \in [Ups -> DOMAIN UpOrder] /\ child \in [Ups -> Pids \cup {Nobody}]
DownType == down \in [pc : {"idle", "kill", "unlink"}, at : DOMAIN DownOrder]
FileType ==
  /\ golden \in [Repos -> 0 .. MaxEvents] /\ bin \in [Repos -> NoBin .. MaxEvents]
  /\ pidfile \in [Names -> Pids \cup {Nobody}]
BoundsType == budget \in 0 .. MaxEvents /\ cause \subseteq {"overlap", "slow", "killed", "reused"}

LEMMA TypeParts ==
  TypeOK <=> ProcType /\ PortType /\ RunType /\ DownType /\ FileType /\ BoundsType
<1>1. Living \cup {"free", "zombie"} = Statuses
  BY DEF Living, Statuses
<1>2. QED
  BY <1>1, Zenon DEF TypeOK, ProcType, PortType, RunType, DownType, FileType, BoundsType, Entry, Steps

LEMMA TypePartsNext ==
  TypeOK' <=> ProcType' /\ PortType' /\ RunType' /\ DownType' /\ FileType' /\ BoundsType'
<1>1. Living \cup {"free", "zombie"} = Statuses
  BY DEF Living, Statuses
<1>2. QED
  BY <1>1, Zenon DEF TypeOK, ProcType, PortType, RunType, DownType, FileType, BoundsType, Entry, Steps

LEMMA TargetName == ASSUME RunType, NEW u \in Ups PROVE Target(u) \in Names
  BY Orders DEF RunType, Target

LEMMA DownName == ASSUME DownType PROVE DownOrder[down.at] \in Names
  BY Orders DEF DownType

-----------------------------------------------------------------------------
(* What becomes of one process *)

\* It stays what it is, save that its parent may go; or it was told to stop; or
\* it exited, and is waited for or gone.
Stays(q) ==
  /\ proc'[q].st = proc[q].st /\ proc'[q].of = proc[q].of /\ proc'[q].ver = proc[q].ver
  /\ proc'[q].up = proc[q].up
Told(q) ==
  /\ proc[q].st \in {"starting", "serving"} /\ proc'[q].st = "stopping"
  /\ proc'[q].of = proc[q].of /\ proc'[q].ver = proc[q].ver /\ proc'[q].up = proc[q].up
Adopted(q, u) ==
  /\ proc[q].up = u /\ proc'[q].up = Nobody
  /\ proc'[q].st = proc[q].st /\ proc'[q].of = proc[q].of /\ proc'[q].ver = proc[q].ver
ReapedAt(q, u) ==
  proc[q].up = u /\ proc[q].st = "zombie" /\ proc'[q] = Free
Exited(q) ==
  \/ /\ proc[q].up # Nobody /\ proc'[q].st = "zombie"
     /\ proc'[q].of = proc[q].of /\ proc'[q].ver = proc[q].ver /\ proc'[q].up = proc[q].up
  \/ proc[q].up = Nobody /\ proc'[q] = Free

LEMMA FreeEntry == Free \in Entry /\ Free.st = "free" /\ Free.of = Nobody /\ Free.ver = NoBin
  BY Constants DEF Free, Entry, Statuses

LEMMA SignalFacts ==
  ASSUME ProcType, NEW p \in Pids, proc' = Signal(p)
  PROVE  /\ ProcType'
         /\ \A q \in Pids : Stays(q) \/ Told(q)
         /\ proc'[p].st \notin {"starting", "serving"}
<1>1. \A q \in Pids : q # p => proc'[q] = proc[q]
  BY DEF Signal, ProcType
<1>2. proc'[p] = IF proc[p].st \in {"starting", "serving"}
                 THEN [proc[p] EXCEPT !.st = "stopping"] ELSE proc[p]
  BY DEF Signal, ProcType
<1>3. proc[p] \in Entry
  BY DEF ProcType
<1>4. proc'[p] \in Entry /\ (Stays(p) \/ Told(p)) /\ proc'[p].st \notin {"starting", "serving"}
  BY <1>2, <1>3 DEF Entry, Statuses, Stays, Told
<1>5. proc' \in [Pids -> Entry]
  BY <1>4 DEF Signal, ProcType
<1>6. QED
  BY <1>1, <1>4, <1>5 DEF Stays, ProcType

LEMMA GoneFacts ==
  ASSUME ProcType, PortType, NEW p \in Pids, Gone(p)
  PROVE  /\ ProcType' /\ PortType'
         /\ \A q \in Pids : Stays(q) \/ (q = p /\ Exited(q))
         /\ Exited(p)
         /\ \A s \in Services : port'[s] = IF port[s] = p THEN Nobody ELSE port[s]
<1>1. \A q \in Pids : q # p => proc'[q] = proc[q]
  BY DEF Gone, ProcType
<1>2. proc'[p] = IF proc[p].up # Nobody THEN [proc[p] EXCEPT !.st = "zombie"] ELSE Free
  BY DEF Gone, ProcType
<1>3. proc[p] \in Entry
  BY DEF ProcType
<1>4. proc'[p] \in Entry /\ Exited(p)
  BY <1>2, <1>3, FreeEntry DEF Entry, Statuses, Exited
<1>5. proc' \in [Pids -> Entry]
  BY <1>1, <1>4 DEF Gone, ProcType
<1>6. PortType' /\ \A s \in Services : port'[s] = IF port[s] = p THEN Nobody ELSE port[s]
  BY Constants DEF Gone, PortType
<1>7. QED
  BY <1>1, <1>4, <1>5, <1>6 DEF Stays, ProcType

LEMMA ReapedFacts ==
  ASSUME ProcType, NEW u \in Ups, proc' = Reaped(u)
  PROVE  /\ ProcType'
         /\ \A q \in Pids : Stays(q) \/ Adopted(q, u) \/ ReapedAt(q, u)
<1>1. \A q \in Pids :
        proc'[q] = IF proc[q].up # u THEN proc[q]
                   ELSE IF proc[q].st = "zombie" THEN Free ELSE [proc[q] EXCEPT !.up = Nobody]
  BY DEF Reaped
<1>2. \A q \in Pids : proc[q] \in Entry
  BY DEF ProcType
<1>3. ASSUME NEW q \in Pids
      PROVE  proc'[q] \in Entry /\ (Stays(q) \/ Adopted(q, u) \/ ReapedAt(q, u))
  <2>1. proc[q] \in Entry
    BY <1>2
  <2>2. CASE proc[q].up # u
    BY <1>1, <2>1, <2>2 DEF Stays
  <2>3. CASE proc[q].up = u /\ proc[q].st = "zombie"
    BY <1>1, <2>3, FreeEntry DEF ReapedAt
  <2>4. CASE proc[q].up = u /\ proc[q].st # "zombie"
    BY <1>1, <2>1, <2>4 DEF Entry, Adopted
  <2>5. QED
    BY <2>2, <2>3, <2>4
<1>4. QED
  BY <1>3 DEF Reaped, ProcType

-----------------------------------------------------------------------------
(* The steps of one run *)

UStep(u) == UpStart(u) \/ UpStep(u) \/ UpKilled(u) \/ BuildFails(u) \/ ProbeFails(u)

OthersStay(u) ==
  \A v \in Ups : v # u => pc'[v] = pc[v] /\ at'[v] = at[v] /\ child'[v] = child[v]

\* It goes on to the next name, or ends.
Leaves(u) == NextTarget(u) \/ EndRun(u)

\* It stays at its name.
Remains(u) == at'[u] = at[u] /\ child'[u] = child[u]
Quiet == proc' = proc /\ pidfile' = pidfile

Judges(u) ==
  /\ pc[u] = "check" /\ pc'[u] = "stale" /\ Target(u) \in Services /\ Quiet /\ Remains(u)
  /\ \/ "slow" \in cause'
     \/ ~IsCurrent(Target(u)) /\ cause' = Meets(u)
Proceeds(u) ==
  /\ <<pc[u], pc'[u]>> \in {<<"stale", "kill">>, <<"stale", "start">>, <<"start", "port">>,
                            <<"drain", "build">>, <<"build", "start">>, <<"bin", "spawn">>}
  /\ pc'[u] = "kill" => IsOurs(Target(u))
  /\ Quiet /\ Remains(u)
Kills(u) ==
  /\ pc[u] = "kill" /\ pc'[u] = "unlink" /\ Remains(u) /\ pidfile' = pidfile
  /\ LET p == pidfile[Target(u)] IN proc' = IF Alive(p) THEN Signal(p) ELSE proc
Unlinks(u) ==
  /\ pc[u] = "unlink" /\ pc'[u] = "drain" /\ Remains(u) /\ proc' = proc
  /\ pidfile' = [pidfile EXCEPT ![Target(u)] = Nobody]
FindsPort(u) ==
  pc[u] = "port" /\ pc'[u] = "bin" /\ Quiet /\ Remains(u) /\ ~PortTaken(Target(u))
Writes(u) ==
  /\ pc[u] = "pidfile" /\ pc'[u] = "poll" /\ Target(u) \in Services /\ Remains(u) /\ proc' = proc
  /\ pidfile' = [pidfile EXCEPT ![Target(u)] = child[u]]

\* What it spawns, and that nothing of the name may run before.
Spawned(u, p, status, ver) ==
  /\ p \in Pids /\ proc[p].st = "free"
  /\ proc' = [proc EXCEPT ![p] = [st |-> status, of |-> Target(u), ver |-> ver, up |-> u]]
  /\ child'[u] = p /\ pc'[u] = "pidfile" /\ at'[u] = at[u] /\ pidfile' = pidfile
  /\ Reuses(p, Target(u)) \subseteq cause'
SpawnsService(u, p) ==
  pc[u] = "spawn" /\ Spawned(u, p, "starting", bin[Repo[Target(u)]])
SpawnsTunnel(u, p) ==
  /\ pc[u] = "check" /\ Target(u) \in Tunnels /\ ~Alive(pidfile[Target(u)])
  /\ Meets(u) \subseteq cause'
  /\ Spawned(u, p, "serving", NoBin)

\* It leaves a child only once the child serves, or exited, or for a cause.
Departs(u) ==
  /\ Leaves(u)
  /\ \/ pidfile' = pidfile /\ pc[u] \notin {"pidfile", "poll"}
     \/ pidfile' = pidfile /\ "killed" \in cause'
     \/ pidfile' = pidfile /\ "slow" \in cause'
     \/ pidfile' = pidfile /\ pc[u] = "poll" /\ IsOurs(Target(u))
     \/ pidfile' = pidfile /\ pc[u] = "poll" /\ proc[child[u]].st # "starting"
     \/ /\ pc[u] = "pidfile" /\ Target(u) \notin Services
        /\ pidfile' = [pidfile EXCEPT ![Target(u)] = child[u]]
Begins(u) == pc[u] = "idle" /\ pc'[u] = "check" /\ Quiet /\ Remains(u)

LEMMA LeavesFacts ==
  ASSUME RunType, ProcType, NEW u \in Ups, Leaves(u)
  PROVE  /\ RunType' /\ OthersStay(u) /\ pc'[u] \in {"idle", "check"}
         /\ \/ proc' = proc
            \/ proc' = Reaped(u)
<1>1. CASE EndRun(u)
  BY <1>1, Orders DEF EndRun, RunType, OthersStay, Steps
<1>2. CASE ~EndRun(u)
  <2>1. /\ at[u] # Len(UpOrder)
        /\ at' = [at EXCEPT ![u] = @ + 1] /\ pc' = [pc EXCEPT ![u] = "check"]
        /\ child' = child /\ proc' = proc
    BY <1>2 DEF Leaves, NextTarget
  <2>2. at[u] + 1 \in DOMAIN UpOrder
    BY <2>1, Orders DEF RunType
  <2>3. QED
    BY <2>1, <2>2 DEF RunType, OthersStay, Steps
<1>3. QED
  BY <1>1, <1>2

LEMMA GotoFacts ==
  ASSUME RunType, NEW u \in Ups, NEW step \in Steps, Goto(u, step)
  PROVE  RunType' /\ OthersStay(u) /\ pc'[u] = step /\ Remains(u)
  BY DEF Goto, RunType, OthersStay, Remains

\* Every step of a run is one of those.
UForm(u) ==
  \/ Begins(u) \/ Departs(u) \/ Judges(u) \/ Proceeds(u) \/ Kills(u) \/ Unlinks(u)
  \/ FindsPort(u) \/ Writes(u) \/ \E p \in Pids : SpawnsService(u, p) \/ SpawnsTunnel(u, p)

LEMMA DepartsForm ==
  ASSUME RunType, ProcType, NEW u \in Ups, Departs(u)
  PROVE  UForm(u) /\ RunType' /\ OthersStay(u)
  BY LeavesFacts DEF UForm, Departs

LEMMA UForms ==
  ASSUME RunType, ProcType, NEW u \in Ups, UStep(u)
  PROVE  UForm(u) /\ RunType' /\ OthersStay(u)
<1>s. {"check", "stale", "kill", "unlink", "drain", "build", "start", "port", "bin", "spawn",
       "pidfile", "poll"} \subseteq Steps
  BY DEF Steps
<1>1. CASE UpStart(u)
  <2>1. Begins(u) /\ RunType' /\ OthersStay(u)
    BY <1>1, <1>s DEF UpStart, Begins, RunType, Quiet, Remains, OthersStay, fileVars
  <2>2. QED
    BY <2>1 DEF UForm
<1>2. CASE Check(u)
  <2>1. CASE IsCurrent(Target(u))
    <3>1. NextTarget(u) /\ pidfile' = pidfile /\ pc[u] = "check"
      BY <1>2, <2>1 DEF Check, fileVars
    <3>2. QED
      BY <3>1, DepartsForm DEF Departs, Leaves
  <2>2. CASE ~IsCurrent(Target(u))
    <3>1. /\ pc[u] = "check" /\ Target(u) \in Services /\ Goto(u, "stale")
          /\ Quiet /\ cause' = Meets(u)
      BY <1>2, <2>2 DEF Check, fileVars, Quiet
    <3>2. QED
      BY <1>s, <2>2, <3>1, GotoFacts DEF Judges, UForm
  <2>3. QED
    BY <2>1, <2>2
<1>3. CASE ProbeFails(u)
  <2>1. /\ pc[u] \in {"check", "stale", "start"} /\ Target(u) \in Services /\ Quiet
        /\ "slow" \in cause'
        /\ Goto(u, CASE pc[u] = "check" -> "stale" [] pc[u] = "stale" -> "start" [] OTHER -> "port")
    BY <1>3 DEF ProbeFails, fileVars, Quiet
  <2>2. CASE pc[u] = "check"
    <3>1. Goto(u, "stale")
      BY <2>1, <2>2
    <3>2. QED
      BY <1>s, <2>1, <2>2, <3>1, GotoFacts DEF Judges, UForm
  <2>3. CASE pc[u] = "stale"
    <3>1. Goto(u, "start")
      BY <2>1, <2>3
    <3>2. QED
      BY <1>s, <2>1, <2>3, <3>1, GotoFacts DEF Proceeds, UForm
  <2>4. CASE pc[u] = "start"
    <3>1. Goto(u, "port")
      BY <2>1, <2>4
    <3>2. QED
      BY <1>s, <2>1, <2>4, <3>1, GotoFacts DEF Proceeds, UForm
  <2>5. QED
    BY <2>1, <2>2, <2>3, <2>4
<1>4. CASE Stale(u)
  <2>1. /\ pc[u] = "stale" /\ Quiet
        /\ Goto(u, "start") \/ (IsOurs(Target(u)) /\ Goto(u, "kill"))
    BY <1>4 DEF Stale, fileVars, Quiet
  <2>2. QED
    BY <1>s, <2>1, GotoFacts DEF Proceeds, UForm
<1>5. CASE Kill(u)
  <2>1. /\ pc[u] = "kill" /\ Goto(u, "unlink") /\ pidfile' = pidfile
        /\ LET p == pidfile[Target(u)] IN proc' = IF Alive(p) THEN Signal(p) ELSE proc
    BY <1>5 DEF Kill, fileVars
  <2>2. QED
    BY <1>s, <2>1, GotoFacts, Zenon DEF Kills, UForm
<1>6. CASE Unlink(u)
  <2>1. /\ pc[u] = "unlink" /\ Goto(u, "drain") /\ proc' = proc
        /\ pidfile' = [pidfile EXCEPT ![Target(u)] = Nobody]
    BY <1>6 DEF Unlink
  <2>2. QED
    BY <1>s, <2>1, GotoFacts, Zenon DEF Unlinks, UForm
<1>7. CASE Drain(u)
  <2>1. pc[u] = "drain" /\ Goto(u, "build") /\ Quiet
    BY <1>7 DEF Drain, fileVars, Quiet
  <2>2. QED
    BY <1>s, <2>1, GotoFacts DEF Proceeds, UForm
<1>8. CASE Build(u)
  <2>1. /\ Quiet
        /\ \/ pc[u] = "build" /\ Goto(u, "start")
           \/ pc[u] = "bin" /\ Goto(u, "spawn")
    BY <1>8 DEF Build, Quiet
  <2>2. QED
    BY <1>s, <2>1, GotoFacts DEF Proceeds, UForm
<1>9. CASE BuildFails(u)
  <2>1. EndRun(u) /\ pidfile' = pidfile /\ pc[u] \in {"build", "bin"}
    BY <1>9 DEF BuildFails, fileVars, Die
  <2>2. QED
    BY <2>1, DepartsForm DEF Departs, Leaves
<1>10. CASE Start(u)
  <2>1. /\ pc[u] = "start" /\ pidfile' = pidfile
        /\ \/ NextTarget(u)
           \/ Goto(u, "port") /\ Quiet
    BY <1>10 DEF Start, fileVars, Quiet
  <2>2. CASE NextTarget(u)
    BY <2>1, <2>2, DepartsForm DEF Departs, Leaves
  <2>3. CASE Goto(u, "port") /\ Quiet
    BY <1>s, <2>1, <2>3, GotoFacts DEF Proceeds, UForm
  <2>4. QED
    BY <2>1, <2>2, <2>3
<1>11. CASE Port(u)
  <2>1. /\ pc[u] = "port" /\ pidfile' = pidfile
        /\ \/ EndRun(u)
           \/ ~PortTaken(Target(u)) /\ Goto(u, "bin") /\ Quiet
    BY <1>11 DEF Port, fileVars, Die, Quiet
  <2>2. CASE EndRun(u)
    BY <2>1, <2>2, DepartsForm DEF Departs, Leaves
  <2>3. CASE ~PortTaken(Target(u)) /\ Goto(u, "bin") /\ Quiet
    BY <1>s, <2>1, <2>3, GotoFacts DEF FindsPort, UForm
  <2>4. QED
    BY <2>1, <2>2, <2>3
<1>12. CASE Spawn(u)
  <2>1. PICK p \in Pids :
          /\ proc[p].st = "free"
          /\ proc' = [proc EXCEPT ![p] = [st |-> "starting", of |-> Target(u),
                                          ver |-> bin[Repo[Target(u)]], up |-> u]]
          /\ child' = [child EXCEPT ![u] = p]
          /\ cause' = cause \cup Reuses(p, Target(u))
    BY <1>12, Zenon DEF Spawn
  <2>2. pc[u] = "spawn" /\ pc' = [pc EXCEPT ![u] = "pidfile"] /\ at' = at /\ pidfile' = pidfile
    BY <1>12 DEF Spawn, fileVars
  <2>3. child'[u] = p /\ pc'[u] = "pidfile" /\ RunType' /\ OthersStay(u)
    BY <1>s, <2>1, <2>2 DEF RunType, OthersStay
  <2>4. SpawnsService(u, p)
    BY <2>1, <2>2, <2>3 DEF SpawnsService, Spawned
  <2>5. QED
    BY <2>3, <2>4 DEF UForm
<1>13. CASE SpawnFails(u)
  <2>1. EndRun(u) /\ pidfile' = pidfile /\ pc[u] \in {"spawn", "check"}
    BY <1>13 DEF SpawnFails, fileVars, Die
  <2>2. QED
    BY <2>1, DepartsForm DEF Departs, Leaves
<1>14. CASE WritePid(u)
  <2>1. /\ pc[u] = "pidfile" /\ pidfile' = [pidfile EXCEPT ![Target(u)] = child[u]]
        /\ \/ Target(u) \in Services /\ Goto(u, "poll") /\ proc' = proc
           \/ Target(u) \notin Services /\ NextTarget(u)
    BY <1>14 DEF WritePid
  <2>2. CASE Target(u) \in Services /\ Goto(u, "poll") /\ proc' = proc
    BY <1>s, <2>1, <2>2, GotoFacts DEF Writes, UForm
  <2>3. CASE Target(u) \notin Services /\ NextTarget(u)
    BY <2>1, <2>3, DepartsForm DEF Departs, Leaves
  <2>4. QED
    BY <2>1, <2>2, <2>3
<1>15. CASE Healthy(u) \/ NotHealthy(u)
  <2>1. /\ pc[u] = "poll" /\ pidfile' = pidfile /\ Leaves(u)
        /\ IsOurs(Target(u)) \/ "slow" \in cause' \/ proc[child[u]].st # "starting"
    BY <1>15 DEF Healthy, NotHealthy, fileVars, Leaves, Die
  <2>2. QED
    BY <2>1, DepartsForm DEF Departs
<1>16. CASE Tunnel(u)
  <2>1. CASE NextTarget(u) /\ pidfile' = pidfile /\ pc[u] = "check"
    BY <2>1, DepartsForm DEF Departs, Leaves
  <2>2. CASE /\ Target(u) \in Tokens /\ ~Alive(pidfile[Target(u)])
             /\ pc' = [pc EXCEPT ![u] = "pidfile"] /\ at' = at
             /\ \E p \in Pids :
                  /\ proc[p].st = "free"
                  /\ cause' = Meets(u) \cup Reuses(p, Target(u))
                  /\ proc' = [proc EXCEPT ![p] = [st |-> "serving", of |-> Target(u),
                                                  ver |-> NoBin, up |-> u]]
                  /\ child' = [child EXCEPT ![u] = p]
    <3>1. PICK p \in Pids :
            /\ proc[p].st = "free"
            /\ cause' = Meets(u) \cup Reuses(p, Target(u))
            /\ proc' = [proc EXCEPT ![p] = [st |-> "serving", of |-> Target(u),
                                            ver |-> NoBin, up |-> u]]
            /\ child' = [child EXCEPT ![u] = p]
      BY <2>2, Zenon
    <3>2. /\ pc[u] = "check" /\ Target(u) \in Tunnels /\ at' = at /\ pidfile' = pidfile
          /\ ~Alive(pidfile[Target(u)])
      BY <1>16, <2>2 DEF Tunnel, fileVars
    <3>3. child'[u] = p /\ pc'[u] = "pidfile" /\ RunType' /\ OthersStay(u)
      BY <1>s, <2>2, <3>1, <3>2 DEF RunType, OthersStay
    <3>4. SpawnsTunnel(u, p)
      BY <3>1, <3>2, <3>3 DEF SpawnsTunnel, Spawned
    <3>5. QED
      BY <3>3, <3>4 DEF UForm
  <2>3. QED
    BY <1>16, <2>1, <2>2 DEF Tunnel, fileVars
<1>17. CASE UpKilled(u)
  <2>1. /\ EndRun(u) /\ pidfile' = pidfile
        /\ pc[u] \notin {"pidfile", "poll"} \/ "killed" \in cause'
    BY <1>17 DEF UpKilled, fileVars
  <2>2. QED
    BY <2>1, DepartsForm DEF Departs, Leaves
<1>18. QED
  BY <1>1, <1>2, <1>3, <1>4, <1>5, <1>6, <1>7, <1>8, <1>9, <1>10, <1>11, <1>12, <1>13, <1>14,
     <1>15, <1>16, <1>17 DEF UStep, UpStep

-----------------------------------------------------------------------------
(* The steps of the system *)

Dies(p) == proc[p].st # "free" /\ Gone(p) /\ UNCHANGED <<fileVars, upVars, down, cause>>
WorldStep ==
  \/ \E r \in Repos : Commit(r)
  \/ \E s \in Services : ForeignBinds(s) \/ ForeignLeaves(s)
  \/ \E p \in Pids : Hangs(p) \/ Recovers(p)

LEMMA NextCases ==
  ASSUME [Next]_vars
  PROVE  \/ \E u \in Ups : UStep(u)
         \/ \E p \in Pids : Bind(p) \/ Dies(p)
         \/ WorldStep \/ DownStart \/ DownKill \/ DownUnlink \/ Reboot
         \/ UNCHANGED vars
<1>1. \A p \in Pids : BindFails(p) \/ Stopped(p) \/ Crash(p) => Dies(p)
  BY DEF BindFails, Stopped, Crash, Dies
<1>2. QED
  BY <1>1 DEF Next, ProcessStep, DownStep, Disturbance, UStep, WorldStep

LEMMA UFrame ==
  ASSUME NEW u \in Ups, UStep(u)
  PROVE  golden' = golden /\ port' = port /\ mute' = mute /\ down' = down /\ cause \subseteq cause'
<1>1. CASE UpStart(u) \/ UpKilled(u) \/ BuildFails(u) \/ ProbeFails(u)
  BY <1>1 DEF UpStart, UpKilled, BuildFails, ProbeFails, Meets, fileVars, netVars
<1>2. CASE UpStep(u)
  <2>1. CASE Check(u) \/ Tunnel(u)
    <3>1. cause \subseteq Meets(u)
      BY DEF Meets
    <3>2. CASE Check(u)
      BY <3>1, <3>2 DEF Check, fileVars, netVars
    <3>3. CASE Tunnel(u)
      BY <3>1, <3>3 DEF Tunnel, fileVars, netVars
    <3>4. QED
      BY <2>1, <3>2, <3>3
  <2>2. CASE Stale(u) \/ Kill(u) \/ Unlink(u) \/ Drain(u) \/ Build(u) \/ Start(u) \/ Port(u)
    BY <2>2 DEF Stale, Kill, Unlink, Drain, Build, Start, Port, fileVars, netVars
  <2>3. CASE Spawn(u) \/ SpawnFails(u) \/ WritePid(u) \/ Healthy(u) \/ NotHealthy(u)
    BY <2>3 DEF Spawn, SpawnFails, WritePid, Healthy, NotHealthy, fileVars, netVars
  <2>4. QED
    BY <1>2, <2>1, <2>2, <2>3 DEF UpStep
<1>3. QED
  BY <1>1, <1>2 DEF UStep

LEMMA UBounds ==
  ASSUME NEW u \in Ups, UStep(u), BoundsType
  PROVE  BoundsType' /\ budget' <= budget
<1>1. cause' \subseteq {"overlap", "slow", "killed", "reused"}
  <2>1. Meets(u) \subseteq {"overlap", "slow", "killed", "reused"}
    BY DEF Meets, BoundsType
  <2>2. \A p \in Pids : Reuses(p, Target(u)) \subseteq {"reused"}
    BY DEF Reuses
  <2>3. CASE UpStart(u) \/ UpKilled(u) \/ BuildFails(u) \/ ProbeFails(u)
    BY <2>1, <2>3 DEF UpStart, UpKilled, BuildFails, ProbeFails, BoundsType
  <2>4. CASE Check(u)
    BY <2>1, <2>4 DEF Check, BoundsType
  <2>5. CASE Tunnel(u) \/ Spawn(u)
    BY <2>1, <2>2, <2>5 DEF Tunnel, Spawn, BoundsType
  <2>6. CASE Stale(u) \/ Kill(u) \/ Unlink(u) \/ Drain(u) \/ Build(u) \/ Start(u) \/ Port(u)
    BY <2>6 DEF Stale, Kill, Unlink, Drain, Build, Start, Port, BoundsType
  <2>7. CASE SpawnFails(u) \/ WritePid(u) \/ Healthy(u) \/ NotHealthy(u)
    BY <2>7 DEF SpawnFails, WritePid, Healthy, NotHealthy, BoundsType
  <2>8. QED
    BY <2>3, <2>4, <2>5, <2>6, <2>7 DEF UStep, UpStep
<1>2. budget' = budget \/ Disturb
  <2>1. CASE UpStart(u) \/ UpKilled(u) \/ BuildFails(u) \/ ProbeFails(u)
    BY <2>1 DEF UpStart, UpKilled, BuildFails, ProbeFails
  <2>2. CASE Check(u) \/ Tunnel(u) \/ Spawn(u)
    BY <2>2 DEF Check, Tunnel, Spawn
  <2>3. CASE Stale(u) \/ Kill(u) \/ Unlink(u) \/ Drain(u) \/ Build(u) \/ Start(u) \/ Port(u)
    BY <2>3 DEF Stale, Kill, Unlink, Drain, Build, Start, Port
  <2>4. CASE SpawnFails(u) \/ WritePid(u) \/ Healthy(u) \/ NotHealthy(u)
    BY <2>4 DEF SpawnFails, WritePid, Healthy, NotHealthy
  <2>5. QED
    BY <2>1, <2>2, <2>3, <2>4 DEF UStep, UpStep
<1>3. budget' \in 0 .. MaxEvents /\ budget' <= budget
  BY <1>2, Constants DEF BoundsType, Disturb
<1>4. QED
  BY <1>1, <1>3 DEF BoundsType

LEMMA UBin ==
  ASSUME NEW u \in Ups, UStep(u), FileType
  PROVE  /\ bin' \in [Repos -> NoBin .. MaxEvents]
         /\ \A r \in Repos : bin'[r] = bin[r] \/ bin'[r] = golden[r]
<1>1. bin' = bin \/ Build(u)
  <2>1. CASE UpStart(u) \/ UpKilled(u) \/ BuildFails(u) \/ ProbeFails(u)
    BY <2>1 DEF UpStart, UpKilled, BuildFails, ProbeFails, fileVars
  <2>2. CASE Check(u) \/ Tunnel(u) \/ Spawn(u)
    BY <2>2 DEF Check, Tunnel, Spawn, fileVars
  <2>3. CASE Stale(u) \/ Kill(u) \/ Unlink(u) \/ Drain(u) \/ Start(u) \/ Port(u)
    BY <2>3 DEF Stale, Kill, Unlink, Drain, Start, Port, fileVars
  <2>4. CASE SpawnFails(u) \/ WritePid(u) \/ Healthy(u) \/ NotHealthy(u)
    BY <2>4 DEF SpawnFails, WritePid, Healthy, NotHealthy, fileVars
  <2>5. QED
    BY <2>1, <2>2, <2>3, <2>4 DEF UStep, UpStep
<1>2. CASE bin' = bin
  BY <1>2 DEF FileType
<1>3. CASE Build(u)
  <2>1. PICK r : bin' = bin \/ bin' = [bin EXCEPT ![r] = golden[r]]
    BY <1>3 DEF Build
  <2>2. \A q \in Repos : golden[q] \in NoBin .. MaxEvents
    BY Constants DEF FileType
  <2>3. QED
    BY <2>1, <2>2 DEF FileType
<1>4. QED
  BY <1>1, <1>2, <1>3

-----------------------------------------------------------------------------
(* Types and versions *)

LEMMA SpawnedFacts ==
  ASSUME ProcType, RunType, NEW u \in Ups, NEW p \in Pids, NEW status \in Statuses,
         NEW ver \in NoBin .. MaxEvents, Spawned(u, p, status, ver)
  PROVE  /\ ProcType' /\ \A q \in Pids : q # p => proc'[q] = proc[q]
         /\ proc'[p].st = status /\ proc'[p].of = Target(u) /\ proc'[p].ver = ver /\ proc'[p].up = u
<1>1. [st |-> status, of |-> Target(u), ver |-> ver, up |-> u] \in Entry
  BY TargetName DEF Entry
<1>2. QED
  BY <1>1 DEF Spawned, ProcType

LEMMA UType ==
  ASSUME TypeOK, NEW u \in Ups, OnService(u), UStep(u)
  PROVE  TypeOK'
<1>1. ProcType /\ PortType /\ RunType /\ DownType /\ FileType /\ BoundsType
  BY TypeParts
<1>2. UForm(u) /\ RunType' /\ BoundsType' /\ PortType' /\ DownType'
      /\ golden' = golden /\ bin' \in [Repos -> NoBin .. MaxEvents]
  BY <1>1, UForms, UFrame, UBounds, UBin DEF PortType, DownType
<1>t. Target(u) \in Names
  BY <1>1, TargetName
<1>3. ProcType' /\ pidfile' \in [Names -> Pids \cup {Nobody}]
  <2>1. CASE Begins(u) \/ Judges(u) \/ Proceeds(u) \/ FindsPort(u)
    BY <1>1, <2>1 DEF Begins, Judges, Proceeds, FindsPort, Quiet, ProcType, FileType
  <2>2. CASE Departs(u)
    <3>1. ProcType'
      BY <1>1, <2>2, LeavesFacts, ReapedFacts DEF Departs, ProcType
    <3>2. pidfile' = pidfile \/ pidfile' = [pidfile EXCEPT ![Target(u)] = child[u]]
      BY <2>2 DEF Departs
    <3>3. QED
      BY <1>1, <1>t, <3>1, <3>2 DEF FileType, RunType
  <2>3. CASE Kills(u)
    <3>1. ProcType'
      BY <1>1, <2>3, SignalFacts DEF Kills, Alive, ProcType
    <3>2. QED
      BY <1>1, <2>3, <3>1 DEF Kills, FileType
  <2>4. CASE Unlinks(u) \/ Writes(u)
    BY <1>1, <1>t, <2>4 DEF Unlinks, Writes, FileType, RunType, ProcType
  <2>5. ASSUME NEW p \in Pids, SpawnsService(u, p) \/ SpawnsTunnel(u, p)
        PROVE  ProcType' /\ pidfile' \in [Names -> Pids \cup {Nobody}]
    <3>1. pidfile' = pidfile
      BY <2>5 DEF SpawnsService, SpawnsTunnel, Spawned
    <3>2. CASE SpawnsService(u, p)
      <4>1. Target(u) \in Services
        BY <3>2 DEF SpawnsService, OnService
      <4>2. bin[Repo[Target(u)]] \in NoBin .. MaxEvents
        BY <1>1, <4>1, Constants DEF FileType
      <4>3. QED
        BY <1>1, <3>1, <3>2, <4>2, SpawnedFacts DEF SpawnsService, Statuses, FileType
    <3>3. CASE SpawnsTunnel(u, p)
      <4>1. NoBin \in NoBin .. MaxEvents
        BY Constants
      <4>2. QED
        BY <1>1, <3>1, <3>3, <4>1, SpawnedFacts DEF SpawnsTunnel, Statuses, FileType
    <3>4. QED
      BY <2>5, <3>2, <3>3
  <2>6. QED
    BY <1>2, <2>1, <2>2, <2>3, <2>4, <2>5 DEF UForm
<1>4. FileType'
  BY <1>1, <1>2, <1>3 DEF FileType
<1>5. QED
  BY <1>2, <1>3, <1>4, TypePartsNext

LEMMA BindFacts ==
  ASSUME ProcType, PortType, NEW p \in Pids, Bind(p)
  PROVE  /\ proc[p].st = "starting" /\ ~PortTaken(proc[p].of)
         /\ proc'[p] = [proc[p] EXCEPT !.st = "serving"]
         /\ proc'[p].st = "serving" /\ proc'[p].of = proc[p].of
         /\ proc'[p].ver = proc[p].ver /\ proc'[p].up = proc[p].up
         /\ \A q \in Pids : q # p => proc'[q] = proc[q]
         /\ port' = [port EXCEPT ![proc[p].of] = p]
         /\ ProcType' /\ PortType'
         /\ UNCHANGED <<fileVars, mute, upVars, down, cause>>
<1>1. proc[p] \in Entry
  BY DEF ProcType
<1>2. /\ proc[p].st = "starting" /\ ~PortTaken(proc[p].of)
      /\ proc' = [proc EXCEPT ![p].st = "serving"] /\ port' = [port EXCEPT ![proc[p].of] = p]
      /\ UNCHANGED <<fileVars, mute, upVars, down, cause>>
  BY DEF Bind
<1>3. proc'[p] = [proc[p] EXCEPT !.st = "serving"] /\ proc'[p] \in Entry
  BY <1>1, <1>2 DEF ProcType, Entry, Statuses
<1>4. \A q \in Pids : q # p => proc'[q] = proc[q]
  BY <1>2 DEF ProcType
<1>5. ProcType'
  BY <1>2, <1>3, <1>4 DEF ProcType
<1>6. PortType'
  BY <1>2 DEF PortType
<1>7. QED
  BY <1>1, <1>2, <1>3, <1>4, <1>5, <1>6 DEF Entry

LEMMA RebootFacts ==
  ASSUME TypeOK, Reboot
  PROVE  /\ ProcType' /\ PortType' /\ RunType' /\ DownType'
         /\ \A q \in Pids : proc'[q] = Free
         /\ \A u \in Ups : pc'[u] = "idle"
         /\ \A s \in Services : port'[s] = Nobody
         /\ down'.pc = "idle" /\ UNCHANGED <<fileVars, cause>>
<1>1. /\ proc' = [p \in Pids |-> Free] /\ port' = [s \in Services |-> Nobody] /\ mute' = {}
      /\ pc' = [u \in Ups |-> "idle"] /\ at' = [u \in Ups |-> 1]
      /\ child' = [u \in Ups |-> Nobody] /\ down' = [pc |-> "idle", at |-> 1]
      /\ UNCHANGED <<fileVars, cause>>
  BY DEF Reboot
<1>2. ProcType' /\ PortType' /\ DownType'
  BY <1>1, FreeEntry, Orders DEF ProcType, PortType, DownType
<1>3. RunType'
  BY <1>1, Orders DEF RunType, Steps
<1>4. QED
  BY <1>1, <1>2, <1>3

LEMMA WorldFacts ==
  ASSUME TypeOK, WorldStep
  PROVE  /\ UNCHANGED <<bin, pidfile, proc, pc, at, child, down>>
         /\ cause' = cause \/ cause' = cause \cup {"slow"}
         /\ \A r \in Repos : golden'[r] >= golden[r] /\ (port' = port \/ golden' = golden)
         /\ \A s \in Services : port'[s] = port[s] \/ (port[s] \notin Pids /\ port'[s] \notin Pids)
         /\ PortType'
<1>t. PortType /\ FileType
  BY TypeParts
<1>1. CASE \E r \in Repos : Commit(r)
  <2>1. PICK r \in Repos : golden' = [golden EXCEPT ![r] = @ + 1]
    BY <1>1 DEF Commit
  <2>2. UNCHANGED <<bin, pidfile, proc, pc, at, child, down, cause, port, mute>>
    BY <1>1 DEF Commit, netVars, upVars
  <2>3. \A q \in Repos : golden'[q] >= golden[q]
    BY <1>t, <2>1, Constants DEF FileType
  <2>4. QED
    BY <1>t, <2>2, <2>3 DEF PortType
<1>2. CASE \E s \in Services : ForeignBinds(s) \/ ForeignLeaves(s)
  <2>1. PICK s \in Services : \E who \in {Nobody, Foreign} :
          /\ port[s] \in {Nobody, Foreign} /\ port' = [port EXCEPT ![s] = who]
          /\ mute' = mute
    BY <1>2 DEF ForeignBinds, ForeignLeaves
  <2>2. UNCHANGED <<golden, bin, pidfile, proc, pc, at, child, down, cause>>
    BY <1>2 DEF ForeignBinds, ForeignLeaves, fileVars, upVars
  <2>3. /\ PortType'
        /\ \A q \in Services : port'[q] = port[q] \/ (port[q] \notin Pids /\ port'[q] \notin Pids)
    BY <1>t, <2>1, Constants DEF PortType
  <2>4. \A r \in Repos : golden'[r] >= golden[r]
    BY <1>t, <2>2, Constants DEF FileType
  <2>5. QED
    BY <2>2, <2>3, <2>4
<1>3. CASE \E p \in Pids : Hangs(p) \/ Recovers(p)
  <2>1. /\ UNCHANGED <<golden, bin, pidfile, proc, port, pc, at, child, down>>
        /\ cause' = cause \/ cause' = cause \cup {"slow"}
        /\ \E p \in Pids : mute' = mute \cup {p} \/ mute' = mute \ {p}
    BY <1>3 DEF Hangs, Recovers, fileVars, upVars
  <2>2. \A r \in Repos : golden'[r] >= golden[r]
    BY <1>t, <2>1, Constants DEF FileType
  <2>3. QED
    BY <1>t, <2>1, <2>2 DEF PortType
<1>4. QED
  BY <1>1, <1>2, <1>3 DEF WorldStep

LEMMA DownFacts ==
  ASSUME TypeOK, DownStart \/ DownKill \/ DownUnlink
  PROVE  /\ ProcType' /\ DownType' /\ pidfile' \in [Names -> Pids \cup {Nobody}]
         /\ \A q \in Pids : Stays(q) \/ Told(q)
         /\ UNCHANGED <<golden, bin, port, mute, pc, at, child>>
         /\ cause' = cause \/ cause' = cause \cup {"overlap"}
         /\ down'.pc = "unlink" => DownKill
<1>t. ProcType /\ DownType /\ FileType
  BY TypeParts
<1>n. ASSUME DownNext PROVE DownType' /\ down'.pc # "unlink"
  BY <1>t, <1>n, Orders DEF DownType, DownNext
<1>1. CASE DownStart
  <2>1. /\ down' = [pc |-> "kill", at |-> 1]
        /\ UNCHANGED <<fileVars, proc, port, mute, upVars, cause>>
    BY <1>1 DEF DownStart, netVars
  <2>2. QED
    BY <1>t, <2>1, Orders DEF ProcType, DownType, FileType, Stays, fileVars, upVars
<1>2. CASE DownKill
  <2>1. /\ proc' = proc \/ \E p \in Pids : proc' = Signal(p)
        /\ DownNext \/ down' = [down EXCEPT !.pc = "unlink"]
        /\ cause' = cause \/ cause' = cause \cup {"overlap"}
        /\ UNCHANGED <<fileVars, port, mute, upVars>>
    BY <1>2 DEF DownKill, Alive, netVars
  <2>2. ProcType' /\ \A q \in Pids : Stays(q) \/ Told(q)
    BY <1>t, <2>1, SignalFacts DEF ProcType, Stays
  <2>3. DownType'
    BY <1>t, <1>n, <2>1 DEF DownType
  <2>4. QED
    BY <1>t, <1>2, <2>1, <2>2, <2>3 DEF FileType, fileVars, upVars
<1>3. CASE DownUnlink
  <2>1. /\ pidfile' = [pidfile EXCEPT ![DownOrder[down.at]] = Nobody]
        /\ DownNext
        /\ UNCHANGED <<golden, bin, proc, port, mute, upVars, cause>>
    BY <1>3 DEF DownUnlink, netVars
  <2>2. DownType' /\ down'.pc # "unlink"
    BY <1>n, <2>1
  <2>3. QED
    BY <1>t, <2>1, <2>2 DEF ProcType, FileType, Stays, upVars
<1>4. QED
  BY <1>1, <1>2, <1>3

LEMMA DisturbFacts ==
  ASSUME BoundsType, Disturb
  PROVE  budget' = budget - 1 /\ budget \in 1 .. MaxEvents /\ budget' \in 0 .. MaxEvents
  BY Constants DEF BoundsType, Disturb

LEMMA TypeStep ==
  ASSUME TypeOK, Versions, \A u \in Ups : OnService(u), [Next]_vars
  PROVE  TypeOK'
<1>t. ProcType /\ PortType /\ RunType /\ DownType /\ FileType /\ BoundsType
  BY TypeParts
<1>1. ASSUME NEW u \in Ups, UStep(u) PROVE TypeOK'
  BY <1>1, UType
<1>b. CASE budget' = budget \/ Disturb
  <2>1. budget' \in 0 .. MaxEvents
    BY <1>t, <1>b, DisturbFacts DEF BoundsType
  <2>2. ASSUME NEW p \in Pids, Bind(p) \/ Dies(p) PROVE TypeOK'
    <3>1. ProcType' /\ PortType' /\ UNCHANGED <<fileVars, upVars, down, cause>>
      BY <1>t, <2>2, BindFacts, GoneFacts DEF Dies
    <3>2. QED
      BY <1>t, <2>1, <3>1, TypePartsNext
           DEF RunType, DownType, FileType, BoundsType, fileVars, upVars
  <2>3. CASE WorldStep
    <3>1. golden' \in [Repos -> 0 .. MaxEvents]
      <4>1. CASE \E r \in Repos : Commit(r)
        <5>1. PICK r \in Repos : Disturb /\ golden' = [golden EXCEPT ![r] = @ + 1]
          BY <4>1 DEF Commit
        <5>2. golden[r] + 1 \in 0 .. MaxEvents
          BY <1>t, <5>1, DisturbFacts, Constants DEF Versions, FileType
        <5>3. QED
          BY <1>t, <5>1, <5>2 DEF FileType
      <4>2. CASE golden' = golden
        BY <1>t, <4>2 DEF FileType
      <4>3. QED
        BY <2>3, <4>1, <4>2 DEF WorldStep, ForeignBinds, ForeignLeaves, Hangs, Recovers, fileVars
    <3>2. /\ UNCHANGED <<bin, pidfile, proc, pc, at, child, down>> /\ PortType'
          /\ cause' = cause \/ cause' = cause \cup {"slow"}
      BY <2>3, WorldFacts
    <3>3. QED
      BY <1>t, <2>1, <3>1, <3>2, TypePartsNext
           DEF RunType, DownType, FileType, BoundsType, ProcType
  <2>4. CASE DownStart \/ DownKill \/ DownUnlink
    <3>1. /\ ProcType' /\ DownType' /\ pidfile' \in [Names -> Pids \cup {Nobody}]
          /\ UNCHANGED <<golden, bin, port, mute, pc, at, child>>
          /\ cause' = cause \/ cause' = cause \cup {"overlap"}
      BY <2>4, DownFacts
    <3>2. QED
      BY <1>t, <2>1, <3>1, TypePartsNext DEF RunType, PortType, FileType, BoundsType
  <2>5. CASE Reboot
    BY <1>t, <2>1, <2>5, RebootFacts, TypePartsNext DEF FileType, BoundsType, fileVars
  <2>6. CASE UNCHANGED vars
    BY <1>t, <2>6, TypePartsNext
         DEF vars, RunType, DownType, PortType, FileType, BoundsType, ProcType
  <2>7. QED
    BY <1>1, <2>2, <2>3, <2>4, <2>5, <2>6, NextCases
<1>2. (\E u \in Ups : UStep(u)) \/ budget' = budget \/ Disturb
  BY DEF Next, UStep, ProcessStep, Bind, BindFails, Stopped, Crash, Hangs, Recovers, ForeignLeaves,
         ForeignBinds, Commit, Disturbance, DownStep, DownStart, DownKill, DownUnlink, Reboot, vars
<1>3. QED
  BY <1>1, <1>b, <1>2

-----------------------------------------------------------------------------
(* What any step may do to one process *)

Spawns(u, q) == SpawnsService(u, q) \/ SpawnsTunnel(u, q)

LEMMA UFate ==
  ASSUME TypeOK, NEW u \in Ups, UStep(u), NEW q \in Pids
  PROVE  \/ Stays(q)
         \/ Kills(u) /\ Told(q)
         \/ Departs(u) /\ (Adopted(q, u) \/ ReapedAt(q, u))
         \/ Spawns(u, q)
<1>t. ProcType /\ RunType
  BY TypeParts
<1>1. CASE Begins(u) \/ Judges(u) \/ Proceeds(u) \/ FindsPort(u) \/ Unlinks(u) \/ Writes(u)
  <2>1. proc' = proc
    BY <1>1 DEF Begins, Judges, Proceeds, FindsPort, Unlinks, Writes, Quiet
  <2>2. QED
    BY <2>1 DEF Stays
<1>2. CASE Departs(u)
  <2>1. proc' = proc \/ proc' = Reaped(u)
    BY <1>t, <1>2, LeavesFacts DEF Departs
  <2>2. QED
    BY <1>t, <1>2, <2>1, ReapedFacts DEF Stays
<1>3. CASE Kills(u)
  <2>1. proc' = proc \/ \E p \in Pids : proc' = Signal(p)
    BY <1>3 DEF Kills, Alive
  <2>2. QED
    BY <1>t, <1>3, <2>1, SignalFacts DEF Stays
<1>4. ASSUME NEW p \in Pids, Spawns(u, p) PROVE Stays(q) \/ Spawns(u, q)
  <2>1. CASE p = q
    BY <1>4, <2>1
  <2>2. CASE p # q
    <3>1. PICK e : proc' = [proc EXCEPT ![p] = e]
      BY <1>4 DEF Spawns, SpawnsService, SpawnsTunnel, Spawned
    <3>2. proc'[q] = proc[q]
      BY <1>t, <2>2, <3>1 DEF ProcType
    <3>3. QED
      BY <3>2 DEF Stays
  <2>3. QED
    BY <2>1, <2>2
<1>5. QED
  BY <1>t, <1>1, <1>2, <1>3, <1>4, UForms DEF UForm, Spawns

LEMMA Fates ==
  ASSUME TypeOK, [Next]_vars, NEW q \in Pids
  PROVE  \/ Stays(q) \/ Told(q)
         \/ Dies(q) /\ Exited(q)
         \/ \E u \in Ups : Adopted(q, u) \/ ReapedAt(q, u)
         \/ Bind(q)
         \/ proc'[q] = Free /\ Reboot
         \/ \E u \in Ups : UStep(u) /\ Spawns(u, q)
<1>t. ProcType /\ PortType
  BY TypeParts
<1>1. ASSUME NEW u \in Ups, UStep(u)
      PROVE  Stays(q) \/ Told(q) \/ Adopted(q, u) \/ ReapedAt(q, u) \/ (UStep(u) /\ Spawns(u, q))
  BY <1>1, UFate
<1>2. ASSUME NEW p \in Pids, Bind(p) PROVE Stays(q) \/ Bind(q)
  BY <1>t, <1>2, BindFacts DEF Stays
<1>3. ASSUME NEW p \in Pids, Dies(p) PROVE Stays(q) \/ (Dies(q) /\ Exited(q))
  BY <1>t, <1>3, GoneFacts DEF Dies
<1>4. CASE WorldStep
  BY <1>4, WorldFacts DEF Stays
<1>5. CASE DownStart \/ DownKill \/ DownUnlink
  BY <1>5, DownFacts
<1>6. CASE Reboot
  BY <1>6, RebootFacts
<1>7. CASE UNCHANGED vars
  BY <1>7 DEF vars, Stays
<1>8. QED
  BY <1>1, <1>2, <1>3, <1>4, <1>5, <1>6, <1>7, NextCases

\* What is spawned.
LEMMA NewFacts ==
  ASSUME TypeOK, NEW u \in Ups, OnService(u), NEW p \in Pids, Spawns(u, p)
  PROVE  /\ proc[p].st = "free" /\ proc'[p].of = Target(u) /\ proc'[p].up = u
         /\ \/ /\ pc[u] = "spawn" /\ Target(u) \in Services /\ proc'[p].st = "starting"
               /\ proc'[p].ver = bin[Repo[Target(u)]]
            \/ /\ pc[u] = "check" /\ Target(u) \in Tunnels /\ proc'[p].st = "serving"
               /\ ~Alive(pidfile[Target(u)]) /\ Meets(u) \subseteq cause'
         /\ child'[u] = p /\ pc'[u] = "pidfile" /\ at'[u] = at[u] /\ pidfile' = pidfile
         /\ Reuses(p, Target(u)) \subseteq cause'
         /\ \A q \in Pids : q # p => proc'[q] = proc[q]
<1>t. ProcType /\ RunType /\ FileType
  BY TypeParts
<1>1. CASE SpawnsService(u, p)
  <2>1. Target(u) \in Services /\ pc[u] = "spawn" /\ Spawned(u, p, "starting", bin[Repo[Target(u)]])
    BY <1>1 DEF SpawnsService, OnService
  <2>2. bin[Repo[Target(u)]] \in NoBin .. MaxEvents
    BY <1>t, <2>1, Constants DEF FileType
  <2>3. /\ \A q \in Pids : q # p => proc'[q] = proc[q]
        /\ proc'[p].st = "starting" /\ proc'[p].of = Target(u)
        /\ proc'[p].ver = bin[Repo[Target(u)]] /\ proc'[p].up = u
    BY <1>t, <2>1, <2>2, SpawnedFacts DEF Statuses
  <2>4. /\ proc[p].st = "free" /\ child'[u] = p /\ pc'[u] = "pidfile" /\ at'[u] = at[u]
        /\ pidfile' = pidfile /\ Reuses(p, Target(u)) \subseteq cause'
    BY <2>1 DEF Spawned
  <2>5. QED
    BY <2>1, <2>3, <2>4
<1>2. CASE SpawnsTunnel(u, p)
  <2>1. /\ pc[u] = "check" /\ Target(u) \in Tunnels /\ Spawned(u, p, "serving", NoBin)
        /\ ~Alive(pidfile[Target(u)]) /\ Meets(u) \subseteq cause'
    BY <1>2 DEF SpawnsTunnel
  <2>2. NoBin \in NoBin .. MaxEvents
    BY Constants
  <2>3. /\ \A q \in Pids : q # p => proc'[q] = proc[q]
        /\ proc'[p].st = "serving" /\ proc'[p].of = Target(u) /\ proc'[p].up = u
    BY <1>t, <2>1, <2>2, SpawnedFacts DEF Statuses
  <2>4. /\ proc[p].st = "free" /\ child'[u] = p /\ pc'[u] = "pidfile" /\ at'[u] = at[u]
        /\ pidfile' = pidfile /\ Reuses(p, Target(u)) \subseteq cause'
    BY <2>1 DEF Spawned
  <2>5. QED
    BY <2>1, <2>3, <2>4
<1>3. QED
  BY <1>1, <1>2 DEF Spawns

\* A process that runs did so before, or was spawned.
LEMMA RanBefore ==
  ASSUME TypeOK, [Next]_vars, NEW q \in Pids, Running(q)'
  PROVE  \/ /\ Running(q) /\ proc'[q].of = proc[q].of /\ proc'[q].ver = proc[q].ver
            /\ proc'[q].st = proc[q].st \/ Bind(q)
         \/ \E u \in Ups : UStep(u) /\ Spawns(u, q)
<1>t. ProcType /\ PortType
  BY TypeParts
<1>1. proc'[q].st \in {"starting", "serving"}
  BY DEF Running
<1>2. CASE Stays(q)
  BY <1>1, <1>2 DEF Stays, Running
<1>3. CASE Told(q)
  BY <1>1, <1>3 DEF Told
<1>4. CASE Exited(q)
  BY <1>1, <1>4, FreeEntry DEF Exited
<1>5. ASSUME NEW u \in Ups, Adopted(q, u) \/ ReapedAt(q, u)
      PROVE  Running(q) /\ proc'[q].of = proc[q].of /\ proc'[q].ver = proc[q].ver
               /\ proc'[q].st = proc[q].st
  BY <1>1, <1>5, FreeEntry DEF Adopted, ReapedAt, Running
<1>6. CASE Bind(q)
  BY <1>t, <1>6, BindFacts DEF Running
<1>7. CASE proc'[q] = Free
  BY <1>1, <1>7, FreeEntry
<1>8. QED
  BY <1>2, <1>3, <1>4, <1>5, <1>6, <1>7, Fates

-----------------------------------------------------------------------------
(* Versions, ports, and where the children are *)

LEMMA VersionsStep ==
  ASSUME TypeOK, Versions, \A u \in Ups : OnService(u), [Next]_vars
  PROVE  Versions'
<1>t. FileType /\ BoundsType
  BY TypeParts
<1>g. \A r \in Repos : golden[r] \in Int /\ bin[r] \in Int
  BY <1>t, Constants DEF FileType
<1>1. ASSUME NEW r \in Repos
      PROVE  bin'[r] <= golden'[r] /\ golden'[r] + budget' <= MaxEvents /\ golden[r] <= golden'[r]
  <2>1. ASSUME NEW u \in Ups, UStep(u)
        PROVE  bin'[r] <= golden'[r] /\ golden'[r] + budget' <= MaxEvents /\ golden[r] <= golden'[r]
    <3>1. golden' = golden /\ budget' <= budget /\ budget' \in Int
      BY <1>t, <2>1, UFrame, UBounds DEF BoundsType
    <3>2. bin'[r] = bin[r] \/ bin'[r] = golden[r]
      BY <1>t, <2>1, UBin
    <3>3. QED
      BY <1>t, <1>g, <3>1, <3>2, Constants DEF Versions, BoundsType
  <2>2. CASE \E q \in Repos : Commit(q)
    <3>1. PICK q \in Repos : Disturb /\ golden' = [golden EXCEPT ![q] = @ + 1] /\ bin' = bin
      BY <2>2 DEF Commit
    <3>2. golden'[r] = golden[r] \/ golden'[r] = golden[r] + 1
      BY <1>t, <3>1 DEF FileType
    <3>3. budget' = budget - 1 /\ budget \in Int
      BY <1>t, <3>1, DisturbFacts
    <3>4. QED
      BY <1>g, <3>1, <3>2, <3>3, Constants DEF Versions
  <2>3. CASE golden' = golden /\ bin' = bin /\ (budget' = budget \/ Disturb)
    <3>1. budget' <= budget /\ budget \in Int /\ budget' \in Int
      BY <1>t, <2>3, DisturbFacts DEF BoundsType
    <3>2. QED
      BY <1>g, <2>3, <3>1, Constants DEF Versions
  <2>4. \/ \E u \in Ups : UStep(u)
        \/ \E q \in Repos : Commit(q)
        \/ golden' = golden /\ bin' = bin /\ (budget' = budget \/ Disturb)
    BY DEF Next, UStep, ProcessStep, Bind, BindFails, Stopped, Crash, Hangs, Recovers,
           ForeignLeaves, ForeignBinds, Disturbance, DownStep, DownStart, DownKill, DownUnlink, Reboot, vars,
           fileVars
  <2>5. QED
    BY <2>1, <2>2, <2>3, <2>4
<1>2. ASSUME NEW p \in Pids, proc'[p].of \in Services
      PROVE  proc'[p].ver <= golden'[Repo[proc'[p].of]]
  <2>r. Repo[proc'[p].of] \in Repos /\ proc[p].ver \in Int
    <3>1. proc[p] \in Entry
      BY TypeParts DEF ProcType
    <3>2. QED
      BY <1>2, <3>1, Constants DEF Entry
  <2>1. CASE proc'[p].of = proc[p].of /\ proc'[p].ver = proc[p].ver
    <3> DEFINE r == Repo[proc'[p].of]
    <3>1. proc[p].ver <= golden[r] /\ golden[r] <= golden'[r] /\ golden[r] \in Int
      BY <1>1, <1>2, <1>g, <2>r, <2>1 DEF Versions
    <3>2. golden'[r] \in Int
      BY <2>r, TypeStep, TypePartsNext, Constants DEF FileType
    <3>3. QED
      BY <2>r, <2>1, <3>1, <3>2
  <2>2. CASE proc'[p] = Free
    BY <1>2, <2>2, FreeEntry, Constants
  <2>3. ASSUME NEW u \in Ups, UStep(u), Spawns(u, p) PROVE proc'[p].ver <= golden'[Repo[proc'[p].of]]
    <3>1. /\ golden' = golden /\ proc'[p].of = Target(u)
          /\ Target(u) \in Services => proc'[p].ver = bin[Repo[Target(u)]]
      BY <2>3, UFrame, NewFacts, Constants
    <3>2. QED
      BY <1>2, <2>r, <3>1 DEF Versions
  <2>4. QED
    <3>1. CASE Stays(p) \/ Told(p) \/ \E u \in Ups : Adopted(p, u)
      <4>1. proc'[p].of = proc[p].of /\ proc'[p].ver = proc[p].ver
        BY <3>1 DEF Stays, Told, Adopted
      <4>2. QED
        BY <2>1, <4>1
    <3>2. CASE Exited(p) \/ \E u \in Ups : ReapedAt(p, u)
      <4>1. (proc'[p].of = proc[p].of /\ proc'[p].ver = proc[p].ver) \/ proc'[p] = Free
        BY <3>2 DEF Exited, ReapedAt
      <4>2. QED
        BY <2>1, <2>2, <4>1
    <3>3. CASE Bind(p)
      BY <2>1, <3>3, BindFacts, TypeParts
    <3>4. QED
      BY <2>2, <2>3, <3>1, <3>2, <3>3, Fates
<1>3. QED
  BY <1>1, <1>2 DEF Versions

LEMMA OnServiceStep ==
  ASSUME TypeOK, \A u \in Ups : OnService(u), [Next]_vars
  PROVE  \A u \in Ups : OnService(u)'
<1> SUFFICES ASSUME NEW u \in Ups, pc'[u] \notin {"idle", "check", "pidfile"}
             PROVE  Target(u)' \in Services
  BY DEF OnService
<1>t. ProcType /\ PortType /\ RunType
  BY TypeParts
<1>1. CASE pc'[u] = pc[u] /\ at'[u] = at[u]
  BY <1>1 DEF OnService, Target
<1>2. CASE UStep(u)
  <2>1. UForm(u)
    BY <1>t, <1>2, UForms
  <2>2. ~Begins(u) /\ ~Departs(u) /\ \A p \in Pids : ~SpawnsService(u, p) /\ ~SpawnsTunnel(u, p)
    BY <1>t, LeavesFacts DEF Begins, Departs, SpawnsService, SpawnsTunnel, Spawned
  <2>3. at'[u] = at[u] /\ (pc[u] \notin {"idle", "check", "pidfile"} \/ Target(u) \in Services)
    BY <2>1, <2>2 DEF UForm, Judges, Proceeds, Kills, Unlinks, FindsPort, Writes, Remains
  <2>4. QED
    BY <2>3 DEF OnService, Target
<1>3. ASSUME NEW v \in Ups, UStep(v), v # u PROVE pc'[u] = pc[u] /\ at'[u] = at[u]
  BY <1>t, <1>3, UForms DEF OthersStay
<1>4. CASE Reboot
  BY <1>4, RebootFacts
<1>5. ASSUME NEW p \in Pids, Bind(p) \/ Dies(p) PROVE pc'[u] = pc[u] /\ at'[u] = at[u]
  BY <1>5 DEF Bind, Dies, upVars
<1>6. CASE WorldStep \/ DownStart \/ DownKill \/ DownUnlink \/ UNCHANGED vars
  BY <1>1, <1>6, WorldFacts, DownFacts DEF vars
<1>7. QED
  BY <1>1, <1>2, <1>3, <1>4, <1>5, <1>6, NextCases

\* What any step may do to one port.
LEMMA PortFate ==
  ASSUME TypeOK, [Next]_vars, NEW s \in Services
  PROVE  \/ port'[s] = port[s]
         \/ \E p \in Pids : Bind(p) /\ proc[p].of = s /\ port'[s] = p /\ ~PortTaken(s)
         \/ port[s] \notin Pids /\ port'[s] \notin Pids
         \/ \E p \in Pids : Exited(p) /\ port[s] = p /\ port'[s] = Nobody
         \/ Reboot
<1>t. ProcType /\ PortType
  BY TypeParts
<1>1. ASSUME NEW u \in Ups, UStep(u) PROVE port'[s] = port[s]
  BY <1>1, UFrame
<1>2. ASSUME NEW p \in Pids, Bind(p)
      PROVE  port'[s] = port[s] \/ (proc[p].of = s /\ port'[s] = p /\ ~PortTaken(s))
  <2>1. port' = [port EXCEPT ![proc[p].of] = p] /\ ~PortTaken(proc[p].of)
    BY <1>t, <1>2, BindFacts
  <2>2. QED
    BY <1>t, <2>1 DEF PortType
<1>3. ASSUME NEW p \in Pids, Dies(p)
      PROVE  port'[s] = port[s] \/ (Exited(p) /\ port[s] = p /\ port'[s] = Nobody)
  BY <1>t, <1>3, GoneFacts DEF Dies
<1>4. CASE WorldStep
  BY <1>4, WorldFacts
<1>5. CASE DownStart \/ DownKill \/ DownUnlink \/ UNCHANGED vars
  BY <1>5, DownFacts DEF vars
<1>6. QED
  BY <1>1, <1>2, <1>3, <1>4, <1>5, NextCases

LEMMA BoundStep ==
  ASSUME TypeOK, Bound, \A u \in Ups : OnService(u), [Next]_vars
  PROVE  Bound'
<1>t. ProcType /\ PortType
  BY TypeParts
<1>1. ASSUME NEW s \in Services, port'[s] \in Pids
      PROVE  proc'[port'[s]].of = s /\ proc'[port'[s]].st \in {"serving", "stopping"}
  <2>1. CASE port'[s] = port[s]
    <3> DEFINE q == port[s]
    <3>1. q \in Pids /\ proc[q].of = s /\ proc[q].st \in {"serving", "stopping"}
      BY <1>1, <2>1 DEF Bound
    <3>2. CASE Stays(q) \/ Told(q) \/ \E u \in Ups : Adopted(q, u)
      BY <2>1, <3>1, <3>2 DEF Stays, Told, Adopted
    <3>3. CASE Dies(q)
      BY <1>t, <1>1, <2>1, <3>1, <3>3, GoneFacts, Constants DEF Dies
    <3>4. ~Bind(q) /\ \A u \in Ups : ~ReapedAt(q, u) /\ ~Spawns(u, q)
      BY <3>1 DEF Bind, ReapedAt, Spawns, SpawnsService, SpawnsTunnel, Spawned
    <3>5. ~Reboot
      BY <1>1, RebootFacts, Constants
    <3>6. QED
      BY <3>1, <3>2, <3>3, <3>4, <3>5, Fates
  <2>2. ASSUME NEW p \in Pids, Bind(p), proc[p].of = s, port'[s] = p
        PROVE  proc'[port'[s]].of = s /\ proc'[port'[s]].st \in {"serving", "stopping"}
    BY <1>t, <2>2, BindFacts
  <2>3. QED
    BY <1>1, <2>1, <2>2, PortFate, RebootFacts, Constants
<1>2. ASSUME NEW p \in Pids, proc'[p].st = "serving", proc'[p].of \in Services
      PROVE  port'[proc'[p].of] = p
  <2>1. Running(p)'
    BY <1>2 DEF Running
  <2>2. CASE Running(p) /\ proc'[p].of = proc[p].of /\ proc'[p].st = proc[p].st
    <3>1. port[proc'[p].of] = p
      BY <1>2, <2>2 DEF Bound
    <3>2. ~Exited(p) /\ ~Reboot
      BY <1>2, RebootFacts, FreeEntry DEF Exited
    <3>3. QED
      BY <1>2, <3>1, <3>2, PortFate, Constants DEF PortTaken
  <2>3. CASE Bind(p)
    <3>1. port' = [port EXCEPT ![proc[p].of] = p] /\ proc'[p].of = proc[p].of
      BY <1>t, <2>3, BindFacts
    <3>2. QED
      BY <1>t, <1>2, <3>1 DEF PortType
  <2>4. ASSUME NEW u \in Ups, Spawns(u, p) PROVE FALSE
    BY <1>2, <2>4, NewFacts, Constants
  <2>5. QED
    BY <2>1, <2>2, <2>3, <2>4, RanBefore
<1>3. ASSUME NEW p \in Pids, proc'[p].st = "starting" PROVE proc'[p].of \in Services
  <2>1. Running(p)'
    BY <1>3 DEF Running
  <2>2. ~Bind(p)
    BY <1>t, <1>3, BindFacts
  <2>3. ASSUME NEW u \in Ups, Spawns(u, p) PROVE proc'[p].of \in Services
    BY <1>3, <2>3, NewFacts
  <2>4. QED
    BY <1>3, <2>1, <2>2, <2>3, RanBefore DEF Bound
<1>4. ASSUME NEW p \in Pids, proc'[p].st # "free" PROVE proc'[p].of \in Names
  <2>1. CASE Stays(p) \/ Told(p) \/ \E u \in Ups : Adopted(p, u)
    BY <1>4, <2>1 DEF Bound, Stays, Told, Adopted
  <2>2. CASE Dies(p) /\ Exited(p)
    BY <1>4, <2>2, FreeEntry DEF Bound, Dies, Exited
  <2>3. CASE Bind(p)
    BY <1>t, <2>3, BindFacts DEF Bound
  <2>4. ASSUME NEW u \in Ups, Spawns(u, p) PROVE proc'[p].of \in Names
    BY <1>t, <2>4, NewFacts, TargetName, TypeParts
  <2>5. proc'[p] # Free
    BY <1>4, FreeEntry
  <2>6. QED
    BY <2>1, <2>2, <2>3, <2>4, <2>5, Fates DEF ReapedAt
<1>5. QED
  BY <1>1, <1>2, <1>3, <1>4 DEF Bound

\* Where a run of `up` stays within its name, or another takes a step.
LEMMA RunFate ==
  ASSUME TypeOK, [Next]_vars, NEW u \in Ups
  PROVE  \/ UStep(u) /\ UForm(u)
         \/ pc'[u] = pc[u] /\ at'[u] = at[u] /\ child'[u] = child[u] /\ ~Reboot
         \/ Reboot /\ pc'[u] = "idle"
<1>t. ProcType /\ PortType /\ RunType
  BY TypeParts
<1>1. CASE UStep(u)
  BY <1>t, <1>1, UForms
<1>2. CASE Reboot
  BY <1>2, RebootFacts
<1>3. ASSUME NEW v \in Ups, UStep(v), v # u
      PROVE  pc'[u] = pc[u] /\ at'[u] = at[u] /\ child'[u] = child[u]
  BY <1>t, <1>3, UForms DEF OthersStay
<1>4. ASSUME NEW p \in Pids, Bind(p) \/ Dies(p)
      PROVE  pc'[u] = pc[u] /\ at'[u] = at[u] /\ child'[u] = child[u]
  BY <1>4 DEF Bind, Dies, upVars
<1>5. ASSUME WorldStep \/ DownStart \/ DownKill \/ DownUnlink \/ UNCHANGED vars
      PROVE  pc'[u] = pc[u] /\ at'[u] = at[u] /\ child'[u] = child[u]
  BY <1>5, WorldFacts, DownFacts DEF vars
<1>6. QED
  BY <1>1, <1>2, <1>3, <1>4, <1>5, NextCases

LEMMA ChildThereStep ==
  ASSUME TypeOK, \A u \in Ups : OnService(u) /\ ChildThere(u), [Next]_vars
  PROVE  \A u \in Ups : ChildThere(u)'
<1> SUFFICES ASSUME NEW u \in Ups, pc'[u] \in {"pidfile", "poll"}
             PROVE  /\ child'[u] \in Pids
                    /\ proc'[child'[u]].st # "free" /\ proc'[child'[u]].of = Target(u)'
                    /\ proc'[child'[u]].up = u
  BY DEF ChildThere
<1>t. ProcType /\ RunType
  BY TypeParts
<1>1. CASE pc[u] \in {"pidfile", "poll"} /\ Remains(u)
  <2> DEFINE q == child[u]
  <2>1. /\ q \in Pids /\ proc[q].st # "free" /\ proc[q].of = Target(u) /\ proc[q].up = u
        /\ child'[u] = q /\ Target(u)' = Target(u)
    BY <1>1 DEF ChildThere, Remains, Target
  <2>2. CASE Stays(q) \/ Told(q) \/ Exited(q) \/ Bind(q)
    <3>1. CASE Stays(q) \/ Told(q)
      BY <2>1, <3>1 DEF Stays, Told
    <3>2. CASE Exited(q)
      BY <2>1, <3>2, Constants DEF Exited
    <3>3. CASE Bind(q)
      <4>1. /\ proc'[q].st = "serving" /\ proc'[q].of = proc[q].of /\ proc'[q].up = proc[q].up
        BY <2>1, <3>3, BindFacts, TypeParts
      <4>2. QED
        BY <2>1, <4>1
    <3>4. QED
      BY <2>2, <3>1, <3>2, <3>3
  <2>3. ASSUME NEW v \in Ups, UStep(v) PROVE Stays(q) \/ Told(q)
    <3>1. CASE v = u
      <4>1. ~Departs(u)
        BY <1>t, LeavesFacts DEF Departs
      <4>2. ~Spawns(u, q)
        BY <2>1 DEF Spawns, SpawnsService, SpawnsTunnel, Spawned
      <4>3. QED
        BY <2>1, <2>3, <3>1, <4>1, <4>2, UFate
    <3>2. CASE v # u
      <4>1. ~Adopted(q, v) /\ ~ReapedAt(q, v) /\ ~Spawns(v, q)
        BY <2>1, <3>2 DEF Adopted, ReapedAt, Spawns, SpawnsService, SpawnsTunnel, Spawned
      <4>2. QED
        BY <2>1, <2>3, <4>1, UFate
    <3>3. QED
      BY <3>1, <3>2
  <2>4. CASE WorldStep \/ DownStart \/ DownKill \/ DownUnlink \/ UNCHANGED vars
    BY <2>1, <2>2, <2>4, WorldFacts, DownFacts DEF Stays, vars
  <2>5. ASSUME NEW p \in Pids, Bind(p) \/ Dies(p) PROVE Stays(q) \/ Exited(q) \/ Bind(q)
    BY <2>1, <2>5, BindFacts, GoneFacts, TypeParts DEF Dies, Stays
  <2>6. QED
    BY <2>2, <2>3, <2>4, <2>5, NextCases, RebootFacts
<1>2. ASSUME NEW p \in Pids, Spawns(u, p)
      PROVE  /\ child'[u] \in Pids
             /\ proc'[child'[u]].st # "free" /\ proc'[child'[u]].of = Target(u)'
             /\ proc'[child'[u]].up = u
  <2>1. /\ proc'[p].of = Target(u) /\ proc'[p].up = u /\ proc'[p].st \in {"starting", "serving"}
        /\ child'[u] = p /\ at'[u] = at[u]
    BY <1>2, NewFacts
  <2>2. Target(u)' = Target(u)
    BY <2>1 DEF Target
  <2>3. QED
    BY <2>1, <2>2
<1>3. CASE UStep(u) /\ UForm(u)
  <2>1. CASE \E p \in Pids : Spawns(u, p)
    BY <1>2, <2>1
  <2>2. CASE Writes(u)
    BY <1>1, <2>2 DEF Writes
  <2>3. ~Departs(u) /\ ~Begins(u) /\ ~Judges(u) /\ ~Proceeds(u) /\ ~Kills(u) /\ ~Unlinks(u)
        /\ ~FindsPort(u)
    BY <1>t, LeavesFacts
       DEF Departs, Begins, Judges, Proceeds, Kills, Unlinks, FindsPort
  <2>4. QED
    BY <1>3, <2>1, <2>2, <2>3 DEF UForm, Spawns
<1>4. CASE pc'[u] = pc[u] /\ at'[u] = at[u] /\ child'[u] = child[u]
  BY <1>1, <1>4 DEF Remains
<1>5. QED
  BY <1>3, <1>4, RunFate

-----------------------------------------------------------------------------
(* Two commands at one name *)

LEMMA CauseGrows ==
  ASSUME TypeOK, [Next]_vars
  PROVE  cause \subseteq cause'
<1>1. \A p \in Pids : Bind(p) \/ Dies(p) => cause' = cause
  BY DEF Bind, Dies
<1>2. QED
  BY <1>1, NextCases, UFrame, WorldFacts, DownFacts, RebootFacts DEF vars

LEMMA Calm ==
  ASSUME IInv, [Next]_vars, Undisturbed'
  PROVE  /\ Undisturbed /\ Alone /\ Awaited /\ DownCleared
         /\ \A u \in Ups : Cleared(u) /\ Only(u) /\ PortKept(u) /\ Outdated(u)
         /\ \A p \in Pids : Running(p) => Tracked(p)
         /\ "overlap" \notin cause' /\ "slow" \notin cause' /\ "killed" \notin cause'
         /\ TypeOK /\ Bound /\ Versions /\ \A u \in Ups : OnService(u) /\ ChildThere(u)
<1>1. Undisturbed
  BY CauseGrows DEF Undisturbed, IInv
<1>2. QED
  BY <1>1 DEF Undisturbed, IInv, Watched, NoOrphans, Running

\* A run that turns to a name while nothing disturbs finds nobody at it.
LEMMA MeetsNobody ==
  ASSUME NEW u \in Ups, Meets(u) \subseteq cause', Undisturbed'
  PROVE  /\ \A v \in Ups : v # u => ~Engaged(v, Target(u))
         /\ ~(down.pc = "unlink" /\ DownOrder[down.at] = Target(u))
  BY DEF Meets, Undisturbed

LEMMA EngagedBefore ==
  ASSUME TypeOK, [Next]_vars, Undisturbed', NEW u \in Ups, NEW n, Engaged(u, n)'
  PROVE  \/ Engaged(u, n) /\ at'[u] = at[u]
         \/ /\ UStep(u) /\ pc[u] = "check" /\ Target(u) = n /\ Meets(u) \subseteq cause'
            /\ at'[u] = at[u]
<1>t. ProcType /\ RunType
  BY TypeParts
<1>e. pc'[u] \notin {"idle", "check"} /\ Target(u)' = n
  BY DEF Engaged, Active
<1>1. CASE pc'[u] = pc[u] /\ at'[u] = at[u]
  BY <1>1, <1>e DEF Engaged, Active, Target
<1>2. CASE UStep(u) /\ UForm(u)
  <2>1. ~Begins(u) /\ ~Departs(u)
    BY <1>t, <1>e, LeavesFacts DEF Begins, Departs
  <2>2. at'[u] = at[u] /\ (pc[u] \notin {"idle", "check"} \/ Judges(u) \/ \E p \in Pids : SpawnsTunnel(u, p))
    BY <1>2, <2>1 DEF UForm, Judges, Proceeds, Kills, Unlinks, FindsPort, Writes, Remains,
                      SpawnsService, SpawnsTunnel, Spawned
  <2>3. Target(u) = n
    BY <1>e, <2>2 DEF Target
  <2>4. CASE pc[u] \notin {"idle", "check"}
    BY <2>2, <2>3, <2>4 DEF Engaged, Active
  <2>5. CASE Judges(u) \/ \E p \in Pids : SpawnsTunnel(u, p)
    BY <1>2, <2>2, <2>3, <2>5 DEF Judges, SpawnsTunnel, Undisturbed
  <2>6. QED
    BY <2>2, <2>4, <2>5
<1>3. QED
  BY <1>1, <1>2, <1>e, RunFate

\* The others are where they were.
LEMMA EngagedOthers ==
  ASSUME TypeOK, NEW u \in Ups, UStep(u), NEW v \in Ups, v # u, NEW n
  PROVE  Engaged(v, n)' <=> Engaged(v, n)
<1>1. pc'[v] = pc[v] /\ at'[v] = at[v]
  BY UForms, TypeParts DEF OthersStay
<1>2. QED
  BY <1>1 DEF Engaged, Active, Target

LEMMA DownFate ==
  ASSUME TypeOK, [Next]_vars, down'.pc = "unlink"
  PROVE  \/ down' = down
         \/ /\ DownKill /\ pidfile[DownOrder[down.at]] # Nobody
            /\ down'.at = down.at /\ UNCHANGED <<pc, at>>
<1>t. DownType
  BY TypeParts
<1>1. \A p \in Pids : Bind(p) \/ Dies(p) => down' = down
  BY DEF Bind, Dies
<1>2. CASE DownStart \/ DownKill \/ DownUnlink
  <2>1. DownKill /\ UNCHANGED <<pc, at>>
    BY <1>2, DownFacts
  <2>2. ~DownNext
    BY Orders DEF DownNext
  <2>3. QED
    BY <1>t, <2>1, <2>2 DEF DownKill, DownType
<1>3. QED
  BY <1>1, <1>2, NextCases, UFrame, WorldFacts, RebootFacts DEF vars

LEMMA AloneStep ==
  ASSUME IInv, [Next]_vars, Undisturbed'
  PROVE  Alone'
<1>t. TypeOK /\ Alone
  BY Calm
<1>1. ASSUME NEW u \in Ups, NEW v \in Ups, NEW n \in Names, Engaged(u, n)', Engaged(v, n)', u # v
      PROVE  FALSE
  <2>1. ASSUME NEW x \in Ups, NEW y \in Ups, x # y, Engaged(y, n)', UStep(x), Target(x) = n,
               Meets(x) \subseteq cause'
        PROVE  FALSE
    <3>1. Engaged(y, n)
      BY <1>t, <2>1, EngagedOthers
    <3>2. QED
      BY <2>1, <3>1, MeetsNobody
  <2>2. Engaged(u, n) /\ Engaged(v, n)
    BY <1>t, <1>1, <2>1, EngagedBefore
  <2>3. QED
    BY <1>t, <1>1, <2>2 DEF Alone
<1>2. ASSUME NEW u \in Ups, NEW n, n = DownOrder[down'.at], down'.pc = "unlink", Engaged(u, n)'
      PROVE  FALSE
  <2>1. CASE down' = down
    <3>1. Engaged(u, n) \/ (Target(u) = n /\ Meets(u) \subseteq cause')
      BY <1>t, <1>2, EngagedBefore
    <3>2. ~Engaged(u, n) /\ down.pc = "unlink" /\ DownOrder[down.at] = n
      BY <1>t, <1>2, <2>1 DEF Alone
    <3>3. QED
      BY <3>1, <3>2, MeetsNobody
  <2>2. CASE /\ DownKill /\ pidfile[DownOrder[down.at]] # Nobody
             /\ down'.at = down.at /\ UNCHANGED <<pc, at>>
    <3>1. Engaged(u, DownOrder[down.at])
      BY <1>2, <2>2 DEF Engaged, Active, Target
    <3>2. "overlap" \in cause'
      BY <2>2, <3>1 DEF DownKill
    <3>3. QED
      BY <3>2 DEF Undisturbed
  <2>3. QED
    BY <1>t, <1>2, <2>1, <2>2, DownFate
<1>3. ASSUME NEW u \in Ups, down'.pc = "unlink" PROVE ~Engaged(u, DownOrder[down.at])'
  <2>1. ASSUME NEW n, n = DownOrder[down'.at] PROVE ~Engaged(u, n)'
    BY <1>2, <1>3, <2>1
  <2>2. ~(pc'[u] # "idle" /\ pc'[u] # "check" /\ Target(u)' = DownOrder[down'.at])
    BY <2>1 DEF Engaged, Active
  <2>3. QED
    BY <2>2 DEF Engaged, Active
<1>4. QED
  BY <1>1, <1>3 DEF Alone

-----------------------------------------------------------------------------
(* What runs, and who waits for it *)

LEMMA SpawnElsewhere ==
  ASSUME IInv, [Next]_vars, Undisturbed', NEW u \in Ups, NEW v \in Ups, UStep(v), v # u,
         NEW p \in Pids, Spawns(v, p), pc[u] \notin {"idle", "check"}
  PROVE  proc'[p].of # Target(u)
<1>t. TypeOK /\ Alone /\ OnService(v) /\ RunType
  BY Calm, TypeParts
<1>1. Engaged(u, Target(u)) /\ Target(u) \in Names
  BY <1>t, TargetName DEF Engaged, Active
<1>2. /\ proc'[p].of = Target(v)
      /\ pc[v] = "spawn" \/ Meets(v) \subseteq cause'
  BY <1>t, NewFacts
<1>3. CASE pc[v] = "spawn"
  <2>1. Engaged(v, Target(v))
    BY <1>3 DEF Engaged, Active
  <2>2. QED
    BY <1>t, <1>1, <1>2, <2>1 DEF Alone
<1>4. CASE Meets(v) \subseteq cause'
  BY <1>1, <1>2, <1>4, MeetsNobody
<1>5. QED
  BY <1>2, <1>3, <1>4

\* The run that waits for a process is the one at its name.
LEMMA OwnChild ==
  ASSUME IInv, Undisturbed, NEW u \in Ups, pc[u] \notin {"idle", "check"}, NEW v \in Ups,
         pc[v] \in {"pidfile", "poll"}, proc[child[v]].of = Target(u)
  PROVE  u = v
<1>1. Target(v) = Target(u) /\ Target(u) \in Names
  BY TargetName, TypeParts DEF IInv, ChildThere
<1>2. Engaged(u, Target(u)) /\ Engaged(v, Target(u))
  BY <1>1 DEF Engaged, Active
<1>3. QED
  BY <1>1, <1>2 DEF IInv, Watched, Alone

LEMMA AwaitedStep ==
  ASSUME IInv, [Next]_vars, Undisturbed'
  PROVE  Awaited'
<1> SUFFICES ASSUME NEW q \in Pids, proc'[q].st = "starting"
             PROVE  \E u \in Ups : pc'[u] \in {"pidfile", "poll"} /\ child'[u] = q
  BY DEF Awaited
<1>t. TypeOK /\ ProcType /\ PortType /\ RunType
  BY Calm, TypeParts
<1>1. CASE Running(q) /\ proc[q].st = "starting"
  <2>1. PICK u \in Ups : pc[u] \in {"pidfile", "poll"} /\ child[u] = q
    BY <1>1, Calm DEF Awaited
  <2>2. CASE UStep(u) /\ UForm(u)
    <3>1. ~Departs(u)
      <4>1. /\ "killed" \notin cause' /\ "slow" \notin cause' /\ OnService(u) /\ ChildThere(u)
            /\ PortKept(u) /\ Bound
        BY Calm
      <4>2. CASE pc[u] = "poll" /\ IsOurs(Target(u))
        <5>1. Target(u) \in Services /\ port[Target(u)] = q
          BY <2>1, <4>1, <4>2 DEF OnService, PortKept, IsOurs
        <5>2. QED
          BY <1>1, <4>2, <5>1 DEF IsOurs
      <4>3. CASE pc[u] = "pidfile" /\ Target(u) \notin Services
        BY <1>1, <2>1, <4>1, <4>3 DEF ChildThere, Bound
      <4>4. QED
        BY <1>1, <2>1, <4>1, <4>2, <4>3 DEF Departs
    <3>2. CASE Writes(u)
      BY <2>1, <3>2 DEF Writes, Remains
    <3>3. ~Begins(u) /\ ~Judges(u) /\ ~Proceeds(u) /\ ~Kills(u) /\ ~Unlinks(u) /\ ~FindsPort(u)
          /\ \A p \in Pids : ~SpawnsService(u, p) /\ ~SpawnsTunnel(u, p)
      BY <2>1 DEF Begins, Judges, Proceeds, Kills, Unlinks, FindsPort, SpawnsService, SpawnsTunnel
    <3>4. QED
      BY <2>2, <3>1, <3>2, <3>3 DEF UForm
  <2>3. ~Reboot
    BY <1>t, RebootFacts, FreeEntry
  <2>4. QED
    BY <1>t, <2>1, <2>2, <2>3, RunFate
<1>2. ASSUME NEW u \in Ups, Spawns(u, q)
      PROVE  pc'[u] \in {"pidfile", "poll"} /\ child'[u] = q
  BY <1>2, NewFacts, Calm
<1>3. ~Bind(q)
  BY <1>t, BindFacts
<1>4. Running(q)'
  BY DEF Running
<1>5. QED
  BY <1>t, <1>1, <1>2, <1>3, <1>4, RanBefore

LEMMA ClearedStep ==
  ASSUME IInv, [Next]_vars, Undisturbed', NEW u \in Ups
  PROVE  Cleared(u)'
<1> SUFFICES ASSUME pc'[u] \in {"unlink", "bin", "spawn"}, NEW q \in Pids, Running(q)'
             PROVE  proc'[q].of # Target(u)'
  BY DEF Cleared
<1>t. /\ TypeOK /\ ProcType /\ RunType /\ Cleared(u) /\ OnService(u) /\ Bound /\ Awaited
      /\ Undisturbed /\ \A v \in Ups : OnService(v) /\ ChildThere(v)
  BY Calm, TypeParts
<1>1. CASE pc'[u] = pc[u] /\ at'[u] = at[u]
  <2>1. Target(u)' = Target(u) /\ (Running(q) => proc[q].of # Target(u))
    BY <1>t, <1>1 DEF Target, Cleared
  <2>2. ASSUME NEW v \in Ups, UStep(v), Spawns(v, q) PROVE proc'[q].of # Target(u)
    <3>1. v # u
      BY <1>t, <2>2, NewFacts
    <3>2. QED
      BY <1>1, <2>2, <3>1, SpawnElsewhere
  <2>3. QED
    BY <1>t, <2>1, <2>2, RanBefore
<1>2. CASE UStep(u) /\ UForm(u)
  <2>1. ~Departs(u) /\ ~Begins(u) /\ ~Judges(u) /\ ~Unlinks(u) /\ ~Writes(u)
        /\ \A p \in Pids : ~SpawnsService(u, p) /\ ~SpawnsTunnel(u, p)
    BY <1>t, LeavesFacts
       DEF Departs, Begins, Judges, Unlinks, Writes, SpawnsService, SpawnsTunnel, Spawned
  <2>2. CASE Kills(u)
    <3>1. Stays(q)
      <4>1. ~Told(q) /\ ~Spawns(u, q)
        BY <2>1 DEF Told, Running, Spawns
      <4>2. QED
        BY <1>t, <1>2, <2>1, <4>1, UFate
    <3>2. Running(q) /\ proc'[q].of = proc[q].of /\ Target(u)' = Target(u)
      BY <2>2, <3>1 DEF Stays, Running, Kills, Remains, Target
    <3>3. CASE proc[q].of = Target(u)
      <4>1. Tracked(q)
        BY <3>2, Calm
      <4>2. CASE pidfile[Target(u)] = q
        <5>1. proc' = Signal(q)
          BY <2>2, <3>2, <4>2 DEF Kills, Alive, Running
        <5>2. QED
          BY <1>t, <5>1, SignalFacts DEF Running
      <4>3. ASSUME NEW v \in Ups, pc[v] = "pidfile", child[v] = q PROVE FALSE
        <5>1. pc[u] = "kill"
          BY <2>2 DEF Kills
        <5>2. u = v
          BY <1>t, <3>3, <4>3, <5>1, OwnChild
        <5>3. QED
          BY <4>3, <5>1, <5>2
      <4>4. QED
        BY <3>3, <4>1, <4>2, <4>3 DEF Tracked
    <3>4. QED
      BY <3>2, <3>3
  <2>3. CASE FindsPort(u)
    <3>1. /\ pc[u] = "port" /\ proc' = proc /\ Target(u)' = Target(u) /\ ~PortTaken(Target(u))
          /\ Running(q) /\ Target(u) \in Services
      BY <1>t, <2>3 DEF FindsPort, Quiet, Remains, Target, Running, OnService
    <3>2. CASE proc[q].of = Target(u) /\ proc[q].st = "serving"
      BY <1>t, <3>1, <3>2, Constants DEF Bound, PortTaken
    <3>3. CASE proc[q].of = Target(u) /\ proc[q].st = "starting"
      <4>1. PICK v \in Ups : pc[v] \in {"pidfile", "poll"} /\ child[v] = q
        BY <1>t, <3>3 DEF Awaited
      <4>2. u = v
        BY <1>t, <3>1, <3>3, <4>1, OwnChild
      <4>3. QED
        BY <3>1, <4>1, <4>2
    <3>4. QED
      BY <3>1, <3>2, <3>3 DEF Running
  <2>4. CASE Proceeds(u)
    BY <1>t, <2>4 DEF Proceeds, Quiet, Remains, Target, Running, Cleared
  <2>5. QED
    BY <1>2, <2>1, <2>2, <2>3, <2>4 DEF UForm
<1>3. QED
  BY <1>t, <1>1, <1>2, RunFate

LEMMA OnlyStep ==
  ASSUME IInv, [Next]_vars, Undisturbed', NEW u \in Ups
  PROVE  Only(u)'
<1> SUFFICES ASSUME pc'[u] \in {"pidfile", "poll"}, NEW q \in Pids, Running(q)',
                    proc'[q].of = Target(u)'
             PROVE  q = child'[u]
  BY DEF Only
<1>t. /\ TypeOK /\ ProcType /\ RunType /\ Cleared(u) /\ Only(u) /\ OnService(u) /\ Undisturbed
      /\ \A v \in Ups : OnService(v) /\ ChildThere(v)
  BY Calm, TypeParts
<1>1. CASE pc'[u] = pc[u] /\ at'[u] = at[u] /\ child'[u] = child[u]
  <2>1. Target(u)' = Target(u)
    BY <1>1 DEF Target
  <2>2. ASSUME NEW v \in Ups, UStep(v), Spawns(v, q) PROVE q = child'[u]
    <3>1. CASE v = u
      BY <1>t, <2>2, <3>1, NewFacts
    <3>2. CASE v # u
      BY <1>1, <2>1, <2>2, <3>2, SpawnElsewhere
    <3>3. QED
      BY <3>1, <3>2
  <2>3. CASE Running(q) /\ proc'[q].of = proc[q].of
    BY <1>t, <1>1, <2>1, <2>3 DEF Only
  <2>4. QED
    BY <1>t, <2>2, <2>3, RanBefore
<1>2. CASE UStep(u) /\ UForm(u)
  <2>1. ~Departs(u) /\ ~Begins(u) /\ ~Judges(u) /\ ~Proceeds(u) /\ ~Kills(u) /\ ~Unlinks(u)
        /\ ~FindsPort(u)
    BY <1>t, LeavesFacts DEF Departs, Begins, Judges, Proceeds, Kills, Unlinks, FindsPort
  <2>2. CASE Writes(u)
    BY <1>t, <2>2 DEF Writes, Remains, Target, Running, Only
  <2>3. ASSUME NEW p \in Pids, Spawns(u, p), p # q PROVE FALSE
    <3>1. /\ proc'[q] = proc[q] /\ at'[u] = at[u]
          /\ \/ pc[u] = "spawn"
             \/ /\ pc[u] = "check" /\ ~Alive(pidfile[Target(u)]) /\ Meets(u) \subseteq cause'
      BY <1>t, <2>3, NewFacts
    <3>2. Running(q) /\ proc[q].of = Target(u)
      BY <3>1 DEF Running, Target
    <3>3. CASE pc[u] = "spawn"
      BY <1>t, <3>2, <3>3 DEF Cleared
    <3>4. CASE pc[u] = "check" /\ ~Alive(pidfile[Target(u)]) /\ Meets(u) \subseteq cause'
      <4>1. Tracked(q)
        BY <3>2, Calm
      <4>2. pidfile[proc[q].of] # q
        BY <3>2, <3>4 DEF Alive, Running
      <4>3. PICK v \in Ups : pc[v] = "pidfile" /\ child[v] = q
        BY <4>1, <4>2 DEF Tracked
      <4>4. Engaged(v, Target(u))
        BY <1>t, <3>2, <4>3 DEF ChildThere, Engaged, Active
      <4>5. v # u
        BY <3>4, <4>3
      <4>6. QED
        BY <3>4, <4>4, <4>5, MeetsNobody
    <3>5. QED
      BY <3>1, <3>3, <3>4
  <2>4. ASSUME NEW p \in Pids, Spawns(u, p) PROVE child'[u] = p
    BY <1>t, <2>4, NewFacts
  <2>5. QED
    BY <1>2, <2>1, <2>2, <2>3, <2>4 DEF UForm, Spawns
<1>3. QED
  BY <1>t, <1>1, <1>2, RunFate

LEMMA DownClearedStep ==
  ASSUME IInv, [Next]_vars, Undisturbed'
  PROVE  DownCleared'
<1> SUFFICES ASSUME down'.pc = "unlink", NEW q \in Pids, Running(q)'
             PROVE  proc'[q].of # DownOrder[down'.at]
  BY DEF DownCleared
<1>t. /\ TypeOK /\ ProcType /\ FileType /\ DownCleared /\ Alone
      /\ \A v \in Ups : OnService(v) /\ ChildThere(v)
  BY Calm, TypeParts
<1>1. CASE down' = down
  <2>1. ASSUME NEW v \in Ups, UStep(v), Spawns(v, q) PROVE proc'[q].of # DownOrder[down.at]
    <3>1. /\ proc'[q].of = Target(v)
          /\ pc[v] = "spawn" \/ Meets(v) \subseteq cause'
      BY <1>t, <2>1, NewFacts
    <3>2. CASE pc[v] = "spawn"
      BY <1>t, <1>1, <3>1, <3>2 DEF Alone, Engaged, Active
    <3>3. CASE Meets(v) \subseteq cause'
      BY <1>1, <3>1, <3>3, MeetsNobody
    <3>4. QED
      BY <3>1, <3>2, <3>3
  <2>2. QED
    BY <1>t, <1>1, <2>1, RanBefore DEF DownCleared
<1>2. CASE DownKill /\ pidfile[DownOrder[down.at]] # Nobody /\ down'.at = down.at
  <2> DEFINE n == DownOrder[down.at]
  <2>1. (Stays(q) \/ Told(q)) /\ (proc' = IF Alive(pidfile[n]) THEN Signal(pidfile[n]) ELSE proc)
    BY <1>t, <1>2, DownFacts DEF DownKill
  <2>2. Running(q) /\ proc'[q].of = proc[q].of
    BY <2>1 DEF Stays, Told, Running
  <2>3. CASE proc[q].of = n
    <3>1. Tracked(q)
      BY <2>2, Calm
    <3>2. pidfile[n] # q
      <4> SUFFICES ASSUME pidfile[n] = q PROVE FALSE
        OBVIOUS
      <4>1. proc' = Signal(q)
        BY <2>1, <2>2 DEF Alive, Running
      <4>2. QED
        BY <1>t, <4>1, SignalFacts DEF Running
    <3>3. PICK v \in Ups : pc[v] = "pidfile" /\ child[v] = q
      BY <2>3, <3>1, <3>2 DEF Tracked
    <3>4. Engaged(v, n)
      BY <1>t, <2>3, <3>3 DEF ChildThere, Engaged, Active
    <3>5. "overlap" \in cause'
      BY <1>2, <3>4 DEF DownKill
    <3>6. QED
      BY <3>5 DEF Undisturbed
  <2>4. QED
    BY <1>2, <2>2, <2>3
<1>3. QED
  BY <1>t, <1>1, <1>2, DownFate

LEMMA PortKeptStep ==
  ASSUME IInv, [Next]_vars, Undisturbed', NEW u \in Ups
  PROVE  PortKept(u)'
<1>t. /\ TypeOK /\ ProcType /\ RunType /\ PortKept(u) /\ Cleared(u) /\ Only(u) /\ OnService(u)
      /\ OnService(u)'
  BY Calm, TypeParts, OnServiceStep
<1>1. CASE UStep(u) /\ UForm(u)
  <2>p. port' = port
    BY <1>1, UFrame
  <2>1. CASE FindsPort(u)
    <3>1. port'[Target(u)'] \notin Pids /\ pc'[u] = "bin"
      BY <2>p, <2>1, Constants DEF FindsPort, Remains, Target, PortTaken
    <3>2. QED
      BY <3>1 DEF PortKept
  <2>2. CASE Proceeds(u) \/ Writes(u)
    BY <1>t, <2>p, <2>2 DEF Proceeds, Writes, Remains, Target, PortKept
  <2>3. ASSUME NEW p \in Pids, Spawns(u, p) PROVE PortKept(u)'
    <3>1. /\ pc'[u] = "pidfile" /\ Target(u)' = Target(u)
          /\ pc[u] = "spawn" \/ Target(u) \in Tunnels
      BY <1>t, <2>3, NewFacts DEF Target
    <3>2. QED
      BY <1>t, <2>p, <3>1, Constants DEF PortKept
  <2>4. pc'[u] \notin {"bin", "spawn", "pidfile", "poll"} \/ FindsPort(u) \/ Proceeds(u) \/ Writes(u)
        \/ \E p \in Pids : Spawns(u, p)
    BY <1>t, <1>1, LeavesFacts
       DEF UForm, Begins, Departs, Judges, Kills, Unlinks, Spawns
  <2>5. QED
    BY <2>1, <2>2, <2>3, <2>4 DEF PortKept
<1>2. CASE pc'[u] = pc[u] /\ at'[u] = at[u] /\ child'[u] = child[u] /\ ~Reboot
  <2> DEFINE s == Target(u)
  <2>1. Target(u)' = s
    BY <1>2 DEF Target
  <2>2. CASE s \in Services
    <3>1. CASE port'[s] = port[s]
      BY <1>t, <1>2, <2>1, <3>1 DEF PortKept
    <3>2. ASSUME NEW p \in Pids, Bind(p), proc[p].of = s, port'[s] = p
          PROVE  PortKept(u)'
      <4>1. Running(p)
        BY <3>2 DEF Bind, Running
      <4>2. pc[u] \notin {"unlink", "bin", "spawn"}
        BY <1>t, <3>2, <4>1 DEF Cleared
      <4>3. pc[u] \in {"pidfile", "poll"} => p = child[u]
        BY <1>t, <3>2, <4>1 DEF Only
      <4>4. QED
        BY <1>2, <2>1, <3>2, <4>2, <4>3 DEF PortKept
    <3>3. CASE port'[s] \notin Pids
      BY <1>2, <2>1, <3>3 DEF PortKept
    <3>4. QED
      BY <1>t, <1>2, <2>2, <3>1, <3>2, <3>3, PortFate, Constants
  <2>3. CASE s \notin Services
    <3>1. pc'[u] \notin {"bin", "spawn"}
      BY <1>t, <2>1, <2>3 DEF OnService
    <3>2. QED
      BY <2>1, <2>3, <3>1 DEF PortKept
  <2>4. QED
    BY <2>2, <2>3
<1>3. CASE pc'[u] = "idle"
  BY <1>3 DEF PortKept
<1>4. QED
  BY <1>t, <1>1, <1>2, <1>3, RunFate

LEMMA GoldenGrows ==
  ASSUME TypeOK, [Next]_vars, NEW r \in Repos
  PROVE  golden[r] <= golden'[r]
<1>t. golden[r] \in Int
  BY TypeParts, Constants DEF FileType
<1>1. \A p \in Pids : Bind(p) \/ Dies(p) => golden' = golden
  BY DEF Bind, Dies, fileVars
<1>2. CASE WorldStep
  BY <1>2, WorldFacts
<1>3. CASE golden' = golden
  BY <1>t, <1>3
<1>4. QED
  BY <1>1, <1>2, <1>3, NextCases, UFrame, DownFacts, RebootFacts DEF vars, fileVars

\* What hung answers again because it recovers, or is gone.
LEMMA MuteFate ==
  ASSUME TypeOK, [Next]_vars, NEW q \in mute, q \notin mute'
  PROVE  Recovers(q) \/ Exited(q) \/ Reboot
<1>t. ProcType /\ PortType
  BY TypeParts
<1>1. \A u \in Ups : ~UStep(u)
  BY UFrame
<1>2. ASSUME NEW p \in Pids, Dies(p) PROVE Exited(q)
  <2>1. p = q
    BY <1>2 DEF Dies, Gone
  <2>2. QED
    BY <1>t, <1>2, <2>1, GoneFacts DEF Dies
<1>3. ASSUME NEW p \in Pids, Bind(p) PROVE FALSE
  BY <1>3 DEF Bind
<1>4. CASE WorldStep
  BY <1>4 DEF WorldStep, Commit, ForeignBinds, ForeignLeaves, Hangs, Recovers, netVars
<1>5. CASE DownStart \/ DownKill \/ DownUnlink \/ UNCHANGED vars
  BY <1>5, DownFacts DEF vars
<1>6. QED
  BY <1>1, <1>2, <1>3, <1>4, <1>5, NextCases

LEMMA OutdatedStep ==
  ASSUME IInv, [Next]_vars, Undisturbed', NEW u \in Ups
  PROVE  Outdated(u)'
<1> SUFFICES ASSUME pc'[u] \in {"stale", "kill"}, Repo[Target(u)'] \in Contracts,
                    NEW q \in Pids, proc'[q].st = "serving", proc'[q].of = Target(u)',
                    q \notin mute' \/ pc'[u] = "kill"
             PROVE  proc'[q].ver < golden'[Repo[Target(u)']]
  BY DEF Outdated
<1>t. /\ TypeOK /\ ProcType /\ PortType /\ FileType /\ RunType
      /\ Outdated(u) /\ Bound /\ Versions /\ Awaited
      /\ Undisturbed /\ \A v \in Ups : OnService(v) /\ ChildThere(v)
  BY Calm, TypeParts
<1>r. Running(q)' /\ Target(u)' \in Services /\ Repo[Target(u)'] \in Repos
  <2>1. OnService(u)'
    BY <1>t, OnServiceStep
  <2>2. QED
    BY <2>1, Constants DEF OnService, Running
<1>g. /\ golden[Repo[Target(u)']] <= golden'[Repo[Target(u)']]
      /\ golden[Repo[Target(u)']] \in Int /\ golden'[Repo[Target(u)']] \in Int
      /\ proc[q].ver \in Int
  <2>1. proc[q] \in Entry
    BY <1>t DEF ProcType
  <2>2. \A r \in Repos : golden[r] \in Int /\ golden'[r] \in Int
    BY <1>t, TypeStep, TypePartsNext, Constants DEF FileType
  <2>3. QED
    BY <1>t, <1>r, <2>1, <2>2, GoldenGrows, Constants DEF Entry
<1>1. CASE pc'[u] = pc[u] /\ at'[u] = at[u]
  <2>1. Target(u)' = Target(u)
    BY <1>1 DEF Target
  <2>2. CASE proc[q].st = "serving" /\ proc'[q].of = proc[q].of /\ proc'[q].ver = proc[q].ver
    <3>1. q \notin mute \/ pc[u] = "kill"
      <4> SUFFICES ASSUME q \in mute, q \notin mute', pc[u] = "stale" PROVE FALSE
        BY <1>1
      <4>1. Recovers(q)
        <5>1. ~Exited(q) /\ ~Reboot
          BY FreeEntry, RebootFacts, <1>t DEF Exited
        <5>2. QED
          BY <1>t, <5>1, MuteFate
      <4>2. port[Target(u)] = q /\ Target(u) \in Services
        BY <1>t, <1>r, <2>1, <2>2 DEF Bound
      <4>3. "slow" \in cause'
        BY <4>1, <4>2 DEF Recovers
      <4>4. QED
        BY <4>3, Calm
    <3>2. proc[q].ver < golden[Repo[Target(u)]]
      BY <1>t, <1>1, <2>1, <2>2, <3>1 DEF Outdated
    <3>3. QED
      BY <1>g, <2>1, <2>2, <3>2
  <2>3. CASE Bind(q)
    <3>1. proc[q].st = "starting" /\ proc[q].of = Target(u)
      BY <1>t, <2>1, <2>3, BindFacts
    <3>2. PICK v \in Ups : pc[v] \in {"pidfile", "poll"} /\ child[v] = q
      BY <1>t, <3>1 DEF Awaited
    <3>3. u = v
      BY <1>t, <1>1, <3>1, <3>2, OwnChild
    <3>4. QED
      BY <1>1, <3>2, <3>3
  <2>4. ASSUME NEW v \in Ups, UStep(v), Spawns(v, q) PROVE FALSE
    <3>1. v # u
      BY <1>t, <2>4, NewFacts
    <3>2. QED
      BY <1>1, <2>1, <2>4, <3>1, SpawnElsewhere
  <2>5. QED
    BY <1>t, <1>r, <2>2, <2>3, <2>4, RanBefore DEF Running
<1>2. CASE UStep(u) /\ UForm(u)
  <2>1. ~Departs(u) /\ ~Begins(u) /\ ~Kills(u) /\ ~Unlinks(u) /\ ~FindsPort(u) /\ ~Writes(u)
        /\ \A p \in Pids : ~SpawnsService(u, p) /\ ~SpawnsTunnel(u, p)
    BY <1>t, LeavesFacts
       DEF Departs, Begins, Kills, Unlinks, FindsPort, Writes, SpawnsService, SpawnsTunnel, Spawned
  <2>2. CASE Judges(u)
    <3>1. ~IsCurrent(Target(u)) /\ proc' = proc /\ Target(u)' = Target(u)
      <4>1. "slow" \notin cause'
        BY Calm
      <4>2. QED
        BY <2>2, <4>1 DEF Judges, Quiet, Remains, Target
    <3>2. /\ port[Target(u)] = q /\ proc[q].st = "serving" /\ proc[q].of = Target(u)
          /\ q \notin mute
      <4>1. mute' = mute /\ pc'[u] = "stale"
        BY <1>2, <2>2, UFrame DEF Judges
      <4>2. QED
        BY <1>t, <1>r, <3>1, <4>1 DEF Bound
    <3>3. proc[q].ver # golden[Repo[Target(u)]]
      BY <3>1, <3>2 DEF IsCurrent, IsOurs
    <3>4. proc[q].ver <= golden[Repo[Target(u)]]
      BY <1>t, <1>r, <3>1, <3>2 DEF Versions
    <3>5. QED
      BY <1>g, <3>1, <3>3, <3>4
  <2>3. CASE Proceeds(u)
    <3>1. /\ proc' = proc /\ Target(u)' = Target(u) /\ pc[u] = "stale" /\ IsOurs(Target(u))
      BY <2>3 DEF Proceeds, Quiet, Remains, Target
    <3>p. q \notin mute
      BY <1>t, <1>r, <3>1 DEF Bound, IsOurs
    <3>2. proc[q].ver < golden[Repo[Target(u)]]
      BY <1>t, <3>1, <3>p DEF Outdated
    <3>3. QED
      BY <1>g, <3>1, <3>2
  <2>4. QED
    BY <1>2, <2>1, <2>2, <2>3 DEF UForm
<1>3. QED
  BY <1>t, <1>1, <1>2, RunFate

-----------------------------------------------------------------------------
(* The pid files *)

LEMMA PidfileFate ==
  ASSUME TypeOK, [Next]_vars
  PROVE  \/ pidfile' = pidfile
         \/ \E u \in Ups : UStep(u) /\ Unlinks(u)
         \/ \E u \in Ups : /\ UStep(u) /\ pc[u] = "pidfile"
                           /\ pidfile' = [pidfile EXCEPT ![Target(u)] = child[u]]
         \/ /\ down.pc = "unlink" /\ proc' = proc
            /\ pidfile' = [pidfile EXCEPT ![DownOrder[down.at]] = Nobody]
<1>t. ProcType /\ RunType
  BY TypeParts
<1>1. ASSUME NEW u \in Ups, UStep(u)
      PROVE  \/ pidfile' = pidfile \/ Unlinks(u)
             \/ pc[u] = "pidfile" /\ pidfile' = [pidfile EXCEPT ![Target(u)] = child[u]]
  <2>1. UForm(u)
    BY <1>t, <1>1, UForms
  <2>2. CASE Departs(u) \/ Writes(u)
    BY <2>2 DEF Departs, Writes
  <2>3. CASE Begins(u) \/ Judges(u) \/ Proceeds(u) \/ Kills(u) \/ FindsPort(u)
    BY <2>3 DEF Begins, Judges, Proceeds, Kills, FindsPort, Quiet
  <2>4. ASSUME NEW p \in Pids, SpawnsService(u, p) \/ SpawnsTunnel(u, p) PROVE pidfile' = pidfile
    BY <2>4 DEF SpawnsService, SpawnsTunnel, Spawned
  <2>5. QED
    BY <2>1, <2>2, <2>3, <2>4 DEF UForm
<1>2. \A p \in Pids : Bind(p) \/ Dies(p) => pidfile' = pidfile
  BY DEF Bind, Dies, fileVars
<1>3. DownStart \/ DownKill => pidfile' = pidfile
  BY DEF DownStart, DownKill, fileVars
<1>4. DownUnlink => /\ down.pc = "unlink" /\ proc' = proc
                    /\ pidfile' = [pidfile EXCEPT ![DownOrder[down.at]] = Nobody]
  BY DEF DownUnlink
<1>5. QED
  BY <1>1, <1>2, <1>3, <1>4, NextCases, WorldFacts, RebootFacts DEF vars, fileVars

LEMMA OrphansStep ==
  ASSUME IInv, [Next]_vars
  PROVE  NoOrphans'
<1> SUFFICES ASSUME Undisturbed', NEW q \in Pids, Running(q)'
             PROVE  Tracked(q)'
  BY DEF NoOrphans, Running
<1>t. /\ TypeOK /\ ProcType /\ FileType /\ RunType /\ DownType
      /\ \A v \in Ups : OnService(v) /\ ChildThere(v) /\ Cleared(v) /\ Only(v)
      /\ DownCleared /\ "killed" \notin cause' /\ "slow" \notin cause'
  BY Calm, TypeParts
<1>1. ASSUME NEW u \in Ups, Spawns(u, q) PROVE Tracked(q)'
  <2>1. pc'[u] = "pidfile" /\ child'[u] = q
    BY <1>t, <1>1, NewFacts
  <2>2. QED
    BY <2>1 DEF Tracked
<1>2. CASE Running(q) /\ proc'[q].of = proc[q].of
  <2> DEFINE n == proc[q].of
  <2>n. n \in Names
    BY <1>2, Calm DEF Bound, Running
  <2>1. Tracked(q)
    BY <1>2, Calm
  <2>2. CASE pidfile[n] = q
    <3>1. CASE pidfile' = pidfile
      BY <1>2, <2>2, <3>1 DEF Tracked
    <3>2. ASSUME NEW u \in Ups, Unlinks(u) PROVE Tracked(q)'
      <4>1. n # Target(u)
        BY <1>t, <1>2, <3>2 DEF Unlinks, Cleared
      <4>2. pidfile'[n] = q
        BY <1>t, <2>n, <2>2, <3>2, <4>1 DEF Unlinks, FileType
      <4>3. QED
        BY <1>2, <4>2 DEF Tracked
    <3>3. ASSUME NEW u \in Ups, pc[u] = "pidfile",
                 pidfile' = [pidfile EXCEPT ![Target(u)] = child[u]]
          PROVE  Tracked(q)'
      <4>1. n = Target(u) => child[u] = q
        BY <1>t, <1>2, <3>3 DEF Only
      <4>2. pidfile'[n] = q
        BY <1>t, <2>n, <2>2, <3>3, <4>1 DEF FileType
      <4>3. QED
        BY <1>2, <4>2 DEF Tracked
    <3>4. CASE down.pc = "unlink" /\ pidfile' = [pidfile EXCEPT ![DownOrder[down.at]] = Nobody]
      <4>1. n # DownOrder[down.at]
        BY <1>t, <1>2, <3>4 DEF DownCleared
      <4>2. pidfile'[n] = q
        BY <1>t, <2>n, <2>2, <3>4, <4>1 DEF FileType
      <4>3. QED
        BY <1>2, <4>2 DEF Tracked
    <3>5. QED
      BY <1>t, <3>1, <3>2, <3>3, <3>4, PidfileFate
  <2>3. ASSUME NEW v \in Ups, pc[v] = "pidfile", child[v] = q PROVE Tracked(q)'
    <3>1. n = Target(v)
      BY <1>t, <2>3 DEF ChildThere
    <3>2. CASE pc'[v] = pc[v] /\ child'[v] = child[v]
      BY <2>3, <3>2 DEF Tracked
    <3>3. CASE UStep(v) /\ UForm(v)
      <4>1. pidfile' = [pidfile EXCEPT ![Target(v)] = child[v]]
        BY <1>t, <2>3, <3>3
           DEF UForm, Begins, Departs, Judges, Proceeds, Kills, Unlinks, FindsPort, Writes,
               SpawnsService, SpawnsTunnel
      <4>2. pidfile'[n] = q
        BY <1>t, <2>n, <2>3, <3>1, <4>1 DEF FileType
      <4>3. QED
        BY <1>2, <4>2 DEF Tracked
    <3>4. ~Reboot
      BY <1>t, RebootFacts, FreeEntry DEF Running
    <3>5. QED
      BY <1>t, <3>2, <3>3, <3>4, RunFate
  <2>4. QED
    BY <2>1, <2>2, <2>3 DEF Tracked
<1>3. QED
  BY <1>t, <1>1, <1>2, RanBefore

LEMMA OwnPidsStep ==
  ASSUME IInv, [Next]_vars
  PROVE  OwnPids'
<1> SUFFICES ASSUME cause' = {}, NEW n \in Names, NEW p \in Pids, pidfile'[n] = p,
                    proc'[p].st # "free"
             PROVE  proc'[p].of = n
  BY DEF OwnPids, Alive
<1>t. /\ TypeOK /\ ProcType /\ PortType /\ RunType /\ FileType /\ DownType /\ OwnPids
      /\ \A u \in Ups : OnService(u) /\ ChildThere(u)
  BY TypeParts DEF IInv
<1>c. cause = {}
  BY <1>t, CauseGrows
<1>1. CASE pidfile'[n] = pidfile[n]
  <2>1. proc[p].st # "free" => proc[p].of = n
    BY <1>t, <1>c, <1>1 DEF OwnPids, Alive
  <2>2. CASE Stays(p) \/ Told(p) \/ \E u \in Ups : Adopted(p, u)
    BY <2>1, <2>2 DEF Stays, Told, Adopted
  <2>3. CASE Dies(p) /\ Exited(p)
    BY <2>1, <2>3, FreeEntry DEF Dies, Exited
  <2>4. CASE Bind(p)
    BY <1>t, <2>1, <2>4, BindFacts
  <2>5. ASSUME NEW u \in Ups, Spawns(u, p) PROVE proc'[p].of = n
    <3>1. proc'[p].of = Target(u) /\ Reuses(p, Target(u)) = {}
      BY <1>t, <2>5, NewFacts
    <3>2. QED
      BY <1>1, <3>1 DEF Reuses
  <2>6. proc'[p] # Free
    BY FreeEntry
  <2>7. QED
    BY <1>t, <2>2, <2>3, <2>4, <2>5, <2>6, Fates DEF ReapedAt
<1>2. CASE pidfile'[n] # pidfile[n]
  <2>1. ~(\E u \in Ups : Unlinks(u)) /\ ~(pidfile' = [pidfile EXCEPT ![DownOrder[down.at]] = Nobody])
    BY <1>t, <1>2, Constants DEF Unlinks, FileType
  <2>2. PICK u \in Ups : /\ UStep(u) /\ pc[u] = "pidfile"
                         /\ pidfile' = [pidfile EXCEPT ![Target(u)] = child[u]]
    BY <1>t, <1>2, <2>1, PidfileFate
  <2>3. n = Target(u) /\ child[u] = p
    BY <1>t, <1>2, <2>2 DEF FileType
  <2>4. proc[p].of = n
    BY <1>t, <2>2, <2>3 DEF ChildThere
  <2>5. ~Kills(u) /\ ~Spawns(u, p)
    BY <2>2 DEF Kills, Spawns, SpawnsService, SpawnsTunnel
  <2>6. QED
    BY <1>t, <2>2, <2>4, <2>5, FreeEntry, UFate DEF Stays, Adopted, ReapedAt
<1>3. QED
  BY <1>1, <1>2

-----------------------------------------------------------------------------
(* The invariant *)

LEMMA IInvInit == Init => IInv
<1> SUFFICES ASSUME Init PROVE IInv
  OBVIOUS
<1>1. /\ golden = [r \in Repos |-> 0] /\ bin \in [Repos -> {NoBin, 0}]
      /\ proc = [p \in Pids |-> Free] /\ port = [s \in Services |-> Nobody] /\ mute = {}
      /\ pidfile = [n \in Names |-> Nobody] /\ pc = [u \in Ups |-> "idle"]
      /\ at = [u \in Ups |-> 1] /\ child = [u \in Ups |-> Nobody]
      /\ down = [pc |-> "idle", at |-> 1] /\ budget = MaxEvents /\ cause = {}
  BY DEF Init
<1>2. \A p \in Pids : proc[p].st = "free" /\ proc[p].of = Nobody
  BY <1>1, FreeEntry
<1>3. TypeOK
  <2>1. ProcType /\ PortType /\ DownType /\ BoundsType
    BY <1>1, FreeEntry, Orders, Constants DEF ProcType, PortType, DownType, BoundsType
  <2>2. RunType
    BY <1>1, Orders DEF RunType, Steps
  <2>3. FileType
    <3>1. \A r \in Repos : bin[r] \in NoBin .. MaxEvents
      BY <1>1, Constants
    <3>2. QED
      BY <1>1, <3>1, Constants DEF FileType
  <2>4. QED
    BY <2>1, <2>2, <2>3, TypeParts
<1>4. Versions
  BY <1>1, <1>2, Constants DEF Versions
<1>5. Bound
  BY <1>1, <1>2, Constants DEF Bound
<1>6. \A u \in Ups : pc[u] = "idle"
  BY <1>1
<1>7. Watched
  <2>1. Alone /\ Awaited /\ DownCleared
    BY <1>1, <1>2, <1>6 DEF Alone, Engaged, Active, Awaited, DownCleared
  <2>2. \A u \in Ups : Cleared(u) /\ Only(u) /\ PortKept(u) /\ Outdated(u)
    BY <1>6 DEF Cleared, Only, PortKept, Outdated
  <2>3. QED
    BY <2>1, <2>2 DEF Watched
<1>8. OwnPids /\ NoOrphans
  BY <1>2 DEF OwnPids, NoOrphans, Alive
<1>9. QED
  BY <1>3, <1>4, <1>5, <1>6, <1>7, <1>8 DEF IInv, OnService, ChildThere

LEMMA IInvStep == IInv /\ [Next]_vars => IInv'
<1> SUFFICES ASSUME IInv, [Next]_vars PROVE IInv'
  OBVIOUS
<1>t. TypeOK /\ Versions /\ Bound /\ \A u \in Ups : OnService(u) /\ ChildThere(u)
  BY DEF IInv
<1>1. TypeOK' /\ Versions' /\ Bound'
  BY <1>t, TypeStep, VersionsStep, BoundStep
<1>2. \A u \in Ups : OnService(u)' /\ ChildThere(u)'
  BY <1>t, OnServiceStep, ChildThereStep
<1>3. Watched'
  <2> SUFFICES ASSUME Undisturbed'
               PROVE  /\ Alone' /\ Awaited' /\ DownCleared'
                      /\ \A u \in Ups : Cleared(u)' /\ Only(u)' /\ PortKept(u)' /\ Outdated(u)'
    BY DEF Watched
  <2>1. QED
    BY AloneStep, AwaitedStep, DownClearedStep, ClearedStep, OnlyStep, PortKeptStep, OutdatedStep
<1>4. QED
  BY <1>1, <1>2, <1>3, OwnPidsStep, OrphansStep DEF IInv

LEMMA IInvAlways == Spec => []IInv
  BY IInvInit, IInvStep, PTL DEF Spec

-----------------------------------------------------------------------------
(* The theorems *)

\* Every variable keeps its shape: above all no version exceeds the last commit,
\* and no position in the orders of cmd_up and cmd_down (main.rs 577-595,
\* 597-643) is past their ends.
THEOREM TypeCorrect == Spec => []TypeOK
<1>1. IInv => TypeOK
  BY DEF IInv
<1>2. QED
  BY <1>1, IInvAlways, PTL

\* As long as no two commands met on one name, nothing outlasted a wait and no
\* run was killed over its child, all that runs is named by its pid file, or is
\* about to be: for any services, tunnels, runs, crashes, commits and reboots.
THEOREM NothingUntracked == Spec => []NoOrphans
<1>1. IInv => NoOrphans
  BY DEF IInv
<1>2. QED
  BY <1>1, IInvAlways, PTL

\* What `up` tells to stop is its target and of an outdated contract, or of none,
\* unless it was disturbed, or the pid on file had been given to another name's process.
LEMMA KillStep ==
  ASSUME IInv, [Next]_vars, NEW u \in Ups, NEW p \in Pids, pc[u] = "kill", pc'[u] = "unlink",
         proc[p].st = "serving", proc'[p].st = "stopping", Undisturbed
  PROVE  \/ /\ proc[p].of = Target(u)
            /\ Repo[Target(u)] \in Contracts => proc[p].ver < golden[Repo[Target(u)]]
         \/ proc[p].of # Target(u) /\ cause = {"reused"}
<1>t. TypeOK /\ ProcType /\ RunType /\ FileType /\ Outdated(u) /\ OwnPids
  BY TypeParts DEF IInv, Watched
<1>1. Kills(u)
  <2>1. UStep(u) /\ UForm(u)
    BY <1>t, RunFate
  <2>2. ~Departs(u)
    BY <1>t, LeavesFacts DEF Departs
  <2>3. QED
    BY <2>1, <2>2 DEF UForm, Begins, Judges, Proceeds, Unlinks, FindsPort, Writes,
                      SpawnsService, SpawnsTunnel, Spawned
<1>2. pidfile[Target(u)] = p
  <2> DEFINE q == pidfile[Target(u)]
  <2>1. proc' = IF Alive(q) THEN Signal(q) ELSE proc
    BY <1>1 DEF Kills
  <2>2. q # p => proc'[p] = proc[p]
    BY <1>t, <2>1 DEF Signal, ProcType
  <2>3. QED
    BY <2>2
<1>3. CASE proc[p].of = Target(u)
  BY <1>t, <1>3 DEF Outdated
<1>4. CASE proc[p].of # Target(u)
  <2>1. Alive(pidfile[Target(u)])
    BY <1>2 DEF Alive
  <2>2. cause # {}
    BY <1>t, <1>2, <1>4, <2>1, TargetName DEF OwnPids
  <2>3. QED
    BY <1>4, <2>2 DEF Undisturbed
<1>5. QED
  BY <1>3, <1>4

\* The reconciler kills nothing that is current (325-342), however long ago it
\* looked, and nothing of another name but through a pid used again. (A service
\* without a contract to compare is never current, and so killed in every run.)
THEOREM KillsOnlyStale == Spec => KeepsTheCurrent
<1>1. IInv /\ [Next]_vars =>
        [\A u \in Ups, p \in Pids :
           /\ pc[u] = "kill" /\ pc'[u] = "unlink"
           /\ proc[p].st = "serving" /\ proc'[p].st = "stopping"
           => \/ ~Undisturbed
              \/ /\ proc[p].of = Target(u)
                 /\ Repo[Target(u)] \in Contracts => proc[p].ver < golden[Repo[Target(u)]]
              \/ proc[p].of # Target(u) /\ cause = {"reused"}]_vars
  BY KillStep
<1>2. QED
  BY <1>1, IInvAlways, PTL DEF Spec, KeepsTheCurrent
=============================================================================
