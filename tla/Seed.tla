-------------------------------- MODULE Seed --------------------------------
(***************************************************************************)
(* The walkthrough seed (ops/src/seed.rs) and the JP peer's (cmd_seed_jp   *)
(* in main.rs) as clients of services that journal what they accept. A run *)
(* is a script of creations, some guarded by a read. It dies at the first  *)
(* answer that fails it, and the operator runs it again: requests may be   *)
(* lost, answers may be lost after the effect, a request may take effect   *)
(* after its client has timed out, a read may fail, a run may be killed,   *)
(* and two runs may overlap.                                               *)
(*                                                                         *)
(* The registry and the issuer are external: what is used of them is that  *)
(* a second creation of an item or a passport answers 409, that bindings   *)
(* are not deduplicated (seed.rs 197) and that an event is appended        *)
(* (201) whatever its place in the story.                                  *)
(***************************************************************************)
EXTENDS Integers, Sequences, FiniteSets

CONSTANTS
  NItems,        \* items and lens profiles to register
  NBindings,     \* applicability bindings
  NEvents,       \* events of the demonstration passport
  SeedRuns,      \* the processes that run `unidpp-stack seed`
  JpRuns,        \* the processes that run `unidpp-stack seed-jp`
  MaxEvents      \* bound: the disturbances of a behaviour

ASSUMPTION SeedAssumption ==
  /\ NItems \in Nat /\ NBindings \in Nat /\ NEvents \in Nat \ {0}
  /\ MaxEvents \in Nat
  /\ SeedRuns \cap JpRuns = {}

Runs == SeedRuns \cup JpRuns

NotWritten == -1
ErrorBody == -2   \* the body of an answer that is not the view

VARIABLES
  server,    \* what the registry, the issuer and the JP node have journalled
  wire,      \* requests whose client gave up, yet to be carried out
  pc, at,    \* the step of each run, and its position in its script
  viewed,    \* the passport view it fetched last, as the events it counts
  artifact,  \* demo/02-passport-view.json, likewise
  store,     \* passports/pilot-e8.json, the projector's copy
  snapshots, \* snapshots the archive notarised: the view hashed, the head given
  budget,    \* disturbances left
  cause      \* history: what a run does not notice, or cannot make up for

vars == <<server, wire, pc, at, viewed, artifact, store, snapshots, budget, cause>>
fileVars == <<artifact, store, snapshots>>

-----------------------------------------------------------------------------
(* The scripts and the services *)

Steps(kind, n) == [i \in 1 .. n |-> <<kind, i>>]
SeedScript == Steps("units", 1) \o Steps("item", NItems) \o Steps("binding", NBindings)
                \o Steps("passport", 1) \o Steps("event", NEvents)
JpScript == Steps("jpitem", 1) \o Steps("jpbinding", 1)
Script(r) == IF r \in JpRuns THEN JpScript ELSE SeedScript
Request(r) == Script(r)[at[r]]
Requests == {SeedScript[i] : i \in DOMAIN SeedScript} \cup {JpScript[i] : i \in DOMAIN JpScript}

\* Creations by identity are idempotent, bindings and events accumulate.
Apply(m) ==
  CASE m[1] = "units"     -> [server EXCEPT !.units = TRUE]
    [] m[1] = "item"      -> [server EXCEPT !.items = @ \cup {m[2]}]
    [] m[1] = "binding"   -> [server EXCEPT !.bound[m[2]] = @ + 1]
    [] m[1] = "passport"  -> [server EXCEPT !.passport = TRUE]
    [] m[1] = "event"     -> [server EXCEPT !.events = Append(@, m[2])]
    [] m[1] = "jpitem"    -> [server EXCEPT !.jpitem = TRUE]
    [] m[1] = "jpbinding" -> [server EXCEPT !.jpbound = @ + 1]

\* Guarded by a read: the units, each binding, and the events as a whole.
ReadsFirst(m) == m[1] \in {"units", "binding"} \/ m = <<"event", 1>>

Active(r) == pc[r] # "idle"
Disturb == budget > 0 /\ budget' = budget - 1

\* On to position k of the script, or past its end.
AdvancePastEnd(r, k) ==   \* faulty: the last event is looked for once more
  /\ at' = [at EXCEPT ![r] = IF k > Len(Script(r)) + 1 THEN 1 ELSE k]
  /\ pc' = [pc EXCEPT ![r] =
              IF k > Len(Script(r)) THEN (IF r \in JpRuns THEN "idle" ELSE "view")
              ELSE IF ReadsFirst(Script(r)[k]) THEN "read" ELSE "post"]
Advance(r, k) ==
  /\ at' = [at EXCEPT ![r] = IF k > Len(Script(r)) THEN 1 ELSE k]
  /\ pc' = [pc EXCEPT ![r] =
              IF k > Len(Script(r)) THEN (IF r \in JpRuns THEN "idle" ELSE "view")
              ELSE IF ReadsFirst(Script(r)[k]) THEN "read" ELSE "post"]

\* What the run held in memory is gone with it.
End(r) ==
  /\ pc' = [pc EXCEPT ![r] = "idle"]
  /\ at' = [at EXCEPT ![r] = 1]
  /\ viewed' = [viewed EXCEPT ![r] = NotWritten]

-----------------------------------------------------------------------------
(* A run *)

\* A second seed beside one under way counts as a disturbance.
StartRun(r) ==
  /\ pc[r] = "idle"
  /\ LET beside == r \in SeedRuns /\ \E q \in SeedRuns : Active(q)
     IN /\ IF beside \/ r \in JpRuns THEN Disturb ELSE UNCHANGED budget
        /\ cause' = IF beside THEN cause \cup {"overlap"} ELSE cause
  /\ Advance(r, 1)
  /\ UNCHANGED <<server, wire, viewed, fileVars>>

\* How many steps of the script a read lets the run skip. The binding check
\* looks into the future (2030); looking at today would find none of them.
\* Events are skipped one by one, not all of them because there is one.
Min(a, b) == IF a < b THEN a ELSE b
SkippedToday(m) ==   \* faulty
  CASE m[1] = "units"   -> IF server.units THEN 1 ELSE 0
    [] m[1] = "binding" -> 0
    [] m[1] = "event"   -> Min(Len(server.events), NEvents)
SkippedIfAny(m) ==   \* faulty
  CASE m[1] = "units"   -> IF server.units THEN 1 ELSE 0
    [] m[1] = "binding" -> IF server.bound[m[2]] > 0 THEN 1 ELSE 0
    [] m[1] = "event"   -> IF server.events # <<>> THEN NEvents ELSE 0
Skipped(m) ==
  CASE m[1] = "units"   -> IF server.units THEN 1 ELSE 0
    [] m[1] = "binding" -> IF server.bound[m[2]] > 0 THEN 1 ELSE 0
    [] m[1] = "event"   -> Min(Len(server.events), NEvents)

AfterRead(r, n) ==
  IF n = 0 THEN pc' = [pc EXCEPT ![r] = "post"] /\ UNCHANGED at ELSE Advance(r, at[r] + n)

Read(r) ==
  /\ pc[r] = "read"
  /\ AfterRead(r, Skipped(Request(r)))
  /\ UNCHANGED <<server, wire, viewed, fileVars, budget, cause>>

\* No answer, or an error's, counts as none present (unwrap_or(0), unwrap_or(false)).
AssumedAll == NEvents   \* faulty
AssumedPresent == 0
ReadFails(r) ==
  /\ pc[r] = "read"
  /\ Disturb
  /\ AfterRead(r, IF Request(r)[1] = "event" THEN AssumedPresent ELSE 0)
  /\ cause' = cause \cup {"read"}
  /\ UNCHANGED <<server, wire, viewed, fileVars>>

\* 201, or 409 for what is there already: on to the next.
Post(r) ==
  /\ pc[r] = "post"
  /\ server' = Apply(Request(r))
  /\ Advance(r, at[r] + 1)
  /\ UNCHANGED <<wire, viewed, fileVars, budget, cause>>

\* The request is lost, or its answer is, or it is late; the run panics.
PostFails(r) ==
  /\ pc[r] = "post"
  /\ Disturb
  /\ \/ UNCHANGED <<server, wire, cause>>
     \/ server' = Apply(Request(r)) /\ UNCHANGED <<wire, cause>>
     \/ /\ wire' = wire \cup {Request(r)}
        /\ cause' = cause \cup {"late"}
        /\ UNCHANGED server
  /\ End(r)
  /\ UNCHANGED fileVars

Deliver(m) ==
  /\ m \in wire
  /\ wire' = wire \ {m}
  /\ server' = Apply(m)
  /\ UNCHANGED <<pc, at, viewed, fileVars, budget, cause>>

\* The view, fetched once, goes to the artifact and then to the store.
TakeView(r, body) ==
  /\ pc[r] = "view"
  /\ viewed' = [viewed EXCEPT ![r] = body]
  /\ artifact' = body
  /\ pc' = [pc EXCEPT ![r] = "store"]
  /\ UNCHANGED <<server, wire, at, store, snapshots>>

View(r) == TakeView(r, Len(server.events)) /\ UNCHANGED <<budget, cause>>

\* The answer is an error: no status is looked at, its body is taken for the
\* view (its log head reads as "?"), and the run goes on.
ViewRefused(r) ==
  /\ TakeView(r, ErrorBody)
  /\ Disturb
  /\ cause' = cause \cup {"view"}

StoreView(r) ==
  /\ pc[r] = "store"
  /\ store' = viewed[r]
  /\ pc' = [pc EXCEPT ![r] = "snapshot"]
  /\ UNCHANGED <<server, wire, at, viewed, artifact, snapshots, budget, cause>>

\* The hash is of the artifact as it is on disk, the head is the view's; the
\* renders that follow read the services and write artifacts of their own.
HeadNow(r) == Len(server.events)   \* faulty: the head is fetched again
HeadOf(r) == viewed[r]
Notarised(r) == snapshots \cup {[hash |-> artifact, head |-> HeadOf(r)]}

Snapshot(r) ==
  /\ pc[r] = "snapshot"
  /\ snapshots' = Notarised(r)
  /\ End(r)
  /\ UNCHANGED <<server, wire, artifact, store, budget, cause>>

\* The view or the pack has no answer, the CLI does not grade the pack PASS, the
\* archive notarises but its answer is lost, or the run is killed.
Killed(r) ==
  /\ Active(r)
  /\ Disturb
  /\ snapshots' \in {snapshots} \cup (IF pc[r] = "snapshot" THEN {Notarised(r)} ELSE {})
  /\ End(r)
  /\ UNCHANGED <<server, wire, artifact, store, cause>>

-----------------------------------------------------------------------------
Init ==
  /\ server = [units |-> FALSE, items |-> {}, bound |-> [b \in 1 .. NBindings |-> 0],
               passport |-> FALSE, events |-> <<>>, jpitem |-> FALSE, jpbound |-> 0]
  /\ wire = {}
  /\ pc = [r \in Runs |-> "idle"]
  /\ at = [r \in Runs |-> 1]
  /\ viewed = [r \in Runs |-> NotWritten]
  /\ artifact = NotWritten
  /\ store = NotWritten
  /\ snapshots = {}
  /\ budget = MaxEvents
  /\ cause = {}

RunStep(r) == Read(r) \/ Post(r) \/ View(r) \/ StoreView(r) \/ Snapshot(r)

Next ==
  \/ \E r \in Runs : StartRun(r) \/ RunStep(r) \/ ReadFails(r) \/ PostFails(r)
                     \/ ViewRefused(r) \/ Killed(r)
  \/ \E m \in wire : Deliver(m)

\* The operator runs the seed again until a run came to its snapshot; a run does
\* not stop on its own, each of its calls having a time limit.
Spec == Init /\ [][Next]_vars
Fairness ==
  \A r \in SeedRuns : WF_vars(snapshots = {} /\ StartRun(r)) /\ WF_vars(RunStep(r))
FairSpec == Spec /\ Fairness

-----------------------------------------------------------------------------
(* Properties *)

\* Every variable keeps its shape.
TypeOK ==
  /\ server \in [units : BOOLEAN, items : SUBSET (1 .. NItems),
                 bound : [1 .. NBindings -> Nat], passport : BOOLEAN,
                 events : Seq(1 .. NEvents), jpitem : BOOLEAN, jpbound : Nat]
  /\ wire \subseteq Requests
  /\ pc \in [Runs -> {"idle", "read", "post", "view", "store", "snapshot"}]
  /\ \A r \in Runs : at[r] \in 1 .. Len(Script(r))
  /\ viewed \in [Runs -> Nat \cup {NotWritten, ErrorBody}]
  /\ {artifact, store} \subseteq Nat \cup {NotWritten, ErrorBody}
  /\ snapshots \subseteq [hash : Nat \cup {ErrorBody}, head : Nat \cup {ErrorBody}]
  /\ budget \in 0 .. MaxEvents
  /\ cause \subseteq {"overlap", "read", "late", "view"}

\* Nothing happened that a later run makes worse or cannot make up for.
Rerunnable == cause \subseteq {"view"}

\* Re-running is harmless (seed.rs 4-6): however many runs died, with their last
\* request lost or carried out, no binding is there twice and the events are the
\* story's first, in order - unless two runs overlapped, a read went unanswered,
\* or a request outlived the client that sent it.
Idempotent ==
  Rerunnable =>
    /\ \A b \in 1 .. NBindings : server.bound[b] <= 1
    /\ \A i \in 1 .. Len(server.events) : server.events[i] = i

\* What the archive notarises hangs together: the state hash and the log head of
\* a snapshot are of one answer (327-409), unless two runs overlapped.
SnapshotCoherent ==
  "overlap" \notin cause => \A s \in snapshots : s.hash = s.head

Accumulated ==
  /\ server.units /\ server.items = 1 .. NItems /\ server.passport
  /\ \A b \in 1 .. NBindings : server.bound[b] > 0
  /\ Len(server.events) >= NEvents

\* The view, or the body of an error that the issuer did answer with.
HoldsAnswer(file) == file >= NEvents \/ (file = ErrorBody /\ "view" \in cause)

\* A run that completes left nothing out, whatever failed in it and before it and
\* whoever ran beside it: everything was created - all of the story's events and
\* no other, in the absence of the causes above - and the artifact and the store
\* hold a view of as many events as the story has, but for a fetch of the view
\* (328-331) that an error answered.
CompleteIsSeeded ==
  [][\A r \in SeedRuns : Snapshot(r) =>
       /\ Accumulated /\ HoldsAnswer(store) /\ HoldsAnswer(artifact)
       /\ Rerunnable => server.events = [i \in 1 .. NEvents |-> i]]_vars

\* Run again until it has its snapshot, the seed ends up complete, with the
\* projector's copy, but for the same error.
SeedCompletes == <>[](Accumulated /\ HoldsAnswer(store))
=============================================================================
