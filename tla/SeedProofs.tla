----------------------------- MODULE SeedProofs -----------------------------
(***************************************************************************)
(* The seed can be run again, for any number of items, bindings, events,   *)
(* runs and disturbances. A run remembers nothing but its position, so the *)
(* induction says what a position stands for: all that is behind it has    *)
(* been done, whoever did it; and, where nothing went wrong that a run     *)
(* cannot make up for, what is at it has not.                              *)
(***************************************************************************)
EXTENDS Seed, SequenceTheorems, TLAPS

\* The passport's place in the script; event i is i places on.
PassportAt == NItems + NBindings + 2

Done(m) ==
  /\ m[1] = "units" => server.units
  /\ m[1] = "item" => m[2] \in server.items
  /\ m[1] = "binding" => server.bound[m[2]] > 0
  /\ m[1] = "passport" => server.passport
  /\ m[1] = "event" => Len(server.events) >= m[2]

\* All steps behind a run are done; of one that is past its script, all steps.
Behind(r) ==
  \A k \in 1 .. Len(SeedScript) :
    (pc[r] \in {"read", "post"} /\ k < at[r]) \/ pc[r] \in {"view", "store", "snapshot"}
      => Done(SeedScript[k])

\* A run reads where its script has a check.
ReadAtCheck(r) == pc[r] = "read" => ReadsFirst(Request(r))

\* What may be in memory or in a file of the view, or instead of it.
Bodies == Nat \cup {NotWritten, ErrorBody}

\* What a run past its script has fetched and written.
Fetched(r) ==
  /\ pc[r] \in {"store", "snapshot"} => HoldsAnswer(viewed[r]) /\ HoldsAnswer(artifact)
  /\ pc[r] = "snapshot" => HoldsAnswer(store)

\* With no overlap one seed runs at a time, and what it fetched is the artifact.
Alone ==
  "overlap" \notin cause =>
    /\ \A q, r \in SeedRuns : Active(q) /\ Active(r) => q = r
    /\ \A r \in SeedRuns : pc[r] \in {"store", "snapshot"} => viewed[r] = artifact

\* With no late request none is under way.
NoneLate == "late" \notin cause => wire = {}

\* What a run is about to post has not been posted.
Unposted(r) ==
  Rerunnable /\ pc[r] = "post" =>
    /\ Request(r)[1] = "binding" => server.bound[Request(r)[2]] = 0
    /\ Request(r)[1] = "event" => Len(server.events) = Request(r)[2] - 1

IInv ==
  /\ TypeOK /\ at \in [Runs -> Nat]
  /\ \A r \in JpRuns : pc[r] \in {"idle", "read", "post"}
  /\ \A r \in SeedRuns : Behind(r) /\ Fetched(r) /\ Unposted(r)
  /\ \A r \in Runs : ReadAtCheck(r)
  /\ Alone /\ NoneLate
  /\ Idempotent /\ SnapshotCoherent

-----------------------------------------------------------------------------
(* The scripts *)

Kinds == {"units", "item", "binding", "passport", "event", "jpitem", "jpbinding"}
U == Kinds \X Nat

LEMMA CountFacts ==
  NItems \in Nat /\ NBindings \in Nat /\ NEvents \in Nat \ {0} /\ MaxEvents \in Nat
BY SeedAssumption

AreSteps(s, kind, n) ==
  s \in Seq(U) /\ Len(s) = n /\ \A i \in 1 .. n : s[i] = <<kind, i>>

\* n steps of one kind.
LEMMA StepsFacts ==
  ASSUME NEW kind \in Kinds, NEW n \in Nat
  PROVE  AreSteps(Steps(kind, n), kind, n)
<1>1. Steps(kind, n) = [i \in 1 .. n |-> <<kind, i>>]
  BY DEF Steps
<1>2. Steps(kind, n) \in [1 .. n -> U]
  <2>1. \A i \in 1 .. n : <<kind, i>> \in U
    BY DEF U
  <2>2. QED
    BY <1>1, <2>1
<1>3. Steps(kind, n) \in Seq(U)
  BY <1>2, SeqDef
<1>4. Len(Steps(kind, n)) = n
  BY <1>2, <1>3, LenProperties
<1>5. QED
  BY <1>1, <1>3, <1>4 DEF AreSteps

Joins(c, s, t) ==
  /\ c \in Seq(U) /\ Len(c) = Len(s) + Len(t)
  /\ \A i \in 1 .. Len(s) : c[i] = s[i]
  /\ \A i \in 1 .. Len(t) : c[Len(s) + i] = t[i]

\* A concatenation is the one sequence and then the other.
LEMMA ConcatFacts ==
  ASSUME NEW s \in Seq(U), NEW t \in Seq(U)
  PROVE  Joins(s \o t, s, t)
<1>1. Len(s) \in Nat /\ Len(t) \in Nat
  BY LenProperties
<1> DEFINE c == s \o t
<1>2. /\ c \in Seq(U) /\ Len(c) = Len(s) + Len(t)
      /\ \A i \in 1 .. Len(s) + Len(t) : c[i] = IF i <= Len(s) THEN s[i] ELSE t[i - Len(s)]
  BY ConcatProperties, Zenon
<1> HIDE DEF c
<1>3. \A i \in 1 .. Len(s) : c[i] = s[i]
  BY <1>1, <1>2
<1>4. \A i \in 1 .. Len(t) : c[Len(s) + i] = t[i]
  <2> SUFFICES ASSUME NEW i \in 1 .. Len(t) PROVE c[Len(s) + i] = t[i]
    OBVIOUS
  <2>1. /\ Len(s) + i \in 1 .. Len(s) + Len(t) /\ ~(Len(s) + i <= Len(s))
        /\ Len(s) + i - Len(s) = i
    BY <1>1
  <2>2. QED
    BY <1>2, <2>1
<1>5. QED
  BY <1>1, <1>2, <1>3, <1>4, Zenon DEF c, Joins

\* The seed's script, place by place: the units, the items, the bindings, the
\* passport, its events.
LEMMA SeedScriptFacts ==
  /\ SeedScript \in Seq(U) /\ Len(SeedScript) = PassportAt + NEvents
  /\ SeedScript[1] = <<"units", 1>>
  /\ \A i \in 1 .. NItems : SeedScript[1 + i] = <<"item", i>>
  /\ \A i \in 1 .. NBindings : SeedScript[1 + NItems + i] = <<"binding", i>>
  /\ SeedScript[PassportAt] = <<"passport", 1>>
  /\ \A i \in 1 .. NEvents : SeedScript[PassportAt + i] = <<"event", i>>
<1> DEFINE a == Steps("units", 1)
           b == Steps("item", NItems)
           c == Steps("binding", NBindings)
           d == Steps("passport", 1)
           e == Steps("event", NEvents)
<1>1. /\ AreSteps(a, "units", 1) /\ AreSteps(b, "item", NItems)
      /\ AreSteps(c, "binding", NBindings) /\ AreSteps(d, "passport", 1)
      /\ AreSteps(e, "event", NEvents)
  <2>1. {"units", "item", "binding", "passport", "event"} \subseteq Kinds /\ 1 \in Nat
    BY DEF Kinds
  <2>2. NItems \in Nat /\ NBindings \in Nat /\ NEvents \in Nat
    BY CountFacts
  <2>3. QED
    BY <2>1, <2>2, StepsFacts, Zenon
<1> HIDE DEF a, b, c, d, e
<1>2. /\ a \in Seq(U) /\ Len(a) = 1 /\ a[1] = <<"units", 1>>
      /\ b \in Seq(U) /\ Len(b) = NItems /\ \A i \in 1 .. NItems : b[i] = <<"item", i>>
      /\ c \in Seq(U) /\ Len(c) = NBindings
      /\ \A i \in 1 .. NBindings : c[i] = <<"binding", i>>
      /\ d \in Seq(U) /\ Len(d) = 1 /\ d[1] = <<"passport", 1>>
      /\ e \in Seq(U) /\ Len(e) = NEvents /\ \A i \in 1 .. NEvents : e[i] = <<"event", i>>
  BY <1>1 DEF AreSteps
<1>3. SeedScript = (((a \o b) \o c) \o d) \o e
  BY Zenon DEF SeedScript, a, b, c, d, e
<1> DEFINE ab == a \o b
           abc == ab \o c
           abcd == abc \o d
           abcde == abcd \o e
<1>4. /\ ab \in Seq(U) /\ Len(ab) = 1 + NItems
      /\ ab[1] = a[1] /\ \A i \in 1 .. NItems : ab[1 + i] = b[i]
  <2>1. Joins(ab, a, b)
    BY <1>2, ConcatFacts, Zenon
  <2> HIDE DEF ab
  <2>2. QED
    BY <1>2, <2>1, CountFacts DEF Joins
<1> HIDE DEF ab
<1>5. /\ abc \in Seq(U) /\ Len(abc) = 1 + NItems + NBindings
      /\ \A i \in 1 .. 1 + NItems : abc[i] = ab[i]
      /\ \A i \in 1 .. NBindings : abc[1 + NItems + i] = c[i]
  <2>1. Joins(abc, ab, c)
    BY <1>2, <1>4, ConcatFacts, Zenon
  <2> HIDE DEF abc
  <2>2. QED
    BY <1>2, <1>4, <2>1, CountFacts DEF Joins
<1> HIDE DEF abc
<1>6. /\ abcd \in Seq(U) /\ Len(abcd) = 1 + NItems + NBindings + 1
      /\ \A i \in 1 .. 1 + NItems + NBindings : abcd[i] = abc[i]
      /\ abcd[1 + NItems + NBindings + 1] = d[1]
  <2>1. Joins(abcd, abc, d)
    BY <1>2, <1>5, ConcatFacts, Zenon
  <2> HIDE DEF abcd
  <2>2. QED
    BY <1>2, <1>5, <2>1, CountFacts DEF Joins
<1> HIDE DEF abcd
<1>7. /\ abcde \in Seq(U) /\ Len(abcde) = 1 + NItems + NBindings + 1 + NEvents
      /\ \A i \in 1 .. 1 + NItems + NBindings + 1 : abcde[i] = abcd[i]
      /\ \A i \in 1 .. NEvents : abcde[1 + NItems + NBindings + 1 + i] = e[i]
  <2>1. Joins(abcde, abcd, e)
    BY <1>2, <1>6, ConcatFacts, Zenon
  <2> HIDE DEF abcde
  <2>2. QED
    BY <1>2, <1>6, <2>1, CountFacts DEF Joins
<1>8. SeedScript = abcde
  BY <1>3 DEF abcd, abc, ab
<1> HIDE DEF abcde
<1>9. PassportAt = 1 + NItems + NBindings + 1 /\ PassportAt \in Nat
  BY CountFacts DEF PassportAt
<1>10. /\ \A i \in 1 .. 1 + NItems : SeedScript[i] = ab[i]
       /\ \A i \in 1 .. NBindings : SeedScript[1 + NItems + i] = c[i]
       /\ SeedScript[PassportAt] = d[1]
  <2>1. \A i \in 1 .. 1 + NItems + NBindings : SeedScript[i] = abc[i]
    BY <1>6, <1>7, <1>8, CountFacts
  <2>2. QED
    BY <1>5, <1>6, <1>7, <1>8, <1>9, <2>1, CountFacts
<1>11. /\ SeedScript[1] = <<"units", 1>>
       /\ \A i \in 1 .. NItems : SeedScript[1 + i] = <<"item", i>>
  BY <1>2, <1>4, <1>10, CountFacts
<1>12. /\ SeedScript \in Seq(U) /\ Len(SeedScript) = PassportAt + NEvents
       /\ SeedScript[PassportAt] = <<"passport", 1>>
  BY <1>2, <1>7, <1>8, <1>9, <1>10
<1>13. \A i \in 1 .. NBindings : SeedScript[1 + NItems + i] = <<"binding", i>>
  BY <1>2, <1>10
<1>14. \A i \in 1 .. NEvents : SeedScript[PassportAt + i] = <<"event", i>>
  BY <1>2, <1>7, <1>8, <1>9
<1>15. QED
  BY <1>11, <1>12, <1>13, <1>14

LEMMA JpScriptFacts ==
  /\ JpScript \in Seq(U) /\ Len(JpScript) = 2
  /\ JpScript[1] = <<"jpitem", 1>> /\ JpScript[2] = <<"jpbinding", 1>>
<1> DEFINE a == Steps("jpitem", 1)
           b == Steps("jpbinding", 1)
<1>1. AreSteps(a, "jpitem", 1) /\ AreSteps(b, "jpbinding", 1)
  <2>1. {"jpitem", "jpbinding"} \subseteq Kinds /\ 1 \in Nat
    BY DEF Kinds
  <2>2. QED
    BY <2>1, StepsFacts, Zenon
<1>2. JpScript = a \o b
  BY Zenon DEF JpScript
<1> HIDE DEF a, b
<1>3. Joins(JpScript, a, b)
  BY <1>1, <1>2, ConcatFacts, Zenon DEF AreSteps
<1>4. QED
  BY <1>1, <1>3 DEF Joins, AreSteps

\* The requests, and where the seed's are in its script.
SeedRequests ==
  {<<"units", 1>>, <<"passport", 1>>} \cup {<<"item", i>> : i \in 1 .. NItems}
    \cup {<<"binding", i>> : i \in 1 .. NBindings} \cup {<<"event", i>> : i \in 1 .. NEvents}
JpRequests == {<<"jpitem", 1>>, <<"jpbinding", 1>>}

LEMMA SeedPlaces ==
  ASSUME NEW k \in 1 .. Len(SeedScript)
  PROVE  /\ SeedScript[k] \in SeedRequests
         /\ SeedScript[k][1] = "units" => k = 1
         /\ SeedScript[k][1] = "binding" =>
              SeedScript[k][2] \in 1 .. NBindings /\ k < PassportAt
         /\ SeedScript[k][1] = "event" =>
              SeedScript[k][2] \in 1 .. NEvents /\ k = PassportAt + SeedScript[k][2]
<1>1. \/ k = 1
      \/ \E i \in 1 .. NItems : k = 1 + i
      \/ \E i \in 1 .. NBindings : k = 1 + NItems + i
      \/ k = PassportAt
      \/ \E i \in 1 .. NEvents : k = PassportAt + i
  <2>1. k \in 1 .. NItems + NBindings + 2 + NEvents
    BY SeedScriptFacts DEF PassportAt
  <2>2. CASE k \in 2 .. 1 + NItems
    <3>1. k - 1 \in 1 .. NItems /\ k = 1 + (k - 1)
      BY <2>2, CountFacts
    <3>2. QED
      BY <3>1
  <2>3. CASE k \in 2 + NItems .. 1 + NItems + NBindings
    <3>1. k - 1 - NItems \in 1 .. NBindings /\ k = 1 + NItems + (k - 1 - NItems)
      BY <2>3, CountFacts
    <3>2. QED
      BY <3>1
  <2>4. CASE k > PassportAt
    <3>1. k - PassportAt \in 1 .. NEvents /\ k = PassportAt + (k - PassportAt)
      BY <2>1, <2>4, CountFacts DEF PassportAt
    <3>2. QED
      BY <3>1
  <2>5. QED
    BY <2>1, <2>2, <2>3, <2>4, CountFacts DEF PassportAt
<1>2. CASE k = 1
  BY <1>2, SeedScriptFacts DEF SeedRequests
<1>3. ASSUME NEW i \in 1 .. NItems, k = 1 + i
      PROVE  SeedScript[k] = <<"item", i>> /\ SeedScript[k] \in SeedRequests
  <2>1. SeedScript[k] = <<"item", i>>
    BY <1>3, SeedScriptFacts
  <2>2. QED
    BY <2>1 DEF SeedRequests
<1>4. ASSUME NEW i \in 1 .. NBindings, k = 1 + NItems + i
      PROVE  /\ SeedScript[k] = <<"binding", i>> /\ SeedScript[k] \in SeedRequests
             /\ k < PassportAt
  <2>1. SeedScript[k] = <<"binding", i>>
    BY <1>4, SeedScriptFacts
  <2>2. k < PassportAt
    BY <1>4, CountFacts DEF PassportAt
  <2>3. QED
    BY <2>1, <2>2 DEF SeedRequests
<1>5. CASE k = PassportAt
  BY <1>5, SeedScriptFacts DEF SeedRequests
<1>6. ASSUME NEW i \in 1 .. NEvents, k = PassportAt + i
      PROVE  SeedScript[k] = <<"event", i>> /\ SeedScript[k] \in SeedRequests
  <2>1. SeedScript[k] = <<"event", i>>
    BY <1>6, SeedScriptFacts
  <2>2. QED
    BY <2>1 DEF SeedRequests
<1>7. QED
  BY <1>1, <1>2, <1>3, <1>4, <1>5, <1>6

LEMMA RequestFacts == Requests \subseteq SeedRequests \cup JpRequests
<1>1. DOMAIN SeedScript = 1 .. Len(SeedScript) /\ DOMAIN JpScript = 1 .. Len(JpScript)
  <2>1. SeedScript \in Seq(U) /\ JpScript \in Seq(U)
    BY SeedScriptFacts, JpScriptFacts
  <2>2. QED
    BY <2>1
<1>2. {SeedScript[i] : i \in DOMAIN SeedScript} \subseteq SeedRequests
  BY <1>1, SeedPlaces
<1>3. {JpScript[i] : i \in DOMAIN JpScript} \subseteq JpRequests
  BY <1>1, JpScriptFacts DEF JpRequests
<1>4. QED
  BY <1>2, <1>3 DEF Requests

\* What one run's script holds.
LEMMA ScriptFacts ==
  ASSUME NEW r \in Runs
  PROVE  /\ r \in SeedRuns => r \notin JpRuns /\ Script(r) = SeedScript
         /\ r \in JpRuns => r \notin SeedRuns /\ Script(r) = JpScript
         /\ Len(Script(r)) \in Nat \ {0}
         /\ \A k \in 1 .. Len(Script(r)) :
              /\ Script(r)[k] \in Requests
              /\ r \in SeedRuns => Script(r)[k] \in SeedRequests
              /\ r \in JpRuns => Script(r)[k] \in JpRequests /\ ~ReadsFirst(Script(r)[k])
<1>1. /\ r \in SeedRuns => r \notin JpRuns /\ Script(r) = SeedScript
      /\ r \in JpRuns => r \notin SeedRuns /\ Script(r) = JpScript
      /\ r \in SeedRuns \/ r \in JpRuns
  BY SeedAssumption DEF Runs, Script
<1>2. Len(SeedScript) \in Nat \ {0} /\ Len(JpScript) \in Nat \ {0}
  BY SeedScriptFacts, JpScriptFacts, CountFacts DEF PassportAt
<1>3. /\ \A k \in 1 .. Len(SeedScript) : SeedScript[k] \in Requests
      /\ \A k \in 1 .. Len(JpScript) : JpScript[k] \in Requests
  BY SeedScriptFacts, JpScriptFacts, LenProperties DEF Requests
<1>4. \A k \in 1 .. Len(JpScript) : JpScript[k] \in JpRequests /\ ~ReadsFirst(JpScript[k])
  BY JpScriptFacts DEF JpRequests, ReadsFirst
<1>5. QED
  BY <1>1, <1>2, <1>3, <1>4, SeedPlaces

-----------------------------------------------------------------------------
(* The services and the steps of a run *)

ServerSet ==
  [units : BOOLEAN, items : SUBSET (1 .. NItems), bound : [1 .. NBindings -> Nat],
   passport : BOOLEAN, events : Seq(1 .. NEvents), jpitem : BOOLEAN, jpbound : Nat]

\* What a request does: nothing done is undone, and its own effect only.
Applied(m) ==
  /\ server' \in ServerSet
  /\ \A n \in SeedRequests : Done(n) => Done(n)'
  /\ m \in SeedRequests /\ m[1] # "event" => Done(m)'
  /\ m[1] = "event" =>
       m[2] \in 1 .. NEvents /\ server'.events = Append(server.events, m[2])
  /\ m[1] # "event" => server'.events = server.events
  /\ m[1] = "binding" =>
       /\ m[2] \in 1 .. NBindings
       /\ server'.bound = [server.bound EXCEPT ![m[2]] = @ + 1]
  /\ m[1] # "binding" => server'.bound = server.bound

LEMMA ServerFacts ==
  ASSUME NEW s \in ServerSet
  PROVE  /\ s.bound \in [1 .. NBindings -> Nat]
         /\ \A b \in 1 .. NBindings : s.bound[b] \in Nat /\ s.bound[b] <= s.bound[b]
         /\ s.events \in Seq(1 .. NEvents) /\ Len(s.events) \in Nat
<1>1. s.bound \in [1 .. NBindings -> Nat] /\ s.events \in Seq(1 .. NEvents)
  BY DEF ServerSet
<1>2. \A b \in 1 .. NBindings : s.bound[b] \in Nat
  BY <1>1
<1>3. Len(s.events) \in Nat
  BY <1>1
<1>4. QED
  BY <1>1, <1>2, <1>3

\* What grows leaves done what was.
Grows ==
  /\ server.units => server'.units
  /\ server.items \subseteq server'.items
  /\ \A b \in 1 .. NBindings : server.bound[b] <= server'.bound[b]
  /\ server.passport => server'.passport
  /\ Len(server.events) <= Len(server'.events)

LEMMA DoneStays ==
  ASSUME server \in ServerSet, server' \in ServerSet, Grows
  PROVE  \A n \in SeedRequests : Done(n) => Done(n)'
<1> SUFFICES ASSUME NEW n \in SeedRequests, Done(n) PROVE Done(n)'
  OBVIOUS
<1>1. /\ n[1] = "binding" => n[2] \in 1 .. NBindings
      /\ n[1] = "event" => n[2] \in Nat
  BY DEF SeedRequests
<1>2. /\ Len(server.events) \in Nat /\ Len(server'.events) \in Nat
      /\ \A b \in 1 .. NBindings : server.bound[b] \in Nat /\ server'.bound[b] \in Nat
  BY ServerFacts
<1>3. /\ n[1] = "units" => server'.units
      /\ n[1] = "passport" => server'.passport
      /\ n[1] = "item" => n[2] \in server'.items
  BY DEF Done, Grows
<1>4. n[1] = "binding" => server'.bound[n[2]] > 0
  BY <1>1, <1>2 DEF Done, Grows
<1>5. n[1] = "event" => Len(server'.events) >= n[2]
  BY <1>1, <1>2 DEF Done, Grows
<1>6. QED
  BY <1>3, <1>4, <1>5 DEF Done

\* A binding posted once more is there once more.
LEMMA CountedOnce ==
  ASSUME NEW f \in [1 .. NBindings -> Nat], NEW i \in 1 .. NBindings
  PROVE  /\ [f EXCEPT ![i] = f[i] + 1] \in [1 .. NBindings -> Nat]
         /\ [f EXCEPT ![i] = f[i] + 1][i] > 0
         /\ \A c \in 1 .. NBindings : f[c] <= [f EXCEPT ![i] = f[i] + 1][c]
<1>1. \A c \in 1 .. NBindings : f[c] \in Nat
  OBVIOUS
<1>2. \A c \in 1 .. NBindings : [f EXCEPT ![i] = f[i] + 1][c] = IF c = i THEN f[i] + 1 ELSE f[c]
  OBVIOUS
<1>3. QED
  BY <1>1, <1>2

LEMMA ApplyFacts ==
  ASSUME server \in ServerSet, NEW m \in Requests, server' = Apply(m)
  PROVE  Applied(m)
<1>1. m \in SeedRequests \cup JpRequests
  BY RequestFacts
<1>2. CASE m = <<"units", 1>>
  <2>1. server' = [server EXCEPT !.units = TRUE]
    BY <1>2 DEF Apply
  <2>2. server' \in ServerSet
    BY <2>1 DEF ServerSet
  <2>3. \A n \in SeedRequests : Done(n) => Done(n)'
    <3>1. server'.bound = server.bound /\ server'.events = server.events
      BY <2>1 DEF ServerSet
    <3>2. /\ server.units => server'.units
          /\ server.passport => server'.passport
          /\ server.items \subseteq server'.items
      BY <2>1 DEF ServerSet
    <3>3. Grows
      BY <3>1, <3>2, ServerFacts DEF Grows
    <3>4. QED
      BY <2>2, <3>3, DoneStays, Zenon
  <2>4. QED
    BY <1>2, <2>1, <2>2, <2>3 DEF ServerSet, Done, Applied
<1>3. CASE m = <<"passport", 1>>
  <2>1. server' = [server EXCEPT !.passport = TRUE]
    BY <1>3 DEF Apply
  <2>2. server' \in ServerSet
    BY <2>1 DEF ServerSet
  <2>3. \A n \in SeedRequests : Done(n) => Done(n)'
    <3>1. server'.bound = server.bound /\ server'.events = server.events
      BY <2>1 DEF ServerSet
    <3>2. /\ server.units => server'.units
          /\ server.passport => server'.passport
          /\ server.items \subseteq server'.items
      BY <2>1 DEF ServerSet
    <3>3. Grows
      BY <3>1, <3>2, ServerFacts DEF Grows
    <3>4. QED
      BY <2>2, <3>3, DoneStays, Zenon
  <2>4. QED
    BY <1>3, <2>1, <2>2, <2>3 DEF ServerSet, Done, Applied
<1>4. ASSUME NEW i \in 1 .. NItems, m = <<"item", i>> PROVE Applied(m)
  <2>1. server' = [server EXCEPT !.items = server.items \cup {i}]
    BY <1>4 DEF Apply
  <2>2. server' \in ServerSet
    BY <2>1 DEF ServerSet
  <2>3. \A n \in SeedRequests : Done(n) => Done(n)'
    <3>1. server'.bound = server.bound /\ server'.events = server.events
      BY <2>1 DEF ServerSet
    <3>2. /\ server.units => server'.units
          /\ server.passport => server'.passport
          /\ server.items \subseteq server'.items
      BY <2>1 DEF ServerSet
    <3>3. Grows
      BY <3>1, <3>2, ServerFacts DEF Grows
    <3>4. QED
      BY <2>2, <3>3, DoneStays, Zenon
  <2>4. QED
    BY <1>4, <2>1, <2>2, <2>3 DEF ServerSet, Done, Applied
<1>5. ASSUME NEW i \in 1 .. NBindings, m = <<"binding", i>> PROVE Applied(m)
  <2> DEFINE b == [server.bound EXCEPT ![i] = server.bound[i] + 1]
  <2>1. server' = [server EXCEPT !.bound = b]
    BY <1>5 DEF Apply, ServerSet
  <2>2. /\ b \in [1 .. NBindings -> Nat] /\ b[i] > 0
        /\ \A c \in 1 .. NBindings : server.bound[c] <= b[c]
    BY ServerFacts, CountedOnce
  <2>3. server'.bound = b
    BY <2>1 DEF ServerSet
  <2> HIDE DEF b
  <2>4. server' \in ServerSet
    BY <2>1, <2>2 DEF ServerSet
  <2>5. \A n \in SeedRequests : Done(n) => Done(n)'
    <3>1. server'.events = server.events
      BY <2>1 DEF ServerSet
    <3>2. /\ server.units => server'.units
          /\ server.passport => server'.passport
          /\ server.items \subseteq server'.items
      BY <2>1 DEF ServerSet
    <3>3. Grows
      BY <3>1, <3>2, <2>2, <2>3, ServerFacts DEF Grows
    <3>4. QED
      BY <2>4, <3>3, DoneStays, Zenon
  <2>6. Done(m)' /\ server'.events = server.events
    BY <1>5, <2>1, <2>2, <2>3 DEF Done, ServerSet
  <2>7. QED
    BY <1>5, <2>3, <2>4, <2>5, <2>6 DEF Applied, b
<1>6. ASSUME NEW i \in 1 .. NEvents, m = <<"event", i>> PROVE Applied(m)
  <2> DEFINE e == Append(server.events, i)
  <2>1. server' = [server EXCEPT !.events = e]
    BY <1>6 DEF Apply, ServerSet
  <2>2. e \in Seq(1 .. NEvents) /\ Len(server.events) <= Len(e)
    BY ServerFacts
  <2>3. server'.events = e /\ server'.bound = server.bound
    BY <2>1 DEF ServerSet
  <2> HIDE DEF e
  <2>4. server' \in ServerSet
    BY <2>1, <2>2 DEF ServerSet
  <2>5. \A n \in SeedRequests : Done(n) => Done(n)'
    <3>1. server'.bound = server.bound
      BY <2>1 DEF ServerSet
    <3>2. /\ server.units => server'.units
          /\ server.passport => server'.passport
          /\ server.items \subseteq server'.items
      BY <2>1 DEF ServerSet
    <3>3. Grows
      BY <3>1, <3>2, <2>2, <2>3, ServerFacts DEF Grows
    <3>4. QED
      BY <2>4, <3>3, DoneStays, Zenon
  <2>6. QED
    BY <1>6, <2>3, <2>4, <2>5 DEF Applied, e
<1>7. CASE m \in JpRequests
  <2>1. \/ server' = [server EXCEPT !.jpitem = TRUE]
        \/ server' = [server EXCEPT !.jpbound = server.jpbound + 1]
    BY <1>7 DEF Apply, JpRequests
  <2>2. server' \in ServerSet
    <3>1. server.jpbound + 1 \in Nat
      BY DEF ServerSet
    <3>2. QED
      BY <2>1, <3>1 DEF ServerSet
  <2>3. m \notin SeedRequests /\ m[1] \notin {"event", "binding"}
    BY <1>7 DEF JpRequests, SeedRequests
  <2>4. \A n \in SeedRequests : Done(n) => Done(n)'
    <3>1. server'.bound = server.bound /\ server'.events = server.events
      BY <2>1 DEF ServerSet
    <3>2. /\ server.units => server'.units
          /\ server.passport => server'.passport
          /\ server.items \subseteq server'.items
      BY <2>1 DEF ServerSet
    <3>3. Grows
      BY <3>1, <3>2, ServerFacts DEF Grows
    <3>4. QED
      BY <2>2, <3>3, DoneStays, Zenon
  <2>5. server'.events = server.events /\ server'.bound = server.bound
    BY <2>1 DEF ServerSet
  <2>6. QED
    BY <2>2, <2>3, <2>4, <2>5 DEF Applied
<1>8. QED
  BY <1>1, <1>2, <1>3, <1>4, <1>5, <1>6, <1>7 DEF SeedRequests

\* A run's registers; a step of one run leaves the others'.
ControlType ==
  /\ pc \in [Runs -> {"idle", "read", "post", "view", "store", "snapshot"}]
  /\ at \in [Runs -> Nat] /\ \A r \in Runs : at[r] \in 1 .. Len(Script(r))
  /\ viewed \in [Runs -> Bodies]
OthersStay(r) ==
  \A q \in Runs \ {r} : pc'[q] = pc[q] /\ at'[q] = at[q] /\ viewed'[q] = viewed[q]

LEMMA AdvanceFacts ==
  ASSUME ControlType, NEW r \in Runs, NEW k \in 1 .. Len(Script(r)) + 1,
         Advance(r, k), viewed' = viewed
  PROVE  /\ ControlType' /\ OthersStay(r)
         /\ k <= Len(Script(r)) =>
              at'[r] = k /\ pc'[r] = IF ReadsFirst(Script(r)[k]) THEN "read" ELSE "post"
         /\ k > Len(Script(r)) => pc'[r] = IF r \in JpRuns THEN "idle" ELSE "view"
<1>1. Len(Script(r)) \in Nat \ {0}
  BY ScriptFacts
<1> DEFINE new == IF k > Len(Script(r)) THEN 1 ELSE k
           next == IF k > Len(Script(r)) THEN (IF r \in JpRuns THEN "idle" ELSE "view")
                   ELSE IF ReadsFirst(Script(r)[k]) THEN "read" ELSE "post"
<1>2. at' = [at EXCEPT ![r] = new] /\ pc' = [pc EXCEPT ![r] = next]
  BY Zenon DEF Advance
<1>3. new \in 1 .. Len(Script(r)) /\ new \in Nat
  BY <1>1
<1>4. next \in {"idle", "read", "post", "view", "store", "snapshot"}
  OBVIOUS
<1>5. /\ k <= Len(Script(r)) =>
           new = k /\ next = IF ReadsFirst(Script(r)[k]) THEN "read" ELSE "post"
      /\ k > Len(Script(r)) => next = IF r \in JpRuns THEN "idle" ELSE "view"
  BY <1>1
<1> HIDE DEF new, next
<1>6. at' \in [Runs -> Nat] /\ \A q \in Runs : at'[q] \in 1 .. Len(Script(q))
  BY <1>2, <1>3 DEF ControlType
<1>7. pc' \in [Runs -> {"idle", "read", "post", "view", "store", "snapshot"}]
  BY <1>2, <1>4 DEF ControlType
<1>8. ControlType'
  BY <1>6, <1>7 DEF ControlType, Script
<1>9. OthersStay(r) /\ at'[r] = new /\ pc'[r] = next
  BY <1>2 DEF ControlType, OthersStay
<1>10. QED
  BY <1>5, <1>8, <1>9

LEMMA EndFacts ==
  ASSUME ControlType, NEW r \in Runs, End(r)
  PROVE  ControlType' /\ OthersStay(r) /\ pc'[r] = "idle"
<1>1. 1 \in 1 .. Len(Script(r))
  BY ScriptFacts
<1>2. /\ pc' = [pc EXCEPT ![r] = "idle"] /\ at' = [at EXCEPT ![r] = 1]
      /\ viewed' = [viewed EXCEPT ![r] = NotWritten]
  BY DEF End
<1>3. at' \in [Runs -> Nat] /\ \A q \in Runs : at'[q] \in 1 .. Len(Script(q))
  BY <1>1, <1>2 DEF ControlType
<1>4. /\ pc' \in [Runs -> {"idle", "read", "post", "view", "store", "snapshot"}]
      /\ viewed' \in [Runs -> Bodies]
  BY <1>2 DEF ControlType, Bodies
<1>5. ControlType'
  BY <1>3, <1>4 DEF ControlType, Script
<1>6. OthersStay(r) /\ pc'[r] = "idle"
  BY <1>2 DEF ControlType, OthersStay
<1>7. QED
  BY <1>5, <1>6

\* What a read lets a run skip is done, and where it goes on is not. Only the
\* seed reads.
LEMMA ReadFacts ==
  ASSUME IInv, NEW r \in Runs, pc[r] = "read"
  PROVE  /\ r \in SeedRuns /\ Request(r) = SeedScript[at[r]]
         /\ at[r] \in 1 .. Len(SeedScript)
         /\ Skipped(Request(r)) \in Nat
         /\ at[r] + Skipped(Request(r)) \in 1 .. Len(SeedScript) + 1
         /\ \A k \in at[r] .. at[r] + Skipped(Request(r)) - 1 : Done(SeedScript[k])
         /\ Skipped(Request(r)) = 0 =>
              /\ Request(r)[1] = "binding" => server.bound[Request(r)[2]] = 0
              /\ Request(r)[1] = "event" => Len(server.events) = 0 /\ Request(r)[2] = 1
         /\ /\ Skipped(Request(r)) # 0
            /\ at[r] + Skipped(Request(r)) \in PassportAt + 1 .. Len(SeedScript)
            => Len(server.events) = at[r] + Skipped(Request(r)) - PassportAt - 1
<1> DEFINE m == Request(r)
           n == Skipped(Request(r))
<1>1. ReadsFirst(m) /\ at[r] \in 1 .. Len(Script(r)) /\ m = Script(r)[at[r]]
  BY DEF IInv, ReadAtCheck, TypeOK, Request
<1>2. r \in SeedRuns /\ m = SeedScript[at[r]] /\ at[r] \in 1 .. Len(SeedScript)
  BY <1>1, ScriptFacts DEF Runs
<1>3. server \in ServerSet
  BY DEF IInv, TypeOK, ServerSet
<1>4. /\ m[1] = "units" => at[r] = 1
      /\ m[1] = "binding" => m[2] \in 1 .. NBindings /\ at[r] < PassportAt
      /\ m[1] = "event" => m[2] \in 1 .. NEvents /\ at[r] = PassportAt + m[2]
  BY <1>2, SeedPlaces
<1>5. Len(SeedScript) = PassportAt + NEvents /\ PassportAt \in Nat /\ PassportAt >= 2
  BY SeedScriptFacts, CountFacts DEF PassportAt
<1>6. CASE m[1] = "units"
  <2>1. n = IF server.units THEN 1 ELSE 0
    BY <1>6 DEF Skipped
  <2>2. n \in {0, 1} /\ (n = 1 => Done(m)) /\ at[r] = 1
    BY <1>4, <1>6, <2>1 DEF Done
  <2> HIDE DEF m, n
  <2>3. \A k \in at[r] .. at[r] + n - 1 : Done(SeedScript[k])
    <3> SUFFICES ASSUME NEW k \in at[r] .. at[r] + n - 1 PROVE Done(SeedScript[k])
      OBVIOUS
    <3>1. n = 1 /\ k = at[r]
      BY <2>2
    <3>2. QED
      BY <1>2, <2>2, <3>1
  <2>4. QED
    BY <1>2, <1>5, <1>6, <2>2, <2>3, CountFacts DEF m, n
<1>7. CASE m[1] = "binding"
  <2>1. n = IF server.bound[m[2]] > 0 THEN 1 ELSE 0
    BY <1>7 DEF Skipped
  <2>2. server.bound[m[2]] \in Nat
    BY <1>3, <1>4, <1>7, ServerFacts
  <2>3. n \in {0, 1} /\ (n = 1 => Done(m)) /\ (n = 0 => server.bound[m[2]] = 0)
    BY <1>7, <2>1, <2>2 DEF Done
  <2> HIDE DEF m, n
  <2>4. at[r] + n \in 1 .. PassportAt /\ PassportAt <= Len(SeedScript) /\ at[r] \in Nat
    BY <1>2, <1>4, <1>5, <1>7, <2>3, CountFacts
  <2>5. \A k \in at[r] .. at[r] + n - 1 : Done(SeedScript[k])
    <3> SUFFICES ASSUME NEW k \in at[r] .. at[r] + n - 1 PROVE Done(SeedScript[k])
      OBVIOUS
    <3>1. n = 1 /\ k = at[r]
      BY <2>3, <2>4
    <3>2. QED
      BY <1>2, <2>3, <3>1
  <2>6. m[1] # "event"
    BY <1>7
  <2>7. QED
    BY <1>2, <1>5, <2>3, <2>4, <2>5, <2>6 DEF m, n
<1>8. CASE m = <<"event", 1>>
  <2>1. n = Min(Len(server.events), NEvents) /\ m[1] = "event" /\ m[2] = 1
    BY <1>8 DEF Skipped
  <2>2. Len(server.events) \in Nat
    BY <1>3, ServerFacts
  <2>3. n \in 0 .. NEvents /\ n <= Len(server.events) /\ at[r] = PassportAt + 1
        /\ (n < NEvents => n = Len(server.events))
    BY <1>4, <2>1, <2>2, CountFacts DEF Min
  <2> HIDE DEF m, n
  <2>4. \A k \in at[r] .. at[r] + n - 1 : Done(SeedScript[k])
    <3> SUFFICES ASSUME NEW k \in at[r] .. at[r] + n - 1 PROVE Done(SeedScript[k])
      OBVIOUS
    <3>1. k - PassportAt \in 1 .. NEvents /\ k = PassportAt + (k - PassportAt)
          /\ k - PassportAt <= Len(server.events)
      BY <1>5, <2>2, <2>3, CountFacts
    <3>2. SeedScript[k] = <<"event", k - PassportAt>>
      BY <3>1, SeedScriptFacts
    <3>3. QED
      BY <2>2, <3>1, <3>2 DEF Done
  <2>5. at[r] + n \in 1 .. Len(SeedScript) + 1 /\ (n = 0 => Len(server.events) = 0)
    BY <1>5, <2>2, <2>3, CountFacts
  <2>6. at[r] + n \in PassportAt + 1 .. Len(SeedScript) =>
          Len(server.events) = at[r] + n - PassportAt - 1
    BY <1>5, <2>2, <2>3, CountFacts
  <2>7. QED
    BY <1>2, <2>1, <2>3, <2>4, <2>5, <2>6 DEF m, n
<1>9. QED
  BY <1>1, <1>6, <1>7, <1>8 DEF ReadsFirst

\* The services go on from what they have, whoever's request it is.
Served == server' \in ServerSet /\ \A n \in SeedRequests : Done(n) => Done(n)'

LEMMA ServedFacts ==
  ASSUME server \in ServerSet, server' = server \/ \E m \in Requests : server' = Apply(m)
  PROVE  Served
<1>1. CASE server' = server
  BY <1>1, Zenon DEF Served, Done
<1>2. ASSUME NEW m \in Requests, server' = Apply(m) PROVE Served
  BY <1>2, ApplyFacts, Zenon DEF Applied, Served
<1>3. QED
  BY <1>1, <1>2

\* What IInv says of one run's control.
Controlled(r) ==
  /\ ReadAtCheck(r)
  /\ r \in JpRuns => pc[r] \in {"idle", "read", "post"}
  /\ r \in SeedRuns => Behind(r)

LEMMA Parts ==
  IInv => /\ ControlType /\ server \in ServerSet
          /\ \A r \in Runs : Controlled(r)
          /\ \A r \in Runs : at[r] \in 1 .. Len(Script(r)) /\ Request(r) \in Requests
<1> SUFFICES ASSUME IInv
             PROVE  /\ ControlType /\ server \in ServerSet
                    /\ \A r \in Runs : Controlled(r)
                    /\ \A r \in Runs :
                         at[r] \in 1 .. Len(Script(r)) /\ Request(r) \in Requests
  OBVIOUS
<1>1. ControlType /\ server \in ServerSet
  BY DEF IInv, TypeOK, ControlType, ServerSet, Bodies
<1>2. \A r \in Runs : Controlled(r)
  BY DEF IInv, Controlled, Runs
<1>3. \A r \in Runs : at[r] \in 1 .. Len(Script(r)) /\ Request(r) \in Requests
  BY <1>1, ScriptFacts DEF ControlType, Request
<1>4. QED
  BY <1>1, <1>2, <1>3

\* A run that goes on to step k, all before it done.
LEMMA GoesOn ==
  ASSUME ControlType, NEW r \in Runs, NEW k \in 1 .. Len(Script(r)) + 1,
         Advance(r, k), viewed' = viewed,
         r \in SeedRuns => \A j \in 1 .. k - 1 : Done(SeedScript[j])'
  PROVE  /\ ControlType' /\ OthersStay(r) /\ Controlled(r)'
         /\ pc'[r] \notin {"store", "snapshot"}
<1>1. /\ ControlType' /\ OthersStay(r)
      /\ k <= Len(Script(r)) =>
           at'[r] = k /\ pc'[r] = IF ReadsFirst(Script(r)[k]) THEN "read" ELSE "post"
      /\ k > Len(Script(r)) => pc'[r] = IF r \in JpRuns THEN "idle" ELSE "view"
  BY AdvanceFacts
<1>2. Len(Script(r)) \in Nat \ {0} /\ k \in Nat
  BY ScriptFacts
<1>3. CASE k <= Len(Script(r))
  <2>1. at'[r] = k /\ pc'[r] = IF ReadsFirst(Script(r)[k]) THEN "read" ELSE "post"
    BY <1>1, <1>3
  <2>2. ReadAtCheck(r)'
    BY <2>1 DEF ReadAtCheck, Request, Script
  <2>3. r \in SeedRuns => Behind(r)'
    BY <1>2, <2>1 DEF Behind
  <2>4. QED
    BY <1>1, <2>1, <2>2, <2>3 DEF Controlled
<1>4. CASE k > Len(Script(r))
  <2>1. k = Len(Script(r)) + 1 /\ pc'[r] = IF r \in JpRuns THEN "idle" ELSE "view"
    BY <1>1, <1>2, <1>4
  <2>2. r \in SeedRuns => Behind(r)'
    BY <1>2, <2>1, ScriptFacts DEF Behind
  <2>3. QED
    BY <1>1, <2>1, <2>2 DEF Controlled, ReadAtCheck
<1>5. QED
  BY <1>2, <1>3, <1>4

LEMMA Stops ==
  ASSUME ControlType, NEW r \in Runs, End(r)
  PROVE  ControlType' /\ OthersStay(r) /\ Controlled(r)' /\ pc'[r] = "idle"
<1>1. ControlType' /\ OthersStay(r) /\ pc'[r] = "idle"
  BY EndFacts
<1>2. QED
  BY <1>1 DEF Controlled, ReadAtCheck, Behind

\* A step of one run, in the order of its actions: the others stay where they
\* are, the services go on from what they have, and all behind it is done.
Step(r) ==
  StartRun(r) \/ RunStep(r) \/ ReadFails(r) \/ PostFails(r) \/ ViewRefused(r) \/ Killed(r)

LEMMA AfterReadFacts ==
  ASSUME IInv, NEW r \in Runs, pc[r] = "read", AfterRead(r, Skipped(Request(r))),
         server' = server, viewed' = viewed
  PROVE  /\ ControlType' /\ OthersStay(r) /\ Controlled(r)'
         /\ pc'[r] \notin {"store", "snapshot"}
<1> DEFINE n == Skipped(Request(r))
<1>1. /\ r \in SeedRuns /\ Len(Script(r)) \in Nat /\ Script(r) = SeedScript
      /\ n \in Nat /\ at[r] + n \in 1 .. Len(SeedScript) + 1
      /\ \A k \in at[r] .. at[r] + n - 1 : Done(SeedScript[k])
      /\ at[r] \in 1 .. Len(SeedScript)
  BY ReadFacts, ScriptFacts
<1>2. ControlType /\ Behind(r)
  BY <1>1, Parts DEF Controlled
<1>3. CASE n = 0
  <2>1. pc' = [pc EXCEPT ![r] = "post"] /\ at' = at
    BY <1>3 DEF AfterRead
  <2>2. ControlType'
    BY <1>2, <2>1, Zenon DEF ControlType, Script
  <2>3. OthersStay(r) /\ pc'[r] = "post" /\ at'[r] = at[r]
    BY <1>2, <2>1 DEF ControlType, OthersStay
  <2>4. \A k \in 1 .. Len(SeedScript) : Done(SeedScript[k]) => Done(SeedScript[k])'
    BY Zenon DEF Done
  <2>5. Behind(r)'
    BY <1>2, <2>3, <2>4 DEF Behind
  <2>6. QED
    BY <1>1, <2>2, <2>3, <2>5, ScriptFacts DEF Controlled, ReadAtCheck
<1>4. CASE n # 0
  <2>1. Advance(r, at[r] + n)
    BY <1>4 DEF AfterRead
  <2>2. \A k \in 1 .. at[r] + n - 1 : Done(SeedScript[k])
    <3> SUFFICES ASSUME NEW k \in 1 .. at[r] + n - 1 PROVE Done(SeedScript[k])
      OBVIOUS
    <3>1. CASE k < at[r]
      BY <1>1, <1>2, <3>1 DEF Behind
    <3>2. CASE ~(k < at[r])
      <4>1. k \in at[r] .. at[r] + n - 1
        BY <1>1, <3>2
      <4>2. QED
        BY <1>1, <4>1, Zenon
    <3>3. QED
      BY <3>1, <3>2
  <2>3. \A k \in 1 .. at[r] + n - 1 : Done(SeedScript[k])'
    BY <2>2, Zenon DEF Done
  <2> HIDE DEF n
  <2>4. QED
    BY <1>1, <1>2, <2>1, <2>3, GoesOn
<1>5. QED
  BY <1>3, <1>4

\* An event is posted after those before it.
LEMMA EventDone ==
  ASSUME server \in ServerSet, NEW k \in 1 .. Len(SeedScript),
         SeedScript[k][1] = "event", Applied(SeedScript[k]),
         \A j \in 1 .. Len(SeedScript) : j < k => Done(SeedScript[j])
  PROVE  Done(SeedScript[k])'
<1> DEFINE i == SeedScript[k][2]
<1>1. /\ i \in 1 .. NEvents /\ k = PassportAt + i
      /\ Len(SeedScript) = PassportAt + NEvents /\ PassportAt \in Nat
  BY SeedPlaces, SeedScriptFacts, CountFacts DEF PassportAt
<1>2. server'.events = Append(server.events, i) /\ Len(server.events) \in Nat
  BY ServerFacts DEF Applied
<1>3. Len(server'.events) = Len(server.events) + 1
  BY <1>2, ServerFacts
<1>4. Len(server.events) >= i - 1
  <2>1. CASE i = 1
    BY <1>2, <2>1
  <2>2. CASE i # 1
    <3>1. /\ i - 1 \in 1 .. NEvents /\ PassportAt + (i - 1) \in 1 .. Len(SeedScript)
          /\ PassportAt + (i - 1) < k
      BY <1>1, <2>2, CountFacts
    <3>2. SeedScript[PassportAt + (i - 1)] = <<"event", i - 1>>
      BY <3>1, SeedScriptFacts
    <3>3. Done(<<"event", i - 1>>)
      BY <3>1, <3>2
    <3>4. QED
      BY <3>3 DEF Done
  <2>3. QED
    BY <2>1, <2>2
<1>5. Len(server'.events) >= i
  BY <1>1, <1>2, <1>3, <1>4, CountFacts
<1>6. QED
  BY <1>5 DEF Done

LEMMA StepFacts ==
  ASSUME IInv, NEW r \in Runs, Step(r)
  PROVE  /\ ControlType' /\ OthersStay(r) /\ Controlled(r)' /\ Served
         /\ pc'[r] \in {"store", "snapshot"} => View(r) \/ ViewRefused(r) \/ StoreView(r)
<1>p. /\ ControlType /\ server \in ServerSet /\ Controlled(r)
      /\ at[r] \in 1 .. Len(Script(r)) /\ Request(r) \in Requests
      /\ Len(Script(r)) \in Nat /\ at[r] \in Nat
  BY Parts, ScriptFacts DEF ControlType
<1>1. CASE StartRun(r)
  <2>1. Advance(r, 1) /\ viewed' = viewed /\ server' = server
    BY <1>1, Zenon DEF StartRun
  <2>2. 1 \in 1 .. Len(Script(r)) + 1 /\ 1 .. 1 - 1 = {}
    BY <1>p
  <2>3. /\ ControlType' /\ OthersStay(r) /\ Controlled(r)'
        /\ pc'[r] \notin {"store", "snapshot"}
    BY <1>p, <2>1, <2>2, GoesOn
  <2>4. QED
    BY <1>p, <2>1, <2>3, ServedFacts
<1>2. CASE Read(r)
  <2>1. pc[r] = "read" /\ AfterRead(r, Skipped(Request(r))) /\ server' = server
        /\ viewed' = viewed
    BY <1>2, Zenon DEF Read
  <2>2. QED
    BY <1>p, <2>1, AfterReadFacts, ServedFacts
<1>3. CASE ReadFails(r)
  <2>1. pc' = [pc EXCEPT ![r] = "post"] /\ UNCHANGED <<at, viewed, server>> /\ pc[r] = "read"
    BY <1>3 DEF ReadFails, AfterRead, AssumedPresent
  <2>2. ControlType'
    BY <1>p, <2>1, Zenon DEF ControlType, Script
  <2>3. OthersStay(r) /\ pc'[r] = "post" /\ at'[r] = at[r]
    BY <1>p, <2>1 DEF ControlType, OthersStay
  <2>4. Served
    BY <1>p, <2>1, ServedFacts
  <2>5. r \in SeedRuns => Behind(r)'
    BY <1>p, <2>1, <2>3, <2>4, SeedPlaces DEF Controlled, Behind, Served
  <2>6. QED
    BY <2>2, <2>3, <2>4, <2>5 DEF Controlled, ReadAtCheck
<1>4. CASE Post(r)
  <2>1. /\ pc[r] = "post" /\ server' = Apply(Request(r)) /\ Advance(r, at[r] + 1)
        /\ viewed' = viewed
    BY <1>4, Zenon DEF Post
  <2>2. Served /\ Applied(Request(r))
    BY <1>p, <2>1, ServedFacts, ApplyFacts
  <2>3. r \in SeedRuns => \A j \in 1 .. at[r] + 1 - 1 : Done(SeedScript[j])'
    <3> SUFFICES ASSUME r \in SeedRuns, NEW k \in 1 .. at[r] PROVE Done(SeedScript[k])'
      BY <1>p
    <3>1. /\ k \in 1 .. Len(SeedScript) /\ Request(r) = SeedScript[at[r]]
          /\ SeedScript[k] \in SeedRequests
          /\ \A i \in 1 .. Len(SeedScript) : i < at[r] => Done(SeedScript[i])
      BY <1>p, <2>1, ScriptFacts, SeedPlaces DEF Request, Controlled, Behind
    <3>2. CASE k < at[r]
      BY <2>2, <3>1, <3>2 DEF Served
    <3>3. CASE k = at[r]
      <4>1. Applied(SeedScript[k])
        BY <2>2, <3>1, <3>3
      <4>2. CASE SeedScript[k][1] # "event"
        BY <3>1, <4>1, <4>2 DEF Applied
      <4>3. CASE SeedScript[k][1] = "event"
        BY <1>p, <3>1, <3>3, <4>1, <4>3, EventDone
      <4>4. QED
        BY <4>2, <4>3
    <3>4. QED
      BY <1>p, <3>2, <3>3
  <2>4. QED
    BY <1>p, <2>1, <2>2, <2>3, GoesOn
<1>5. CASE PostFails(r)
  <2>1. End(r) /\ (server' = server \/ server' = Apply(Request(r)))
    BY <1>5, Zenon DEF PostFails
  <2>2. QED
    BY <1>p, <2>1, ServedFacts, Stops
<1>6. CASE View(r) \/ ViewRefused(r) \/ StoreView(r)
  <2>1. /\ server' = server /\ at' = at
        /\ \/ pc[r] = "view" /\ pc' = [pc EXCEPT ![r] = "store"]
              /\ \E b \in {Len(server.events), ErrorBody} :
                   viewed' = [viewed EXCEPT ![r] = b]
           \/ pc[r] = "store" /\ pc' = [pc EXCEPT ![r] = "snapshot"] /\ viewed' = viewed
    <3>1. CASE View(r)
      BY <3>1, Zenon DEF View, TakeView
    <3>2. CASE ViewRefused(r)
      BY <3>2, Zenon DEF ViewRefused, TakeView
    <3>3. CASE StoreView(r)
      BY <3>3, Zenon DEF StoreView
    <3>4. QED
      BY <1>6, <3>1, <3>2, <3>3
  <2>2. Len(server.events) \in Nat
    BY <1>p, ServerFacts
  <2>3. /\ pc' \in [Runs -> {"idle", "read", "post", "view", "store", "snapshot"}]
        /\ viewed' \in [Runs -> Bodies]
    <3>1. /\ pc \in [Runs -> {"idle", "read", "post", "view", "store", "snapshot"}]
          /\ viewed \in [Runs -> Bodies]
      BY <1>p DEF ControlType
    <3>2. {Len(server.events), ErrorBody} \subseteq Bodies
      BY <2>2 DEF Bodies
    <3>3. QED
      BY <2>1, <3>1, <3>2
  <2>4. ControlType'
    BY <1>p, <2>1, <2>3, Zenon DEF ControlType, Script
  <2>5. OthersStay(r) /\ pc'[r] \in {"store", "snapshot"}
    BY <1>p, <2>1 DEF ControlType, OthersStay
  <2>6. Served /\ r \in SeedRuns
    BY <1>p, <2>1, ServedFacts DEF Controlled, Runs
  <2>7. Behind(r)'
    BY <1>p, <2>1, <2>5, <2>6, SeedPlaces DEF Controlled, Behind, Served
  <2>8. QED
    BY <1>6, <2>4, <2>5, <2>6, <2>7, ScriptFacts DEF Controlled, ReadAtCheck
<1>7. CASE Snapshot(r) \/ Killed(r)
  <2>1. End(r) /\ server' = server
    BY <1>7, Zenon DEF Snapshot, Killed
  <2>2. QED
    BY <1>p, <2>1, ServedFacts, Stops
<1>8. QED
  BY <1>1, <1>2, <1>3, <1>4, <1>5, <1>6, <1>7 DEF Step, RunStep

\* The requests of clients that gave up go on by themselves.
LEMMA DeliverFacts ==
  ASSUME IInv, NEW m \in wire, Deliver(m)
  PROVE  /\ Served /\ wire' \subseteq wire /\ UNCHANGED <<pc, at, viewed, fileVars, budget, cause>>
         /\ \A r \in Runs : Controlled(r)'
<1>1. /\ wire' = wire \ {m} /\ server' = Apply(m)
      /\ UNCHANGED <<pc, at, viewed, fileVars, budget, cause>>
  BY Zenon DEF Deliver
<1>2. m \in Requests /\ server \in ServerSet
  BY DEF IInv, TypeOK, ServerSet
<1>3. Served
  BY <1>1, <1>2, ServedFacts
<1>4. \A r \in Runs : Controlled(r)'
  BY <1>1, <1>3, Parts, SeedPlaces DEF Controlled, ReadAtCheck, Behind, Served, Request, Script
<1>5. QED
  BY <1>1, <1>3, <1>4

\* What is past its script has a view of all the story's events.
LEMMA ViewFacts ==
  ASSUME IInv, NEW r \in Runs, pc[r] \in {"view", "store", "snapshot"}
  PROVE  r \in SeedRuns /\ Len(server.events) \in Nat /\ Len(server.events) >= NEvents
         /\ Accumulated
<1>1. r \in SeedRuns /\ Behind(r) /\ server \in ServerSet
  BY Parts DEF Controlled, Runs
<1>2. \A k \in 1 .. Len(SeedScript) : Done(SeedScript[k])
  BY <1>1 DEF Behind
<1>3. Len(server.events) \in Nat /\ server.items \subseteq 1 .. NItems
  BY <1>1, ServerFacts DEF ServerSet
<1>4. Len(SeedScript) = PassportAt + NEvents /\ PassportAt = NItems + NBindings + 2
  BY SeedScriptFacts DEF PassportAt
<1>5. Len(server.events) >= NEvents
  <2>1. PassportAt + NEvents \in 1 .. Len(SeedScript) /\ NEvents \in 1 .. NEvents
    BY <1>4, CountFacts
  <2>2. Done(<<"event", NEvents>>)
    BY <1>2, <2>1, SeedScriptFacts
  <2>3. QED
    BY <2>2 DEF Done
<1>6. server.units /\ server.passport
  <2>1. 1 \in 1 .. Len(SeedScript) /\ PassportAt \in 1 .. Len(SeedScript)
    BY <1>4, CountFacts
  <2>2. Done(<<"units", 1>>) /\ Done(<<"passport", 1>>)
    BY <1>2, <2>1, SeedScriptFacts
  <2>3. QED
    BY <2>2 DEF Done
<1>7. \A i \in 1 .. NItems : i \in server.items
  <2> SUFFICES ASSUME NEW i \in 1 .. NItems PROVE i \in server.items
    OBVIOUS
  <2>1. 1 + i \in 1 .. Len(SeedScript)
    BY <1>4, CountFacts
  <2>2. Done(<<"item", i>>)
    BY <1>2, <2>1, SeedScriptFacts
  <2>3. QED
    BY <2>2 DEF Done
<1>8. \A i \in 1 .. NBindings : server.bound[i] > 0
  <2> SUFFICES ASSUME NEW i \in 1 .. NBindings PROVE server.bound[i] > 0
    OBVIOUS
  <2>1. 1 + NItems + i \in 1 .. Len(SeedScript)
    BY <1>4, CountFacts
  <2>2. Done(<<"binding", i>>)
    BY <1>2, <2>1, SeedScriptFacts
  <2>3. QED
    BY <2>2 DEF Done
<1>9. QED
  BY <1>1, <1>3, <1>5, <1>6, <1>7, <1>8 DEF Accumulated

-----------------------------------------------------------------------------
(* The invariant *)

LEMMA NextCases ==
  [Next]_vars => \/ \E r \in Runs : Step(r)
                 \/ \E m \in wire : Deliver(m)
                 \/ UNCHANGED vars
BY DEF Next, Step

\* Every run, whichever of them went: its control and what is behind it.
LEMMA ControlStep ==
  IInv /\ [Next]_vars =>
    ControlType' /\ server' \in ServerSet /\ \A r \in Runs : Controlled(r)'
<1> SUFFICES ASSUME IInv, [Next]_vars
             PROVE  /\ ControlType' /\ server' \in ServerSet
                    /\ \A r \in Runs : Controlled(r)'
  OBVIOUS
<1>1. ASSUME NEW r \in Runs, Step(r)
      PROVE  /\ ControlType' /\ server' \in ServerSet
             /\ \A q \in Runs : Controlled(q)'
  <2>1. ControlType' /\ OthersStay(r) /\ Controlled(r)' /\ Served
    BY <1>1, StepFacts
  <2>2. ASSUME NEW q \in Runs, q # r PROVE Controlled(q)'
    BY <2>1, <2>2, Parts, SeedPlaces
    DEF Controlled, ReadAtCheck, Behind, Served, OthersStay, Request, Script
  <2>3. QED
    BY <2>1, <2>2 DEF Served
<1>2. ASSUME NEW m \in wire, Deliver(m)
      PROVE  /\ ControlType' /\ server' \in ServerSet
             /\ \A q \in Runs : Controlled(q)'
  BY <1>2, DeliverFacts, Parts DEF ControlType, Served, Script
<1>3. CASE UNCHANGED vars
  <2>1. UNCHANGED <<server, pc, at, viewed>>
    BY <1>3 DEF vars
  <2>2. ControlType' /\ server' \in ServerSet
    BY <2>1, Parts DEF ControlType, Script
  <2>3. \A r \in Runs : Controlled(r)'
    BY <2>1, Parts, Zenon DEF Controlled, ReadAtCheck, Behind, Done, Request, Script
  <2>4. QED
    BY <2>2, <2>3
<1>4. QED
  BY <1>1, <1>2, <1>3, NextCases

\* What the runs past their script have fetched, and what they have written.
FileType ==
  /\ {artifact, store} \subseteq Bodies
  /\ snapshots \subseteq [hash : Nat \cup {ErrorBody}, head : Nat \cup {ErrorBody}]

\* An answer that was held is one later, what happened being remembered.
LEMMA AnswerStays ==
  ASSUME cause \subseteq cause'
  PROVE  \A x \in Bodies : HoldsAnswer(x) => HoldsAnswer(x)'
BY DEF HoldsAnswer

LEMMA AnswerFacts ==
  ASSUME NEW x \in Bodies, HoldsAnswer(x)
  PROVE  x \in Nat \cup {ErrorBody}
BY CountFacts DEF HoldsAnswer, Bodies, NotWritten, ErrorBody

LEMMA CauseGrows == ASSUME NEW r \in Runs, Step(r) PROVE cause \subseteq cause'
BY DEF Step, StartRun, RunStep, Read, Post, View, ViewRefused, TakeView, StoreView, Snapshot,
       ReadFails, PostFails, Killed

\* What the fetch of the view leaves: the view of all the story's events, or the
\* body of an error, which is remembered as a cause.
LEMMA TakenFacts ==
  ASSUME IInv, NEW r \in Runs, View(r) \/ ViewRefused(r)
  PROVE  /\ pc[r] = "view" /\ pc'[r] = "store" /\ UNCHANGED <<store, snapshots>>
         /\ viewed'[r] = artifact' /\ artifact' \in Bodies /\ HoldsAnswer(artifact)'
<1>1. /\ pc[r] = "view" /\ UNCHANGED <<store, snapshots>> /\ artifact' = viewed'[r]
      /\ pc'[r] = "store"
  BY Parts DEF View, ViewRefused, TakeView, ControlType
<1>2. Len(server.events) \in Nat /\ Len(server.events) >= NEvents
  BY <1>1, ViewFacts
<1>3. CASE View(r)
  <2>1. artifact' = Len(server.events)
    BY <1>3 DEF View, TakeView
  <2>2. QED
    BY <1>1, <1>2, <2>1 DEF Bodies, HoldsAnswer
<1>4. CASE ViewRefused(r)
  <2>1. artifact' = ErrorBody /\ "view" \in cause'
    BY <1>4 DEF ViewRefused, TakeView
  <2>2. QED
    BY <1>1, <2>1 DEF Bodies, HoldsAnswer
<1>5. QED
  BY <1>3, <1>4

LEMMA FilesStep ==
  IInv /\ [Next]_vars => FileType' /\ \A q \in SeedRuns : Fetched(q)'
<1> SUFFICES ASSUME IInv, [Next]_vars
             PROVE  FileType' /\ \A q \in SeedRuns : Fetched(q)'
  OBVIOUS
<1>t. /\ FileType /\ ControlType /\ \A q \in SeedRuns : Fetched(q)
      /\ SeedRuns \subseteq Runs
  BY Parts DEF IInv, TypeOK, FileType, Runs, Bodies
<1>1. ASSUME NEW r \in Runs, Step(r) PROVE FileType' /\ \A q \in SeedRuns : Fetched(q)'
  <2>1. /\ OthersStay(r)
        /\ pc'[r] \in {"store", "snapshot"} => View(r) \/ ViewRefused(r) \/ StoreView(r)
    BY <1>1, StepFacts
  <2>a. /\ \A x \in Bodies : HoldsAnswer(x) => HoldsAnswer(x)'
        /\ artifact \in Bodies /\ store \in Bodies
        /\ \A q \in Runs : viewed[q] \in Bodies
    BY <1>1, <1>t, CauseGrows, AnswerStays DEF FileType, ControlType
  <2>2. CASE View(r) \/ ViewRefused(r)
    <3>1. /\ pc[r] = "view" /\ pc'[r] = "store" /\ UNCHANGED <<store, snapshots>>
          /\ viewed'[r] = artifact' /\ artifact' \in Bodies /\ HoldsAnswer(artifact)'
      BY <2>2, TakenFacts
    <3>2. FileType'
      BY <1>t, <3>1 DEF FileType
    <3>3. ASSUME NEW q \in SeedRuns PROVE Fetched(q)'
      <4>1. CASE q = r
        <5>1. HoldsAnswer(viewed[r])'
          BY <3>1 DEF HoldsAnswer
        <5>2. QED
          BY <3>1, <4>1, <5>1 DEF Fetched
      <4>2. CASE q # r
        <5>1. pc'[q] = pc[q] /\ viewed'[q] = viewed[q]
          BY <1>t, <2>1, <4>2 DEF OthersStay
        <5>2. pc[q] \in {"store", "snapshot"} => HoldsAnswer(viewed[q])'
          BY <1>t, <2>a, <5>1 DEF Fetched, HoldsAnswer
        <5>3. pc[q] = "snapshot" => HoldsAnswer(store)'
          BY <1>t, <2>a, <3>1 DEF Fetched, HoldsAnswer
        <5>4. QED
          BY <3>1, <5>1, <5>2, <5>3 DEF Fetched
      <4>3. QED
        BY <4>1, <4>2
    <3>4. QED
      BY <3>2, <3>3
  <2>3. CASE StoreView(r)
    <3>1. /\ store' = viewed[r] /\ UNCHANGED <<artifact, snapshots, viewed, cause>>
          /\ pc'[r] = "snapshot" /\ pc[r] = "store"
      BY <1>t, <2>3 DEF StoreView, ControlType
    <3>2. r \in SeedRuns
      BY <3>1, ViewFacts
    <3>3. HoldsAnswer(viewed[r]) /\ HoldsAnswer(artifact) /\ viewed[r] \in Bodies
      BY <1>t, <2>a, <3>1, <3>2 DEF Fetched
    <3>4. FileType'
      BY <1>t, <3>1, <3>3 DEF FileType
    <3>5. HoldsAnswer(store)' /\ HoldsAnswer(artifact)' /\ HoldsAnswer(viewed[r])'
      BY <3>1, <3>3 DEF HoldsAnswer
    <3>6. ASSUME NEW q \in SeedRuns PROVE Fetched(q)'
      <4>1. CASE q = r
        BY <3>5, <4>1 DEF Fetched
      <4>2. CASE q # r
        <5>1. pc'[q] = pc[q] /\ viewed'[q] = viewed[q]
          BY <1>t, <2>1, <4>2 DEF OthersStay
        <5>2. pc[q] \in {"store", "snapshot"} => HoldsAnswer(viewed[q])'
          BY <1>t, <3>1, <5>1 DEF Fetched, HoldsAnswer
        <5>3. QED
          BY <3>5, <5>1, <5>2 DEF Fetched
      <4>3. QED
        BY <4>1, <4>2
    <3>7. QED
      BY <3>4, <3>6
  <2>4. CASE ~View(r) /\ ~ViewRefused(r) /\ ~StoreView(r)
    <3>1. artifact' = artifact /\ store' = store
      BY <1>1, <2>4 DEF Step, StartRun, RunStep, Read, Post, Snapshot, ReadFails, PostFails,
                        Killed, fileVars
    <3>2. ASSUME NEW q \in SeedRuns PROVE Fetched(q)'
      <4> SUFFICES ASSUME pc'[q] \in {"store", "snapshot"} PROVE Fetched(q)'
        BY DEF Fetched
      <4>1. q # r
        BY <2>1, <2>4
      <4>2. pc'[q] = pc[q] /\ viewed'[q] = viewed[q] /\ viewed[q] \in Bodies /\ Fetched(q)
        BY <1>t, <2>1, <2>a, <4>1 DEF OthersStay
      <4>3. HoldsAnswer(viewed[q])' /\ HoldsAnswer(artifact)'
        BY <2>a, <3>1, <4>2 DEF Fetched, HoldsAnswer
      <4>4. pc[q] = "snapshot" => HoldsAnswer(store)'
        BY <2>a, <3>1, <4>2 DEF Fetched, HoldsAnswer
      <4>5. QED
        BY <4>2, <4>3, <4>4 DEF Fetched
    <3>3. snapshots' = snapshots \/ (pc[r] = "snapshot" /\ snapshots' = Notarised(r))
      BY <1>1, <2>4 DEF Step, StartRun, RunStep, Read, Post, Snapshot, ReadFails, PostFails,
                        Killed, fileVars
    <3>4. pc[r] = "snapshot" =>
            artifact \in Nat \cup {ErrorBody} /\ viewed[r] \in Nat \cup {ErrorBody}
      <4> SUFFICES ASSUME pc[r] = "snapshot"
                   PROVE  artifact \in Nat \cup {ErrorBody} /\ viewed[r] \in Nat \cup {ErrorBody}
        OBVIOUS
      <4>1. r \in SeedRuns
        BY ViewFacts
      <4>2. HoldsAnswer(artifact) /\ HoldsAnswer(viewed[r])
        BY <1>t, <4>1 DEF Fetched
      <4>3. QED
        BY <2>a, <4>2, AnswerFacts
    <3>5. FileType'
      BY <1>t, <3>1, <3>3, <3>4 DEF FileType, Notarised, HeadOf
    <3>6. QED
      BY <3>2, <3>5
  <2>5. QED
    BY <2>2, <2>3, <2>4
<1>2. CASE (\E m \in wire : Deliver(m)) \/ UNCHANGED vars
  <2>1. UNCHANGED <<pc, viewed, artifact, store, snapshots, cause>>
    BY <1>2, DeliverFacts DEF vars, fileVars
  <2>2. QED
    BY <1>t, <2>1, Zenon DEF FileType, Fetched, HoldsAnswer
<1>3. QED
  BY <1>1, <1>2, NextCases

\* With no overlap the runs follow one another.
LEMMA OneSeed ==
  ASSUME IInv, NEW r \in Runs, Step(r), "overlap" \notin cause'
  PROVE  /\ "overlap" \notin cause
         /\ \A q \in SeedRuns : r \in SeedRuns /\ Active(q) => q = r
<1>1. "overlap" \notin cause
  BY DEF Step, StartRun, RunStep, Read, Post, View, ViewRefused, TakeView, StoreView, Snapshot,
         ReadFails, PostFails,
         Killed
<1>2. CASE StartRun(r)
  BY <1>1, <1>2 DEF StartRun
<1>3. CASE ~StartRun(r)
  <2>1. Active(r)
    BY <1>3 DEF Step, RunStep, Read, Post, View, ViewRefused, TakeView, StoreView, Snapshot,
                ReadFails, PostFails,
                Killed, Active
  <2>2. QED
    BY <1>1, <2>1 DEF IInv, Alone
<1>4. QED
  BY <1>2, <1>3

LEMMA AloneStep ==
  IInv /\ [Next]_vars => Alone' /\ SnapshotCoherent'
<1> SUFFICES ASSUME IInv, [Next]_vars, "overlap" \notin cause'
             PROVE  Alone' /\ SnapshotCoherent'
  BY DEF Alone, SnapshotCoherent
<1>1. ASSUME NEW r \in Runs, Step(r) PROVE Alone' /\ SnapshotCoherent'
  <2>1. /\ OthersStay(r) /\ ControlType /\ ControlType'
        /\ pc'[r] \in {"store", "snapshot"} => View(r) \/ ViewRefused(r) \/ StoreView(r)
    BY <1>1, StepFacts, Parts
  <2>2. "overlap" \notin cause
    BY <1>1, OneSeed
  <2>3. \A q \in SeedRuns : r \in SeedRuns /\ Active(q) => q = r
    BY <1>1, OneSeed
  <2>4. \A q \in Runs : q # r /\ Active(q)' => Active(q)
    BY <2>1 DEF OthersStay, Active
  <2>5. \A p, q \in SeedRuns : Active(p)' /\ Active(q)' => p = q
    BY <2>2, <2>3, <2>4 DEF IInv, Alone, Runs
  <2>6. \A q \in SeedRuns : pc'[q] \in {"store", "snapshot"} => viewed'[q] = artifact'
    <3> SUFFICES ASSUME NEW q \in SeedRuns, pc'[q] \in {"store", "snapshot"}
                 PROVE  viewed'[q] = artifact'
      OBVIOUS
    <3>1. CASE q = r
      <4>1. CASE View(r) \/ ViewRefused(r)
        BY <3>1, <4>1, TakenFacts
      <4>2. CASE StoreView(r)
        BY <2>2, <3>1, <4>2 DEF StoreView, IInv, Alone
      <4>3. QED
        BY <2>1, <3>1, <4>1, <4>2
    <3>2. CASE q # r
      <4>1. pc[q] \in {"store", "snapshot"} /\ viewed'[q] = viewed[q] /\ Active(q)
        BY <2>1, <3>2 DEF OthersStay, Runs, Active
      <4>2. r \notin SeedRuns
        BY <2>3, <3>2, <4>1
      <4>3. ~View(r) /\ ~ViewRefused(r)
        BY <4>2, ViewFacts DEF View, ViewRefused, TakeView
      <4>4. artifact' = artifact
        BY <1>1, <4>3 DEF Step, StartRun, RunStep, Read, Post, StoreView, Snapshot, ReadFails,
                          PostFails, Killed, fileVars
      <4>5. QED
        BY <2>2, <4>1, <4>4 DEF IInv, Alone
    <3>3. QED
      BY <3>1, <3>2
  <2>7. snapshots' = snapshots \/ (pc[r] = "snapshot" /\ snapshots' = Notarised(r))
    BY <1>1 DEF Step, StartRun, RunStep, Read, Post, View, ViewRefused, TakeView, StoreView,
                Snapshot, ReadFails,
                PostFails, Killed, fileVars
  <2>8. pc[r] = "snapshot" => viewed[r] = artifact
    BY <2>2, ViewFacts DEF IInv, Alone
  <2>9. SnapshotCoherent'
    BY <2>2, <2>7, <2>8 DEF IInv, SnapshotCoherent, Notarised, HeadOf
  <2>10. QED
    BY <2>5, <2>6, <2>9 DEF Alone
<1>2. CASE (\E m \in wire : Deliver(m)) \/ UNCHANGED vars
  <2>1. UNCHANGED <<pc, viewed, artifact, snapshots, cause>>
    BY <1>2, DeliverFacts DEF vars, fileVars
  <2>2. QED
    BY <2>1, Zenon DEF IInv, Alone, SnapshotCoherent, Active
<1>3. QED
  BY <1>1, <1>2, NextCases

\* Past the first event of the script, step k is the posting of the story's next.
NextOfStory(k) ==
  k \in PassportAt + 2 .. Len(SeedScript) => Len(server.events) = k - PassportAt - 1

\* Where a run goes on, what it is about to post is the next of the story.
LEMMA UnpostedAfter ==
  ASSUME ControlType, NEW r \in SeedRuns, NEW k \in 1 .. Len(SeedScript) + 1,
         Advance(r, k), viewed' = viewed, NextOfStory(k)'
  PROVE  Unposted(r)'
<1> SUFFICES ASSUME pc'[r] = "post"
             PROVE  /\ Request(r)'[1] # "binding"
                    /\ Request(r)'[1] = "event" =>
                         Len(server'.events) = Request(r)'[2] - 1
  BY DEF Unposted
<1>1. /\ r \in Runs /\ Script(r) = SeedScript /\ r \notin JpRuns
      /\ Len(SeedScript) = PassportAt + NEvents /\ PassportAt \in Nat
  BY ScriptFacts, SeedScriptFacts, CountFacts DEF Runs, PassportAt
<1>2. k <= Len(SeedScript) /\ at'[r] = k /\ ~ReadsFirst(SeedScript[k])
  BY <1>1, AdvanceFacts
<1>3. Request(r)' = SeedScript[k] /\ k \in 1 .. Len(SeedScript)
  BY <1>1, <1>2 DEF Request, Script
<1>4. SeedScript[k][1] # "binding"
  BY <1>2 DEF ReadsFirst
<1>5. CASE SeedScript[k][1] = "event"
  <2> DEFINE i == SeedScript[k][2]
  <2>1. i \in 1 .. NEvents /\ k = PassportAt + i
    BY <1>3, <1>5, SeedPlaces
  <2>2. SeedScript[k] = <<"event", i>>
    BY <2>1, SeedScriptFacts
  <2>3. i # 1
    BY <1>2, <2>2 DEF ReadsFirst
  <2>4. k \in PassportAt + 2 .. Len(SeedScript)
    BY <1>1, <2>1, <2>3, CountFacts
  <2>5. QED
    BY <1>1, <1>3, <1>4, <2>1, <2>4, CountFacts DEF NextOfStory
<1>6. QED
  BY <1>3, <1>4, <1>5

\* What one request adds to bindings and events: for the seed's, the next of the
\* story; for the JP peer's, nothing.
LEMMA PostedOnce ==
  ASSUME IInv, Rerunnable, NEW r \in Runs, pc[r] = "post", server' = Apply(Request(r))
  PROVE  /\ \A b \in 1 .. NBindings : server'.bound[b] <= 1
         /\ \A i \in 1 .. Len(server'.events) : server'.events[i] = i
         /\ r \in SeedRuns /\ Request(r)[1] = "event" =>
              Len(server'.events) = Request(r)[2]
         /\ r \in JpRuns => server'.events = server.events /\ server'.bound = server.bound
<1> DEFINE m == Request(r)
<1>1. /\ m \in Requests /\ server \in ServerSet /\ at[r] \in 1 .. Len(Script(r))
      /\ m = Script(r)[at[r]]
  BY Parts DEF Request
<1>2. Applied(m)
  BY <1>1, ApplyFacts
<1>3. r \in JpRuns => m[1] # "event" /\ m[1] # "binding"
  BY <1>1, ScriptFacts DEF JpRequests
<1>4. r \notin JpRuns => r \in SeedRuns /\ Unposted(r)
  BY DEF IInv, Runs
<1>5. /\ \A b \in 1 .. NBindings : server.bound[b] <= 1
      /\ \A i \in 1 .. Len(server.events) : server.events[i] = i
  BY DEF IInv, Idempotent
<1>6. /\ server.bound \in [1 .. NBindings -> Nat]
      /\ server.events \in Seq(1 .. NEvents) /\ Len(server.events) \in Nat
  BY <1>1, ServerFacts
<1> HIDE DEF m
<1>7. \A b \in 1 .. NBindings : server'.bound[b] <= 1
  <2>1. CASE m[1] = "binding"
    <3>1. /\ m[2] \in 1 .. NBindings /\ server.bound[m[2]] = 0
          /\ server'.bound = [server.bound EXCEPT ![m[2]] = server.bound[m[2]] + 1]
      BY <1>2, <1>3, <1>4, <2>1 DEF Applied, Unposted, m
    <3>2. QED
      BY <1>5, <1>6, <3>1
  <2>2. CASE m[1] # "binding"
    BY <1>2, <1>5, <2>2 DEF Applied
  <2>3. QED
    BY <2>1, <2>2
<1>8. CASE m[1] = "event"
  <2>1. /\ m[2] \in 1 .. NEvents /\ Len(server.events) = m[2] - 1
        /\ server'.events = Append(server.events, m[2])
    BY <1>2, <1>3, <1>4, <1>8 DEF Applied, Unposted, m
  <2>2. /\ Len(server'.events) = Len(server.events) + 1
        /\ \A i \in 1 .. Len(server.events) : server'.events[i] = server.events[i]
        /\ server'.events[Len(server.events) + 1] = m[2]
    BY <1>6, <2>1
  <2>3. Len(server'.events) = m[2] /\ m[2] \in Nat
    BY <2>1, <2>2
  <2>4. \A i \in 1 .. Len(server'.events) : server'.events[i] = i
    BY <1>5, <1>6, <2>1, <2>2, <2>3
  <2>5. QED
    BY <1>3, <1>7, <1>8, <2>3, <2>4 DEF m
<1>9. CASE m[1] # "event"
  BY <1>2, <1>3, <1>5, <1>7, <1>9 DEF Applied, m
<1>10. QED
  BY <1>8, <1>9

LEMMA StoryStep ==
  IInv /\ [Next]_vars => Idempotent' /\ \A q \in SeedRuns : Unposted(q)'
<1> SUFFICES ASSUME IInv, [Next]_vars, Rerunnable'
             PROVE  Idempotent' /\ \A q \in SeedRuns : Unposted(q)'
  BY DEF Idempotent, Unposted
<1>t. ControlType
  BY Parts
<1>1. ASSUME NEW r \in Runs, Step(r)
      PROVE  Idempotent' /\ \A q \in SeedRuns : Unposted(q)'
  <2>1. /\ Rerunnable /\ OthersStay(r)
        /\ \A q \in SeedRuns : r \in SeedRuns /\ Active(q) => q = r
    <3>1. cause \subseteq cause'
      BY <1>1, CauseGrows
    <3>2. Rerunnable /\ "overlap" \notin cause'
      BY <3>1 DEF Rerunnable
    <3>3. QED
      BY <1>1, <3>2, OneSeed, StepFacts
  <2>2. \/ server' = server
        \/ pc[r] = "post" /\ server' = Apply(Request(r))
    BY <1>1 DEF Step, StartRun, RunStep, Read, Post, View, ViewRefused, TakeView, StoreView,
                Snapshot, ReadFails,
                PostFails, Killed
  <2>3. Idempotent'
    <3>1. CASE server' = server
      BY <2>1, <3>1 DEF IInv, Idempotent
    <3>2. CASE pc[r] = "post" /\ server' = Apply(Request(r))
      BY <2>1, <3>2, PostedOnce DEF Idempotent
    <3>3. QED
      BY <2>2, <3>1, <3>2
  <2>4. ASSUME NEW q \in SeedRuns, q # r PROVE Unposted(q)'
    <3> SUFFICES ASSUME pc'[q] = "post" PROVE Unposted(q)'
      BY DEF Unposted
    <3>1. q \in Runs /\ pc[q] = "post" /\ at'[q] = at[q]
      BY <2>1, <2>4 DEF OthersStay, Runs
    <3>2. r \in JpRuns
      BY <2>1, <2>4, <3>1 DEF Active, Runs
    <3>3. server'.events = server.events /\ server'.bound = server.bound
      BY <2>1, <2>2, <3>2, PostedOnce
    <3>4. Request(q)' = Request(q) /\ Unposted(q)
      BY <3>1 DEF Request, Script, IInv
    <3>5. QED
      BY <2>1, <3>1, <3>3, <3>4 DEF Unposted
  <2>5. ASSUME r \in SeedRuns PROVE Unposted(r)'
    <3>p. /\ Script(r) = SeedScript /\ Len(SeedScript) = PassportAt + NEvents
          /\ PassportAt \in Nat /\ NEvents \in Nat
          /\ at[r] \in 1 .. Len(SeedScript) /\ Request(r) = SeedScript[at[r]]
      <4>1. Script(r) = SeedScript /\ at[r] \in 1 .. Len(Script(r))
        BY <2>5, ScriptFacts, Parts
      <4>2. Len(SeedScript) = PassportAt + NEvents
        BY SeedScriptFacts
      <4>3. PassportAt \in Nat /\ NEvents \in Nat
        BY CountFacts DEF PassportAt
      <4>4. QED
        BY <4>1, <4>2, <4>3 DEF Request
    <3>1. CASE StartRun(r)
      <4>1. Advance(r, 1) /\ viewed' = viewed
        BY <3>1, Zenon DEF StartRun
      <4>2. 1 \in 1 .. Len(SeedScript) + 1 /\ 1 \notin PassportAt + 2 .. Len(SeedScript)
        BY <3>p
      <4>3. QED
        BY <1>t, <2>5, <4>1, <4>2, UnpostedAfter DEF NextOfStory
    <3>2. CASE Read(r)
      <4> DEFINE n == Skipped(Request(r))
      <4>1. /\ pc[r] = "read" /\ AfterRead(r, n) /\ server' = server /\ viewed' = viewed
        BY <3>2, Zenon DEF Read
      <4>2. /\ n \in Nat /\ at[r] + n \in 1 .. Len(SeedScript) + 1
            /\ n = 0 => /\ Request(r)[1] = "binding" => server.bound[Request(r)[2]] = 0
                        /\ Request(r)[1] = "event" =>
                             Len(server.events) = 0 /\ Request(r)[2] = 1
            /\ n # 0 /\ at[r] + n \in PassportAt + 1 .. Len(SeedScript)
                 => Len(server.events) = at[r] + n - PassportAt - 1
        BY <4>1, ReadFacts
      <4> HIDE DEF n
      <4>3. CASE n = 0
        <5>1. Request(r)' = Request(r)
          BY <4>1, <4>3 DEF AfterRead, Request, Script
        <5>2. /\ Request(r)[1] = "binding" => server.bound[Request(r)[2]] = 0
              /\ Request(r)[1] = "event" => Len(server.events) = Request(r)[2] - 1
          BY <4>2, <4>3
        <5>3. QED
          BY <4>1, <5>1, <5>2, Zenon DEF Unposted
      <4>4. CASE n # 0
        <5>1. Advance(r, at[r] + n)
          BY <4>1, <4>4 DEF AfterRead
        <5>2. at[r] + n \in PassportAt + 2 .. Len(SeedScript)
                => Len(server'.events) = at[r] + n - PassportAt - 1
          BY <3>p, <4>1, <4>2, <4>4
        <5>3. ASSUME NEW k, k = at[r] + n PROVE Unposted(r)'
          <6>1. k \in 1 .. Len(SeedScript) + 1 /\ NextOfStory(k)'
            BY <3>p, <4>2, <5>2, <5>3 DEF NextOfStory
          <6>2. Advance(r, k)
            BY <5>1, <5>3, Zenon
          <6>3. QED
            BY <1>t, <2>5, <4>1, <6>1, <6>2, Zenon, UnpostedAfter
        <5>4. QED
          BY <5>3
      <4>5. QED
        BY <4>3, <4>4
    <3>3. CASE Post(r)
      <4>1. /\ pc[r] = "post" /\ server' = Apply(Request(r)) /\ Advance(r, at[r] + 1)
            /\ viewed' = viewed
        BY <3>3, Zenon DEF Post
      <4>2. at[r] + 1 \in PassportAt + 2 .. Len(SeedScript)
              => Len(server'.events) = at[r] + 1 - PassportAt - 1
        <5> SUFFICES ASSUME at[r] + 1 \in PassportAt + 2 .. Len(SeedScript)
                     PROVE  Len(server'.events) = at[r] + 1 - PassportAt - 1
          OBVIOUS
        <5>1. /\ at[r] - PassportAt \in 1 .. NEvents
              /\ at[r] = PassportAt + (at[r] - PassportAt)
          BY <3>p
        <5>2. Request(r) = <<"event", at[r] - PassportAt>>
          BY <3>p, <5>1, SeedScriptFacts
        <5>3. Len(server'.events) = at[r] - PassportAt
          BY <2>1, <2>5, <4>1, <5>2, PostedOnce
        <5>4. QED
          BY <3>p, <5>3
      <4>3. at[r] + 1 \in 1 .. Len(SeedScript) + 1
        BY <3>p
      <4>4. ASSUME NEW k, k = at[r] + 1 PROVE Unposted(r)'
        <5>1. k \in 1 .. Len(SeedScript) + 1 /\ NextOfStory(k)'
          BY <3>p, <4>2, <4>3, <4>4 DEF NextOfStory
        <5>2. Advance(r, k)
          BY <4>1, <4>4, Zenon
        <5>3. QED
          BY <1>t, <2>5, <4>1, <5>1, <5>2, Zenon, UnpostedAfter
      <4>5. QED
        BY <4>4
    <3>4. CASE ReadFails(r)
      <4>1. ~Rerunnable'
        BY <3>4 DEF ReadFails, Rerunnable
      <4>2. QED
        BY <4>1, Zenon DEF Unposted
    <3>5. CASE View(r) \/ ViewRefused(r) \/ StoreView(r) \/ Snapshot(r)
            \/ PostFails(r) \/ Killed(r)
      <4>1. pc'[r] # "post"
        BY <1>t, <3>5 DEF View, ViewRefused, TakeView, StoreView, Snapshot, PostFails, Killed,
                          End, ControlType
      <4>2. QED
        BY <4>1 DEF Unposted
    <3>6. QED
      BY <1>1, <3>1, <3>2, <3>3, <3>4, <3>5 DEF Step, RunStep
  <2>6. QED
    BY <2>3, <2>4, <2>5
<1>2. ASSUME NEW m \in wire, Deliver(m)
      PROVE  Idempotent' /\ \A q \in SeedRuns : Unposted(q)'
  <2>1. "late" \notin cause
    BY <1>2, DeliverFacts DEF Rerunnable
  <2>2. QED
    BY <1>2, <2>1 DEF IInv, NoneLate
<1>3. CASE UNCHANGED vars
  <2>1. UNCHANGED <<server, pc, at, cause>>
    BY <1>3 DEF vars
  <2>2. QED
    BY <2>1, Zenon DEF IInv, Idempotent, Unposted, Request, Script, Rerunnable
<1>4. QED
  BY <1>1, <1>2, <1>3, NextCases

\* What is under way, and what is left of the bounds.
RestType ==
  wire \subseteq Requests /\ budget \in 0 .. MaxEvents
    /\ cause \subseteq {"overlap", "read", "late", "view"}

LEMMA RestStep == IInv /\ [Next]_vars => RestType' /\ NoneLate'
<1> SUFFICES ASSUME IInv, [Next]_vars PROVE RestType' /\ NoneLate'
  OBVIOUS
<1>t. RestType /\ NoneLate
  BY DEF IInv, TypeOK, RestType
<1>1. ASSUME NEW r \in Runs, Step(r) PROVE RestType' /\ NoneLate'
  <2>1. /\ \/ wire' = wire
           \/ wire' = wire \cup {Request(r)} /\ cause' = cause \cup {"late"}
        /\ \/ cause' = cause
           \/ \E c \in {"overlap", "read", "late", "view"} : cause' = cause \cup {c}
    <3>1. CASE StartRun(r) \/ ReadFails(r) \/ PostFails(r) \/ ViewRefused(r)
      BY <3>1 DEF StartRun, ReadFails, PostFails, ViewRefused, TakeView
    <3>2. CASE RunStep(r) \/ Killed(r)
      BY <3>2 DEF RunStep, Read, Post, View, ViewRefused, TakeView, StoreView, Snapshot, Killed
    <3>3. QED
      BY <1>1, <3>1, <3>2 DEF Step
  <2>2. budget' = budget \/ Disturb
    BY <1>1 DEF Step, StartRun, RunStep, Read, Post, View, ViewRefused, TakeView, StoreView,
                Snapshot, ReadFails,
                PostFails, Killed
  <2>3. budget' \in 0 .. MaxEvents
    BY <1>t, <2>2, CountFacts DEF RestType, Disturb
  <2>4. Request(r) \in Requests
    BY Parts
  <2>5. wire' \subseteq Requests /\ cause' \subseteq {"overlap", "read", "late", "view"}
    BY <1>t, <2>1, <2>4 DEF RestType
  <2>6. NoneLate'
    BY <1>t, <2>1 DEF NoneLate
  <2>7. QED
    BY <2>3, <2>5, <2>6 DEF RestType
<1>2. ASSUME NEW m \in wire, Deliver(m) PROVE RestType' /\ NoneLate'
  BY <1>t, <1>2, DeliverFacts DEF RestType, NoneLate
<1>3. CASE UNCHANGED vars
  BY <1>t, <1>3, Zenon DEF vars, RestType, NoneLate
<1>4. QED
  BY <1>1, <1>2, <1>3, NextCases

LEMMA IInvInit == Init => IInv
<1> SUFFICES ASSUME Init PROVE IInv
  OBVIOUS
<1>1. /\ pc = [r \in Runs |-> "idle"] /\ at = [r \in Runs |-> 1]
      /\ viewed = [r \in Runs |-> NotWritten] /\ artifact = NotWritten
      /\ store = NotWritten /\ snapshots = {}
      /\ wire = {} /\ cause = {} /\ budget = MaxEvents
  BY DEF Init
<1>2. ControlType /\ at \in [Runs -> Nat]
  <2>1. \A r \in Runs : 1 \in 1 .. Len(Script(r))
    BY ScriptFacts
  <2>2. QED
    BY <1>1, <2>1 DEF ControlType, Bodies
<1>3. server \in ServerSet /\ server.events = <<>> /\ \A b \in 1 .. NBindings : server.bound[b] = 0
  BY DEF Init, ServerSet
<1>4. RestType /\ FileType
  BY <1>1, CountFacts DEF RestType, FileType, Bodies
<1>5. TypeOK
  BY <1>2, <1>3, <1>4 DEF TypeOK, ControlType, ServerSet, RestType, FileType, Bodies
<1>6. Idempotent
  BY <1>3 DEF Idempotent
<1>7. \A r \in Runs : pc[r] = "idle"
  BY <1>1
<1>8. QED
  BY <1>1, <1>2, <1>5, <1>6, <1>7
  DEF IInv, Behind, Fetched, Unposted, ReadAtCheck, Alone, NoneLate, SnapshotCoherent,
      Active, Runs

LEMMA IInvStep == IInv /\ [Next]_vars => IInv'
<1> SUFFICES ASSUME IInv, [Next]_vars PROVE IInv'
  OBVIOUS
<1>1. ControlType' /\ server' \in ServerSet /\ \A r \in Runs : Controlled(r)'
  BY ControlStep
<1>2. /\ FileType' /\ RestType' /\ NoneLate' /\ Alone' /\ SnapshotCoherent' /\ Idempotent'
      /\ \A q \in SeedRuns : Fetched(q)' /\ Unposted(q)'
  BY FilesStep, RestStep, AloneStep, StoryStep
<1>3. TypeOK' /\ (at \in [Runs -> Nat])'
  BY <1>1, <1>2 DEF TypeOK, ControlType, ServerSet, RestType, FileType, Bodies
<1>4. QED
  BY <1>1, <1>2, <1>3 DEF IInv, Controlled, Runs

LEMMA IInvAlways == Spec => []IInv
BY IInvInit, IInvStep, PTL DEF Spec

-----------------------------------------------------------------------------
(* The theorems *)

\* Every variable keeps its shape: in particular, what the archive notarises is an
\* answer that was fetched.
THEOREM TypeCorrect == Spec => []TypeOK
<1>1. IInv => TypeOK
  BY DEF IInv
<1>2. QED
  BY <1>1, IInvAlways, PTL

\* Re-running is harmless (seed.rs 4-6): with no overlap, no unanswered read and no
\* late request, no binding is there twice and the events are the story's first -
\* for any number of items, bindings, events, runs and failures.
THEOREM RerunIsHarmless == Spec => []Idempotent
<1>1. IInv => Idempotent
  BY DEF IInv
<1>2. QED
  BY <1>1, IInvAlways, PTL

\* The hash and the head of a snapshot are of one answer, with no overlap (327-409).
THEOREM SnapshotsCohere == Spec => []SnapshotCoherent
<1>1. IInv => SnapshotCoherent
  BY DEF IInv
<1>2. QED
  BY <1>1, IInvAlways, PTL

\* A run that completes has left nothing out, whatever failed in it and before it
\* and whoever ran beside it: what it had to create is there, and the artifact and
\* the store hold a view with all of the story's events, or the body of an error
\* that answered a fetch of the view (328-331) in its stead.
THEOREM CompletionIsWhole == Spec => CompleteIsSeeded
<1>1. IInv => \A r \in SeedRuns : Snapshot(r) =>
                /\ Accumulated /\ HoldsAnswer(store) /\ HoldsAnswer(artifact)
                /\ Rerunnable => server.events = [i \in 1 .. NEvents |-> i]
  <2> SUFFICES ASSUME IInv, NEW r \in SeedRuns, Snapshot(r)
               PROVE  /\ Accumulated /\ HoldsAnswer(store) /\ HoldsAnswer(artifact)
                      /\ Rerunnable => server.events = [i \in 1 .. NEvents |-> i]
    OBVIOUS
  <2>1. pc[r] = "snapshot" /\ r \in Runs
    BY DEF Snapshot, Runs
  <2>2. Accumulated /\ Len(server.events) \in Nat /\ Len(server.events) >= NEvents
    BY <2>1, ViewFacts
  <2>3. HoldsAnswer(store) /\ HoldsAnswer(artifact)
    BY <2>1 DEF IInv, Fetched
  <2>4. ASSUME Rerunnable PROVE server.events = [i \in 1 .. NEvents |-> i]
    <3>1. server.events \in Seq(1 .. NEvents)
      BY Parts, ServerFacts
    <3>2. \A i \in 1 .. Len(server.events) : server.events[i] = i
      BY <2>4 DEF IInv, Idempotent
    <3>3. Len(server.events) <= NEvents
      <4>1. CASE Len(server.events) = 0
        BY <4>1, CountFacts
      <4>2. CASE Len(server.events) # 0
        <5>1. Len(server.events) \in 1 .. Len(server.events)
          BY <2>2, <4>2
        <5>2. server.events[Len(server.events)] \in 1 .. NEvents
          BY <3>1, <5>1, ElementOfSeq
        <5>3. QED
          BY <3>2, <5>1, <5>2, CountFacts
      <4>3. QED
        BY <4>1, <4>2
    <3>4. Len(server.events) = NEvents
      BY <2>2, <3>3, CountFacts
    <3>5. \A i \in 1 .. NEvents : server.events[i] = i
      BY <3>2, <3>4
    <3>6. server.events = [i \in 1 .. NEvents |-> server.events[i]]
      BY <3>1, <3>4
    <3>7. QED
      BY <3>5, <3>6
  <2>5. QED
    BY <2>2, <2>3, <2>4
<1>2. QED
  BY <1>1, IInvAlways, PTL DEF CompleteIsSeeded
=============================================================================
