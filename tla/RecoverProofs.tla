---------------------------- MODULE RecoverProofs ----------------------------
(***************************************************************************)
(* Recovery loses nothing, for any files, targets, archive, services and   *)
(* bounds. NothingLost is not inductive: a rename may replace a file and   *)
(* an unpacking cuts one short, so the induction needs what a recovery in  *)
(* each of its steps knows about the names it is about to write.           *)
(***************************************************************************)
EXTENDS Recover, TLAPS

\* The recovery is at one of its targets while it sets them aside.
AtTarget == rec.pc = "aside" => rec.at \in 1 .. Len(Targets)

\* The name a target ahead is going to be moved to is free.
NameFree ==
  rec.pc = "aside" =>
    \A k \in rec.at .. Len(Targets) : \A f \in Files :
      Target[f] = Targets[k] => copy[f][rec.stamp] = Gone

\* No target behind is back.
Cleared ==
  rec.pc = "aside" /\ ~beside =>
    \A k \in 1 .. rec.at - 1 : \A f \in Files :
      Target[f] = Targets[k] => copy[f][Live] = Gone

\* While the archive is unpacked, the live files are the members behind, as
\* archived, and nobody has one open.
Unpacked(f) == \E k \in 1 .. Len(Members) : k < rec.at /\ Members[k] = f
Unpacking ==
  rec.pc = "unpack" /\ ~beside =>
    /\ \A f \in Files : copy[f][Live] = IF Unpacked(f) THEN {0, 1} ELSE Gone
    /\ \A s \in Services : svc[s] # "down" => handle[s] # Live

\* What the check of the pid files is good for: a service with its pid file in
\* run/ keeps it while it is up, and is not up while a recovery runs.
SeenKept ==
  ~beside => \A s \in Seen :
    svc[s] = "up" => pidfile[s] /\ handle[s] = Live /\ rec.pc = "idle"

IInv ==
  /\ TypeOK
  /\ AtTarget
  /\ NameFree
  /\ Cleared
  /\ Unpacking
  /\ SeenKept
  /\ NothingLost

-----------------------------------------------------------------------------
(* The constants, and what an action does to a file *)

\* A live file is not one set aside; the order of the targets is without
\* repetition and has each file's; the members are files, once each.
LEMMA BoundFacts == MaxTime \in Nat /\ MaxEntries \in Nat \ {0} /\ MaxCrashes \in Nat
BY RecoverAssumption

LEMMA PlaceFacts ==
  /\ Live \in Places /\ Live \notin 0 .. MaxTime
  /\ 0 .. MaxTime \subseteq Places
BY RecoverAssumption DEF Live, Places

LEMMA TargetFacts ==
  /\ Len(Targets) \in Nat \ {0}
  /\ \A f \in Files : \E k \in 1 .. Len(Targets) : Target[f] = Targets[k]
  /\ \A j, k \in 1 .. Len(Targets) : Targets[j] = Targets[k] => j = k
<1>1. DOMAIN Targets = 1 .. Len(Targets) /\ Len(Targets) \in Nat
  BY RecoverAssumption
<1>2. ToSet(Targets) = {Targets[k] : k \in 1 .. Len(Targets)}
  BY <1>1, Zenon DEF ToSet
<1>3. \A j, k \in 1 .. Len(Targets) : Targets[j] = Targets[k] => j = k
  BY <1>1, RecoverAssumption, Zenon DEF IsInjective
<1>4. \A f \in Files : \E k \in 1 .. Len(Targets) : Target[f] = Targets[k]
  BY <1>2, RecoverAssumption
<1>5. Len(Targets) # 0
  BY <1>1, <1>2, RecoverAssumption
<1>6. QED
  BY <1>1, <1>3, <1>4, <1>5

LEMMA MemberFacts ==
  /\ Len(Members) \in Nat
  /\ \A k \in 1 .. Len(Members) : Members[k] \in Files
  /\ \A j, k \in 1 .. Len(Members) : Members[j] = Members[k] => j = k
  /\ \A f \in Files :
       Archived(f) = IF \E k \in 1 .. Len(Members) : Members[k] = f THEN {0, 1} ELSE Gone
<1>1. DOMAIN Members = 1 .. Len(Members) /\ Len(Members) \in Nat
  BY RecoverAssumption
<1>2. \A k \in 1 .. Len(Members) : Members[k] \in Files
  BY RecoverAssumption
<1>3. ToSet(Members) = {Members[k] : k \in 1 .. Len(Members)}
  BY <1>1, Zenon DEF ToSet
<1>4. \A j, k \in 1 .. Len(Members) : Members[j] = Members[k] => j = k
  BY <1>1, RecoverAssumption, Zenon DEF IsInjective
<1>5. QED
  BY <1>1, <1>2, <1>3, <1>4 DEF Archived

LEMMA ServiceFacts == (\A s \in Services : Opens[s] \in Files) /\ Seen \subseteq Services
BY RecoverAssumption

\* What a file holds is a set of entries, and an archived member is not gone.
LEMMA ContentFacts ==
  /\ Empty \in SUBSET (0 .. MaxEntries) /\ Empty # Gone
  /\ Gone \in SUBSET (0 .. MaxEntries)
  /\ {0, 1} \in SUBSET (0 .. MaxEntries) /\ {0, 1} # Gone
  /\ \A f \in Files : Archived(f) \in SUBSET (0 .. MaxEntries)
  /\ \A k \in 1 .. Len(Members) : Archived(Members[k]) = {0, 1}
<1>1. /\ {0, 1} \in SUBSET (0 .. MaxEntries) /\ {0} \in SUBSET (0 .. MaxEntries)
      /\ {} \in SUBSET (0 .. MaxEntries) /\ {0} # {} /\ {0, 1} # {}
  BY RecoverAssumption
<1>2. QED
  BY <1>1, MemberFacts DEF Empty, Gone, Archived

\* A write changes one place of one file.
CopyType == copy \in [Files -> [Places -> SUBSET (0 .. MaxEntries)]]
Writes(f, p, c) == copy' = [copy EXCEPT ![f][p] = c]

LEMMA WriteFacts ==
  ASSUME CopyType, NEW f \in Files, NEW p \in Places, NEW c \in SUBSET (0 .. MaxEntries),
         Writes(f, p, c)
  PROVE  /\ CopyType'
         /\ copy'[f][p] = c
         /\ \A g \in Files, q \in Places : g # f \/ q # p => copy'[g][q] = copy[g][q]
<1>1. copy \in [Files -> [Places -> SUBSET (0 .. MaxEntries)]]
  BY DEF CopyType
<1>2. [copy[f] EXCEPT ![p] = c] \in [Places -> SUBSET (0 .. MaxEntries)]
  BY <1>1
<1>3. copy' = [copy EXCEPT ![f] = [copy[f] EXCEPT ![p] = c]]
  BY <1>1 DEF Writes
<1>4. QED
  BY <1>1, <1>2, <1>3 DEF CopyType

\* A renaming moves the live content of some files to the running recovery's
\* stamp.
LEMMA SetAsideFacts ==
  ASSUME TypeOK, SetAside
  PROVE  /\ CopyType'
         /\ \A f \in Files : f \notin Moved(Targets[rec.at]) => copy'[f] = copy[f]
         /\ \A f \in Moved(Targets[rec.at]) :
              /\ f \in Files /\ Target[f] = Targets[rec.at] /\ copy[f][Live] # Gone
              /\ copy'[f][Live] = Gone
              /\ copy'[f][rec.stamp] = copy[f][Live]
              /\ \A q \in Places \ {Live, rec.stamp} : copy'[f][q] = copy[f][q]
<1> DEFINE M == Moved(Targets[rec.at])
           New(f) == [copy[f] EXCEPT ![rec.stamp] = copy[f][Live], ![Live] = Gone]
<1>1. copy' = [f \in Files |-> IF f \in M THEN New(f) ELSE copy[f]]
  BY Zenon DEF SetAside
<1>2. /\ copy \in [Files -> [Places -> SUBSET (0 .. MaxEntries)]]
      /\ rec.stamp \in 0 .. MaxTime
  BY DEF TypeOK
<1>3. \A f \in M : f \in Files /\ Target[f] = Targets[rec.at] /\ copy[f][Live] # Gone
  BY DEF Moved
<1>4. \A f \in Files :
        /\ New(f) \in [Places -> SUBSET (0 .. MaxEntries)]
        /\ New(f)[Live] = Gone /\ New(f)[rec.stamp] = copy[f][Live]
        /\ \A q \in Places \ {Live, rec.stamp} : New(f)[q] = copy[f][q]
  BY <1>2, PlaceFacts, ContentFacts
<1> HIDE DEF M, New
<1>5. CopyType'
  BY <1>1, <1>2, <1>4 DEF CopyType
<1>6. /\ \A f \in Files : f \notin M => copy'[f] = copy[f]
      /\ \A f \in M : copy'[f] = New(f)
  BY <1>1, <1>3
<1>7. QED
  BY <1>3, <1>4, <1>5, <1>6 DEF M

RecType ==
  rec \in [pc : {"idle", "aside", "unpack"}, stamp : 0 .. MaxTime, at : Nat \ {0}]
SvcType ==
  /\ svc \in [Services -> {"down", "up", "stopping"}]
  /\ handle \in [Services -> Places]
  /\ pidfile \in [Services -> BOOLEAN]
OpenIsThere == \A s \in Services : svc[s] # "down" => copy[Opens[s]][handle[s]] # Gone
CountType ==
  /\ now \in 0 .. MaxTime /\ crashes \in 0 .. MaxCrashes
  /\ last \in [Files -> 1 .. MaxEntries] /\ beside \in BOOLEAN

LEMMA TypeParts ==
  TypeOK <=> CopyType /\ RecType /\ SvcType /\ CountType /\ OpenIsThere
BY Zenon DEF TypeOK, CopyType, RecType, SvcType, CountType, OpenIsThere

LEMMA TypePartsNext ==
  CopyType' /\ RecType' /\ SvcType' /\ CountType' /\ OpenIsThere' => TypeOK'
BY Zenon DEF TypeOK, CopyType, RecType, SvcType, CountType, OpenIsThere

\* A service that comes up makes its journal, if it is not there.
LEMMA UpFacts ==
  ASSUME TypeOK, NEW s \in Services, ServiceUp(s)
  PROVE  /\ Opens[s] \in Files /\ CopyType'
         /\ copy'[Opens[s]][Live] = copy[Opens[s]][Live] \cup Empty
         /\ copy'[Opens[s]][Live] # Gone
         /\ \A g \in Files, q \in Places :
              g # Opens[s] \/ q # Live => copy'[g][q] = copy[g][q]
<1> DEFINE f == Opens[s]
           c == copy[f][Live] \cup Empty
<1>t. CopyType
  BY TypeParts
<1>1. f \in Files /\ Live \in Places /\ Writes(f, Live, c)
  BY <1>t, PlaceFacts, ServiceFacts DEF ServiceUp, Writes, CopyType
<1>2. c \in SUBSET (0 .. MaxEntries) /\ c # Gone
  BY <1>t, <1>1, ContentFacts DEF CopyType, Gone
<1> HIDE DEF c
<1>3. /\ CopyType' /\ copy'[f][Live] = c
      /\ \A g \in Files, q \in Places : g # f \/ q # Live => copy'[g][q] = copy[g][q]
  BY <1>t, <1>1, <1>2, WriteFacts
<1>4. QED
  BY <1>1, <1>2, <1>3 DEF c

\* A service appends to the file it has open, which is there.
LEMMA AppendFacts ==
  ASSUME TypeOK, NEW s \in Services, Append1(s)
  PROVE  /\ Opens[s] \in Files /\ handle[s] \in Places /\ CopyType'
         /\ last[Opens[s]] + 1 \in 1 .. MaxEntries
         /\ last' = [last EXCEPT ![Opens[s]] = @ + 1]
         /\ copy[Opens[s]][handle[s]] # Gone
         /\ copy'[Opens[s]][handle[s]] = copy[Opens[s]][handle[s]] \cup {last[Opens[s]] + 1}
         /\ \A g \in Files, q \in Places :
              g # Opens[s] \/ q # handle[s] => copy'[g][q] = copy[g][q]
         /\ UNCHANGED <<now, svcVars, rec, crashes, beside>>
<1> DEFINE f == Opens[s]
           c == copy[f][handle[s]] \cup {last[f] + 1}
<1>t. CopyType /\ SvcType /\ CountType /\ OpenIsThere
  BY TypeParts
<1>1. /\ f \in Files /\ handle[s] \in Places /\ Writes(f, handle[s], c)
      /\ svc[s] # "down"
      /\ last[f] < MaxEntries /\ last' = [last EXCEPT ![f] = @ + 1]
      /\ UNCHANGED <<now, svcVars, rec, crashes, beside>>
  BY <1>t, ServiceFacts DEF Append1, Writes, CopyType, SvcType
<1>2. last[f] + 1 \in 1 .. MaxEntries
  BY <1>t, <1>1, BoundFacts DEF CountType
<1>3. c \in SUBSET (0 .. MaxEntries)
  <2>1. copy[f][handle[s]] \in SUBSET (0 .. MaxEntries)
    BY <1>t, <1>1 DEF CopyType
  <2>2. QED
    BY <1>2, <2>1
<1> HIDE DEF c
<1>4. /\ CopyType' /\ copy'[f][handle[s]] = c
      /\ \A g \in Files, q \in Places : g # f \/ q # handle[s] => copy'[g][q] = copy[g][q]
  <2>1. CopyType
    BY <1>t
  <2>2. QED
    BY <2>1, <1>1, <1>3, WriteFacts
<1>5. copy[f][handle[s]] # Gone
  BY <1>t, <1>1 DEF OpenIsThere
<1>6. QED
  BY <1>1, <1>2, <1>4, <1>5 DEF c

\* What an unpacking does to the files: nothing, or it leaves the member at hand
\* as archived, or, dying, cut short.
LEMMA UnpackFacts ==
  ASSUME TypeOK, Unpack \/ RecoverDone \/ RecoverDies, copy' # copy
  PROVE  \E f \in Files, c \in {{0, 1}, Empty} :
           /\ rec.pc = "unpack" /\ rec.at \in 1 .. Len(Members) /\ f = Members[rec.at]
           /\ CopyType' /\ copy'[f][Live] = c /\ c # Gone
           /\ \A g \in Files, q \in Places : g # f \/ q # Live => copy'[g][q] = copy[g][q]
           /\ Unpack => c = {0, 1}
<1>t. CopyType /\ RecType
  BY TypeParts
<1> DEFINE f == Members[rec.at]
<1>1. PICK c \in {{0, 1}, Empty} :
        /\ rec.pc = "unpack" /\ rec.at \in 1 .. Len(Members)
        /\ Writes(f, Live, c) /\ (Unpack => c = {0, 1})
  <2>1. CASE Unpack
    <3>1. rec.pc = "unpack" /\ rec.at \in 1 .. Len(Members)
      BY <2>1, <1>t, MemberFacts DEF Unpack, RecType
    <3>2. Writes(f, Live, {0, 1})
      BY <2>1, <3>1, ContentFacts DEF Unpack, Writes
    <3>3. QED
      BY <3>1, <3>2
  <2>2. CASE RecoverDies
    <3>1. /\ rec.pc = "unpack" /\ rec.at \in 1 .. Len(Members)
          /\ Writes(f, Live, Empty)
      BY <2>2, <1>t, MemberFacts DEF RecoverDies, Writes, RecType
    <3>2. ~Unpack
      BY <2>2, <3>1, <1>t DEF RecoverDies, Unpack, Idle, RecType
    <3>3. QED
      BY <3>1, <3>2
  <2>3. QED
    BY <2>1, <2>2 DEF RecoverDone
<1>2. f \in Files /\ c \in SUBSET (0 .. MaxEntries) /\ c # Gone
  BY <1>1, ContentFacts, MemberFacts
<1>3. /\ CopyType' /\ copy'[f][Live] = c
      /\ \A g \in Files, q \in Places : g # f \/ q # Live => copy'[g][q] = copy[g][q]
  <2>1. CopyType /\ Live \in Places /\ Writes(f, Live, c)
    BY <1>t, <1>1, PlaceFacts
  <2>2. QED
    BY <2>1, <1>2, WriteFacts
<1>4. QED
  BY <1>1, <1>2, <1>3

-----------------------------------------------------------------------------
(* Types *)

\* Init sets every variable within its type.
LEMMA TypeInit == Init => TypeOK
<1> SUFFICES ASSUME Init PROVE TypeOK
  OBVIOUS
<1>1. CopyType
  BY ContentFacts DEF Init, CopyType
<1>2. RecType
  BY RecoverAssumption DEF Init, Idle, RecType
<1>3. SvcType /\ OpenIsThere
  BY PlaceFacts DEF Init, SvcType, OpenIsThere
<1>4. CountType
  <2>1. now = 0 /\ crashes = MaxCrashes /\ last = [f \in Files |-> 1]
    BY DEF Init
  <2>2. beside \in BOOLEAN
    BY Zenon DEF Init
  <2>3. QED
    BY <2>1, <2>2, RecoverAssumption DEF CountType
<1>5. QED
  BY <1>1, <1>2, <1>3, <1>4, TypeParts

\* Every step keeps the types, and an open file is where its handle says.
LEMMA TypeStep == TypeOK /\ [Next]_vars => TypeOK'
<1> SUFFICES ASSUME TypeOK, [Next]_vars PROVE TypeOK'
  OBVIOUS
<1>t. CopyType /\ RecType /\ SvcType /\ CountType /\ OpenIsThere
  BY TypeParts
<1>1. CASE Tick
  BY <1>1, RecoverAssumption DEF Tick, TypeOK, svcVars
<1>2. ASSUME NEW s \in Services, ServiceUp(s) PROVE TypeOK'
  <2> DEFINE f == Opens[s]
  <2>3. /\ f \in Files /\ CopyType' /\ copy'[f][Live] # Gone
        /\ \A g \in Files, q \in Places : g # f \/ q # Live => copy'[g][q] = copy[g][q]
    BY <1>2, UpFacts
  <2>4. /\ svc' = [svc EXCEPT ![s] = "up"] /\ handle' = [handle EXCEPT ![s] = Live]
        /\ \E b \in BOOLEAN : pidfile' = [pidfile EXCEPT ![s] = b]
        /\ \E b \in BOOLEAN : beside' = (beside \/ b)
        /\ UNCHANGED <<now, last, rec, crashes>>
    BY <1>2, Zenon DEF ServiceUp
  <2>5. SvcType'
    BY <1>t, <2>4, PlaceFacts DEF SvcType
  <2>6. OpenIsThere'
    <3> SUFFICES ASSUME NEW r \in Services, svc'[r] # "down"
                 PROVE  copy'[Opens[r]][handle'[r]] # Gone
      BY DEF OpenIsThere
    <3>1. Opens[r] \in Files /\ Opens[s] \in Files
      BY ServiceFacts
    <3>2. CASE r = s
      BY <1>t, <3>2, <2>3, <2>4 DEF SvcType
    <3>3. CASE r # s
      <4>1. /\ svc[r] # "down" /\ handle'[r] = handle[r] /\ handle[r] \in Places
            /\ copy[Opens[r]][handle[r]] # Gone
        BY <1>t, <3>3, <2>4 DEF SvcType, OpenIsThere
      <4>2. CASE Opens[r] = f /\ handle[r] = Live
        BY <4>1, <4>2, <2>3
      <4>3. CASE ~(Opens[r] = f /\ handle[r] = Live)
        BY <3>1, <4>1, <4>3, <2>3
      <4>4. QED
        BY <4>2, <4>3
    <3>4. QED
      BY <3>2, <3>3
  <2>7. RecType' /\ CountType'
    BY <1>t, <2>4, Zenon DEF RecType, CountType
  <2>8. QED
    BY <2>3, <2>5, <2>6, <2>7, TypePartsNext
<1>3. ASSUME NEW s \in Services, Append1(s) PROVE TypeOK'
  <2> DEFINE f == Opens[s]
  <2>1. /\ f \in Files /\ handle[s] \in Places /\ CopyType'
        /\ last[f] + 1 \in 1 .. MaxEntries /\ last' = [last EXCEPT ![f] = @ + 1]
        /\ copy'[f][handle[s]] # Gone
        /\ \A g \in Files, q \in Places :
             g # f \/ q # handle[s] => copy'[g][q] = copy[g][q]
        /\ UNCHANGED <<now, svcVars, rec, crashes, beside>>
    BY <1>3, AppendFacts DEF Gone
  <2>2. OpenIsThere'
    BY <1>t, <2>1, ServiceFacts DEF OpenIsThere, SvcType, svcVars
  <2>3. RecType' /\ SvcType'
    BY <1>t, <2>1 DEF RecType, SvcType, svcVars
  <2>4. CountType'
    BY <1>t, <2>1 DEF CountType
  <2>5. QED
    BY <2>1, <2>2, <2>3, <2>4, TypePartsNext
<1>4. ASSUME NEW s \in Services, ServiceDown(s) \/ ServiceGone(s) PROVE TypeOK'
  <2>1. /\ \E v \in {"stopping", "down"} : svc' = [svc EXCEPT ![s] = v]
        /\ svc[s] # "down" /\ handle' = handle
        /\ pidfile' = pidfile \/ pidfile' = [pidfile EXCEPT ![s] = FALSE]
        /\ UNCHANGED <<now, copy, last, rec, crashes, beside>>
    BY <1>4 DEF ServiceDown, ServiceGone
  <2>2. SvcType'
    BY <1>t, <2>1 DEF SvcType
  <2>3. OpenIsThere'
    BY <1>t, <2>1 DEF OpenIsThere, SvcType
  <2>4. CopyType' /\ RecType' /\ CountType'
    BY <1>t, <2>1, Zenon DEF CopyType, RecType, CountType
  <2>5. QED
    BY <2>2, <2>3, <2>4, TypePartsNext
<1>5. ASSUME NEW force \in BOOLEAN, RecoverStart(force) PROVE TypeOK'
  <2>1. /\ rec' = [pc |-> "aside", stamp |-> now, at |-> 1]
        /\ UNCHANGED <<now, copy, last, svcVars, crashes, beside>>
    BY <1>5, Zenon DEF RecoverStart, Stamp
  <2>2. RecType'
    BY <1>t, <2>1 DEF RecType, CountType
  <2>3. CopyType' /\ SvcType' /\ CountType' /\ OpenIsThere'
    BY <1>t, <2>1, Zenon DEF CopyType, SvcType, CountType, OpenIsThere, svcVars
  <2>4. QED
    BY <2>2, <2>3, TypePartsNext
<1>6. CASE SetAside
  <2> DEFINE M == Moved(Targets[rec.at])
  <2>1. /\ handle' = [s \in Services |->
                        IF handle[s] = Live /\ Opens[s] \in M THEN rec.stamp ELSE handle[s]]
        /\ pidfile' = [s \in Services |-> pidfile[s] /\ Targets[rec.at] # RunDir]
        /\ UNCHANGED <<now, last, svc, crashes, beside>>
    BY <1>6, Zenon DEF SetAside
  <2>2. /\ CopyType'
        /\ \A f \in Files : f \notin M => copy'[f] = copy[f]
        /\ \A f \in M : copy'[f][rec.stamp] = copy[f][Live] /\ copy[f][Live] # Gone
        /\ \A f \in M : \A q \in Places \ {Live, rec.stamp} : copy'[f][q] = copy[f][q]
    BY <1>6, SetAsideFacts
  <2> HIDE DEF M
  <2>3. rec.stamp \in 0 .. MaxTime
    BY <1>t DEF RecType
  <2>4. SvcType'
    BY <1>t, <2>1, <2>3, PlaceFacts DEF SvcType
  <2>5. RecType'
    <3>1. \/ rec' = [pc |-> "unpack", stamp |-> rec.stamp, at |-> 1]
          \/ rec' = [rec EXCEPT !.at = rec.at + 1]
      BY <1>6, <1>t DEF SetAside, RecType
    <3>2. QED
      BY <3>1, <1>t DEF RecType
  <2>6. OpenIsThere'
    <3> SUFFICES ASSUME NEW s \in Services, svc[s] # "down"
                 PROVE  copy'[Opens[s]][handle'[s]] # Gone
      BY <2>1, Zenon DEF OpenIsThere
    <3>1. Opens[s] \in Files /\ copy[Opens[s]][handle[s]] # Gone /\ handle[s] \in Places
      BY <1>t, RecoverAssumption DEF OpenIsThere, SvcType
    <3>2. QED
      BY <2>1, <2>2, <3>1
  <2>7. CountType'
    BY <1>t, <2>1, Zenon DEF CountType
  <2>8. QED
    BY <2>2, <2>4, <2>5, <2>6, <2>7, TypePartsNext
<1>7. CASE Unpack \/ RecoverDone \/ RecoverDies
  <2>1. RecType'
    <3>1. \/ rec' = [rec EXCEPT !.at = rec.at + 1]
          \/ rec' = [pc |-> "idle", stamp |-> 0, at |-> 1]
      BY <1>7 DEF Unpack, RecoverDone, RecoverDies, Idle
    <3>2. 0 \in 0 .. MaxTime
      BY RecoverAssumption
    <3>3. QED
      BY <3>1, <3>2, <1>t DEF RecType
  <2>2. CountType' /\ SvcType' /\ svc' = svc /\ handle' = handle
    <3>1. /\ crashes' = crashes \/ (crashes > 0 /\ crashes' = crashes - 1)
          /\ UNCHANGED <<now, last, svcVars, beside>>
      <4>1. CASE Unpack \/ RecoverDone
        BY <4>1, Zenon DEF Unpack, RecoverDone
      <4>2. CASE RecoverDies
        BY <4>2, Zenon DEF RecoverDies
      <4>3. QED
        BY <1>7, <4>1, <4>2
    <3>2. crashes' \in 0 .. MaxCrashes
      <4>1. crashes \in 0 .. MaxCrashes
        BY <1>t DEF CountType
      <4>2. QED
        BY <3>1, <4>1, BoundFacts
    <3>3. QED
      BY <3>1, <3>2, <1>t, Zenon DEF CountType, SvcType, svcVars
  <2>3. CopyType' /\ OpenIsThere'
    <3>1. CASE copy' = copy
      BY <3>1, <2>2, <1>t DEF CopyType, OpenIsThere
    <3>2. CASE copy' # copy
      <4>1. PICK f \in Files :
              /\ CopyType' /\ copy'[f][Live] # Gone
              /\ \A g \in Files, q \in Places :
                   g # f \/ q # Live => copy'[g][q] = copy[g][q]
        BY <1>7, <3>2, UnpackFacts
      <4>2. OpenIsThere'
        BY <1>t, <4>1, <2>2, ServiceFacts DEF OpenIsThere, SvcType
      <4>3. QED
        BY <4>1, <4>2
    <3>3. QED
      BY <3>1, <3>2
  <2>4. QED
    BY <2>1, <2>2, <2>3, TypePartsNext
<1>8. CASE UNCHANGED vars
  BY <1>8, <1>t, TypePartsNext
  DEF vars, svcVars, CopyType, RecType, SvcType, CountType, OpenIsThere
<1>9. QED
  BY <1>1, <1>2, <1>3, <1>4, <1>5, <1>6, <1>7, <1>8
  DEF Next, ServiceStep, RecoverStep

-----------------------------------------------------------------------------
(* What a recovery knows *)

\* A service adds to files that are there, takes nothing away, and comes up
\* beside a running recovery only to be counted so.
LEMMA ServiceFrame ==
  ASSUME TypeOK, NEW s \in Services, ServiceStep(s)
  PROVE  /\ rec' = rec /\ (beside => beside')
         /\ \A f \in Files, p \in Places : copy[f][p] \subseteq copy'[f][p]
         /\ \A f \in Files, p \in Places \ {Live} : copy[f][p] = Gone => copy'[f][p] = Gone
         /\ rec.pc # "idle" /\ ~beside' =>
              /\ handle' = handle /\ \A r \in Services : svc'[r] # "down" => svc[r] # "down"
              /\ \A f \in Files : copy[f][Live] = Gone => copy'[f][Live] = Gone
         /\ rec.pc # "idle" /\ ~beside' =>
              /\ svc[s] # "down"
              /\ handle[s] # Live => \A f \in Files : copy'[f][Live] = copy[f][Live]
<1>t. SvcType
  BY TypeParts
<1>1. CASE ServiceUp(s)
  <2>1. /\ rec' = rec /\ (beside => beside') /\ (rec.pc # "idle" => beside')
    BY <1>1, Zenon DEF ServiceUp
  <2>2. /\ Opens[s] \in Files
        /\ copy'[Opens[s]][Live] = copy[Opens[s]][Live] \cup Empty
        /\ \A g \in Files, q \in Places :
             g # Opens[s] \/ q # Live => copy'[g][q] = copy[g][q]
    BY <1>1, UpFacts
  <2>3. QED
    BY <2>1, <2>2
<1>2. CASE Append1(s)
  <2>1. /\ Opens[s] \in Files /\ handle[s] \in Places
        /\ copy[Opens[s]][handle[s]] # Gone
        /\ copy'[Opens[s]][handle[s]] = copy[Opens[s]][handle[s]] \cup {last[Opens[s]] + 1}
        /\ \A g \in Files, q \in Places :
             g # Opens[s] \/ q # handle[s] => copy'[g][q] = copy[g][q]
    BY <1>2, AppendFacts
  <2>2. /\ rec' = rec /\ (beside => beside') /\ handle' = handle /\ svc[s] # "down"
        /\ \A r \in Services : svc'[r] # "down" => svc[r] # "down"
    BY <1>2, AppendFacts DEF svcVars, Append1
  <2>3. QED
    BY <2>1, <2>2, PlaceFacts
<1>3. CASE ServiceDown(s) \/ ServiceGone(s)
  <2>1. /\ rec' = rec /\ beside' = beside /\ handle' = handle /\ copy' = copy
        /\ svc[s] # "down" /\ \E v \in {"stopping", "down"} : svc' = [svc EXCEPT ![s] = v]
    BY <1>3 DEF ServiceDown, ServiceGone
  <2>2. \A r \in Services : svc'[r] # "down" => svc[r] # "down"
    BY <1>t, <2>1 DEF SvcType
  <2>3. QED
    BY <2>1, <2>2
<1>4. QED
  BY <1>1, <1>2, <1>3 DEF ServiceStep

\* A renaming goes on to the next target, and from the last one to the unpacking.
LEMMA SetAsideNext ==
  ASSUME TypeOK, AtTarget, SetAside
  PROVE  /\ rec.pc = "aside" /\ rec.at \in 1 .. Len(Targets) /\ beside' = beside
         /\ rec'.stamp = rec.stamp
         /\ \/ rec.at = Len(Targets) /\ rec'.pc = "unpack" /\ rec'.at = 1
            \/ rec.at < Len(Targets) /\ rec'.pc = "aside" /\ rec'.at = rec.at + 1
<1>1. RecType
  BY TypeParts
<1>2. /\ rec.pc = "aside" /\ beside' = beside
      /\ rec' = IF rec.at = Len(Targets) THEN [rec EXCEPT !.pc = "unpack", !.at = 1]
                ELSE [rec EXCEPT !.at = @ + 1]
  BY Zenon DEF SetAside
<1>3. rec.at \in 1 .. Len(Targets)
  BY <1>2 DEF AtTarget
<1>4. QED
  BY <1>1, <1>2, <1>3, TargetFacts DEF RecType

\* The renaming of the targets, and what it has found and left.
Setting == AtTarget /\ NameFree /\ Cleared

LEMMA SettingStep == TypeOK /\ Setting /\ [Next]_vars => Setting'
<1> SUFFICES ASSUME TypeOK, Setting, [Next]_vars PROVE Setting'
  OBVIOUS
<1>t. AtTarget /\ NameFree /\ Cleared /\ CopyType /\ RecType
  BY TypeParts DEF Setting
<1>1. CASE Tick \/ UNCHANGED vars
  <2>1. UNCHANGED <<copy, rec, beside>>
    BY <1>1 DEF Tick, vars
  <2>2. QED
    BY <1>t, <2>1, Zenon DEF Setting, AtTarget, NameFree, Cleared
<1>2. ASSUME NEW s \in Services, ServiceStep(s) PROVE Setting'
  <2>1. /\ rec' = rec /\ (beside => beside')
        /\ \A f \in Files, p \in Places \ {Live} : copy[f][p] = Gone => copy'[f][p] = Gone
        /\ rec.pc # "idle" /\ ~beside' =>
             \A f \in Files : copy[f][Live] = Gone => copy'[f][Live] = Gone
    BY <1>2, ServiceFrame
  <2>2. rec.stamp \in Places \ {Live}
    BY <1>t, PlaceFacts DEF RecType
  <2>3. AtTarget' /\ NameFree'
    BY <1>t, <2>1, <2>2 DEF AtTarget, NameFree
  <2>4. Cleared'
    BY <1>t, <2>1 DEF Cleared
  <2>5. QED
    BY <2>3, <2>4 DEF Setting
<1>3. ASSUME NEW force \in BOOLEAN, RecoverStart(force) PROVE Setting'
  <2>1. /\ rec' = [pc |-> "aside", stamp |-> now, at |-> 1] /\ copy' = copy
        /\ ~SetAsideAt(now)
    BY <1>3, Zenon DEF RecoverStart, Stamp
  <2>2. \A f \in Files : copy'[f][rec'.stamp] = Gone
    BY <2>1 DEF SetAsideAt
  <2>3. QED
    BY <2>1, <2>2, TargetFacts DEF Setting, AtTarget, NameFree, Cleared
<1>4. CASE SetAside
  <2> DEFINE M == Moved(Targets[rec.at])
  <2>1. /\ rec.pc = "aside" /\ rec.at \in 1 .. Len(Targets) /\ beside' = beside
        /\ rec'.stamp = rec.stamp
        /\ \/ rec.at = Len(Targets) /\ rec'.pc = "unpack" /\ rec'.at = 1
           \/ rec.at < Len(Targets) /\ rec'.pc = "aside" /\ rec'.at = rec.at + 1
    BY <1>4, <1>t, SetAsideNext
  <2>2. /\ \A f \in Files : f \notin M => copy'[f] = copy[f]
        /\ \A f \in M : Target[f] = Targets[rec.at] /\ copy'[f][Live] = Gone
    BY <1>4, SetAsideFacts
  <2>3. \A f \in Files : Target[f] = Targets[rec.at] => copy'[f][Live] = Gone
    BY <2>2 DEF Moved
  <2> HIDE DEF M
  <2>4. AtTarget'
    BY <2>1 DEF AtTarget
  <2>5. NameFree'
    <3> SUFFICES ASSUME rec'.pc = "aside", NEW k \in rec.at + 1 .. Len(Targets),
                        NEW f \in Files, Target[f] = Targets[k]
                 PROVE  copy'[f][rec.stamp] = Gone
      BY <2>1 DEF NameFree
    <3>1. k \in rec.at .. Len(Targets) /\ Targets[k] # Targets[rec.at]
      BY <2>1, TargetFacts
    <3>2. QED
      BY <1>t, <2>1, <2>2, <3>1 DEF NameFree
  <2>6. Cleared'
    <3> SUFFICES ASSUME rec'.pc = "aside", ~beside, NEW k \in 1 .. rec.at,
                        NEW f \in Files, Target[f] = Targets[k]
                 PROVE  copy'[f][Live] = Gone
      BY <2>1 DEF Cleared
    <3>1. CASE k = rec.at
      BY <2>3, <3>1
    <3>2. CASE k # rec.at
      <4>1. k \in 1 .. rec.at - 1
        BY <2>1, <3>2
      <4>2. copy[f][Live] = Gone
        BY <1>t, <2>1, <4>1 DEF Cleared
      <4>3. QED
        BY <2>2, <4>2
    <3>3. QED
      BY <3>1, <3>2
  <2>7. QED
    BY <2>4, <2>5, <2>6 DEF Setting
<1>5. CASE Unpack \/ RecoverDone \/ RecoverDies
  <2>1. rec'.pc # "aside"
    BY <1>5, <1>t DEF Unpack, RecoverDone, RecoverDies, Idle, RecType
  <2>2. QED
    BY <2>1 DEF Setting, AtTarget, NameFree, Cleared
<1>6. QED
  BY <1>1, <1>2, <1>3, <1>4, <1>5 DEF Next, RecoverStep

\* The archive's unpacking into what the renaming has left.
LEMMA UnpackingStep ==
  TypeOK /\ TypeOK' /\ Setting /\ Unpacking /\ [Next]_vars => Unpacking'
<1> SUFFICES ASSUME TypeOK, TypeOK', Setting, Unpacking, [Next]_vars,
                    rec'.pc = "unpack", ~beside'
             PROVE  Unpacking'
  BY DEF Unpacking
<1>t. AtTarget /\ NameFree /\ Cleared /\ CopyType /\ RecType
  BY TypeParts DEF Setting
<1>1. CASE Tick \/ UNCHANGED vars
  <2>1. UNCHANGED <<copy, rec, beside, svc, handle>>
    BY <1>1 DEF Tick, vars, svcVars
  <2>2. QED
    BY <2>1, Zenon DEF Unpacking, Unpacked
<1>2. ASSUME NEW s \in Services, ServiceStep(s) PROVE Unpacking'
  <2>1. /\ rec' = rec /\ rec.pc = "unpack" /\ ~beside /\ handle' = handle
        /\ svc[s] # "down" /\ \A r \in Services : svc'[r] # "down" => svc[r] # "down"
        /\ handle[s] # Live => \A f \in Files : copy'[f][Live] = copy[f][Live]
    <3>1. rec' = rec /\ (beside => beside')
      BY <1>2, ServiceFrame
    <3>2. rec.pc = "unpack"
      BY <3>1
    <3>3. QED
      BY <1>2, <3>1, <3>2, ServiceFrame
  <2>2. \A f \in Files : copy'[f][Live] = copy[f][Live]
    BY <2>1 DEF Unpacking
  <2>3. QED
    BY <2>1, <2>2 DEF Unpacking, Unpacked
<1>3. ASSUME NEW force \in BOOLEAN, RecoverStart(force) PROVE Unpacking'
  <2>1. rec'.pc = "aside"
    BY <1>3 DEF RecoverStart
  <2>2. QED
    BY <2>1
<1>4. CASE SetAside
  <2>1. /\ rec.pc = "aside" /\ rec.at = Len(Targets) /\ ~beside /\ rec'.at = 1
    BY <1>4, <1>t, SetAsideNext
  <2>2. /\ \A f \in Files : f \notin Moved(Targets[rec.at]) => copy'[f] = copy[f]
        /\ \A f \in Moved(Targets[rec.at]) : copy'[f][Live] = Gone
    BY <1>4, SetAsideFacts
  <2>3. \A f \in Files : copy'[f][Live] = Gone
    <3> SUFFICES ASSUME NEW f \in Files PROVE copy'[f][Live] = Gone
      OBVIOUS
    <3>1. PICK k \in 1 .. Len(Targets) : Target[f] = Targets[k]
      BY TargetFacts
    <3>2. CASE k = rec.at
      BY <2>2, <3>1, <3>2 DEF Moved
    <3>3. CASE k # rec.at
      <4>1. k \in 1 .. rec.at - 1
        BY <2>1, <3>3, TargetFacts
      <4>2. copy[f][Live] = Gone
        BY <1>t, <2>1, <3>1, <4>1 DEF Cleared
      <4>3. QED
        BY <2>2, <4>2
    <3>4. QED
      BY <3>2, <3>3
  <2>4. \A s \in Services : svc'[s] # "down" => handle'[s] # Live
    <3>1. \A s \in Services : svc'[s] # "down" => copy'[Opens[s]][handle'[s]] # Gone
      BY DEF TypeOK
    <3>2. QED
      BY <2>3, <3>1, ServiceFacts
  <2>5. \A f \in Files : ~Unpacked(f)'
    BY <2>1, MemberFacts DEF Unpacked
  <2>6. QED
    BY <2>3, <2>4, <2>5 DEF Unpacking
<1>5. CASE Unpack
  <2>1. /\ rec.pc = "unpack" /\ rec' = [rec EXCEPT !.at = @ + 1] /\ ~beside
        /\ UNCHANGED svcVars /\ rec.at <= Len(Members)
    BY <1>5 DEF Unpack
  <2>2. rec.at \in 1 .. Len(Members) /\ rec'.at = rec.at + 1
    BY <2>1, <1>t, MemberFacts DEF RecType
  <2>3. /\ Members[rec.at] \in Files /\ copy'[Members[rec.at]][Live] = {0, 1}
        /\ \A g \in Files : g # Members[rec.at] => copy'[g][Live] = copy[g][Live]
    <3>1. CASE copy' = copy
      <4>1. copy' = [copy EXCEPT ![Members[rec.at]][Live] = {0, 1}]
        BY <1>5, <2>2, ContentFacts DEF Unpack
      <4>2. Members[rec.at] \in Files
        BY <2>2, MemberFacts
      <4>3. copy'[Members[rec.at]][Live] = {0, 1}
        BY <1>t, <4>1, <4>2, PlaceFacts DEF CopyType
      <4>4. QED
        BY <3>1, <4>2, <4>3
    <3>2. CASE copy' # copy
      BY <1>5, <3>2, UnpackFacts, PlaceFacts
    <3>3. QED
      BY <3>1, <3>2
  <2>4. \A f \in Files : Unpacked(f)' <=> Unpacked(f) \/ f = Members[rec.at]
    BY <2>2 DEF Unpacked
  <2>5. \A f \in Files : copy'[f][Live] = IF Unpacked(f)' THEN {0, 1} ELSE Gone
    BY <2>1, <2>3, <2>4 DEF Unpacking
  <2>6. \A s \in Services : svc'[s] # "down" => handle'[s] # Live
    BY <2>1 DEF Unpacking, svcVars
  <2>7. QED
    BY <2>5, <2>6 DEF Unpacking
<1>6. CASE RecoverDone \/ RecoverDies
  <2>1. rec'.pc = "idle"
    BY <1>6 DEF RecoverDone, RecoverDies, Idle
  <2>2. QED
    BY <2>1
<1>7. QED
  BY <1>1, <1>2, <1>3, <1>4, <1>5, <1>6 DEF Next, RecoverStep

\* The check of the pid files, and what keeps it true while the recovery runs.
LEMMA SeenKeptStep == TypeOK /\ SeenKept /\ [Next]_vars => SeenKept'
<1> SUFFICES ASSUME TypeOK, SeenKept, [Next]_vars, ~beside' PROVE SeenKept'
  BY DEF SeenKept
<1>t. SvcType
  BY TypeParts
<1>1. CASE Tick \/ UNCHANGED vars
  <2>1. UNCHANGED <<rec, beside, svc, handle, pidfile>>
    BY <1>1 DEF Tick, vars, svcVars
  <2>2. QED
    BY <2>1, Zenon DEF SeenKept
<1>2. ASSUME NEW s \in Services, ServiceStep(s) PROVE SeenKept'
  <2>1. CASE ServiceUp(s)
    <3>1. /\ rec' = rec /\ rec.pc = "idle" /\ ~beside
          /\ svc' = [svc EXCEPT ![s] = "up"] /\ handle' = [handle EXCEPT ![s] = Live]
          /\ pidfile' = [pidfile EXCEPT ![s] = TRUE]
      BY <2>1 DEF ServiceUp
    <3>2. QED
      BY <1>t, <3>1, ServiceFacts DEF SeenKept, SvcType
  <2>2. CASE Append1(s)
    BY <2>2, Zenon DEF Append1, SeenKept, svcVars
  <2>3. CASE ServiceDown(s) \/ ServiceGone(s)
    <3>1. /\ rec' = rec /\ beside' = beside /\ handle' = handle
          /\ \E v \in {"stopping", "down"} : svc' = [svc EXCEPT ![s] = v]
          /\ pidfile' = pidfile \/ pidfile' = [pidfile EXCEPT ![s] = FALSE]
      BY <2>3 DEF ServiceDown, ServiceGone
    <3>2. QED
      BY <1>t, <3>1, ServiceFacts DEF SeenKept, SvcType
  <2>4. QED
    BY <1>2, <2>1, <2>2, <2>3 DEF ServiceStep
<1>3. ASSUME NEW force \in BOOLEAN, RecoverStart(force) PROVE SeenKept'
  <2>1. /\ \A s \in Seen : ~(pidfile[s] /\ svc[s] # "down")
        /\ UNCHANGED <<svc, beside>>
    BY <1>3 DEF RecoverStart, Refused, svcVars
  <2>2. QED
    BY <2>1 DEF SeenKept
<1>4. CASE RecoverStep
  <2>1. svc' = svc /\ beside' = beside /\ rec.pc # "idle"
    BY <1>4 DEF RecoverStep, SetAside, Unpack, RecoverDone, RecoverDies, svcVars
  <2>2. QED
    BY <2>1 DEF SeenKept
<1>5. QED
  BY <1>1, <1>2, <1>3, <1>4 DEF Next

-----------------------------------------------------------------------------
(* Nothing is lost *)

\* An entry that some file holds is still held by one after the step: a renaming
\* moves it to a free name, an unpacking writes where nothing is.
LEMMA LostStep ==
  TypeOK /\ Setting /\ Unpacking /\ NothingLost /\ [Next]_vars => NothingLost'
<1> SUFFICES ASSUME TypeOK, Setting, Unpacking, NothingLost, [Next]_vars, ~beside'
             PROVE  NothingLost'
  BY DEF NothingLost
<1>t. AtTarget /\ NameFree /\ Cleared /\ CopyType /\ RecType /\ CountType
  BY TypeParts DEF Setting
<1>1. CASE Tick \/ UNCHANGED vars
  <2>1. UNCHANGED <<copy, last, beside>>
    BY <1>1 DEF Tick, vars
  <2>2. QED
    BY <2>1, Zenon DEF NothingLost
<1>2. ASSUME NEW s \in Services, ServiceStep(s) PROVE NothingLost'
  <2>1. ~beside /\ \A f \in Files, p \in Places : copy[f][p] \subseteq copy'[f][p]
    BY <1>2, ServiceFrame
  <2>2. CASE Append1(s)
    <3> DEFINE g == Opens[s]
    <3>1. /\ g \in Files /\ handle[s] \in Places
          /\ last' = [last EXCEPT ![g] = @ + 1]
          /\ last[g] + 1 \in copy'[g][handle[s]]
      BY <2>2, AppendFacts
    <3> SUFFICES ASSUME NEW f \in Files, NEW e \in 2 .. last'[f]
                 PROVE  \E p \in Places : e \in copy'[f][p]
      BY DEF NothingLost
    <3>2. last[f] \in Nat /\ last[g] \in Nat
      BY <1>t, <3>1, BoundFacts DEF CountType
    <3>3. last'[f] = IF f = g THEN last[g] + 1 ELSE last[f]
      BY <1>t, <3>1 DEF CountType
    <3>4. CASE f = g /\ e = last[g] + 1
      BY <3>1, <3>4
    <3>5. CASE ~(f = g /\ e = last[g] + 1)
      <4>1. e \in 2 .. last[f]
        BY <3>2, <3>3, <3>5
      <4>2. QED
        BY <2>1, <4>1 DEF NothingLost
    <3>6. QED
      BY <3>4, <3>5
  <2>3. CASE ~Append1(s)
    <3>1. last' = last
      BY <1>2, <2>3 DEF ServiceStep, ServiceUp, ServiceDown, ServiceGone
    <3>2. QED
      BY <2>1, <3>1 DEF NothingLost
  <2>4. QED
    BY <2>2, <2>3
<1>3. ASSUME NEW force \in BOOLEAN, RecoverStart(force) PROVE NothingLost'
  <2>1. UNCHANGED <<copy, last, beside>>
    BY <1>3 DEF RecoverStart
  <2>2. QED
    BY <2>1, Zenon DEF NothingLost
<1>4. CASE SetAside
  <2> DEFINE M == Moved(Targets[rec.at])
  <2>1. /\ rec.pc = "aside" /\ rec.at \in 1 .. Len(Targets) /\ beside' = beside
        /\ last' = last
    BY <1>4, <1>t, SetAsideNext DEF SetAside
  <2>2. /\ \A f \in Files : f \notin M => copy'[f] = copy[f]
        /\ \A f \in M :
             /\ f \in Files /\ Target[f] = Targets[rec.at]
             /\ copy'[f][rec.stamp] = copy[f][Live]
             /\ \A q \in Places \ {Live, rec.stamp} : copy'[f][q] = copy[f][q]
    BY <1>4, SetAsideFacts
  <2>3. rec.stamp \in Places
    BY <1>t, PlaceFacts DEF RecType
  <2>4. \A f \in M : copy[f][rec.stamp] = Gone
    <3>1. rec.at \in rec.at .. Len(Targets)
      BY <2>1, TargetFacts
    <3>2. QED
      BY <1>t, <2>1, <2>2, <3>1 DEF NameFree
  <2> HIDE DEF M
  <2> SUFFICES ASSUME NEW f \in Files, NEW e \in 2 .. last[f]
               PROVE  \E p \in Places : e \in copy'[f][p]
    BY <2>1 DEF NothingLost
  <2>5. PICK p \in Places : e \in copy[f][p]
    BY <2>1 DEF NothingLost
  <2>6. CASE f \in M
    <3>1. p # rec.stamp
      BY <2>4, <2>5, <2>6 DEF Gone
    <3>2. QED
      BY <2>2, <2>3, <2>5, <2>6, <3>1
  <2>7. CASE f \notin M
    BY <2>2, <2>5, <2>7
  <2>8. QED
    BY <2>6, <2>7
<1>5. CASE Unpack \/ RecoverDone \/ RecoverDies
  <2>1. beside' = beside /\ last' = last
    BY <1>5 DEF Unpack, RecoverDone, RecoverDies
  <2>2. CASE copy' = copy
    BY <2>1, <2>2, Zenon DEF NothingLost
  <2>3. CASE copy' # copy
    <3>1. PICK f \in Files :
            /\ rec.pc = "unpack" /\ rec.at \in 1 .. Len(Members) /\ f = Members[rec.at]
            /\ \A g \in Files, q \in Places :
                 g # f \/ q # Live => copy'[g][q] = copy[g][q]
      BY <1>5, <2>3, UnpackFacts
    <3>2. ~Unpacked(f)
      BY <3>1, MemberFacts DEF Unpacked
    <3>3. copy[f][Live] = Gone
      BY <2>1, <3>1, <3>2 DEF Unpacking
    <3>4. QED
      BY <2>1, <3>1, <3>3 DEF NothingLost, Gone
  <2>4. QED
    BY <2>2, <2>3
<1>6. QED
  BY <1>1, <1>2, <1>3, <1>4, <1>5 DEF Next, RecoverStep

-----------------------------------------------------------------------------
(* The theorems *)

LEMMA IInvInit == Init => IInv
<1> SUFFICES ASSUME Init PROVE IInv
  OBVIOUS
<1>1. rec.pc = "idle" /\ svc = [s \in Services |-> "down"] /\ last = [f \in Files |-> 1]
  BY DEF Init, Idle
<1>2. AtTarget /\ NameFree /\ Cleared /\ Unpacking
  BY <1>1 DEF AtTarget, NameFree, Cleared, Unpacking
<1>3. SeenKept /\ NothingLost
  BY <1>1, ServiceFacts DEF SeenKept, NothingLost
<1>4. QED
  BY <1>2, <1>3, TypeInit DEF IInv

LEMMA IInvStep == IInv /\ [Next]_vars => IInv'
<1> SUFFICES ASSUME IInv, [Next]_vars PROVE IInv'
  OBVIOUS
<1>1. TypeOK /\ Setting /\ Unpacking /\ SeenKept /\ NothingLost
  BY DEF IInv, Setting
<1>2. TypeOK'
  BY <1>1, TypeStep
<1>3. Setting' /\ Unpacking' /\ SeenKept' /\ NothingLost'
  BY <1>1, <1>2, SettingStep, UnpackingStep, SeenKeptStep, LostStep
<1>4. QED
  BY <1>2, <1>3 DEF IInv, Setting

LEMMA IInvAlways == Spec => []IInv
  BY IInvInit, IInvStep, PTL DEF Spec

\* Every variable keeps its shape, and a file that a service has open is there,
\* wherever a rename has moved it.
THEOREM TypeCorrect == Spec => []TypeOK
<1>1. IInv => TypeOK
  BY DEF IInv
<1>2. QED
  BY <1>1, IInvAlways, PTL

\* "Renamed aside, never deleted" (recover.rs 5-8): whatever died, was forced, or
\* was still up, every entry is in some file, if no service was started beside a
\* recovery - for any number of files, targets, services, attempts and seconds.
THEOREM NeverDeleted == Spec => []NothingLost
<1>1. IInv => NothingLost
  BY DEF IInv
<1>2. QED
  BY <1>1, IInvAlways, PTL

\* "Refuse while any is up" (18-19): the services whose pid file recover looks at
\* write the live journals.
THEOREM SeenWriteLive == Spec => []SeenNotStranded
<1>1. IInv => SeenNotStranded
  BY DEF IInv, SeenKept, SeenNotStranded
<1>2. QED
  BY <1>1, IInvAlways, PTL

\* A recovery that reports done has left the archive's files and nothing else.
THEOREM DoneIsArchive == Spec => RecoveredIsArchive
<1>1. IInv /\ RecoverDone /\ ~beside => \A f \in Files : copy[f][Live] = Archived(f)
  <2> SUFFICES ASSUME IInv, RecoverDone, ~beside, NEW f \in Files
               PROVE  copy[f][Live] = Archived(f)
    OBVIOUS
  <2>1. /\ rec.pc = "unpack" /\ rec.at > Len(Members) /\ rec.at \in Nat
        /\ copy[f][Live] = IF Unpacked(f) THEN {0, 1} ELSE Gone
    BY DEF IInv, TypeOK, Unpacking, RecoverDone
  <2>2. Unpacked(f) <=> \E k \in 1 .. Len(Members) : Members[k] = f
    BY <2>1, MemberFacts DEF Unpacked
  <2>3. QED
    BY <2>1, <2>2, MemberFacts
<1>2. QED
  BY <1>1, IInvAlways, PTL DEF RecoveredIsArchive
=============================================================================
