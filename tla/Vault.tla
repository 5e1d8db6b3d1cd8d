-------------------------------- MODULE Vault --------------------------------
(***************************************************************************)
(* What the backups promise the commands that read them, whatever the      *)
(* steps of a backup are: a snapshot appears at once or not at all; it     *)
(* holds of every journal at least what was there when its backup began    *)
(* and at most what is there now; the tree head recorded with it counts no *)
(* entry it lacks; and it may be withdrawn at any time. Backup implements  *)
(* it (BackupRefinement).                                                  *)
(***************************************************************************)
EXTENDS Naturals

CONSTANTS
  Journals,      \* the journal files
  Log,           \* the one the tree head counts
  Workers,       \* the processes that may publish a snapshot
  Labels,        \* the names a snapshot may have
  Unavailable,   \* the head of a snapshot taken while the log did not answer
  None           \* no snapshot of this name

VARIABLES
  length,   \* length[j]: the entries of journal j
  since,    \* since[w]: the lengths when w's latest backup began
  snap      \* snap[l]: None, or the lengths captured and the head recorded

vars == <<length, since, snap>>

Lengths == UNION {0 .. length[j] : j \in Journals}

\* The snapshots that a backup begun at since[w] may publish now.
Fresh(w) ==
  {s \in [head : Lengths \cup {Unavailable}, at : [Journals -> Lengths]] :
     /\ \A j \in Journals : since[w][j] <= s.at[j] /\ s.at[j] <= length[j]
     /\ s.head # Unavailable => s.head <= s.at[Log]}

Init ==
  /\ length = [j \in Journals |-> 0]
  /\ since = [w \in Workers |-> [j \in Journals |-> 0]]
  /\ snap = [l \in Labels |-> None]

Grow(j) ==
  /\ length' = [length EXCEPT ![j] = @ + 1]
  /\ UNCHANGED <<since, snap>>

Begin(w) ==
  /\ since' = [since EXCEPT ![w] = length]
  /\ UNCHANGED <<length, snap>>

Publish(w, l) ==
  /\ \E s \in Fresh(w) : snap' = [snap EXCEPT ![l] = s]
  /\ UNCHANGED <<length, since>>

Withdraw(l) ==
  /\ snap' = [snap EXCEPT ![l] = None]
  /\ UNCHANGED <<length, since>>

Next ==
  \/ \E j \in Journals : Grow(j)
  \/ \E w \in Workers : Begin(w)
  \/ \E l \in Labels : Withdraw(l) \/ \E w \in Workers : Publish(w, l)

Spec == Init /\ [][Next]_vars
=============================================================================
