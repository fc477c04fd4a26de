----------------------------- MODULE RecycleGate -----------------------------
(***************************************************************************)
(* What the filter promises the service about deletes: a file leaves the   *)
(* share into staging under a name nobody else carries, and that name is   *)
(* announced at most once.  It is silent about callbacks, slots, ports and *)
(* threads; RbMiniflt implements it.                                       *)
(***************************************************************************)
CONSTANTS
  Files,
  Seqs         \* the sequence numbers a staging name may carry

VARIABLES
  loc,        \* where each file's data is
  pending,    \* staging names whose announcement is on its way
  announced   \* staging names the service was told of

gateVars == <<loc, pending, announced>>

Name == [file : Files, seq : Seqs]

Init ==
  /\ loc = [f \in Files |-> "share"]
  /\ pending = {}
  /\ announced = {}

\* A file is renamed to a new staging name, from the share or, when two
\* deletes of it overlap, from its previous staging name.
Stage(m) ==
  /\ loc[m.file] # "gone"
  /\ \A k \in pending \cup announced : k.seq # m.seq
  /\ loc' = [loc EXCEPT ![m.file] = "stage"]
  /\ pending' = pending \cup {m}
  /\ UNCHANGED announced

Announce(m) ==
  /\ m \in pending
  /\ pending' = pending \ {m}
  /\ announced' = announced \cup {m}
  /\ UNCHANGED loc

\* Announcements are lost without trace; the files stay where they are.
Lose ==
  /\ pending' \subseteq pending
  /\ UNCHANGED <<loc, announced>>

\* The delete goes through: the file is not protected, or policy lets it.
Destroy(f) ==
  /\ loc' = [loc EXCEPT ![f] = "gone"]
  /\ UNCHANGED <<pending, announced>>

Next ==
  \/ \E m \in Name : Stage(m)
  \/ \E m \in pending : Announce(m)
  \/ Lose
  \/ \E f \in Files : Destroy(f)

Spec == Init /\ [][Next]_gateVars
=============================================================================
