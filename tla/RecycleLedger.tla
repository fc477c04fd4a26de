---------------------------- MODULE RecycleLedger ----------------------------
(***************************************************************************)
(* What a client of the REST API may rely on: how the status of an item    *)
(* and the outcome of a command may change.  It is silent about files,     *)
(* threads and batches; RbLifecycle implements it.                         *)
(***************************************************************************)
CONSTANTS
  Items,
  OpIds

VARIABLES
  status,    \* of each item's row; "none" when there is no row
  outcome    \* of each command; "none" before it is queued

ledgerVars == <<status, outcome>>

Live     == {"staged", "landed"}
Terminal == {"restored", "purged"}

Init ==
  /\ status = [i \in Items |-> "none"]
  /\ outcome = [k \in OpIds |-> "none"]

Insert(i) ==
  /\ status[i] = "none"
  /\ status' = [status EXCEPT ![i] = "staged"]
  /\ UNCHANGED outcome

Land(i) ==
  /\ status[i] = "staged"
  /\ status' = [status EXCEPT ![i] = "landed"]
  /\ UNCHANGED outcome

\* An item leaves the bin once and for all, though which of the two ways is
\* recorded may still change.
Close(i) ==
  /\ status[i] \in Live \cup Terminal
  /\ \E s \in Terminal : status' = [status EXCEPT ![i] = s]
  /\ UNCHANGED outcome

Archive(S) ==
  /\ \A i \in S : status[i] \in Terminal
  /\ status' = [i \in Items |-> IF i \in S THEN "none" ELSE status[i]]
  /\ UNCHANGED outcome

Queue(k) ==
  /\ outcome[k] = "none"
  /\ outcome' = [outcome EXCEPT ![k] = "pending"]
  /\ UNCHANGED status

\* A command has one outcome.
Answer(k) ==
  /\ outcome[k] = "pending"
  /\ \E r \in {"done", "failed"} : outcome' = [outcome EXCEPT ![k] = r]
  /\ UNCHANGED status

Next ==
  \/ \E i \in Items : Insert(i) \/ Land(i) \/ Close(i)
  \/ \E S \in SUBSET Items : Archive(S)
  \/ \E k \in OpIds : Queue(k) \/ Answer(k)

Spec == Init /\ [][Next]_ledgerVars
=============================================================================
