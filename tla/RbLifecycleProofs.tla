------------------------- MODULE RbLifecycleProofs -------------------------
(***************************************************************************)
(* Theorems about the life of a recycled item, for any number of items,    *)
(* commands, failures and crashes: types, and that rows and commands       *)
(* implement the ledger a client sees.  What they say of files is in       *)
(* RbLifecycleFiles.                                                       *)
(***************************************************************************)
EXTENDS RbLifecycle, NaturalsInduction, WellFoundedInduction, TLAPS

\* No counter has passed its bound.
BoundInv ==
  /\ clock \in 0 .. limit.clock /\ nData \in 0 .. limit.data
  /\ nItems \in 0 .. limit.items /\ nOps \in 0 .. limit.ops

\* What is known of a command in the table, and of the one in hand.
CommandInv ==
  /\ \A k \in OpIds : k > nOps => ops[k].state = "none"
  /\ \A k \in OpIds : k <= nOps => ops[k].type # "none"
  /\ \A k \in OpIds : ops[k].type = "restore" => ops[k].dest \in Paths /\ ops[k].item \in Items
  /\ batch \subseteq Pending /\ oid \notin batch
  /\ IF opc \in {"idle", "next"} THEN oid = 0 ELSE ops[oid].state = "pending"
  /\ opc \in {"each", "check", "move", "unmeta", "set"} => ops[oid].type \in {"restore", "restore-tree"}
  /\ opc \in {"names", "sift"} => ops[oid].type = "reconcile"

\* What the threads have in hand are items that were deleted; a restore names
\* one that had a row.
HandInv ==
  /\ \A k \in OpIds : ops[k].type = "restore" => ops[k].item \in (1 .. nItems) \ inflight
  /\ todo \cup otodo \cup ({mitem, oitem} \ {0}) \subseteq 1 .. nItems
  /\ mpc = "list" => todo = {}
  /\ mjob = "rest" => mpc = "list"
  /\ mpc = "mark" => mjob \in {"expire", "stale", "watermark", "quota"}

\* The row of the item in hand still names the file it named when it was read.
SourceInv == opc \in {"check", "move", "unmeta", "set"} /\ osrc = "bin" => rpath[oitem] # 0

TypeInv == TypeOK /\ BoundInv /\ CommandInv /\ SourceInv

\* An item's number tells whether it was deleted, and in flight that it has no
\* row; its row has a path once it was moved, and then its staging name is free.
RowInv ==
  /\ \A i \in Items : i > nItems \/ i \in inflight => status[i] = "none" /\ rpath[i] = 0
  /\ \A i \in Items : i > nItems => store[i] = NoData
  /\ \A i \in Items : rpath[i] # 0 => store[i] = NoData
  /\ \A i \in Items : status[i] = "staged" => rpath[i] = 0

\* The maintenance thread between the move and DbSetLanded, and the rest of its
\* list: nobody else can have closed the row of a file that is still staged.
LandInv ==
  /\ mpc \in {"meta", "set"} =>
       status[mitem] = "staged" /\ store[mitem] = NoData /\ rpath[mitem] = 0
  /\ mjob = "land" => \A i \in todo : status[i] = "staged" \/ store[i] = NoData

\* The ops thread: the item whose staging file it took is not the one the
\* maintenance thread has just moved.
RestoreInv ==
  /\ opc = "unmeta" => osrc = "bin"
  /\ opc = "set" => store[oitem] = NoData
  /\ opc = "set" /\ mpc \in {"meta", "set"} => oitem # mitem
  /\ opc \in {"names", "sift"} => \A i \in otodo : rpath[i] # 0

RowsInv == HandInv /\ RowInv /\ LandInv /\ RestoreInv

LedgerInv == TypeInv /\ RowsInv

\* A restore that has met no failure has its item before it, in hand, or done.
DoneInv ==
  Undisturbed /\ ~obad /\ opc \in {"each", "check", "move", "unmeta", "set"}
    /\ ops[oid].type = "restore" =>
    \/ ops[oid].item \in otodo
    \/ opc # "each" /\ oitem = ops[oid].item
    \/ status[ops[oid].item] \notin Live
-----------------------------------------------------------------------------
(* Types.                                                                  *)

\* The list of a job has a first member.
LEMMA OldestMember ==
  ASSUME NEW S \in SUBSET Nat, S # {}
  PROVE  Oldest(S) \in S /\ \A j \in S : Oldest(S) <= j
<1> DEFINE Less == {ss \in Nat \X Nat : ss[1] < ss[2]}
<1>1. IsWellFoundedOn(Less, Nat)
  BY Zenon, NatLessThanWellFounded DEF OpToRel, Less
<1>2. PICK i \in S : \A j \in S : <<j, i>> \notin Less
  BY <1>1, WFMin
<1>3. ASSUME NEW j \in S PROVE i <= j
  <2>1. i \in Nat /\ j \in Nat /\ <<j, i>> \in Nat \X Nat
    OBVIOUS
  <2>2. ~(j < i)
    BY <1>2, <2>1
  <2> QED
    BY <2>1, <2>2
<1> QED
  BY <1>3 DEF Oldest

LEMMA LimitBounds ==
  ASSUME BoundsOK
  PROVE  /\ limit.data \in 0..MaxData /\ limit.items \in 0..MaxItems
         /\ limit.ops \in 0..MaxOps /\ limit.clock \in 0..MaxClock
         /\ MaxData \in Nat /\ MaxItems \in Nat /\ MaxOps \in Nat /\ MaxClock \in Nat
<1>1. limit \in [data : 0..MaxData, items : 0..MaxItems, ops : 0..MaxOps, clock : 0..MaxClock,
                 faults : 0..MaxFaults, crashes : 0..MaxCrashes]
  BY RbLifecycleAssumption DEF BoundsOK
<1>2. MaxData \in Nat /\ MaxItems \in Nat /\ MaxOps \in Nat /\ MaxClock \in Nat
  BY RbLifecycleAssumption
<1> QED
  BY <1>1, <1>2

LEMMA Jobs ==
  /\ DOMAIN NextJob = {"rest", "land", "expire", "stale", "watermark", "quota", "sweep"}
  /\ \A job \in DOMAIN NextJob : NextJob[job] \in DOMAIN NextJob
  BY DEF NextJob

\* A token is a $R name.
LEMMA TokenType == ASSUME TypeOK, BoundInv, NEW i \in Items PROVE Token(i) \in Tokens
  BY LimitBounds DEF TypeOK, BoundInv, Token, Tokens, Items

\* What a job lists, as the database and the staging directory are.
LEMMA ListedItems ==
  ASSUME NEW job \in DOMAIN NextJob, job # "rest"
  PROVE  /\ Listed(job) \subseteq Items
         /\ \A i \in Listed(job) :
              /\ job \in {"land", "stale"} => status[i] = "staged"
              /\ job \in {"expire", "watermark", "quota"} => status[i] = "landed"
              /\ job \in {"expire", "stale"} => i \in expired
              /\ job = "sweep" => store[i] # NoData
<1>1. CASE job = "land"
  BY <1>1 DEF Listed, ListStaged, First, Rows
<1>2. CASE job = "expire"
  BY <1>2 DEF Listed, ListExpired, Rows
<1>3. CASE job = "stale"
  BY <1>3 DEF Listed, Rows
<1>4. CASE job \in {"watermark", "quota"}
  BY <1>4 DEF Listed, Rows
<1>5. CASE job = "sweep"
  BY <1>5 DEF Listed
<1> QED
  BY <1>1, <1>2, <1>3, <1>4, <1>5, Jobs

LEMMA PickedListed == ASSUME MaintOK, todo # {}, NEW i, Picked(i) PROVE i \in todo
<1>1. todo \in SUBSET Nat
  BY DEF MaintOK, Items
<1> QED
  BY <1>1, OldestMember DEF Picked

LEMMA TypeInvInit == Init => TypeInv
<1> SUFFICES ASSUME Init PROVE TypeInv
  OBVIOUS
<1>1. BoundsOK /\ FilesOK /\ ItemsOK
  BY DEF Init, BoundsOK, FilesOK, ItemsOK
<1>2. RowsOK /\ CommandsOK
  BY DEF Init, RowsOK, CommandsOK, NoOp, Live, Terminal
<1>3. MaintOK
  BY DEF Init, MaintOK, NextJob
<1>4. OpsOK
  BY DEF Init, OpsOK
<1>5. BoundInv
  BY <1>1, LimitBounds DEF Init, BoundInv
<1>6. CommandInv /\ SourceInv
  BY DEF Init, CommandInv, NoOp, Pending, OpIds, SourceInv
<1> QED
  BY <1>1, <1>2, <1>3, <1>4, <1>5, <1>6 DEF TypeInv, TypeOK

\* A user, the driver, Explorer, the API or the clock.
LEMMA TypeOutside ==
  ASSUME TypeInv, Outside, UNCHANGED limit
  PROVE  TypeInv'
<1>0. TypeOK /\ BoundsOK /\ FilesOK /\ ItemsOK /\ RowsOK /\ CommandsOK /\ MaintOK /\ OpsOK /\ BoundInv /\ CommandInv /\ SourceInv
  BY DEF TypeInv, TypeOK
<1> USE <1>0, LimitBounds DEF OutsideUnchanged, Works, Fails, fsVars, itemVars, dbVars, maintVars, opsVars
<1>m. OutsideUnchanged => MaintOK' /\ OpsOK'
  BY DEF MaintOK, OpsOK
<1>s. OutsideUnchanged /\ UNCHANGED rpath => SourceInv'
  BY DEF SourceInv
<1>1. ASSUME NEW p \in Paths, UserCreate(p) PROVE TypeInv'
  <2>1. BoundsOK' /\ BoundInv'
    BY <1>1 DEF UserCreate, BoundsOK, BoundInv
  <2>2. FilesOK'
    BY <1>1 DEF UserCreate, FilesOK, BoundInv, Data
  <2>3. ItemsOK' /\ RowsOK' /\ CommandsOK'
    BY <1>1 DEF UserCreate, ItemsOK, RowsOK, CommandsOK
  <2>4. CommandInv'
    BY <1>1 DEF UserCreate, CommandInv, Pending
  <2> QED
    BY <2>1, <2>2, <2>3, <2>4, <1>m, <1>s, <1>1 DEF TypeInv, TypeOK, UserCreate
<1>2. ASSUME NEW p \in Paths, UserDelete(p) PROVE TypeInv'
  <2>1. BoundsOK' /\ BoundInv'
    BY <1>2 DEF UserDelete, BoundsOK, BoundInv
  <2>2. FilesOK'
    BY <1>2 DEF UserDelete, FilesOK
  <2>0. nItems \in Nat /\ nItems + 1 \in Items /\ share[p] \in Data \cup {NoData}
    BY <1>2 DEF UserDelete, BoundInv, FilesOK, Items
  <2>3. ItemsOK'
    <3>1. orig' \in [Items -> Paths \cup {NoData}] /\ data' \in [Items -> Data \cup {NoData}]
      BY <1>2, <2>0 DEF UserDelete, ItemsOK
    <3>2. inflight' \subseteq 1..nItems' /\ expired' \subseteq Items
      BY <1>2, <2>0 DEF UserDelete, ItemsOK
    <3> QED
      BY <3>1, <3>2 DEF ItemsOK
  <2>5. RowsOK' /\ CommandsOK'
    BY <1>2 DEF UserDelete, ItemsOK, RowsOK, CommandsOK
  <2>4. CommandInv'
    BY <1>2 DEF UserDelete, CommandInv, Pending, BoundInv
  <2> QED
    BY <2>1, <2>2, <2>3, <2>4, <2>5, <1>m, <1>s, <1>2 DEF TypeInv, TypeOK, UserDelete
<1>3. ASSUME NEW i \in Items, Lose(i) PROVE TypeInv'
  <2>1. BoundsOK' /\ BoundInv' /\ FilesOK' /\ RowsOK' /\ CommandsOK'
    BY <1>3 DEF Lose, BoundsOK, BoundInv, FilesOK, RowsOK, CommandsOK
  <2>2. ItemsOK'
    BY <1>3 DEF Lose, ItemsOK
  <2>3. CommandInv'
    BY <1>3 DEF Lose, CommandInv, Pending
  <2> QED
    BY <2>1, <2>2, <2>3, <1>m, <1>s, <1>3 DEF TypeInv, TypeOK, Lose
<1>4. ASSUME NEW i \in Items, Expire(i) PROVE TypeInv'
  <2>1. BoundsOK' /\ BoundInv' /\ FilesOK' /\ RowsOK' /\ CommandsOK'
    BY <1>4 DEF Expire, BoundsOK, BoundInv, FilesOK, RowsOK, CommandsOK
  <2>2. ItemsOK'
    BY <1>4 DEF Expire, ItemsOK
  <2>3. CommandInv'
    BY <1>4 DEF Expire, CommandInv, Pending
  <2> QED
    BY <2>1, <2>2, <2>3, <1>m, <1>s, <1>4 DEF TypeInv, TypeOK, Expire
<1>5. ASSUME NEW i \in Items, NativeTake(i) PROVE TypeInv'
  <2>1. BoundsOK' /\ BoundInv' /\ ItemsOK' /\ RowsOK' /\ CommandsOK'
    BY <1>5 DEF NativeTake, BoundsOK, BoundInv, ItemsOK, RowsOK, CommandsOK
  <2>2. FilesOK'
    BY <1>5 DEF NativeTake, FilesOK, RowsOK
  <2>3. CommandInv'
    BY <1>5 DEF NativeTake, CommandInv, Pending
  <2> QED
    BY <2>1, <2>2, <2>3, <1>m, <1>s, <1>5 DEF TypeInv, TypeOK, NativeTake
<1>6. ASSUME NEW type \in {"restore", "restore-tree", "reconcile"}, NEW i \in Items \cup {0},
             NEW p \in Paths \cup {NoData}, type = "restore" => i \in Items /\ p \in Paths,
             EnqueueOp(type, i, p)
      PROVE  TypeInv'
  <2>1. BoundsOK' /\ BoundInv' /\ FilesOK' /\ ItemsOK' /\ RowsOK'
    BY <1>6 DEF EnqueueOp, BoundsOK, BoundInv, FilesOK, ItemsOK, RowsOK
  <2>2. nOps \in Nat /\ nOps + 1 \in OpIds /\ nOps' = nOps + 1
    BY <1>6 DEF EnqueueOp, BoundInv, OpIds
  <2>3. CommandsOK'
    BY <1>6 DEF EnqueueOp, CommandsOK
  <2>4. CommandInv'
    <3>1. \A k \in OpIds : k # nOps + 1 => ops'[k] = ops[k]
      BY <1>6, <2>2 DEF EnqueueOp, CommandsOK
    <3>2. ops'[nOps + 1] = [type |-> type, item |-> i, dest |-> p, state |-> "pending"]
      BY <1>6, <2>2 DEF EnqueueOp, CommandsOK
    <3>3. UNCHANGED <<opc, batch, oid>>
      BY <1>6 DEF EnqueueOp
    <3>4. ops[nOps + 1].state = "none" /\ nOps + 1 \notin Pending
      BY <2>2 DEF CommandInv, Pending
    <3>5. \A k \in OpIds : k > nOps' => ops'[k].state = "none"
      BY <2>2, <3>1 DEF CommandInv, OpIds
    <3>6. \A k \in OpIds : k <= nOps' => ops'[k].type # "none"
      BY <2>2, <3>1, <3>2 DEF CommandInv, OpIds
    <3>7. \A k \in OpIds : ops'[k].type = "restore" => ops'[k].dest \in Paths /\ ops'[k].item \in Items
      BY <1>6, <3>1, <3>2 DEF CommandInv
    <3>8. batch' \subseteq Pending' /\ oid' \notin batch'
      BY <3>1, <3>3, <3>4 DEF CommandInv, Pending
    <3>9. opc \notin {"idle", "next"} => oid \in OpIds /\ oid # nOps + 1
      BY <3>4 DEF CommandInv, OpsOK
    <3> QED
      BY <3>1, <3>3, <3>5, <3>6, <3>7, <3>8, <3>9 DEF CommandInv
  <2> QED
    BY <2>1, <2>3, <2>4, <1>m, <1>s, <1>6 DEF TypeInv, TypeOK, EnqueueOp
<1>8. CASE Tick
  <2>1. BoundsOK' /\ BoundInv' /\ FilesOK' /\ ItemsOK' /\ RowsOK' /\ CommandsOK'
    BY <1>8 DEF Tick, BoundsOK, BoundInv, FilesOK, ItemsOK, RowsOK, CommandsOK
  <2>3. CommandInv'
    BY <1>8 DEF Tick, CommandInv, Pending
  <2> QED
    BY <2>1, <2>3, <1>m, <1>s, <1>8 DEF TypeInv, TypeOK, Tick
<1> QED
  BY <1>1, <1>2, <1>3, <1>4, <1>5, <1>6, <1>8 DEF Outside

\* The port thread.
LEMMA TypeAddItem ==
  ASSUME TypeInv, AddItem, UNCHANGED limit
  PROVE  TypeInv'
<1>0. TypeOK /\ BoundsOK /\ FilesOK /\ ItemsOK /\ RowsOK /\ CommandsOK /\ MaintOK /\ OpsOK /\ BoundInv /\ CommandInv /\ SourceInv
  BY DEF TypeInv, TypeOK
<1> USE <1>0 DEF OutsideUnchanged, Works, Fails, fsVars, maintVars, opsVars
<1>1. BoundsOK' /\ BoundInv' /\ FilesOK' /\ CommandsOK' /\ MaintOK' /\ OpsOK'
  BY DEF AddItem, BoundsOK, BoundInv, FilesOK, CommandsOK, MaintOK, OpsOK
<1>2. ItemsOK'
  BY DEF AddItem, ItemsOK
<1>3. RowsOK'
  BY DEF AddItem, RowsOK, Live
<1>4. CommandInv' /\ SourceInv'
  BY DEF AddItem, CommandInv, Pending, SourceInv
<1> QED
  BY <1>1, <1>2, <1>3, <1>4 DEF TypeInv, TypeOK

LEMMA TypeMaintenance ==
  ASSUME TypeInv, MaintenancePass, UNCHANGED limit
  PROVE  TypeInv'
<1>0. TypeOK /\ BoundsOK /\ FilesOK /\ ItemsOK /\ RowsOK /\ CommandsOK /\ MaintOK /\ OpsOK /\ BoundInv /\ CommandInv /\ SourceInv
  BY DEF TypeInv, TypeOK
<1> USE <1>0
<1>a. MaintUnchanged => ItemsOK' /\ CommandsOK' /\ OpsOK' /\ CommandInv'
  BY DEF MaintUnchanged, itemVars, opsVars, ItemsOK, CommandsOK, OpsOK, CommandInv, Pending
<1>b. (Works \/ Fails) /\ MaintUnchanged => BoundsOK' /\ BoundInv'
  BY DEF Works, Fails, MaintUnchanged, BoundsOK, BoundInv
<1>s. MaintUnchanged /\ (\A j \in Items : rpath'[j] = rpath[j] \/ rpath'[j] # 0) => SourceInv'
  BY DEF MaintUnchanged, opsVars, SourceInv, OpsOK
<1>c. UNCHANGED fsVars => FilesOK'
  BY DEF fsVars, FilesOK
<1>d. UNCHANGED <<status, rpath>> => RowsOK'
  BY DEF RowsOK
<1>e. ASSUME NEW i \in Items, NEW s \in {"landed", "purged"}, SetStatus(i, s),
             rpath' \in [Items -> Tokens \cup {0}],
             \A j \in Items : rpath'[j] = rpath[j] \/ rpath'[j] # 0,
             s = "landed" => rpath'[i] # 0
      PROVE  RowsOK'
  BY <1>e DEF SetStatus, RowsOK, Live, Terminal
<1>1. CASE PassBegin
  BY <1>1, <1>a, <1>b, <1>s, <1>c, <1>d, Jobs DEF PassBegin, Works, MaintOK, TypeInv, TypeOK
<1>2. CASE List
  <2>1. todo' \subseteq Items
    BY <1>2, ListedItems DEF List, MaintOK
  <2>2. MaintOK'
    BY <1>2, <2>1 DEF List, MaintOK
  <2> QED
    BY <1>2, <2>2, <1>a, <1>b, <1>s, <1>c, <1>d DEF List, TypeInv, TypeOK
<1>3. CASE JobDone
  <2>1. MaintOK'
    BY <1>3, Jobs DEF JobDone, MaintOK
  <2> QED
    BY <1>3, <2>1, <1>a, <1>b, <1>s, <1>c, <1>d DEF JobDone, Works, TypeInv, TypeOK
<1>4. CASE SweepDone
  <2>1. MaintOK'
    BY <1>4, Jobs DEF SweepDone, MaintOK
  <2>2. RowsOK'
    BY <1>4 DEF SweepDone, RowsOK
  <2> QED
    BY <1>4, <2>1, <2>2, <1>a, <1>b, <1>s, <1>c DEF SweepDone, Works, TypeInv, TypeOK
<1>5. ASSUME NEW i \in Items, LandMove(i) PROVE TypeInv'
  <2>1. MaintOK'
    BY <1>5, TokenType DEF LandMove, Pick, MaintOK
  <2>2. FilesOK'
    BY <1>5 DEF LandMove, FilesOK
  <2> QED
    BY <1>5, <2>1, <2>2, <1>a, <1>b, <1>s, <1>d DEF LandMove, Pick, Works, TypeInv, TypeOK
<1>6. ASSUME NEW i \in Items, LandSkip(i) PROVE TypeInv'
  <2>1. MaintOK'
    BY <1>6 DEF LandSkip, Pick, MaintOK
  <2> QED
    BY <1>6, <2>1, <1>a, <1>b, <1>s, <1>c, <1>d DEF LandSkip, Pick, TypeInv, TypeOK
<1>7. CASE LandMeta
  <2>1. MaintOK' /\ FilesOK'
    BY <1>7 DEF LandMeta, MaintOK, FilesOK
  <2> QED
    BY <1>7, <2>1, <1>a, <1>b, <1>s, <1>d DEF LandMeta, TypeInv, TypeOK
<1>8. CASE LandSet
  <2>1. MaintOK'
    BY <1>8 DEF LandSet, NextItem, MaintOK
  <2>2. \A j \in Items : rpath'[j] = rpath[j] \/ rpath'[j] # 0
    BY <1>8 DEF LandSet, MaintOK, RowsOK, Tokens
  <2>3. RowsOK'
    BY <1>8, <2>2, <1>d, <1>e DEF LandSet, MaintOK, RowsOK, Tokens
  <2> QED
    BY <1>8, <2>1, <2>2, <2>3, <1>a, <1>b, <1>s, <1>c DEF LandSet, TypeInv, TypeOK
<1>9. ASSUME NEW i \in Items, PurgeDelete(i) PROVE TypeInv'
  <2>1. MaintOK'
    BY <1>9 DEF PurgeDelete, Pick, MaintOK
  <2>2. FilesOK'
    BY <1>9 DEF PurgeDelete, DeleteStaged, DeleteEntry, DeleteKeepsMeta, FilesOK
  <2> QED
    BY <1>9, <2>1, <2>2, <1>a, <1>b, <1>s, <1>d DEF PurgeDelete, Pick, TypeInv, TypeOK
<1>10. CASE PurgeMark
  <2>1. MaintOK'
    BY <1>10 DEF PurgeMark, NextItem, MaintOK
  <2>2. RowsOK'
    BY <1>10, <1>d, <1>e DEF PurgeMark, MaintOK, RowsOK
  <2> QED
    BY <1>10, <2>1, <2>2, <1>a, <1>b, <1>s, <1>c DEF PurgeMark, TypeInv, TypeOK
<1>11. CASE Spare
  <2>1. MaintOK'
    BY <1>11 DEF Spare, MaintOK
  <2> QED
    BY <1>11, <2>1, <1>a, <1>b, <1>s, <1>c, <1>d DEF Spare, Works, TypeInv, TypeOK
<1>12. ASSUME NEW i \in Items, SweepLook(i) PROVE TypeInv'
  <2>1. MaintOK'
    BY <1>12 DEF SweepLook, Pick, MaintOK
  <2> QED
    BY <1>12, <2>1, <1>a, <1>b, <1>s, <1>c, <1>d DEF SweepLook, Pick, TypeInv, TypeOK
<1>13. CASE SweepDrop
  <2>1. MaintOK'
    BY <1>13 DEF SweepDrop, NextItem, MaintOK
  <2>2. FilesOK'
    BY <1>13 DEF SweepDrop, DeleteStaged, FilesOK
  <2> QED
    BY <1>13, <2>1, <2>2, <1>a, <1>b, <1>s, <1>d DEF SweepDrop, TypeInv, TypeOK
<1> QED
  BY <1>1, <1>2, <1>3, <1>4, <1>5, <1>6, <1>7, <1>8, <1>9, <1>10, <1>11, <1>12, <1>13
     DEF MaintenancePass

LEMMA TypeOps ==
  ASSUME TypeInv, RestoreDrainOps, UNCHANGED limit
  PROVE  TypeInv'
<1>0. TypeOK /\ BoundsOK /\ FilesOK /\ ItemsOK /\ RowsOK /\ CommandsOK /\ MaintOK /\ OpsOK /\ BoundInv /\ CommandInv /\ SourceInv
  BY DEF TypeInv, TypeOK
<1> USE <1>0
<1>a. OpsUnchanged => ItemsOK' /\ MaintOK'
  BY DEF OpsUnchanged, itemVars, maintVars, ItemsOK, MaintOK
<1>b. (Works \/ Fails) /\ OpsUnchanged => BoundsOK' /\ BoundInv'
  BY DEF Works, Fails, OpsUnchanged, BoundsOK, BoundInv
<1>c. UNCHANGED fsVars => FilesOK'
  BY DEF fsVars, FilesOK
<1>d. UNCHANGED <<status, rpath>> => RowsOK'
  BY DEF RowsOK
<1>e. ASSUME NEW i \in Items, NEW s \in Terminal, SetStatus(i, s), UNCHANGED rpath
      PROVE  RowsOK'
  BY <1>e DEF SetStatus, RowsOK, Live, Terminal
<1>f. UNCHANGED ops => CommandsOK' /\ Pending' = Pending
  BY DEF CommandsOK, Pending
<1>1. CASE DrainBegin
  <2>1. OpsOK'
    BY <1>1 DEF DrainBegin, OpsUnchanged, OpsOK, Pending
  <2>2. CommandInv' /\ SourceInv'
    BY <1>1, <1>f DEF DrainBegin, OpsUnchanged, CommandInv, SourceInv, Pending, OpIds
  <2> QED
    BY <1>1, <2>1, <2>2, <1>a, <1>b, <1>c, <1>d, <1>f DEF DrainBegin, OpsUnchanged, Works, TypeInv, TypeOK
<1>2. CASE DrainEnd
  <2>1. OpsOK' /\ CommandInv' /\ SourceInv'
    BY <1>2, <1>f DEF DrainEnd, OpsUnchanged, OpsOK, CommandInv, SourceInv
  <2> QED
    BY <1>2, <2>1, <1>a, <1>b, <1>c, <1>d, <1>f DEF DrainEnd, OpsUnchanged, Works, TypeInv, TypeOK
<1>3. CASE OpBegin
  <2>1. oid' \in batch /\ oid' \in OpIds /\ oid' \in Pending
    <3>1. batch \in SUBSET Nat /\ batch # {}
      BY <1>3 DEF OpBegin, OpsOK, OpIds
    <3> QED
      BY <1>3, <3>1, OldestMember DEF OpBegin, OpsOK, CommandInv, SourceInv
  <2>2. ops[oid'].type \in {"restore", "restore-tree", "reconcile"}
    BY <2>1 DEF CommandInv, CommandsOK, Pending, BoundInv, OpIds
  <2>3. otodo' \subseteq Items
    BY <1>3, <2>1, <2>2 DEF OpBegin, CommandInv, Rows
  <2>4. obad' \in BOOLEAN
    BY <1>3 DEF OpBegin
  <2>5. OpsOK'
    BY <1>3, <2>1, <2>3, <2>4 DEF OpBegin, OpsUnchanged, OpsOK
  <2>6. CommandInv' /\ SourceInv'
    BY <1>3, <1>f, <2>1, <2>2 DEF OpBegin, OpsUnchanged, CommandInv, SourceInv, Pending, OpIds
  <2> QED
    BY <1>3, <2>5, <2>6, <1>a, <1>b, <1>c, <1>d, <1>f DEF OpBegin, OpsUnchanged, TypeInv, TypeOK
<1>4. ASSUME NEW i \in Items, RestoreGet(i) PROVE TypeInv'
  <2>1. OpsOK' /\ CommandInv' /\ SourceInv'
    BY <1>4, <1>f DEF RestoreGet, ItemFailed, ItemOver, OpsUnchanged, OpsOK, CommandInv, SourceInv
  <2> QED
    BY <1>4, <2>1, <1>a, <1>b, <1>c, <1>d, <1>f DEF RestoreGet, OpsUnchanged, TypeInv, TypeOK
<1>5. ASSUME NEW i \in Items, ReconcileRow(i) PROVE TypeInv'
  <2>1. OpsOK' /\ CommandInv' /\ SourceInv'
    BY <1>5, <1>f DEF ReconcileRow, OpsUnchanged, OpsOK, CommandInv, SourceInv
  <2>2. RowsOK'
    BY <1>5, <1>d, <1>e DEF ReconcileRow, Found, OpsUnchanged, Terminal
  <2> QED
    BY <1>5, <2>1, <2>2, <1>a, <1>b, <1>c, <1>f DEF ReconcileRow, OpsUnchanged, TypeInv, TypeOK
<1>6. CASE RestoreCheck
  <2>1. OpsOK' /\ CommandInv' /\ SourceInv'
    BY <1>6, <1>f DEF RestoreCheck, ItemFailed, ItemOver, OpsUnchanged, OpsOK, CommandInv, SourceInv
  <2> QED
    BY <1>6, <2>1, <1>a, <1>b, <1>c, <1>d, <1>f DEF RestoreCheck, OpsUnchanged, Works, TypeInv, TypeOK
<1>7. CASE RestoreMove
  <2>1. OpsOK' /\ CommandInv' /\ SourceInv'
    BY <1>7, <1>f DEF RestoreMove, ItemFailed, ItemOver, OpsUnchanged, OpsOK, CommandInv, SourceInv
  <2>2. FilesOK'
    BY <1>7 DEF RestoreMove, MoveBack, SourceThere, FilesOK, OpsOK, RowsOK, SourceInv
  <2> QED
    BY <1>7, <2>1, <2>2, <1>a, <1>b, <1>d, <1>f DEF RestoreMove, OpsUnchanged, TypeInv, TypeOK
<1>8. CASE RestoreUnmeta
  <2>1. OpsOK' /\ CommandInv' /\ SourceInv' /\ FilesOK'
    BY <1>8, <1>f DEF RestoreUnmeta, OpsUnchanged, OpsOK, CommandInv, SourceInv, FilesOK
  <2> QED
    BY <1>8, <2>1, <1>a, <1>b, <1>d, <1>f DEF RestoreUnmeta, OpsUnchanged, TypeInv, TypeOK
<1>9. CASE RestoreSet
  <2>1. OpsOK' /\ CommandInv' /\ SourceInv'
    BY <1>9, <1>f DEF RestoreSet, ItemOver, OpsUnchanged, OpsOK, CommandInv, SourceInv
  <2>2. RowsOK'
    BY <1>9, <1>d, <1>e DEF RestoreSet, OpsUnchanged, OpsOK, Terminal
  <2> QED
    BY <1>9, <2>1, <2>2, <1>a, <1>b, <1>c, <1>f DEF RestoreSet, OpsUnchanged, TypeInv, TypeOK
<1>10. CASE ReconcileNames
  <2>1. OpsOK' /\ CommandInv' /\ SourceInv'
    BY <1>10, <1>f DEF ReconcileNames, OpsUnchanged, InBin, OpsOK, CommandInv, SourceInv
  <2> QED
    BY <1>10, <2>1, <1>a, <1>b, <1>c, <1>d, <1>f DEF ReconcileNames, OpsUnchanged, TypeInv, TypeOK
<1>11. CASE OpFinish
  <2>1. OpsOK'
    BY <1>11 DEF OpFinish, OpOver, OpsUnchanged, OpsOK
  <2>2. CommandsOK'
    BY <1>11, <1>f DEF OpFinish, Finish, CommandsOK, OpsOK
  <2>3. /\ \A k \in OpIds : k # oid => ops'[k] = ops[k]
        /\ \A k \in OpIds : ops'[k].type = ops[k].type /\ ops'[k].dest = ops[k].dest /\ ops'[k].item = ops[k].item
    BY <1>11 DEF OpFinish, Finish, CommandsOK, OpsOK
  <2>4. \A k \in OpIds : k > nOps => k # oid
    BY <1>11 DEF OpFinish, CommandInv
  <2>5. batch \subseteq Pending'
    BY <1>11, <2>3 DEF CommandInv, Pending
  <2>6. CommandInv' /\ SourceInv'
    BY <1>11, <2>3, <2>4, <2>5 DEF OpFinish, OpOver, OpsUnchanged, CommandInv, SourceInv, OpsOK, OpIds
  <2> QED
    BY <1>11, <2>1, <2>2, <2>6, <1>a, <1>b, <1>c, <1>d DEF OpFinish, OpsUnchanged, TypeInv, TypeOK
<1> QED
  BY <1>1, <1>2, <1>3, <1>4, <1>5, <1>6, <1>7, <1>8, <1>9, <1>10, <1>11 DEF RestoreDrainOps

LEMMA TypeCrash ==
  ASSUME TypeInv, Crash, UNCHANGED limit
  PROVE  TypeInv'
<1>0. TypeOK /\ BoundsOK /\ FilesOK /\ ItemsOK /\ RowsOK /\ CommandsOK /\ MaintOK /\ BoundInv /\ CommandInv /\ SourceInv
  BY DEF TypeInv, TypeOK
<1> USE <1>0 DEF Crash
<1>1. BoundsOK' /\ BoundInv' /\ FilesOK' /\ ItemsOK' /\ RowsOK' /\ CommandsOK'
  BY DEF fsVars, dbVars, BoundsOK, BoundInv, FilesOK, ItemsOK, RowsOK, CommandsOK
<1>2. MaintOK'
  BY Jobs DEF MaintOK
<1>3. OpsOK'
  BY DEF OpsOK
<1>4. CommandInv' /\ SourceInv'
  BY DEF CommandInv, Pending, dbVars, SourceInv
<1> QED
  BY <1>1, <1>2, <1>3, <1>4 DEF TypeInv, TypeOK

LEMMA TypeInvNext == TypeInv /\ [Next]_vars => TypeInv'
<1> SUFFICES ASSUME TypeInv, [Next]_vars PROVE TypeInv'
  OBVIOUS
<1>1. CASE UNCHANGED vars
  BY <1>1 DEF vars, boundVars, fsVars, itemVars, dbVars, maintVars, opsVars, TypeInv, TypeOK, BoundsOK,
     FilesOK, ItemsOK, RowsOK, CommandsOK, MaintOK, OpsOK, BoundInv, CommandInv, Pending,
     SourceInv
<1>2. CASE Next
  BY <1>2, TypeOutside, TypeAddItem, TypeMaintenance, TypeOps, TypeCrash DEF Next
<1> QED
  BY <1>1, <1>2

\* Whatever users, administrators and failures do, each variable keeps its
\* type; in particular a landed row names a $R file, a thread in the middle of
\* an item has one in hand, and the list of a job holds items only.
THEOREM LifecycleTyped == Spec => []TypeOK
<1>1. Init => TypeInv
  BY TypeInvInit
<1>2. TypeInv /\ [Next]_vars => TypeInv'
  BY TypeInvNext
<1>3. TypeInv => TypeOK
  BY DEF TypeInv
<1> QED
  BY <1>1, <1>2, <1>3, PTL DEF Spec
-----------------------------------------------------------------------------
(* Rows and commands.                                                      *)

LEMMA LedgerOutside ==
  ASSUME LedgerInv, Outside
  PROVE  RowsInv'
<1>0. TypeOK /\ FilesOK /\ ItemsOK /\ RowsOK /\ CommandsOK /\ MaintOK /\ OpsOK /\ BoundInv /\ HandInv
        /\ RowInv /\ LandInv /\ RestoreInv
  BY DEF LedgerInv, RowsInv, TypeInv, TypeOK
<1> USE <1>0 DEF OutsideUnchanged, fsVars, itemVars, dbVars, maintVars, opsVars
<1>1. ASSUME UNCHANGED <<store, status, rpath, mjob, mpc, todo, mitem, opc, otodo, oitem, osrc, nItems, ops>>,
             inflight' \subseteq inflight
      PROVE  RowsInv'
  BY <1>1 DEF RowsInv, HandInv, RowInv, LandInv, RestoreInv
<1>2. ASSUME NEW p \in Paths, UserDelete(p) PROVE RowsInv'
  <2>0. nItems \in Nat /\ nItems' = nItems + 1 /\ nItems + 1 \in Items
          /\ status[nItems + 1] = "none" /\ rpath[nItems + 1] = 0
    BY <1>2, LimitBounds DEF UserDelete, TypeOK, BoundInv, Items, RowInv
  <2>1. \A i \in Items : i # nItems + 1 => store'[i] = store[i]
    BY <1>2 DEF UserDelete, FilesOK
  <2>2. HandInv'
    BY <1>2, <2>0 DEF UserDelete, HandInv
  <2>3. RowInv'
    BY <1>2, <2>0, <2>1 DEF UserDelete, RowInv, Items
  <2>4. LandInv' /\ RestoreInv'
    <3>1. todo \cup otodo \subseteq Items \ {nItems + 1} /\ mitem # nItems + 1 /\ oitem # nItems + 1
      BY <2>0 DEF HandInv, MaintOK, OpsOK, Items
    <3> QED
      BY <1>2, <2>0, <2>1, <3>1 DEF UserDelete, LandInv, RestoreInv, MaintOK, OpsOK
  <2> QED
    BY <2>2, <2>3, <2>4 DEF RowsInv
<1>3. ASSUME NEW type, NEW i, NEW p, EnqueueOp(type, i, p), type = "restore" => i \in Items
      PROVE  RowsInv'
  <2>1. RowInv' /\ LandInv' /\ RestoreInv'
    BY <1>3 DEF EnqueueOp, RowInv, LandInv, RestoreInv
  <2>2. \A k \in OpIds : ops'[k] = ops[k] \/ ops'[k] = [type |-> type, item |-> i, dest |-> p, state |-> "pending"]
    BY <1>3 DEF EnqueueOp, CommandsOK
  <2>3. type = "restore" => i \in (1 .. nItems) \ inflight
    BY <1>3 DEF EnqueueOp, RowInv, BoundInv, Items
  <2>4. HandInv'
    BY <1>3, <2>2, <2>3 DEF EnqueueOp, HandInv
  <2> QED
    BY <2>1, <2>4 DEF RowsInv
<1> QED
  BY <1>1, <1>2, <1>3 DEF Outside, UserCreate, Lose, Expire, NativeTake, Tick

LEMMA LedgerAddItem == LedgerInv /\ AddItem => RowsInv'
<1> SUFFICES ASSUME LedgerInv, AddItem PROVE RowsInv'
  OBVIOUS
<1>0. RowsOK /\ ItemsOK /\ MaintOK /\ OpsOK /\ BoundInv /\ HandInv /\ RowInv /\ LandInv /\ RestoreInv
  BY DEF LedgerInv, RowsInv, TypeInv, TypeOK
<1> USE <1>0 DEF AddItem, OutsideUnchanged, fsVars, maintVars, opsVars
<1>1. PICK i \in inflight : /\ inflight' = inflight \ {i}
                           /\ (status' = [status EXCEPT ![i] = "staged"] \/ status' = status)
  <2>1. inflight \in SUBSET Nat /\ inflight # {}
    BY DEF ItemsOK
  <2> QED
    BY <2>1, OldestMember
<1>2. i \in 1 .. nItems
  BY <1>1 DEF ItemsOK
<1>3. \A j \in Items : j # i => status'[j] = status[j]
  BY <1>1 DEF RowsOK
<1>4. i \in Items => status'[i] \in {status[i], "staged"}
  BY <1>1 DEF RowsOK
<1>5. HandInv'
  BY <1>1 DEF HandInv
<1>6. RowInv'
  BY <1>1, <1>2, <1>3, <1>4 DEF RowInv, BoundInv
<1>7. LandInv' /\ RestoreInv'
  BY <1>3, <1>4 DEF LandInv, RestoreInv, MaintOK
<1> QED
  BY <1>5, <1>6, <1>7 DEF RowsInv

LEMMA LedgerMaintenance == LedgerInv /\ MaintenancePass => RowsInv'
<1> SUFFICES ASSUME LedgerInv, MaintenancePass PROVE RowsInv'
  OBVIOUS
<1>0. FilesOK /\ RowsOK /\ ItemsOK /\ MaintOK /\ OpsOK /\ BoundInv /\ HandInv /\ RowInv /\ LandInv /\ RestoreInv
  BY DEF LedgerInv, RowsInv, TypeInv, TypeOK
<1> USE <1>0 DEF MaintUnchanged, fsVars, itemVars, opsVars
<1>p. ASSUME NEW i, NEW step, Pick(i, step) PROVE i \in todo
  BY <1>p, PickedListed DEF Pick
<1>1. CASE PassBegin
  BY <1>1 DEF PassBegin, NextJob, RowsInv, HandInv, RowInv, LandInv, RestoreInv
<1>2. CASE List
  <2>1. todo' = {} \/ todo' = Listed(mjob)
    BY <1>2 DEF List
  <2>2. mjob \in DOMAIN NextJob /\ mjob # "rest"
    BY <1>2 DEF List, MaintOK
  <2>3. \A i \in Listed(mjob) : i \in 1 .. nItems /\ (mjob = "land" => status[i] = "staged")
    BY <2>2, ListedItems, Jobs DEF RowInv, BoundInv, Items
  <2>4. HandInv' /\ RowInv'
    BY <1>2, <2>1, <2>3 DEF List, HandInv, RowInv
  <2>5. LandInv' /\ RestoreInv'
    BY <1>2, <2>1, <2>3 DEF List, LandInv, RestoreInv
  <2> QED
    BY <2>4, <2>5 DEF RowsInv
<1>3. CASE JobDone
  BY <1>3, Jobs DEF JobDone, RowsInv, HandInv, RowInv, LandInv, RestoreInv
<1>4. CASE SweepDone
  BY <1>4 DEF SweepDone, RowsInv, HandInv, RowInv, LandInv, RestoreInv
<1>5. ASSUME NEW i \in Items, LandMove(i) PROVE RowsInv'
  <2>1. status[i] = "staged" /\ rpath[i] = 0
    BY <1>5, <1>p DEF LandMove, Pick, LandInv, RowInv
  <2>2. store'[i] = NoData /\ \A j \in Items : j # i => store'[j] = store[j]
    BY <1>5, <1>p DEF LandMove, FilesOK
  <2>3. HandInv' /\ RowInv'
    BY <1>5, <1>p, <2>2 DEF LandMove, Pick, HandInv, RowInv
  <2>4. LandInv' /\ RestoreInv'
    BY <1>5, <1>p, <2>1, <2>2 DEF LandMove, Pick, LandInv, RestoreInv, OpsOK
  <2> QED
    BY <2>3, <2>4 DEF RowsInv
<1>6. ASSUME NEW i \in Items, LandSkip(i) PROVE RowsInv'
  <2>1. HandInv' /\ RowInv'
    BY <1>6 DEF LandSkip, Pick, HandInv, RowInv
  <2>2. LandInv' /\ RestoreInv'
    BY <1>6 DEF LandSkip, Pick, LandInv, RestoreInv
  <2> QED
    BY <2>1, <2>2 DEF RowsInv
<1>7. CASE LandMeta
  BY <1>7 DEF LandMeta, RowsInv, HandInv, RowInv, LandInv, RestoreInv
<1>8. CASE LandSet
  <2>1. mitem \in Items /\ mtoken # 0 /\ status[mitem] = "staged" /\ store[mitem] = NoData
    BY <1>8 DEF LandSet, MaintOK, LandInv, Tokens
  <2>2. /\ \A i \in Items : i # mitem => status'[i] = status[i] /\ rpath'[i] = rpath[i]
        /\ \/ status'[mitem] = "landed" /\ rpath'[mitem] # 0
           \/ status'[mitem] = status[mitem] /\ rpath'[mitem] = rpath[mitem]
    BY <1>8, <2>1 DEF LandSet, SetStatus, RowsOK
  <2>3. HandInv' /\ RowInv'
    BY <1>8, <2>1, <2>2 DEF LandSet, NextItem, HandInv, RowInv
  <2>4. LandInv' /\ RestoreInv'
    BY <1>8, <2>1, <2>2 DEF LandSet, NextItem, LandInv, RestoreInv, MaintOK, OpsOK
  <2> QED
    BY <2>3, <2>4 DEF RowsInv
<1>9. ASSUME NEW i \in Items, PurgeDelete(i) PROVE RowsInv'
  <2>1. \A j \in Items : store'[j] \in {store[j], NoData}
    BY <1>9, <1>p DEF PurgeDelete, DeleteStaged, DeleteEntry, DeleteKeepsMeta, FilesOK
  <2>2. HandInv' /\ RowInv'
    BY <1>9, <1>p, <2>1 DEF PurgeDelete, Pick, HandInv, RowInv
  <2>3. LandInv' /\ RestoreInv'
    BY <1>9, <1>p, <2>1 DEF PurgeDelete, Pick, LandInv, RestoreInv, OpsOK
  <2> QED
    BY <2>2, <2>3 DEF RowsInv
<1>10. CASE PurgeMark
  BY <1>10 DEF PurgeMark, SetStatus, NextItem, RowsOK, MaintOK, RowsInv, HandInv, RowInv, LandInv, RestoreInv
<1>11. CASE Spare
  BY <1>11 DEF Spare, RowsInv, HandInv, RowInv, LandInv, RestoreInv
<1>12. ASSUME NEW i \in Items, SweepLook(i) PROVE RowsInv'
  BY <1>12, <1>p DEF SweepLook, Pick, RowsInv, HandInv, RowInv, LandInv, RestoreInv
<1>13. CASE SweepDrop
  <2>1. \A j \in Items : store'[j] \in {store[j], NoData}
    BY <1>13 DEF SweepDrop, DeleteStaged, FilesOK
  <2>2. HandInv' /\ RowInv'
    BY <1>13, <2>1 DEF SweepDrop, NextItem, HandInv, RowInv
  <2>3. LandInv' /\ RestoreInv'
    BY <1>13, <2>1 DEF SweepDrop, NextItem, OpsOK, MaintOK, LandInv, RestoreInv
  <2> QED
    BY <2>2, <2>3 DEF RowsInv
<1> QED
  BY <1>1, <1>2, <1>3, <1>4, <1>5, <1>6, <1>7, <1>8, <1>9, <1>10, <1>11, <1>12, <1>13
     DEF MaintenancePass

LEMMA LedgerOps == LedgerInv /\ RestoreDrainOps => RowsInv'
<1> SUFFICES ASSUME LedgerInv, RestoreDrainOps PROVE RowsInv'
  OBVIOUS
<1>0. FilesOK /\ RowsOK /\ ItemsOK /\ CommandsOK /\ MaintOK /\ OpsOK /\ BoundInv /\ CommandInv /\ SourceInv
        /\ HandInv /\ RowInv /\ LandInv /\ RestoreInv
  BY DEF LedgerInv, RowsInv, TypeInv, TypeOK
<1> USE <1>0 DEF OpsUnchanged, fsVars, itemVars, maintVars
<1>1. CASE DrainBegin
  BY <1>1 DEF DrainBegin, RowsInv, HandInv, RowInv, LandInv, RestoreInv
<1>2. CASE DrainEnd
  BY <1>2 DEF DrainEnd, RowsInv, HandInv, RowInv, LandInv, RestoreInv
<1>3. CASE OpBegin
  <2>0. oid' \in OpIds /\ ops[oid'].type \in {"restore", "restore-tree", "reconcile"}
    <3>1. batch \in SUBSET Nat /\ batch # {}
      BY <1>3 DEF OpBegin, OpsOK, OpIds
    <3>2. oid' \in Pending
      BY <1>3, <3>1, OldestMember DEF OpBegin, CommandInv
    <3> QED
      BY <3>2 DEF Pending, CommandInv, CommandsOK, BoundInv, OpIds
  <2>1. otodo' \subseteq 1 .. nItems
    BY <1>3, <2>0 DEF OpBegin, Rows, RowInv, HandInv, BoundInv, Items
  <2>2. opc' = "names" => \A i \in otodo' : rpath[i] # 0
    BY <1>3, <2>0 DEF OpBegin, Rows, RowsOK, Tokens
  <2> QED
    BY <1>3, <2>1, <2>2 DEF OpBegin, RowsInv, HandInv, RowInv, LandInv, RestoreInv
<1>4. ASSUME NEW i \in Items, RestoreGet(i) PROVE RowsInv'
  BY <1>4 DEF RestoreGet, ItemFailed, ItemOver, RowsInv, HandInv, RowInv, LandInv, RestoreInv
<1>5. ASSUME NEW i \in Items, ReconcileRow(i) PROVE RowsInv'
  BY <1>5 DEF ReconcileRow, SetStatus, Found, RowsOK, MaintOK, RowsInv, HandInv, RowInv, LandInv, RestoreInv
<1>6. CASE RestoreCheck
  BY <1>6 DEF RestoreCheck, ItemFailed, ItemOver, RowsInv, HandInv, RowInv, LandInv, RestoreInv
<1>7. CASE RestoreMove
  <2>1. \A j \in Items : store'[j] \in {store[j], NoData}
    BY <1>7 DEF RestoreMove, MoveBack, FilesOK
  <2>2. opc' = "set" => store'[oitem] = NoData /\ store[oitem] # NoData /\ oitem' = oitem
    BY <1>7 DEF RestoreMove, MoveBack, SourceThere, ItemFailed, ItemOver, FilesOK, OpsOK
  <2>3. HandInv' /\ RowInv'
    BY <1>7, <2>1 DEF RestoreMove, ItemFailed, ItemOver, HandInv, RowInv
  <2>4. LandInv' /\ RestoreInv'
    BY <1>7, <2>1, <2>2 DEF RestoreMove, ItemFailed, ItemOver, LandInv, RestoreInv, MaintOK
  <2> QED
    BY <2>3, <2>4 DEF RowsInv
<1>8. CASE RestoreUnmeta
  <2>1. rpath[oitem] # 0 /\ store[oitem] = NoData
    BY <1>8 DEF RestoreUnmeta, RestoreInv, SourceInv, RowInv, OpsOK
  <2> QED
    BY <1>8, <2>1 DEF RestoreUnmeta, RowsInv, HandInv, RowInv, LandInv, RestoreInv
<1>9. CASE RestoreSet
  BY <1>9 DEF RestoreSet, SetStatus, ItemOver, RowsOK, MaintOK, OpsOK, RowsInv, HandInv, RowInv, LandInv, RestoreInv
<1>10. CASE ReconcileNames
  BY <1>10 DEF ReconcileNames, RowsInv, HandInv, RowInv, LandInv, RestoreInv
<1>11. CASE OpFinish
  <2>1. \A k \in OpIds : ops'[k].type = ops[k].type /\ ops'[k].item = ops[k].item
    BY <1>11 DEF OpFinish, Finish, CommandsOK, OpsOK
  <2> QED
    BY <1>11, <2>1 DEF OpFinish, OpOver, RowsInv, HandInv, RowInv, LandInv, RestoreInv
<1> QED
  BY <1>1, <1>2, <1>3, <1>4, <1>5, <1>6, <1>7, <1>8, <1>9, <1>10, <1>11 DEF RestoreDrainOps

LEMMA LedgerInvInit == Init => LedgerInv
<1> SUFFICES ASSUME Init PROVE LedgerInv
  OBVIOUS
<1>1. HandInv
  BY DEF Init, HandInv, NoOp
<1>2. RowInv /\ LandInv /\ RestoreInv
  BY DEF Init, RowInv, LandInv, RestoreInv
<1> QED
  BY <1>1, <1>2, TypeInvInit DEF LedgerInv, RowsInv

LEMMA LedgerInvNext == LedgerInv /\ [Next]_vars => LedgerInv'
<1> SUFFICES ASSUME LedgerInv, [Next]_vars PROVE RowsInv'
  BY TypeInvNext DEF LedgerInv
<1>1. CASE UNCHANGED vars
  BY <1>1 DEF vars, boundVars, fsVars, itemVars, dbVars, maintVars, opsVars, LedgerInv, RowsInv, HandInv,
     RowInv, LandInv, RestoreInv
<1>2. CASE Crash
  BY <1>2 DEF Crash, fsVars, dbVars, LedgerInv, RowsInv, HandInv, RowInv, LandInv, RestoreInv
<1> QED
  BY <1>1, <1>2, LedgerOutside, LedgerAddItem, LedgerMaintenance, LedgerOps DEF Next

-----------------------------------------------------------------------------
(* The ledger.                                                             *)

LEMMA LedgerInit == Init => Ledger!Init
  BY DEF Init, Ledger!Init, NoOp

\* Writing a status that a closed row may take closes it, or changes nothing.
LEMMA CloseOrStutter ==
  ASSUME RowsOK, NEW i \in Items, NEW s \in Terminal, SetStatus(i, s), UNCHANGED ops
  PROVE  Ledger!Close(i) \/ UNCHANGED Ledger!ledgerVars
<1>1. CASE status[i] = "none"
  BY <1>1 DEF SetStatus, RowsOK, Ledger!ledgerVars
<1>2. CASE status[i] # "none"
  BY <1>2 DEF SetStatus, RowsOK, Live, Terminal, Ledger!Close, Ledger!Live, Ledger!Terminal
<1> QED
  BY <1>1, <1>2

LEMMA LedgerStep == LedgerInv /\ [Next]_vars => [Ledger!Next]_(Ledger!ledgerVars)
<1> SUFFICES ASSUME LedgerInv, [Next]_vars PROVE [Ledger!Next]_(Ledger!ledgerVars)
  OBVIOUS
<1>0. RowsOK /\ ItemsOK /\ CommandsOK /\ MaintOK /\ OpsOK /\ BoundInv /\ CommandInv /\ RowInv /\ LandInv
  BY DEF LedgerInv, RowsInv, TypeInv, TypeOK
<1> USE <1>0
<1>1. ASSUME UNCHANGED <<status, ops>> PROVE UNCHANGED Ledger!ledgerVars
  BY <1>1 DEF Ledger!ledgerVars
<1>2. CASE UNCHANGED vars
  BY <1>1, <1>2 DEF vars, dbVars
<1>3. CASE Outside
  <2>1. ASSUME NEW type, NEW i, NEW p, EnqueueOp(type, i, p) PROVE \E k \in OpIds : Ledger!Queue(k)
    <3>1. nOps + 1 \in OpIds /\ ops[nOps + 1].state = "none"
      BY <2>1, LimitBounds DEF EnqueueOp, BoundInv, CommandInv, OpIds, LedgerInv, TypeInv, TypeOK
    <3>2. Ledger!Queue(nOps + 1)
      BY <2>1, <3>1 DEF EnqueueOp, CommandsOK, Ledger!Queue
    <3> QED
      BY <3>1, <3>2 DEF Ledger!Queue
  <2> QED
    BY <1>1, <1>3, <2>1 DEF Outside, UserCreate, UserDelete, Lose, Expire, NativeTake, Tick, dbVars, Ledger!Next
<1>4. CASE AddItem
  <2>1. inflight \in SUBSET Nat /\ inflight # {} /\ UNCHANGED ops
    BY <1>4 DEF AddItem, ItemsOK
  <2>2. PICK i \in inflight : status' = [status EXCEPT ![i] = "staged"] \/ status' = status
    BY <1>4, <2>1, OldestMember DEF AddItem
  <2>3. i \in Items /\ status[i] = "none"
    BY <1>0, LimitBounds DEF ItemsOK, BoundInv, RowInv, Items, LedgerInv, TypeInv, TypeOK
  <2> QED
    BY <1>1, <2>1, <2>2, <2>3 DEF Ledger!Next, Ledger!Insert
<1>5. CASE MaintenancePass
  <2>1. UNCHANGED ops
    BY <1>5 DEF MaintenancePass, PassBegin, List, JobDone, SweepDone, LandMove, LandSkip, PurgeDelete, SweepLook,
       LandMeta, LandSet, PurgeMark, Spare, SweepDrop, Pick, MaintUnchanged
  <2>2. CASE SweepDone
    <3>1. PICK S \in SUBSET Items : /\ \A i \in S : status[i] \in Terminal
                                   /\ status' = [i \in Items |-> IF i \in S THEN "none" ELSE status[i]]
      BY <2>2 DEF SweepDone, ItemsOK
    <3> QED
      BY <2>1, <3>1 DEF Ledger!Next, Ledger!Archive, Terminal, Ledger!Terminal
  <2>3. CASE LandSet
    <3>1. mitem \in Items /\ status[mitem] = "staged"
      BY <2>3 DEF LandSet, MaintOK, LandInv
    <3>2. CASE SetStatus(mitem, "landed")
      BY <2>1, <3>1, <3>2 DEF SetStatus, Ledger!Next, Ledger!Land
    <3> QED
      BY <1>1, <2>1, <2>3, <3>2 DEF LandSet
  <2>4. CASE PurgeMark
    <3>1. mitem \in Items
      BY <2>4 DEF PurgeMark, MaintOK
    <3> QED
      BY <1>1, <2>1, <2>4, <3>1, CloseOrStutter DEF PurgeMark, Terminal, Ledger!Next
  <2> QED
    BY <1>1, <1>5, <2>1, <2>2, <2>3, <2>4 DEF MaintenancePass, PassBegin, List, JobDone, LandMove, LandSkip,
       PurgeDelete, SweepLook, LandMeta, Spare, SweepDrop
<1>6. CASE RestoreDrainOps
  <2>1. ASSUME NEW i \in Items, ReconcileRow(i) PROVE [Ledger!Next]_(Ledger!ledgerVars)
    BY <1>1, <2>1, CloseOrStutter DEF ReconcileRow, Found, Terminal, Ledger!Next
  <2>2. CASE RestoreSet
    <3>1. oitem \in Items
      BY <2>2 DEF RestoreSet, OpsOK
    <3> QED
      BY <1>1, <2>2, <3>1, CloseOrStutter DEF RestoreSet, Terminal, Ledger!Next
  <2>3. CASE OpFinish
    <3>1. oid \in OpIds /\ ops[oid].state = "pending" /\ UNCHANGED status
      BY <2>3 DEF OpFinish, OpsOK, CommandInv
    <3>2. ASSUME NEW r \in {"done", "failed"}, Finish(r) PROVE Ledger!Answer(oid)
      BY <3>1, <3>2 DEF Finish, CommandsOK, Ledger!Answer
    <3> QED
      BY <1>1, <2>3, <3>1, <3>2 DEF OpFinish, Ledger!Next, Ledger!Answer
  <2> QED
    BY <1>1, <1>6, <2>1, <2>2, <2>3 DEF RestoreDrainOps, DrainBegin, DrainEnd, OpBegin, RestoreGet, RestoreCheck,
       RestoreMove, RestoreUnmeta, ReconcileNames
<1>7. CASE Crash
  BY <1>1, <1>7 DEF Crash, dbVars
<1> QED
  BY <1>2, <1>3, <1>4, <1>5, <1>6, <1>7 DEF Next

\* What a client sees is a ledger, for any number of deletes, commands, failed
\* calls and crashes: every row starts out staged, lands only from there, and
\* once it is restored or purged never comes back to the bin; a command is
\* answered once.  The service writes every status without looking at the one
\* it replaces, so this rests on what the threads know of the files.
THEOREM LifecycleImplementsLedger == Spec => ImplementsLedger
<1>1. Init => LedgerInv /\ Ledger!Init
  BY LedgerInvInit, LedgerInit
<1>2. LedgerInv /\ [Next]_vars => LedgerInv'
  BY LedgerInvNext
<1>3. LedgerInv /\ [Next]_vars => [Ledger!Next]_(Ledger!ledgerVars)
  BY LedgerStep
<1> QED
  BY <1>1, <1>2, <1>3, PTL DEF Spec, ImplementsLedger, Ledger!Spec

-----------------------------------------------------------------------------
(* A restore reported done has been carried out.                           *)

\* No step undoes a failure or a crash.
LEMMA FaultsStay ==
  ASSUME BoundsOK, [Next]_vars
  PROVE  /\ Undisturbed' => Undisturbed
         /\ faults' = 0 => faults = 0
         /\ Fails => faults' # 0
         /\ Crash => crashes' # 0
<1>1. faults \in Nat /\ crashes \in Nat
  BY DEF BoundsOK
<1>2. faults' = faults \/ faults' = faults + 1
  BY DEF Next, vars, boundVars, Works, Fails, Crash, AddItem, Outside, OutsideUnchanged, UserCreate, UserDelete,
     Lose, Expire, NativeTake, Tick, EnqueueOp, MaintenancePass, MaintUnchanged, PassBegin, List, JobDone,
     SweepDone, LandMove, LandSkip, PurgeDelete, SweepLook, LandMeta, LandSet, PurgeMark, Spare, SweepDrop,
     RestoreDrainOps, OpsUnchanged, DrainBegin, DrainEnd, OpBegin, RestoreGet, ReconcileRow, RestoreCheck,
     RestoreMove, RestoreUnmeta, RestoreSet, ReconcileNames, OpFinish
<1>3. crashes' = crashes \/ crashes' = crashes + 1
  BY DEF Next, vars, boundVars, Works, Fails, Crash, AddItem, Outside, OutsideUnchanged, UserCreate, UserDelete,
     Lose, Expire, NativeTake, Tick, EnqueueOp, MaintenancePass, MaintUnchanged, PassBegin, List, JobDone,
     SweepDone, LandMove, LandSkip, PurgeDelete, SweepLook, LandMeta, LandSet, PurgeMark, Spare, SweepDrop, Pick,
     RestoreDrainOps, OpsUnchanged, DrainBegin, DrainEnd, OpBegin, RestoreGet, ReconcileRow, RestoreCheck,
     RestoreMove, RestoreUnmeta, RestoreSet, ReconcileNames, OpFinish
<1> QED
  BY <1>1, <1>2, <1>3 DEF Undisturbed, Fails, Crash

\* Once its row is inserted, nothing brings an item back that is not in the bin.
LEMMA StaysClosed ==
  ASSUME LedgerInv, [Next]_vars, NEW i \in (1 .. nItems) \ inflight, status[i] \notin Live
  PROVE  status'[i] \notin Live
<1>0. RowsOK /\ ItemsOK /\ BoundInv /\ MaintOK /\ OpsOK /\ LandInv /\ i \in Items
  BY LimitBounds DEF LedgerInv, RowsInv, TypeInv, TypeOK, BoundInv, Items
<1> USE <1>0
<1>1. CASE UNCHANGED status
  BY <1>1
<1>2. CASE AddItem
  <2>1. inflight \in SUBSET Nat /\ inflight # {}
    BY <1>2 DEF AddItem, ItemsOK
  <2>2. PICK j \in inflight : status' = [status EXCEPT ![j] = "staged"] \/ status' = status
    BY <1>2, <2>1, OldestMember DEF AddItem
  <2> QED
    BY <2>2 DEF RowsOK
<1>3. ASSUME NEW j \in Items, NEW s \in Terminal, SetStatus(j, s) PROVE status'[i] \notin Live
  BY <1>3 DEF SetStatus, RowsOK, Live, Terminal
<1>4. CASE LandSet
  BY <1>4 DEF LandSet, SetStatus, RowsOK, MaintOK, LandInv, Live
<1>5. CASE PurgeMark
  BY <1>1, <1>3, <1>5 DEF PurgeMark, MaintOK, Terminal
<1>6. CASE SweepDone
  BY <1>6 DEF SweepDone, RowsOK, Live
<1>7. CASE RestoreSet
  BY <1>1, <1>3, <1>7 DEF RestoreSet, OpsOK, Terminal
<1>8. ASSUME NEW j \in Items, ReconcileRow(j) PROVE status'[i] \notin Live
  BY <1>1, <1>3, <1>8 DEF ReconcileRow, Found, Terminal
<1>9. Outside \/ Crash \/ UNCHANGED vars => UNCHANGED status
  BY DEF Outside, UserCreate, UserDelete, Lose, Expire, NativeTake, EnqueueOp, Tick, Crash, vars, dbVars
<1>10. MaintenancePass => UNCHANGED status \/ LandSet \/ PurgeMark \/ SweepDone
  BY DEF MaintenancePass, PassBegin, List, JobDone, LandMove, LandSkip, PurgeDelete, SweepLook, LandMeta, Spare,
     SweepDrop
<1>11. RestoreDrainOps => UNCHANGED status \/ RestoreSet \/ \E j \in Items : ReconcileRow(j)
  BY DEF RestoreDrainOps, DrainBegin, DrainEnd, OpBegin, RestoreGet, RestoreCheck, RestoreMove, RestoreUnmeta,
     ReconcileNames, OpFinish
<1> QED
  BY <1>1, <1>2, <1>4, <1>5, <1>6, <1>7, <1>8, <1>9, <1>10, <1>11 DEF Next

LEMMA DoneInvNext == LedgerInv /\ DoneInv /\ [Next]_vars => DoneInv'
<1> SUFFICES ASSUME LedgerInv, DoneInv, [Next]_vars, Undisturbed', ~obad',
                    opc' \in {"each", "check", "move", "unmeta", "set"}, ops'[oid'].type = "restore"
             PROVE  \/ ops'[oid'].item \in otodo'
                    \/ opc' # "each" /\ oitem' = ops'[oid'].item
                    \/ status'[ops'[oid'].item] \notin Live
  BY DEF DoneInv
<1>0. /\ RowsOK /\ CommandsOK /\ OpsOK /\ BoundInv /\ CommandInv /\ HandInv /\ BoundsOK
      /\ \A k \in OpIds : ops[k].type = "restore" => ops[k].item \in (1 .. nItems) \ inflight
  BY DEF LedgerInv, RowsInv, TypeInv, TypeOK, HandInv
<1>1. Undisturbed /\ ~Crash /\ faults' = 0 /\ ~Fails
  BY <1>0, FaultsStay DEF Undisturbed
<1>2. ASSUME UNCHANGED <<opc, otodo, oitem, obad, oid>>, oid \in OpIds => ops'[oid] = ops[oid]
      PROVE  \/ ops'[oid'].item \in otodo'
             \/ opc' # "each" /\ oitem' = ops'[oid'].item
             \/ status'[ops'[oid'].item] \notin Live
  BY <1>0, <1>1, <1>2, StaysClosed DEF DoneInv, OpsOK
<1>3. CASE Outside
  <2>1. UNCHANGED <<opc, otodo, oitem, obad, oid>>
    BY <1>3 DEF Outside, UserCreate, UserDelete, Lose, Expire, NativeTake, EnqueueOp, Tick, OutsideUnchanged, opsVars
  <2>2. oid \in OpIds => ops'[oid] = ops[oid]
    <3>1. oid \in OpIds => ops[oid].state = "pending" /\ oid <= nOps
      BY <1>0, <2>1 DEF CommandInv, OpIds, BoundInv
    <3>2. ASSUME NEW type, NEW i, NEW p, EnqueueOp(type, i, p) PROVE oid \in OpIds => ops'[oid] = ops[oid]
      BY <1>0, <3>1, <3>2 DEF EnqueueOp, CommandsOK, BoundInv, OpIds
    <3> QED
      BY <1>3, <3>2 DEF Outside, UserCreate, UserDelete, Lose, Expire, NativeTake, Tick, dbVars
  <2> QED
    BY <1>2, <2>1, <2>2
<1>4. CASE AddItem \/ MaintenancePass \/ UNCHANGED vars
  BY <1>2, <1>4 DEF AddItem, OutsideUnchanged, MaintenancePass, MaintUnchanged, PassBegin, List, JobDone, SweepDone,
     LandMove, LandSkip, PurgeDelete, SweepLook, LandMeta, LandSet, PurgeMark, Spare, SweepDrop, Pick, vars, opsVars,
     dbVars
<1>5. CASE RestoreDrainOps
  <2> USE <1>0, <1>1 DEF OpsUnchanged, ItemFailed, ItemOver
  <2>1. ASSUME UNCHANGED <<oid, ops>>, opc \in {"each", "check", "move", "unmeta", "set"}, ~obad
        PROVE  /\ ops'[oid'].item = ops[oid].item
               /\ \/ ops[oid].item \in otodo
                  \/ opc # "each" /\ oitem = ops[oid].item
                  \/ status'[ops[oid].item] \notin Live
    BY <2>1, StaysClosed DEF DoneInv, OpsOK
  <2>2. CASE DrainBegin \/ DrainEnd \/ ReconcileNames \/ OpFinish \/ \E i \in Items : ReconcileRow(i)
    BY <2>2 DEF DrainBegin, DrainEnd, ReconcileNames, OpFinish, OpOver, ReconcileRow
  <2>3. CASE OpBegin
    BY <2>3 DEF OpBegin
  <2>4. ASSUME NEW i \in Items, RestoreGet(i)
        PROVE  \/ ops'[oid'].item \in otodo'
               \/ opc' # "each" /\ oitem' = ops'[oid'].item
               \/ status'[ops'[oid'].item] \notin Live
    <3>1. opc = "each" /\ ~obad /\ UNCHANGED <<oid, ops, status>> /\ otodo' = otodo \ {i}
      BY <2>4 DEF RestoreGet
    <3>2. status[i] \in Live /\ oitem' = i /\ opc' = "check"
      BY <2>4 DEF RestoreGet
    <3> QED
      BY <2>1, <3>1, <3>2
  <2>5. CASE RestoreCheck \/ RestoreUnmeta
    BY <2>1, <2>5 DEF RestoreCheck, RestoreUnmeta
  <2>6. CASE RestoreMove
    BY <2>1, <2>6 DEF RestoreMove
  <2>7. CASE RestoreSet
    <3>1. SetStatus(oitem, "restored")
      BY <2>7 DEF RestoreSet
    <3>2. status'[oitem] \notin Live
      BY <2>7, <3>1 DEF RestoreSet, SetStatus, OpsOK, RowsOK, Live
    <3> QED
      BY <2>1, <2>7, <3>2 DEF RestoreSet
  <2> QED
    BY <1>5, <2>2, <2>3, <2>4, <2>5, <2>6, <2>7 DEF RestoreDrainOps
<1> QED
  BY <1>1, <1>3, <1>4, <1>5 DEF Next

\* A restore that a client is told was done has been carried out, as long as
\* no call failed and the service was not stopped: its item has left the bin,
\* though the maintenance thread may have been landing or purging it meanwhile.
THEOREM DoneMeansDone == Spec => DoneIsDone
<1>1. Init => LedgerInv /\ DoneInv
  BY LedgerInvInit DEF Init, DoneInv
<1>2. LedgerInv /\ DoneInv /\ [Next]_vars => LedgerInv' /\ DoneInv'
  BY LedgerInvNext, DoneInvNext
<1>3. LedgerInv /\ DoneInv /\ [Next]_vars =>
        [\A k \in OpIds :
           Undisturbed /\ ops[k].type = "restore" /\ ops[k].state = "pending" /\ ops'[k].state = "done" =>
             status[ops[k].item] \notin Live]_vars
  <2> SUFFICES ASSUME LedgerInv, DoneInv, [Next]_vars, NEW k \in OpIds, Undisturbed, ops[k].type = "restore",
                      ops[k].state = "pending", ops'[k].state = "done"
               PROVE  status[ops[k].item] \notin Live
    OBVIOUS
  <2>0. CommandsOK /\ OpsOK /\ BoundInv /\ CommandInv
    BY DEF LedgerInv, TypeInv, TypeOK
  <2>1. OpFinish
    <3>1. UNCHANGED ops \/ OpFinish \/ Outside
      BY DEF Next, vars, Crash, AddItem, MaintenancePass, MaintUnchanged, PassBegin, List, JobDone, SweepDone, LandMove, LandSkip, PurgeDelete,
         SweepLook, LandMeta, LandSet, PurgeMark, Spare, SweepDrop, Pick, RestoreDrainOps, DrainBegin, DrainEnd,
         OpBegin, RestoreGet, ReconcileRow, RestoreCheck, RestoreMove, RestoreUnmeta, RestoreSet, ReconcileNames, dbVars
    <3>2. ASSUME NEW type, NEW i, NEW p, EnqueueOp(type, i, p) PROVE FALSE
      BY <2>0, <3>2 DEF EnqueueOp, CommandsOK
    <3>3. Outside => UNCHANGED ops
      BY <3>2 DEF Outside, UserCreate, UserDelete, Lose, Expire, NativeTake, Tick, dbVars
    <3> QED
      BY <2>0, <3>1, <3>3
  <2>2. k = oid /\ ~obad /\ opc = "each" /\ otodo = {}
    BY <2>0, <2>1 DEF OpFinish, Finish, CommandsOK, OpsOK, CommandInv
  <2> QED
    BY <2>2 DEF DoneInv
<1> QED
  BY <1>1, <1>2, <1>3, PTL DEF Spec, DoneIsDone
=============================================================================
