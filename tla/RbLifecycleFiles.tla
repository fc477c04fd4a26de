-------------------------- MODULE RbLifecycleFiles --------------------------
(***************************************************************************)
(* Theorems about the files of recycled items, for any number of items,    *)
(* commands, failures and crashes.                                         *)
(*                                                                         *)
(* The name the service makes for a landed item is the millisecond it was  *)
(* made in plus the row id, "unique across restarts" (rbstore.c:187), and  *)
(* MoveFileExW replaces what it finds.  Rows are inserted, listed and      *)
(* landed in the order of the deletes, so both summands grow and the name  *)
(* is new, until a landing that failed is made up for after a younger one  *)
(* of its list: overtaken says that this has happened.  FilesInv holds     *)
(* until then, on whatever clock and through every failure and crash, and  *)
(* for as long as nothing fails.                                           *)
(***************************************************************************)
EXTENDS RbLifecycleProofs, FiniteSetTheorems

\* The name made for an item is unlike any name in the bin: at the moment of a
\* move no file and no row has its token.
TokensFresh ==
  mjob = "land" /\ mpc = "each" =>
    \A i \in todo : store[i] # NoData =>
      bin[Token(i)] = NoData /\ \A j \in Items : rpath[j] # Token(i)

\* A restore puts the item's own file in its place, and never that of another
\* item or user, until an item that was overtaken may have got another's name.
RestoreGivesOwn ==
  [][~overtaken /\ opc = "move" /\ opc' \in {"unmeta", "set"} =>
       share' = [share EXCEPT ![Dest] = data[oitem]]]_vars

\* A file is in one place.
OnePlace ==
  /\ \A p, q \in Paths : share[p] = share[q] /\ p # q => share[p] = NoData
  /\ \A i, j \in Items : store[i] = store[j] /\ i # j => store[i] = NoData
  /\ \A t, u \in Tokens : bin[t] = bin[u] /\ t # u => bin[t] = NoData
  /\ \A p \in Paths, i \in Items : share[p] = store[i] => share[p] = NoData
  /\ \A p \in Paths, t \in Tokens : share[p] = bin[t] => share[p] = NoData
  /\ \A i \in Items, t \in Tokens : store[i] = bin[t] => store[i] = NoData

\* The files there are, and the ones items were made of.
FreshInv ==
  /\ \A p \in Paths : share[p] # NoData => share[p] <= nData
  /\ \A i \in Items : store[i] # NoData => store[i] <= nData
  /\ \A t \in Tokens : bin[t] # NoData => bin[t] <= nData
  /\ \A i \in 1 .. nItems : data[i] \in 1 .. nData /\ orig[i] \in Paths

\* Each file is where its item has it, and no two items share a token.
NameInv ==
  /\ \A i \in Items : store[i] \in {NoData, data[i]}
  /\ \A i \in Items : rpath[i] # 0 => bin[rpath[i]] \in {NoData, data[i]}
  /\ \A i, j \in Items : rpath[i] = rpath[j] /\ i # j => rpath[i] = 0
  /\ mpc \in {"meta", "set"} => bin[mtoken] = data[mitem] /\ \A i \in Items : rpath[i] # mtoken
  /\ opc \in {"unmeta", "set"} /\ rpath[oitem] # 0 => bin[rpath[oitem]] = NoData
  /\ opc = "sift" /\ ~ocut => \A i \in otodo : rpath[i] \notin onames => bin[rpath[i]] = NoData

\* What the jobs of the pass have listed, and the item a restore has in hand.
JobInv ==
  /\ mjob \in {"expire", "watermark", "quota"} => \A i \in todo : rpath[i] # 0
  /\ mjob = "stale" => \A i \in todo : rpath[i] = 0 /\ i \notin inflight
  /\ mjob \in {"expire", "stale"} => todo \subseteq expired
  /\ mpc = "drop" => mjob = "sweep"
  /\ opc \in {"check", "move", "unmeta", "set"} => oitem \notin inflight

\* What a restore is about to replace is no item's file, as long as nobody else
\* works on the bin.
TargetInv ==
  opc = "move" /\ faults = 0 =>
    share[Dest] = NoData \/ \A i \in 1 .. nItems : data[i] # share[Dest]

\* A call that works leaves rows and files in step: of a file on its way to its
\* row, of a row in the bin, of a row that left it, of the item the maintenance
\* thread has in hand, and of $R and $I files.
FlightClean == \A i \in inflight : store[i] = data[i] \/ data[i] \in OldData

LiveClean ==
  \A i \in Items : ~Busy(i) /\ data[i] \notin OldData =>
    /\ status[i] = "landed" => bin[rpath[i]] = data[i]
    /\ status[i] = "staged" => store[i] = data[i]

Emptied(i) == store[i] = NoData /\ (rpath[i] # 0 => bin[rpath[i]] = NoData)
ClosedClean == \A i \in Items : status[i] \in Terminal => Emptied(i)

HandClean ==
  /\ mpc = "mark" => Emptied(mitem)
  /\ mpc = "drop" => data[mitem] \in OldData

Unpaired(t) == (mpc = "meta" /\ t = mtoken) \/ (opc = "unmeta" /\ t = rpath[oitem])
PairClean ==
  \A t \in Tokens : ~Unpaired(t) =>
    /\ t \in meta => bin[t] # NoData
    /\ bin[t] # NoData => t \in meta

CleanInv == Undisturbed => FlightClean /\ LiveClean /\ ClosedClean /\ HandClean /\ PairClean

FilesInv == OnePlace /\ FreshInv /\ NameInv /\ JobInv /\ TargetInv /\ CleanInv

\* The items still to be landed, and a name none of them will be given: it is
\* one of an item before them, made by now.
Unlanded == {i \in Items : store[i] # NoData /\ (i \in inflight \/ status[i] = "staged")}
Past(t)  == \E j \in 1 .. nItems : t <= clock + j /\ \A i \in Unlanded : j < i

\* Rows are inserted and listed in the order of the deletes, and so landed.
InsertOrder == \A i \in inflight, j \in Items : status[j] # "none" => j < i
ListOrder   == mjob = "land" => \A i \in todo, j \in Unlanded : j < i => j \in todo
LandOrder ==
  /\ \A t \in Tokens : bin[t] # NoData => Past(t)
  /\ \A i \in Items : rpath[i] # 0 => Past(rpath[i])
  /\ mpc \in {"meta", "set"} => Past(mtoken)

OrderInv == InsertOrder /\ ListOrder /\ LandOrder

\* Files and names are in order until an item is overtaken, and nothing is
\* overtaken, nor a snapshot cut short, while nothing fails.
KeptInv ==
  /\ ~overtaken => OrderInv /\ FilesInv
  /\ faults = 0 => ~overtaken /\ ~ocut
-----------------------------------------------------------------------------
(* Types the steps below keep needing.                                     *)

LEMMA LedgerParts ==
  ASSUME LedgerInv
  PROVE  /\ BoundsOK /\ FilesOK /\ ItemsOK /\ RowsOK /\ CommandsOK /\ MaintOK /\ OpsOK
         /\ BoundInv /\ CommandInv /\ SourceInv /\ HandInv /\ RowInv /\ LandInv /\ RestoreInv
  BY DEF LedgerInv, RowsInv, TypeInv, TypeOK

\* A path item numbers, tokens and files are numbers, and 0 is none of them.
LEMMA Numbers ==
  ASSUME LedgerInv
  PROVE  /\ nItems \in Nat /\ nData \in Nat /\ 1 .. nItems \subseteq Items
         /\ NoData \notin Data /\ NoData \notin 1 .. nData /\ 1 .. nData \subseteq Data
         /\ 0 \notin Tokens /\ 0 \notin Items
<1>1. NoData \notin Data /\ BoundsOK /\ BoundInv
  BY RbLifecycleAssumption, LedgerParts DEF Data
<1> QED
  BY <1>1, LimitBounds DEF BoundInv, Data, Items, Tokens

\* Where a restore puts the item in hand is a path of the share.
LEMMA DestType ==
  ASSUME LedgerInv, FreshInv, opc \in {"check", "move"}
  PROVE  Dest \in Paths
<1>1. oid \in OpIds /\ oitem \in 1 .. nItems
  BY LedgerParts, Numbers DEF OpsOK, HandInv
<1>2. ops[oid].type = "restore" => ops[oid].dest \in Paths
  BY <1>1, LedgerParts DEF CommandInv
<1> QED
  BY <1>1, <1>2 DEF Dest, FreshInv

LEMMA FileSteps ==
  ASSUME [Next]_vars
  PROVE  \/ UNCHANGED <<share, store, bin, nItems, nData, data, orig>>
         \/ \E p \in Paths : UserCreate(p) \/ UserDelete(p)
         \/ \E i \in Items : NativeTake(i) \/ LandMove(i) \/ PurgeDelete(i)
         \/ SweepDrop \/ RestoreMove
  BY DEF Next, vars, fsVars, AddItem, Outside, Lose, Expire, Tick, EnqueueOp, MaintenancePass, PassBegin, List,
     JobDone, SweepDone, LandSkip, SweepLook, LandMeta, LandSet, PurgeMark, Spare, RestoreDrainOps, DrainBegin,
     DrainEnd, OpBegin, RestoreGet, ReconcileRow, RestoreCheck, RestoreUnmeta, RestoreSet, ReconcileNames,
     OpFinish, Crash, boundVars, itemVars, Pick, MaintUnchanged, OpsUnchanged
-----------------------------------------------------------------------------
(* Where files are.                                                        *)

LEMMA PlaceNext ==
  ASSUME LedgerInv, OnePlace, FreshInv, [Next]_vars
  PROVE  OnePlace' /\ FreshInv'
<1>0. FilesOK /\ ItemsOK /\ RowsOK /\ MaintOK /\ OpsOK /\ BoundInv /\ SourceInv /\ HandInv
  BY LedgerParts
<1>n. /\ nItems \in Nat /\ nData \in Nat /\ NoData \notin Data /\ 1 .. nItems \subseteq Items
      /\ \A d \in Data : d \in Nat
  BY Numbers DEF Data
<1>a. ASSUME UNCHANGED <<nItems, nData, data, orig>>,
             \A p \in Paths : share'[p] \in {share[p], NoData},
             \A i \in Items : store'[i] \in {store[i], NoData},
             \A t \in Tokens : bin'[t] \in {bin[t], NoData}
      PROVE  OnePlace' /\ FreshInv'
  <2>1. OnePlace'
    BY <1>a DEF OnePlace
  <2>2. FreshInv'
    BY <1>a DEF FreshInv
  <2> QED
    BY <2>1, <2>2
<1>1. ASSUME NEW p \in Paths, UserCreate(p) PROVE OnePlace' /\ FreshInv'
  <2>0. share'[p] = nData + 1 /\ nData' = nData + 1 /\ \A q \in Paths : q # p => share'[q] = share[q]
    BY <1>0, <1>1 DEF UserCreate, FilesOK
  <2>1. OnePlace'
    BY <1>0, <1>1, <1>n, <2>0 DEF UserCreate, OnePlace, FreshInv, FilesOK
  <2>2. FreshInv'
    BY <1>0, <1>1, <1>n, <2>0 DEF UserCreate, FreshInv, FilesOK, itemVars
  <2> QED
    BY <2>1, <2>2
<1>2. ASSUME NEW p \in Paths, UserDelete(p) PROVE OnePlace' /\ FreshInv'
  <2>0. /\ nItems + 1 \in Items /\ nItems' = nItems + 1 /\ share[p] \in Data /\ share[p] # NoData
        /\ share'[p] = NoData /\ \A q \in Paths : q # p => share'[q] = share[q]
        /\ store'[nItems + 1] = share[p] /\ \A i \in Items : i # nItems + 1 => store'[i] = store[i]
        /\ data'[nItems + 1] = share[p] /\ \A i \in Items : i # nItems + 1 => data'[i] = data[i]
        /\ orig'[nItems + 1] = p /\ \A i \in Items : i # nItems + 1 => orig'[i] = orig[i]
    BY <1>0, <1>2, <1>n, LimitBounds, LedgerParts DEF UserDelete, FilesOK, ItemsOK, Items, BoundInv
  <2>1. OnePlace'
    BY <1>0, <1>2, <1>n, <2>0 DEF UserDelete, OnePlace
  <2>2. FreshInv'
    BY <1>0, <1>2, <1>n, <2>0 DEF UserDelete, FreshInv, Data
  <2> QED
    BY <2>1, <2>2
<1>3. ASSUME NEW p \in Paths, NEW t \in Tokens, bin[t] # NoData, UNCHANGED <<nItems, nData, data, orig, store>>,
             bin' = [bin EXCEPT ![t] = NoData], share' = [share EXCEPT ![p] = bin[t]]
      PROVE  OnePlace' /\ FreshInv'
  <2>0. /\ share'[p] = bin[t] /\ \A q \in Paths : q # p => share'[q] = share[q]
        /\ bin'[t] = NoData /\ \A u \in Tokens : u # t => bin'[u] = bin[u]
    BY <1>0, <1>3 DEF FilesOK
  <2>1. OnePlace'
    BY <1>3, <2>0 DEF OnePlace
  <2>2. FreshInv'
    BY <1>3, <2>0 DEF FreshInv
  <2> QED
    BY <2>1, <2>2
<1>4. ASSUME NEW p \in Paths, NEW i \in Items, store[i] # NoData, UNCHANGED <<nItems, nData, data, orig, bin>>,
             store' = [store EXCEPT ![i] = NoData], share' = [share EXCEPT ![p] = store[i]]
      PROVE  OnePlace' /\ FreshInv'
  <2>0. /\ share'[p] = store[i] /\ \A q \in Paths : q # p => share'[q] = share[q]
        /\ store'[i] = NoData /\ \A j \in Items : j # i => store'[j] = store[j]
    BY <1>0, <1>4 DEF FilesOK
  <2>1. OnePlace'
    BY <1>4, <2>0 DEF OnePlace
  <2>2. FreshInv'
    BY <1>4, <2>0 DEF FreshInv
  <2> QED
    BY <2>1, <2>2
<1>5. ASSUME NEW i \in Items, LandMove(i) PROVE OnePlace' /\ FreshInv'
  <2>0. /\ Token(i) \in Tokens /\ store[i] # NoData /\ UNCHANGED <<nItems, nData, data, orig, share>>
        /\ bin'[Token(i)] = store[i] /\ \A u \in Tokens : u # Token(i) => bin'[u] = bin[u]
        /\ store'[i] = NoData /\ \A j \in Items : j # i => store'[j] = store[j]
    BY <1>0, <1>5, TokenType, LedgerParts DEF LandMove, Pick, MaintUnchanged, itemVars, FilesOK, LedgerInv, TypeInv
  <2>1. OnePlace'
    BY <2>0 DEF OnePlace
  <2>2. FreshInv'
    BY <2>0 DEF FreshInv
  <2> QED
    BY <2>1, <2>2
<1>6. ASSUME NEW i \in Items, NativeTake(i) PROVE OnePlace' /\ FreshInv'
  <2>1. rpath[i] \in Tokens /\ i \in 1 .. nItems /\ orig[i] \in Paths
    BY <1>0, <1>6, <1>n, LedgerParts DEF NativeTake, RowsOK, RowInv, Items, FreshInv
  <2>2. UNCHANGED <<nItems, nData, data, orig, store>> /\ bin' = [bin EXCEPT ![rpath[i]] = NoData]
    BY <1>6 DEF NativeTake, itemVars
  <2>3. CASE UNCHANGED share
    BY <1>0, <1>a, <2>1, <2>2, <2>3 DEF FilesOK
  <2> QED
    BY <1>3, <1>6, <2>1, <2>2, <2>3 DEF NativeTake
<1>7. ASSUME NEW i \in Items, PurgeDelete(i) PROVE OnePlace' /\ FreshInv'
  BY <1>0, <1>7, <1>a DEF PurgeDelete, Pick, DeleteStaged, DeleteEntry, DeleteKeepsMeta, MaintUnchanged, itemVars, FilesOK
<1>8. CASE SweepDrop
  BY <1>0, <1>8, <1>a DEF SweepDrop, DeleteStaged, MaintUnchanged, itemVars, FilesOK
<1>9. CASE RestoreMove
  <2>1. Dest \in Paths /\ oitem \in Items /\ UNCHANGED <<nItems, nData, data, orig>>
    BY <1>0, <1>9, DestType DEF RestoreMove, OpsOK, OpsUnchanged, itemVars
  <2>2. CASE SourceThere /\ MoveBack
    <3>1. CASE osrc = "bin"
      <4>1. rpath[oitem] \in Tokens
        BY <1>0, <1>9, <2>1, <3>1 DEF RestoreMove, SourceInv, RowsOK
      <4> QED
        BY <1>3, <2>1, <2>2, <3>1, <4>1 DEF SourceThere, MoveBack
    <3>2. CASE osrc # "bin"
      BY <1>4, <2>1, <2>2, <3>2 DEF SourceThere, MoveBack
    <3> QED
      BY <3>1, <3>2
  <2>3. CASE UNCHANGED <<share, store, bin>>
    BY <1>a, <2>1, <2>3
  <2> QED
    BY <1>9, <2>2, <2>3 DEF RestoreMove
<1>10. CASE UNCHANGED <<share, store, bin, nItems, nData, data, orig>>
  BY <1>a, <1>10
<1> QED
  BY <1>1, <1>2, <1>5, <1>6, <1>7, <1>8, <1>9, <1>10, FileSteps
-----------------------------------------------------------------------------
(* What rows and threads say of them.                                      *)

LEMMA NameOutside ==
  ASSUME LedgerInv, NameInv, Outside \/ AddItem \/ Crash \/ UNCHANGED vars
  PROVE  NameInv'
<1>0. FilesOK /\ ItemsOK /\ RowsOK /\ MaintOK /\ OpsOK /\ BoundInv /\ HandInv /\ RowInv /\ 0 \notin Tokens
  BY LedgerParts, Numbers
<1> USE <1>0 DEF OutsideUnchanged, fsVars, itemVars, dbVars, maintVars, opsVars
<1>1. CASE UNCHANGED <<store, bin, data, rpath, maintVars, opsVars>>
  BY <1>1 DEF NameInv
<1>2. ASSUME NEW p \in Paths, UserDelete(p) PROVE NameInv'
  <2>1. /\ nItems + 1 \in Items /\ rpath[nItems + 1] = 0 /\ mitem # nItems + 1
        /\ store'[nItems + 1] = data'[nItems + 1]
        /\ \A i \in Items : i # nItems + 1 => store'[i] = store[i] /\ data'[i] = data[i]
    <3>1. nItems + 1 \in Items /\ nItems \in Nat
      BY <1>2, LimitBounds, LedgerParts DEF UserDelete, BoundInv, Items
    <3>2. rpath[nItems + 1] = 0 /\ mitem # nItems + 1
      BY <3>1 DEF RowInv, HandInv
    <3> QED
      BY <1>2, <3>1, <3>2 DEF UserDelete, FilesOK, ItemsOK
  <2> QED
    BY <1>2, <2>1 DEF UserDelete, NameInv, MaintOK
<1>3. ASSUME NEW i \in Items, NativeTake(i) PROVE NameInv'
  <2>1. rpath[i] \in Tokens /\ bin'[rpath[i]] = NoData /\ \A t \in Tokens : t # rpath[i] => bin'[t] = bin[t]
    BY <1>3 DEF NativeTake, RowsOK, FilesOK
  <2> QED
    BY <1>3, <2>1 DEF NativeTake, NameInv, MaintOK, RowsOK, OpsOK
<1>4. CASE Crash
  BY <1>4 DEF Crash, NameInv
<1> QED
  BY <1>1, <1>2, <1>3, <1>4 DEF Outside, UserCreate, Lose, Expire, EnqueueOp, Tick, AddItem, vars

LEMMA NameMaintenance ==
  ASSUME LedgerInv, NameInv, TokensFresh, MaintenancePass
  PROVE  NameInv'
<1>0. FilesOK /\ ItemsOK /\ RowsOK /\ MaintOK /\ OpsOK /\ BoundInv /\ HandInv /\ RowInv /\ LandInv /\ RestoreInv
        /\ 0 \notin Tokens
  BY LedgerParts, Numbers
<1> USE <1>0 DEF MaintUnchanged, fsVars, itemVars, opsVars
<1>1. ASSUME UNCHANGED <<store, bin, data, rpath, opsVars>>,
             mpc' \in {"meta", "set"} => mpc \in {"meta", "set"} /\ UNCHANGED <<mtoken, mitem>>
      PROVE  NameInv'
  BY <1>1 DEF NameInv
<1>2. ASSUME NEW i \in Items, LandMove(i) PROVE NameInv'
  <2>1. i \in todo /\ mjob = "land" /\ mpc = "each" /\ store[i] # NoData /\ Token(i) \in Tokens
    BY <1>2, PickedListed, TokenType, LedgerParts DEF LandMove, Pick, LedgerInv, TypeInv
  <2>2. bin[Token(i)] = NoData /\ \A j \in Items : rpath[j] # Token(i)
    BY <2>1 DEF TokensFresh
  <2>3. /\ bin'[Token(i)] = data[i] /\ \A t \in Tokens : t # Token(i) => bin'[t] = bin[t]
        /\ \A j \in Items : store'[j] \in {store[j], NoData}
    BY <1>2, <2>1 DEF LandMove, FilesOK, NameInv
  <2> QED
    BY <1>2, <2>2, <2>3 DEF LandMove, Pick, NameInv, RowsOK, OpsOK
<1>3. CASE LandSet
  <2>1. mitem \in Items /\ mtoken \in Tokens /\ rpath[mitem] = 0
    BY <1>3 DEF LandSet, MaintOK, LandInv
  <2>2. CASE UNCHANGED rpath
    BY <1>1, <1>3, <2>2 DEF LandSet, NextItem
  <2>3. CASE rpath' = [rpath EXCEPT ![mitem] = mtoken]
    <3>1. rpath'[mitem] = mtoken /\ \A j \in Items : j # mitem => rpath'[j] = rpath[j]
      BY <2>1, <2>3 DEF RowsOK
    <3>2. opc \in {"unmeta", "set"} => oitem # mitem
      BY <1>3, <2>1, LedgerParts DEF LandSet, RestoreInv, SourceInv
    <3>3. opc = "sift" => mitem \notin otodo
      BY <2>1 DEF RestoreInv
    <3>4. \A j \in Items : rpath'[j] # 0 => bin[rpath'[j]] \in {NoData, data[j]}
      BY <1>3, <3>1 DEF LandSet, NameInv
    <3>5. \A i, j \in Items : rpath'[i] = rpath'[j] /\ i # j => rpath'[i] = 0
      BY <1>3, <3>1 DEF LandSet, NameInv
    <3>6. opc \in {"unmeta", "set"} => rpath'[oitem] = rpath[oitem]
      BY <3>1, <3>2 DEF OpsOK
    <3>7. opc = "sift" => \A j \in otodo : rpath'[j] = rpath[j]
      BY <3>1, <3>3 DEF OpsOK
    <3> QED
      BY <1>3, <3>4, <3>5, <3>6, <3>7 DEF LandSet, NextItem, NameInv
  <2> QED
    BY <1>3, <2>2, <2>3 DEF LandSet
<1>4. ASSUME NEW i \in Items, PurgeDelete(i) PROVE NameInv'
  <2>1. /\ \A j \in Items : store'[j] \in {store[j], NoData}
        /\ \A t \in Tokens : bin'[t] \in {bin[t], NoData}
    BY <1>4 DEF PurgeDelete, DeleteStaged, DeleteEntry, DeleteKeepsMeta, FilesOK
  <2>2. mpc' = "mark" /\ UNCHANGED <<data, rpath, opc, oitem, otodo, onames, ocut>>
    BY <1>4 DEF PurgeDelete, Pick
  <2>3. \A j \in Items : rpath[j] # 0 => bin'[rpath[j]] \in {bin[rpath[j]], NoData}
    BY <2>1 DEF RowsOK
  <2>4. opc = "sift" => \A j \in otodo : rpath[j] # 0
    BY DEF RestoreInv
  <2> QED
    BY <2>1, <2>2, <2>3, <2>4 DEF NameInv, OpsOK
<1>5. CASE SweepDrop
  <2>1. \A j \in Items : store'[j] \in {store[j], NoData}
    BY <1>5 DEF SweepDrop, DeleteStaged, FilesOK
  <2> QED
    BY <1>5, <2>1 DEF SweepDrop, DeleteStaged, NextItem, NameInv
<1> QED
  BY <1>1, <1>2, <1>3, <1>4, <1>5 DEF MaintenancePass, PassBegin, List, JobDone, SweepDone, LandSkip, SweepLook,
     LandMeta, PurgeMark, Spare, NextItem, Pick

LEMMA NameOps ==
  ASSUME LedgerInv, NameInv, RestoreDrainOps
  PROVE  NameInv'
<1>0. FilesOK /\ ItemsOK /\ RowsOK /\ MaintOK /\ OpsOK /\ BoundInv /\ SourceInv /\ HandInv /\ RowInv /\ RestoreInv
        /\ 0 \notin Tokens
  BY LedgerParts, Numbers
<1> USE <1>0 DEF OpsUnchanged, fsVars, itemVars, maintVars
<1>1. ASSUME UNCHANGED <<store, bin, data, rpath, maintVars>>,
             opc' \notin {"unmeta", "set", "sift"}
      PROVE  NameInv'
  BY <1>1 DEF NameInv
<1>2. CASE RestoreMove
  <2>0. oitem \in Items
    BY <1>2 DEF RestoreMove, OpsOK
  <2>1. CASE SourceThere /\ MoveBack /\ osrc = "bin"
    <3>1. rpath[oitem] \in Tokens
      BY <1>2, <2>0, <2>1 DEF RestoreMove, SourceInv, RowsOK
    <3>2. bin'[rpath[oitem]] = NoData /\ \A t \in Tokens : t # rpath[oitem] => bin'[t] = bin[t]
      BY <2>1, <3>1 DEF MoveBack, FilesOK
    <3>3. UNCHANGED store
      BY <2>1 DEF MoveBack
    <3> QED
      BY <1>2, <2>0, <3>1, <3>2, <3>3 DEF RestoreMove, ItemFailed, ItemOver, NameInv, RowsOK, MaintOK
  <2>2. CASE SourceThere /\ MoveBack /\ osrc # "bin"
    <3>1. UNCHANGED bin /\ \A j \in Items : store'[j] \in {store[j], NoData}
      BY <2>2 DEF MoveBack, FilesOK
    <3>2. rpath[oitem] = 0
      BY <2>0, <2>2 DEF SourceThere, RowInv
    <3> QED
      BY <1>2, <3>1, <3>2 DEF RestoreMove, ItemFailed, ItemOver, NameInv
  <2>3. CASE ItemFailed /\ UNCHANGED <<share, store, bin>>
    BY <1>1, <1>2, <2>3 DEF RestoreMove, ItemFailed, ItemOver
  <2> QED
    BY <1>2, <2>1, <2>2, <2>3 DEF RestoreMove
<1>3. CASE RestoreUnmeta
  BY <1>3 DEF RestoreUnmeta, NameInv
<1>4. CASE ReconcileNames
  <2>1. \A i \in otodo' : rpath[i] \in Tokens
    BY <1>4 DEF ReconcileNames, RestoreInv, RowsOK, OpsOK
  <2>2. ~ocut' => \A i \in otodo' : rpath[i] \notin onames' => bin[rpath[i]] = NoData
    BY <1>4, <2>1 DEF ReconcileNames, InBin
  <2> QED
    BY <1>4, <2>2 DEF ReconcileNames, NameInv
<1>5. ASSUME NEW i \in Items, ReconcileRow(i) PROVE NameInv'
  BY <1>5 DEF ReconcileRow, NameInv
<1> QED
  BY <1>1, <1>2, <1>3, <1>4, <1>5 DEF RestoreDrainOps, DrainBegin, DrainEnd, OpBegin, RestoreGet, RestoreCheck,
     RestoreSet, OpFinish, OpOver, ItemFailed, ItemOver

LEMMA NameNext == LedgerInv /\ NameInv /\ TokensFresh /\ [Next]_vars => NameInv'
  BY NameOutside, NameMaintenance, NameOps DEF Next

LEMMA JobNext ==
  ASSUME LedgerInv, JobInv, [Next]_vars
  PROVE  JobInv'
<1>0. ItemsOK /\ RowsOK /\ MaintOK /\ OpsOK /\ BoundInv /\ HandInv /\ RowInv /\ LandInv /\ nItems \in Nat
        /\ 0 \notin Tokens
  BY LedgerParts, Numbers
<1> USE <1>0
<1>1. ASSUME UNCHANGED <<mjob, mpc, todo, rpath, opc, oitem>>, expired \subseteq expired', inflight' \subseteq inflight
      PROVE  JobInv'
  BY <1>1 DEF JobInv
<1>2. ASSUME NEW p \in Paths, UserDelete(p) PROVE JobInv'
  <2>1. nItems + 1 \notin todo /\ oitem # nItems + 1
    BY DEF HandInv
  <2> QED
    BY <1>2, <2>1 DEF UserDelete, OutsideUnchanged, maintVars, opsVars, dbVars, JobInv
<1>3. CASE Outside \/ AddItem \/ UNCHANGED vars
  BY <1>1, <1>2, <1>3 DEF Outside, UserCreate, Lose, Expire, NativeTake, EnqueueOp, Tick, AddItem, vars,
     OutsideUnchanged, itemVars, dbVars, maintVars, opsVars
<1>4. CASE Crash
  BY <1>4 DEF Crash, JobInv
<1>5. CASE MaintenancePass
  <2> USE DEF MaintUnchanged, itemVars, opsVars
  <2>1. CASE List
    <3>1. mjob \in DOMAIN NextJob /\ mjob # "rest" /\ (todo' = {} \/ todo' = Listed(mjob))
      BY <2>1 DEF List, MaintOK
    <3>2. \A i \in todo' :
            /\ mjob \in {"expire", "watermark", "quota"} => rpath[i] # 0
            /\ mjob = "stale" => rpath[i] = 0 /\ i \notin inflight
            /\ mjob \in {"expire", "stale"} => i \in expired
      BY <3>1, ListedItems DEF RowsOK, RowInv
    <3> QED
      BY <2>1, <3>2 DEF List, JobInv
  <2>2. CASE PassBegin \/ JobDone \/ SweepDone
    <3>1. mpc' = "list" /\ todo' = {}
      BY <2>2 DEF PassBegin, JobDone, SweepDone, HandInv
    <3> QED
      BY <2>2, <3>1 DEF PassBegin, JobDone, SweepDone, JobInv
  <2>3. CASE LandSet
    BY <2>3 DEF LandSet, NextItem, MaintOK, JobInv
  <2>4. ASSUME UNCHANGED <<mjob, rpath, expired, inflight, opc, oitem>>, todo' \subseteq todo,
               mpc' = "drop" => mjob = "sweep"
        PROVE  JobInv'
    BY <2>4 DEF JobInv
  <2> QED
    BY <1>5, <2>1, <2>2, <2>3, <2>4 DEF MaintenancePass, LandMove, LandSkip, PurgeDelete, SweepLook, Pick, LandMeta,
       PurgeMark, Spare, SweepDrop, NextItem
<1>6. CASE RestoreDrainOps
  <2>1. ASSUME UNCHANGED <<mjob, mpc, todo, rpath, expired, inflight>>,
               opc' \in {"check", "move", "unmeta", "set"} =>
                 opc \in {"check", "move", "unmeta", "set"} /\ UNCHANGED oitem
        PROVE  JobInv'
    BY <2>1 DEF JobInv
  <2>2. ASSUME NEW i \in Items, RestoreGet(i) PROVE JobInv'
    BY <2>1, <2>2 DEF RestoreGet, ItemFailed, ItemOver, OpsUnchanged, itemVars, maintVars, JobInv, RowInv, Live
  <2> QED
    BY <1>6, <2>1, <2>2 DEF RestoreDrainOps, DrainBegin, DrainEnd, OpBegin, RestoreCheck, RestoreMove, RestoreUnmeta,
       RestoreSet, ReconcileNames, ReconcileRow, OpFinish, OpOver, ItemFailed, ItemOver, OpsUnchanged, itemVars,
       maintVars
<1> QED
  BY <1>3, <1>4, <1>5, <1>6 DEF Next

LEMMA TargetNext ==
  ASSUME LedgerInv, OnePlace, FreshInv, TargetInv, [Next]_vars
  PROVE  TargetInv'
<1> SUFFICES ASSUME opc' = "move", faults' = 0, share'[Dest'] # NoData
             PROVE  \A i \in 1 .. nItems' : data'[i] # share'[Dest']
  BY DEF TargetInv
<1>0. /\ FilesOK /\ ItemsOK /\ CommandsOK /\ MaintOK /\ OpsOK /\ BoundInv /\ HandInv /\ CommandInv
      /\ faults = 0 /\ nItems \in Nat /\ nData \in Nat /\ NoData \notin Data
  BY LedgerParts, Numbers, FaultsStay
<1>1. CASE opc # "move"
  <2>1. RestoreCheck
    BY <1>1 DEF Next, vars, opsVars, Outside, UserCreate, UserDelete, Lose, Expire, NativeTake, EnqueueOp, Tick,
       AddItem, OutsideUnchanged, Crash, MaintenancePass, MaintUnchanged, PassBegin, List, JobDone, SweepDone,
       LandMove, LandSkip, PurgeDelete, SweepLook, Pick, LandMeta, LandSet, PurgeMark, Spare, SweepDrop,
       RestoreDrainOps, DrainBegin, DrainEnd, OpBegin, RestoreGet, RestoreMove, RestoreUnmeta, RestoreSet,
       ReconcileNames, ReconcileRow, OpFinish, OpOver, ItemFailed, ItemOver
  <2>2. MayMove /\ UNCHANGED <<oitem, oid, ops, orig, share>>
    BY <2>1 DEF RestoreCheck, ItemFailed, ItemOver, OpsUnchanged, itemVars, fsVars
  <2>3. share'[Dest'] = NoData
    BY <2>2 DEF MayMove, Dest
  <2> QED
    BY <2>3
<1>2. CASE opc = "move"
  <2>1. Dest \in Paths /\ oid \in OpIds /\ oitem \in 1 .. nItems
    BY <1>0, <1>2, DestType DEF OpsOK, HandInv, Items
  <2>2. ~RestoreDrainOps /\ ~Crash
    BY <1>2 DEF RestoreDrainOps, DrainBegin, DrainEnd, OpBegin, RestoreGet, RestoreCheck, RestoreMove, RestoreUnmeta,
       RestoreSet, ReconcileNames, ReconcileRow, OpFinish, ItemFailed, ItemOver, Crash
  <2>3. CASE UNCHANGED <<share, nItems, data, orig, ops, oid, oitem>>
    BY <1>0, <1>2, <2>3 DEF TargetInv, Dest
  <2>4. ASSUME NEW p \in Paths, UserCreate(p) PROVE \A i \in 1 .. nItems' : data'[i] # share'[Dest']
    BY <1>0, <1>2, <2>1, <2>4 DEF UserCreate, OutsideUnchanged, opsVars, itemVars, dbVars, TargetInv, Dest, FreshInv,
       FilesOK
  <2>5. ASSUME NEW p \in Paths, UserDelete(p) PROVE \A i \in 1 .. nItems' : data'[i] # share'[Dest']
    <3>1. Dest' = Dest
      BY <1>0, <2>1, <2>5 DEF UserDelete, OutsideUnchanged, opsVars, dbVars, Dest, ItemsOK
    <3>2. Dest # p /\ share'[Dest] = share[Dest]
      BY <1>0, <2>1, <2>5, <3>1 DEF UserDelete, FilesOK
    <3>3. share[p] # share[Dest]
      BY <2>1, <2>5, <3>1, <3>2 DEF UserDelete, OnePlace
    <3>4. \A i \in 1 .. nItems : data[i] # share[Dest]
      BY <1>0, <1>2, <3>1, <3>2 DEF TargetInv
    <3>5. /\ nItems + 1 \in Items /\ 1 .. nItems \subseteq Items /\ nItems' = nItems + 1
          /\ data' = [data EXCEPT ![nItems + 1] = share[p]]
      BY <1>0, <2>5, LimitBounds, LedgerParts, Numbers DEF UserDelete, BoundInv, Items
    <3>6. ASSUME NEW i \in 1 .. nItems'
          PROVE  data'[i] = share[p] \/ (i \in 1 .. nItems /\ data'[i] = data[i])
      <4>1. i = nItems + 1 \/ (i \in 1 .. nItems /\ i # nItems + 1)
        BY <1>0, <3>5
      <4> QED
        BY <1>0, <3>5, <4>1 DEF ItemsOK
    <3> QED
      BY <3>1, <3>2, <3>3, <3>4, <3>6
  <2>6. ASSUME NEW type, NEW i, NEW p, EnqueueOp(type, i, p)
        PROVE  UNCHANGED <<share, nItems, data, orig, oid, oitem>> /\ Dest' = Dest
    <3>1. ops'[oid] = ops[oid]
      BY <1>0, <1>2, <2>1, <2>6 DEF EnqueueOp, CommandsOK, CommandInv, OpIds, BoundInv
    <3> QED
      BY <2>6, <3>1 DEF EnqueueOp, OutsideUnchanged, fsVars, itemVars, opsVars, Dest
  <2>7. \A i \in Items : ~NativeTake(i)
    BY <1>0 DEF NativeTake, Fails
  <2>8. CASE Outside
    BY <1>0, <1>2, <2>3, <2>4, <2>5, <2>6, <2>7, <2>8 DEF Outside, Lose, Expire, Tick, OutsideUnchanged, fsVars, itemVars,
       dbVars, opsVars, TargetInv
  <2>9. CASE AddItem \/ MaintenancePass \/ UNCHANGED vars
    BY <2>3, <2>9 DEF AddItem, OutsideUnchanged, MaintenancePass, MaintUnchanged, PassBegin, List, JobDone, SweepDone,
       LandMove, LandSkip, PurgeDelete, SweepLook, Pick, LandMeta, LandSet, PurgeMark, Spare, SweepDrop, vars,
       boundVars, fsVars, itemVars, dbVars, opsVars
  <2> QED
    BY <2>2, <2>8, <2>9 DEF Next
<1> QED
  BY <1>1, <1>2
-----------------------------------------------------------------------------
(* Rows and files in step.                                                 *)

CleanParts == FlightClean /\ LiveClean /\ ClosedClean /\ HandClean /\ PairClean

LEMMA CleanOutside ==
  ASSUME LedgerInv, CleanParts, Outside \/ AddItem \/ UNCHANGED vars, ~Fails
  PROVE  CleanParts'
<1>0. FilesOK /\ ItemsOK /\ RowsOK /\ MaintOK /\ OpsOK /\ HandInv /\ RowInv /\ LandInv
  BY LedgerParts
<1> USE <1>0 DEF OutsideUnchanged, fsVars, itemVars, dbVars, maintVars, opsVars
<1>1. CASE UNCHANGED <<store, bin, meta, data, inflight, status, rpath, maintVars, opsVars>>
  BY <1>1 DEF CleanParts, FlightClean, LiveClean, Busy, ClosedClean, Emptied, HandClean, PairClean, Unpaired
<1>2. ASSUME NEW p \in Paths, UserDelete(p) PROVE CleanParts'
  <2>1. /\ nItems + 1 \in Items /\ status[nItems + 1] = "none" /\ mitem # nItems + 1 /\ nItems + 1 \notin inflight
        /\ store'[nItems + 1] = data'[nItems + 1] /\ inflight' = inflight \cup {nItems + 1}
        /\ \A i \in Items : i # nItems + 1 => store'[i] = store[i] /\ data'[i] = data[i]
    <3>1. nItems + 1 \in Items /\ nItems \in Nat
      BY <1>2, LimitBounds, LedgerParts DEF UserDelete, BoundInv, Items
    <3>2. status[nItems + 1] = "none" /\ mitem # nItems + 1 /\ nItems + 1 \notin inflight
      BY <3>1 DEF RowInv, HandInv, ItemsOK
    <3> QED
      BY <1>2, <3>1, <3>2 DEF UserDelete, FilesOK, ItemsOK
  <2>2. FlightClean'
    BY <2>1, LedgerParts, Numbers DEF CleanParts, FlightClean, ItemsOK
  <2>3. LiveClean'
    BY <1>2, <2>1 DEF UserDelete, CleanParts, LiveClean, Busy
  <2>4. ClosedClean' /\ HandClean'
    BY <1>2, <2>1 DEF UserDelete, CleanParts, ClosedClean, HandClean, Emptied, Terminal, MaintOK
  <2>5. PairClean'
    BY <1>2 DEF UserDelete, CleanParts, PairClean, Unpaired
  <2> QED
    BY <2>2, <2>3, <2>4, <2>5 DEF CleanParts
<1>3. CASE AddItem
  <2>1. PICK i \in inflight : inflight' = inflight \ {i} /\ status' = [status EXCEPT ![i] = "staged"]
    <3>1. inflight \in SUBSET Nat /\ inflight # {}
      BY <1>3, LedgerParts DEF AddItem, ItemsOK
    <3> QED
      BY <1>3, <3>1, OldestMember DEF AddItem
  <2>2. i \in Items /\ status'[i] = "staged" /\ \A j \in Items : j # i => status'[j] = status[j]
    BY <2>1, Numbers DEF ItemsOK, RowsOK
  <2>3. UNCHANGED <<store, bin, meta, data, rpath, maintVars, opsVars>>
    BY <1>3 DEF AddItem
  <2>4. FlightClean' /\ LiveClean'
    BY <2>1, <2>2, <2>3 DEF CleanParts, FlightClean, LiveClean, Busy
  <2>5. ClosedClean' /\ HandClean' /\ PairClean'
    BY <2>2, <2>3 DEF CleanParts, ClosedClean, HandClean, Emptied, PairClean, Unpaired, Terminal
  <2> QED
    BY <2>4, <2>5 DEF CleanParts
<1> QED
  BY <1>1, <1>2, <1>3 DEF Outside, UserCreate, Lose, Expire, NativeTake, EnqueueOp, Tick, vars

LEMMA CleanMaintenance ==
  ASSUME LedgerInv, FreshInv, NameInv, JobInv, CleanParts, TokensFresh, MaintenancePass, ~Fails
  PROVE  CleanParts'
<1>0. FilesOK /\ ItemsOK /\ RowsOK /\ MaintOK /\ OpsOK /\ HandInv /\ RowInv /\ LandInv /\ RestoreInv /\ SourceInv
        /\ 0 \notin Tokens
  BY LedgerParts, Numbers
<1> USE <1>0 DEF MaintUnchanged, fsVars, itemVars, opsVars
<1>1. ASSUME UNCHANGED <<store, bin, meta, data, inflight, status, rpath, opsVars>>,
             mpc \in {"list", "each"}, mpc' \in {"list", "each"}
      PROVE  CleanParts'
  <2>1. \A i \in Items : Busy(i)' = Busy(i)
    BY <1>1 DEF Busy
  <2>2. FlightClean' /\ LiveClean'
    BY <1>1, <2>1 DEF CleanParts, FlightClean, LiveClean
  <2>3. ClosedClean' /\ HandClean' /\ PairClean'
    BY <1>1 DEF CleanParts, ClosedClean, Emptied, HandClean, PairClean, Unpaired
  <2> QED
    BY <2>2, <2>3 DEF CleanParts
<1>2. CASE SweepDone
  <2>1. UNCHANGED <<store, bin, meta, data, inflight, rpath, opsVars>> /\ mpc = "each" /\ mpc' = "list"
    BY <1>2 DEF SweepDone
  <2>2. \A i \in Items : status'[i] \in {status[i], "none"}
    BY <1>2 DEF SweepDone
  <2>3. FlightClean' /\ LiveClean'
    BY <2>1, <2>2 DEF CleanParts, FlightClean, LiveClean, Busy
  <2>4. ClosedClean' /\ HandClean' /\ PairClean'
    BY <2>1, <2>2 DEF CleanParts, ClosedClean, Emptied, HandClean, PairClean, Unpaired, Terminal
  <2> QED
    BY <2>3, <2>4 DEF CleanParts
<1>3. ASSUME NEW i \in Items, LandMove(i) PROVE CleanParts'
  <2>1. /\ i \in todo /\ mjob = "land" /\ mpc = "each" /\ store[i] # NoData /\ Token(i) \in Tokens
        /\ status[i] = "staged" /\ i \notin inflight
    BY <1>3, PickedListed, TokenType, LedgerParts DEF LandMove, Pick, LedgerInv, TypeInv, LandInv, RowInv
  <2>2. bin[Token(i)] = NoData /\ \A j \in Items : rpath[j] # Token(i)
    BY <2>1 DEF TokensFresh
  <2>3. /\ \A t \in Tokens : t # Token(i) => bin'[t] = bin[t]
        /\ store'[i] = NoData /\ \A j \in Items : j # i => store'[j] = store[j]
        /\ mpc' = "meta" /\ mitem' = i /\ mtoken' = Token(i)
        /\ UNCHANGED <<meta, data, inflight, status, rpath, opsVars>>
    BY <1>3, <2>1 DEF LandMove, Pick, FilesOK
  <2>4. FlightClean' /\ PairClean'
    BY <2>1, <2>3, LedgerParts, Numbers DEF CleanParts, FlightClean, PairClean, Unpaired, ItemsOK
  <2>5. LiveClean'
    BY <2>1, <2>2, <2>3 DEF CleanParts, LiveClean, Busy, RowsOK
  <2>6. ClosedClean' /\ HandClean'
    BY <2>1, <2>2, <2>3 DEF CleanParts, ClosedClean, Emptied, HandClean, RowsOK
  <2> QED
    BY <2>4, <2>5, <2>6 DEF CleanParts
<1>4. CASE LandMeta
  <2>1. meta' = meta \cup {mtoken} /\ mpc' = "set" /\ mpc = "meta" /\ bin[mtoken] # NoData /\ mtoken \in Tokens
          /\ UNCHANGED <<store, bin, data, inflight, status, rpath, mitem, opsVars>>
    <3>1. mpc = "meta" /\ mitem \in 1 .. nItems /\ bin[mtoken] = data[mitem]
      BY <1>4 DEF LandMeta, HandInv, MaintOK, NameInv, Items
    <3>2. bin[mtoken] # NoData
      BY <3>1, Numbers DEF FreshInv
    <3> QED
      BY <1>4, <3>1, <3>2 DEF LandMeta, MaintOK
  <2>2. FlightClean' /\ LiveClean' /\ ClosedClean' /\ HandClean'
    BY <2>1 DEF CleanParts, FlightClean, LiveClean, Busy, ClosedClean, Emptied, HandClean
  <2>3. PairClean'
    BY <2>1 DEF CleanParts, PairClean, Unpaired
  <2> QED
    BY <2>2, <2>3 DEF CleanParts
<1>5. CASE LandSet
  <2>1. mitem \in Items /\ mtoken \in Tokens /\ status[mitem] = "staged" /\ rpath[mitem] = 0 /\ mpc = "set"
          /\ store[mitem] = NoData /\ bin[mtoken] = data[mitem]
    BY <1>5 DEF LandSet, MaintOK, LandInv, NameInv
  <2>2. /\ status'[mitem] = "landed" /\ rpath'[mitem] = mtoken
        /\ \A j \in Items : j # mitem => status'[j] = status[j] /\ rpath'[j] = rpath[j]
        /\ mpc' = "each" /\ UNCHANGED <<store, bin, meta, data, inflight, opsVars>>
    BY <1>5, <2>1 DEF LandSet, SetStatus, NextItem, RowsOK
  <2>3. FlightClean' /\ ClosedClean' /\ HandClean'
    BY <2>2 DEF CleanParts, FlightClean, ClosedClean, Emptied, HandClean, Terminal
  <2>4. LiveClean'
    BY <2>1, <2>2 DEF CleanParts, LiveClean, Busy
  <2>5. PairClean'
    <3>1. opc = "unmeta" => oitem \in Items /\ oitem # mitem
      BY <2>1 DEF RestoreInv, SourceInv, OpsOK
    <3> QED
      BY <2>1, <2>2, <3>1 DEF CleanParts, PairClean, Unpaired
  <2> QED
    BY <2>3, <2>4, <2>5 DEF CleanParts
<1>6. ASSUME NEW i \in Items, PurgeDelete(i) PROVE CleanParts'
  <2>1. /\ i \in todo /\ mpc = "each" /\ mpc' = "mark" /\ mitem' = i
        /\ UNCHANGED <<data, inflight, status, rpath, opsVars>>
    BY <1>6, PickedListed DEF PurgeDelete, Pick
  <2>2. CASE mjob = "stale"
    <3>1. rpath[i] = 0 /\ i \notin inflight /\ store'[i] = NoData /\ UNCHANGED <<bin, meta>>
            /\ \A j \in Items : j # i => store'[j] = store[j]
      BY <1>6, <2>1, <2>2 DEF PurgeDelete, DeleteStaged, JobInv, FilesOK
    <3>2. FlightClean' /\ ClosedClean' /\ HandClean' /\ PairClean'
      BY <2>1, <3>1, LedgerParts, Numbers DEF CleanParts, FlightClean, ClosedClean, Emptied, HandClean, PairClean, Unpaired, ItemsOK
    <3>3. LiveClean'
      BY <2>1, <3>1 DEF CleanParts, LiveClean, Busy
    <3> QED
      BY <3>2, <3>3 DEF CleanParts
  <2>3. CASE mjob # "stale"
    <3>1. rpath[i] \in Tokens /\ store[i] = NoData
      BY <1>6, <2>1, <2>3 DEF PurgeDelete, JobInv, RowsOK, RowInv
    <3>2. /\ UNCHANGED store /\ meta' = meta \ {rpath[i]} /\ bin'[rpath[i]] = NoData
          /\ \A t \in Tokens : t # rpath[i] => bin'[t] = bin[t]
      BY <1>6, <2>3, <3>1 DEF PurgeDelete, DeleteEntry, FilesOK
    <3>3. \A j \in Items : j # i => rpath[j] # rpath[i]
      BY <3>1 DEF NameInv
    <3>4. FlightClean' /\ ClosedClean' /\ HandClean' /\ PairClean'
      BY <2>1, <3>1, <3>2 DEF CleanParts, FlightClean, ClosedClean, Emptied, HandClean, PairClean, Unpaired, RowsOK
    <3>5. LiveClean'
      BY <2>1, <3>1, <3>2, <3>3 DEF CleanParts, LiveClean, Busy, RowsOK
    <3> QED
      BY <3>4, <3>5 DEF CleanParts
  <2> QED
    BY <2>2, <2>3
<1>7. CASE PurgeMark
  <2>1. /\ mpc = "mark" /\ mpc' = "each" /\ mitem \in Items /\ status'[mitem] \in {"purged", "none"}
        /\ \A j \in Items : j # mitem => status'[j] = status[j]
        /\ UNCHANGED <<store, bin, meta, data, inflight, rpath, opsVars>>
    BY <1>7 DEF PurgeMark, SetStatus, NextItem, MaintOK, RowsOK
  <2>2. FlightClean' /\ ClosedClean' /\ HandClean' /\ PairClean'
    BY <2>1 DEF CleanParts, FlightClean, ClosedClean, Emptied, HandClean, PairClean, Unpaired
  <2>3. LiveClean'
    BY <2>1 DEF CleanParts, LiveClean, Busy
  <2> QED
    BY <2>2, <2>3 DEF CleanParts
<1>8. ASSUME NEW i \in Items, SweepLook(i) PROVE CleanParts'
  <2>1. /\ mpc = "each" /\ mpc' \in {"each", "drop"}
        /\ UNCHANGED <<store, bin, meta, data, inflight, status, rpath, opsVars>>
        /\ mpc' = "drop" => mitem' = i /\ store[i] \in OldData
    BY <1>8 DEF SweepLook, Pick, IsOrphan
  <2>2. mpc' = "drop" => data[mitem'] \in OldData
    BY <2>1, RbLifecycleAssumption DEF NameInv
  <2>3. FlightClean' /\ ClosedClean' /\ HandClean' /\ PairClean'
    BY <2>1, <2>2 DEF CleanParts, FlightClean, ClosedClean, Emptied, HandClean, PairClean, Unpaired
  <2>4. LiveClean'
    BY <2>1 DEF CleanParts, LiveClean, Busy
  <2> QED
    BY <2>3, <2>4 DEF CleanParts
<1>9. CASE SweepDrop
  <2>1. /\ mpc = "drop" /\ mpc' = "each" /\ mitem \in Items /\ store'[mitem] = NoData /\ data[mitem] \in OldData
        /\ \A j \in Items : j # mitem => store'[j] = store[j]
        /\ UNCHANGED <<bin, meta, data, inflight, status, rpath, opsVars>>
    BY <1>9 DEF SweepDrop, DeleteStaged, NextItem, MaintOK, FilesOK, CleanParts, HandClean
  <2>2. FlightClean' /\ ClosedClean' /\ HandClean' /\ PairClean'
    BY <2>1, LedgerParts, Numbers DEF CleanParts, FlightClean, ClosedClean, Emptied, HandClean, PairClean, Unpaired, ItemsOK
  <2>3. LiveClean'
    BY <2>1 DEF CleanParts, LiveClean, Busy
  <2> QED
    BY <2>2, <2>3 DEF CleanParts
<1>10. CASE PassBegin \/ List \/ JobDone \/ Spare \/ \E i \in Items : LandSkip(i)
  <2>1. mpc \in {"list", "each"} /\ mpc' \in {"list", "each"}
    BY <1>10 DEF PassBegin, List, JobDone, Spare, LandSkip, Pick, HandInv
  <2> QED
    BY <1>1, <1>10, <2>1 DEF PassBegin, List, JobDone, Spare, LandSkip, Pick
<1> QED
  BY <1>2, <1>3, <1>4, <1>5, <1>6, <1>7, <1>8, <1>9, <1>10 DEF MaintenancePass

LEMMA CleanOps ==
  ASSUME LedgerInv, NameInv, JobInv, CleanParts, ~ocut, RestoreDrainOps, ~Fails
  PROVE  CleanParts'
<1>0. FilesOK /\ ItemsOK /\ RowsOK /\ MaintOK /\ OpsOK /\ HandInv /\ RowInv /\ LandInv /\ RestoreInv /\ SourceInv
        /\ 0 \notin Tokens
  BY LedgerParts, Numbers
<1> USE <1>0 DEF OpsUnchanged, fsVars, itemVars, maintVars
<1>1. ASSUME UNCHANGED <<store, bin, meta, data, inflight, status, rpath, maintVars>>,
             opc \notin {"unmeta", "set"}, opc' \notin {"unmeta", "set"}
      PROVE  CleanParts'
  <2>1. \A i \in Items : Busy(i)' = Busy(i)
    BY <1>1 DEF Busy
  <2>2. FlightClean' /\ LiveClean'
    BY <1>1, <2>1 DEF CleanParts, FlightClean, LiveClean
  <2>3. ClosedClean' /\ HandClean' /\ PairClean'
    BY <1>1 DEF CleanParts, ClosedClean, Emptied, HandClean, PairClean, Unpaired
  <2> QED
    BY <2>2, <2>3 DEF CleanParts
<1>2. CASE RestoreMove
  <2>1. oitem \in Items /\ oitem \notin inflight /\ opc = "move"
          /\ UNCHANGED <<meta, data, inflight, status, rpath, maintVars>>
    BY <1>2 DEF RestoreMove, OpsOK, JobInv
  <2>2. CASE SourceThere /\ MoveBack /\ osrc = "bin" /\ opc' = "unmeta" /\ UNCHANGED oitem
    <3>1. rpath[oitem] \in Tokens /\ UNCHANGED store
      BY <2>1, <2>2 DEF SourceInv, RowsOK, MoveBack
    <3>2. bin'[rpath[oitem]] = NoData /\ \A t \in Tokens : t # rpath[oitem] => bin'[t] = bin[t]
      BY <2>2, <3>1 DEF MoveBack, FilesOK
    <3>3. \A j \in Items : j # oitem => rpath[j] # rpath[oitem]
      BY <2>1, <3>1 DEF NameInv
    <3>4. FlightClean' /\ ClosedClean' /\ HandClean'
      BY <2>1, <3>1, <3>2 DEF CleanParts, FlightClean, ClosedClean, Emptied, HandClean, RowsOK, MaintOK
    <3>5. LiveClean'
      BY <2>1, <2>2, <3>1, <3>2, <3>3 DEF CleanParts, LiveClean, Busy, RowsOK
    <3>6. PairClean'
      BY <2>1, <2>2, <3>1, <3>2 DEF CleanParts, PairClean, Unpaired
    <3> QED
      BY <3>4, <3>5, <3>6 DEF CleanParts
  <2>3. CASE SourceThere /\ MoveBack /\ osrc # "bin" /\ opc' = "set" /\ UNCHANGED oitem
    <3>1. UNCHANGED bin /\ store'[oitem] = NoData /\ \A j \in Items : j # oitem => store'[j] = store[j]
      BY <2>1, <2>3 DEF MoveBack, FilesOK
    <3>2. FlightClean'
      BY <2>1, <3>1, LedgerParts, Numbers DEF CleanParts, FlightClean, ItemsOK
    <3>3. ClosedClean' /\ HandClean'
      BY <2>1, <3>1 DEF CleanParts, ClosedClean, Emptied, HandClean, MaintOK
    <3>4. LiveClean'
      BY <2>1, <2>3, <3>1 DEF CleanParts, LiveClean, Busy
    <3>5. PairClean'
      BY <2>1, <2>3, <3>1 DEF CleanParts, PairClean, Unpaired
    <3> QED
      BY <3>2, <3>3, <3>4, <3>5 DEF CleanParts
  <2>4. CASE ItemFailed /\ UNCHANGED <<share, store, bin>>
    BY <1>1, <2>1, <2>4 DEF ItemFailed, ItemOver
  <2> QED
    BY <1>2, <2>2, <2>3, <2>4 DEF RestoreMove
<1>3. CASE RestoreUnmeta
  <2>1. /\ opc = "unmeta" /\ opc' = "set" /\ oitem \in Items /\ rpath[oitem] # 0 /\ bin[rpath[oitem]] = NoData
        /\ meta' = meta \ {rpath[oitem]}
        /\ UNCHANGED <<store, bin, data, inflight, status, rpath, oitem, maintVars>>
    BY <1>3 DEF RestoreUnmeta, OpsOK, RestoreInv, SourceInv, NameInv
  <2>2. FlightClean' /\ LiveClean'
    BY <2>1 DEF CleanParts, FlightClean, LiveClean, Busy
  <2>3. ClosedClean' /\ HandClean' /\ PairClean'
    BY <2>1 DEF CleanParts, ClosedClean, Emptied, HandClean, PairClean, Unpaired
  <2> QED
    BY <2>2, <2>3 DEF CleanParts
<1>4. ASSUME NEW i \in Items, NEW s \in Terminal, SetStatus(i, s), Emptied(i),
             UNCHANGED <<store, bin, meta, data, inflight, rpath, maintVars>>,
             opc # "unmeta", opc' \notin {"unmeta", "set"}, opc = "set" => i = oitem
      PROVE  CleanParts'
  <2>1. status'[i] \in Terminal \cup {"none"} /\ \A j \in Items : j # i => status'[j] = status[j]
    BY <1>4 DEF SetStatus, RowsOK
  <2>2. FlightClean' /\ HandClean' /\ PairClean'
    BY <1>4 DEF CleanParts, FlightClean, HandClean, Emptied, PairClean, Unpaired
  <2>3. ClosedClean'
    BY <1>4, <2>1 DEF CleanParts, ClosedClean, Emptied
  <2>4. LiveClean'
    BY <1>4, <2>1 DEF CleanParts, LiveClean, Busy, Terminal
  <2> QED
    BY <2>2, <2>3, <2>4 DEF CleanParts
<1>5. CASE RestoreSet
  <2>1. oitem \in Items /\ Emptied(oitem) /\ opc = "set" /\ opc' = "each"
    BY <1>5 DEF RestoreSet, ItemOver, OpsOK, RestoreInv, NameInv, Emptied
  <2> QED
    BY <1>4, <1>5, <2>1 DEF RestoreSet, Terminal
<1>6. ASSUME NEW i \in Items, ReconcileRow(i) PROVE CleanParts'
  <2>1. CASE UNCHANGED status
    BY <1>1, <1>6, <2>1 DEF ReconcileRow
  <2>2. CASE rpath[i] \notin onames /\ SetStatus(i, Found(i))
    <3>1. rpath[i] # 0 /\ Emptied(i)
      BY <1>6, <2>2 DEF ReconcileRow, RestoreInv, NameInv, RowInv, Emptied
    <3> QED
      BY <1>4, <1>6, <2>2, <3>1 DEF ReconcileRow, Found, Terminal
  <2> QED
    BY <1>6, <2>1, <2>2 DEF ReconcileRow
<1> QED
  BY <1>1, <1>2, <1>3, <1>5, <1>6 DEF RestoreDrainOps, DrainBegin, DrainEnd, OpBegin, RestoreGet, RestoreCheck,
     ReconcileNames, OpFinish, OpOver, ItemFailed, ItemOver

LEMMA CleanNext == LedgerInv /\ FilesInv /\ (faults = 0 => ~ocut) /\ TokensFresh /\ [Next]_vars => CleanInv'
<1> SUFFICES ASSUME LedgerInv, FilesInv, faults = 0 => ~ocut, TokensFresh, [Next]_vars, Undisturbed' PROVE CleanParts'
  BY DEF CleanInv, CleanParts
<1>1. CleanParts /\ ~ocut /\ ~Fails /\ ~Crash
  <2>1. Undisturbed /\ ~Fails /\ ~Crash
    BY FaultsStay, LedgerParts DEF Undisturbed
  <2> QED
    BY <2>1 DEF Undisturbed, FilesInv, CleanInv, CleanParts
<1> QED
  BY <1>1, CleanOutside, CleanMaintenance, CleanOps DEF FilesInv, Next

LEMMA FilesInvInit == Init => FilesInv
<1> SUFFICES ASSUME Init PROVE FilesInv
  OBVIOUS
<1>1. OnePlace /\ FreshInv
  BY DEF Init, OnePlace, FreshInv
<1>2. NameInv /\ JobInv /\ TargetInv
  BY DEF Init, NameInv, JobInv, TargetInv
<1>3. CleanInv
  BY DEF Init, CleanInv, FlightClean, LiveClean, ClosedClean, HandClean, PairClean, Terminal
<1> QED
  BY <1>1, <1>2, <1>3 DEF FilesInv

LEMMA FilesInvNext ==
  LedgerInv /\ FilesInv /\ (faults = 0 => ~ocut) /\ TokensFresh /\ [Next]_vars => FilesInv'
  BY PlaceNext, NameNext, JobNext, TargetNext, CleanNext DEF FilesInv

-----------------------------------------------------------------------------
(* The order of landings, which keeps names apart.                         *)

LEMMA CountersGrow ==
  ASSUME LedgerInv, [Next]_vars
  PROVE  /\ clock \in Nat /\ nItems \in Nat
         /\ clock' \in {clock, clock + 1} /\ nItems' \in {nItems, nItems + 1}
<1>1. clock \in Nat /\ nItems \in Nat
  BY LedgerParts, Numbers DEF BoundsOK
<1>2. clock' \in {clock, clock + 1}
  BY DEF Next, vars, boundVars, Crash, AddItem, Outside, OutsideUnchanged, UserCreate, UserDelete,
     Lose, Expire, NativeTake, Tick, EnqueueOp, MaintenancePass, MaintUnchanged, PassBegin, List, JobDone,
     SweepDone, LandMove, LandSkip, PurgeDelete, SweepLook, LandMeta, LandSet, PurgeMark, Spare, SweepDrop, Pick,
     RestoreDrainOps, OpsUnchanged, DrainBegin, DrainEnd, OpBegin, RestoreGet, ReconcileRow, RestoreCheck,
     RestoreMove, RestoreUnmeta, RestoreSet, ReconcileNames, OpFinish
<1>3. nItems' \in {nItems, nItems + 1}
  BY DEF Next, vars, boundVars, Crash, AddItem, Outside, OutsideUnchanged, UserCreate, UserDelete,
     Lose, Expire, NativeTake, Tick, EnqueueOp, MaintenancePass, MaintUnchanged, PassBegin, List, JobDone,
     SweepDone, LandMove, LandSkip, PurgeDelete, SweepLook, LandMeta, LandSet, PurgeMark, Spare, SweepDrop, Pick,
     RestoreDrainOps, OpsUnchanged, DrainBegin, DrainEnd, OpBegin, RestoreGet, ReconcileRow, RestoreCheck,
     RestoreMove, RestoreUnmeta, RestoreSet, ReconcileNames, OpFinish
<1> QED
  BY <1>1, <1>2, <1>3

\* A row comes into being and is staged where the port thread inserts it only.
LEMMA RowSteps ==
  ASSUME LedgerInv, [Next]_vars, ~AddItem
  PROVE  \A i \in Items : status'[i] \in {status[i], "none", "landed", "purged", "restored"}
                            /\ (status[i] = "none" => status'[i] = "none")
<1>0. RowsOK /\ MaintOK /\ OpsOK
  BY LedgerParts
<1>1. CASE UNCHANGED status
  BY <1>1
<1>2. ASSUME NEW j \in Items, NEW s \in {"landed", "purged", "restored"}, SetStatus(j, s)
      PROVE  \A i \in Items : status'[i] \in {status[i], "none", "landed", "purged", "restored"}
                                /\ (status[i] = "none" => status'[i] = "none")
  BY <1>0, <1>2 DEF SetStatus, RowsOK
<1>3. CASE LandSet
  BY <1>0, <1>1, <1>2, <1>3 DEF LandSet, MaintOK
<1>4. CASE PurgeMark
  BY <1>0, <1>1, <1>2, <1>4 DEF PurgeMark, MaintOK
<1>5. CASE SweepDone
  BY <1>5 DEF SweepDone
<1>6. CASE RestoreSet
  BY <1>0, <1>1, <1>2, <1>6 DEF RestoreSet, OpsOK
<1>7. ASSUME NEW j \in Items, ReconcileRow(j) PROVE UNCHANGED status \/ SetStatus(j, Found(j))
  BY <1>7 DEF ReconcileRow
<1>8. ASSUME NEW j \in Items, ReconcileRow(j)
      PROVE  \A i \in Items : status'[i] \in {status[i], "none", "landed", "purged", "restored"}
                                /\ (status[i] = "none" => status'[i] = "none")
  BY <1>1, <1>2, <1>7, <1>8 DEF Found
<1>9. Outside \/ Crash \/ UNCHANGED vars => UNCHANGED status
  BY DEF Outside, UserCreate, UserDelete, Lose, Expire, NativeTake, EnqueueOp, Tick, Crash, vars, dbVars
<1>10. MaintenancePass => UNCHANGED status \/ LandSet \/ PurgeMark \/ SweepDone
  BY DEF MaintenancePass, PassBegin, List, JobDone, LandMove, LandSkip, PurgeDelete, SweepLook, LandMeta, Spare,
     SweepDrop
<1>11. RestoreDrainOps => UNCHANGED status \/ RestoreSet \/ \E j \in Items : ReconcileRow(j)
  BY DEF RestoreDrainOps, DrainBegin, DrainEnd, OpBegin, RestoreGet, RestoreCheck, RestoreMove, RestoreUnmeta,
     ReconcileNames, OpFinish
<1> QED
  BY <1>1, <1>3, <1>4, <1>5, <1>6, <1>8, <1>9, <1>10, <1>11 DEF Next

\* The driver announces only what it has just renamed.
LEMMA FlightSteps ==
  ASSUME LedgerInv, [Next]_vars, NEW i \in inflight', i \notin inflight
  PROVE  i = nItems + 1 /\ i \in Items /\ nItems' = nItems + 1 /\ UNCHANGED status
<1>1. PICK p \in Paths : UserDelete(p)
  BY DEF Next, vars, itemVars, Crash, AddItem, Outside, OutsideUnchanged, UserCreate, Lose, Expire, NativeTake, Tick,
     EnqueueOp, MaintenancePass, MaintUnchanged, PassBegin, List, JobDone, SweepDone, LandMove, LandSkip, PurgeDelete,
     SweepLook, LandMeta, LandSet, PurgeMark, Spare, SweepDrop, Pick, RestoreDrainOps, OpsUnchanged, DrainBegin,
     DrainEnd, OpBegin, RestoreGet, ReconcileRow, RestoreCheck, RestoreMove, RestoreUnmeta, RestoreSet,
     ReconcileNames, OpFinish
<1>2. nItems + 1 \in Items
  BY <1>1, LimitBounds, LedgerParts DEF UserDelete, BoundInv, Items
<1> QED
  BY <1>1, <1>2 DEF UserDelete, dbVars

LEMMA StoreSteps ==
  ASSUME LedgerInv, [Next]_vars, NEW i \in Items, store'[i] # NoData
  PROVE  store[i] # NoData \/ (i = nItems + 1 /\ nItems' = nItems + 1)
<1>0. FilesOK
  BY LedgerParts
<1>1. CASE UNCHANGED store
  BY <1>1
<1>2. ASSUME NEW p \in Paths, UserDelete(p) PROVE store[i] # NoData \/ (i = nItems + 1 /\ nItems' = nItems + 1)
  BY <1>0, <1>2 DEF UserDelete, FilesOK
<1>3. ASSUME NEW j \in Items, LandMove(j) PROVE store[i] # NoData
  BY <1>0, <1>3 DEF LandMove, FilesOK
<1>4. ASSUME NEW j \in Items, PurgeDelete(j) PROVE store[i] # NoData
  BY <1>0, <1>4 DEF PurgeDelete, DeleteStaged, DeleteEntry, DeleteKeepsMeta, FilesOK
<1>5. ASSUME SweepDrop PROVE store[i] # NoData
  BY <1>0, <1>5 DEF SweepDrop, DeleteStaged, FilesOK
<1>6. ASSUME RestoreMove PROVE store[i] # NoData
  BY <1>0, <1>6 DEF RestoreMove, MoveBack, FilesOK
<1> QED
  BY <1>1, <1>2, <1>3, <1>4, <1>5, <1>6, FileSteps DEF UserCreate, NativeTake

LEMMA UnlandedNext ==
  ASSUME LedgerInv, [Next]_vars, NEW i \in Unlanded'
  PROVE  i \in Unlanded \/ (i = nItems + 1 /\ nItems' = nItems + 1)
<1>1. CASE AddItem
  <2>1. inflight \in SUBSET Nat /\ inflight # {}
    BY <1>1, LedgerParts DEF AddItem, ItemsOK
  <2>2. PICK j \in inflight : inflight' = inflight \ {j} /\ (status' = [status EXCEPT ![j] = "staged"] \/ status' = status)
    BY <1>1, <2>1, OldestMember DEF AddItem
  <2>3. UNCHANGED store /\ \A k \in Items : status'[k] = status[k] \/ k = j
    BY <1>1, <2>2, LedgerParts DEF AddItem, fsVars, RowsOK
  <2> QED
    BY <2>2, <2>3 DEF Unlanded
<1>2. CASE ~AddItem
  BY <1>2, RowSteps, FlightSteps, StoreSteps DEF Unlanded
<1> QED
  BY <1>1, <1>2

LEMMA PastNext ==
  ASSUME LedgerInv, [Next]_vars, NEW t \in Int, Past(t)
  PROVE  Past(t)'
<1>1. PICK j \in 1 .. nItems : t <= clock + j /\ \A i \in Unlanded : j < i
  BY DEF Past
<1>2. j \in 1 .. nItems' /\ t <= clock' + j /\ j < nItems + 1
  BY <1>1, CountersGrow
<1>3. \A i \in Unlanded' : j < i
  BY <1>1, <1>2, UnlandedNext
<1> QED
  BY <1>2, <1>3 DEF Past

LEMMA InsertOrderNext ==
  ASSUME LedgerInv, InsertOrder, [Next]_vars
  PROVE  InsertOrder'
<1>0. /\ RowsOK /\ ItemsOK /\ RowInv /\ nItems \in Nat
      /\ inflight \in SUBSET Nat /\ 1 .. nItems \subseteq Items
  BY LedgerParts, Numbers DEF ItemsOK
<1>1. CASE AddItem
  <2>1. PICK k \in inflight : /\ \A i \in inflight : k <= i
                              /\ inflight' = inflight \ {k}
                              /\ status' = [status EXCEPT ![k] = "staged"] \/ status' = status
    BY <1>0, <1>1, OldestMember DEF AddItem
  <2> QED
    BY <1>0, <2>1 DEF InsertOrder, RowsOK
<1>2. CASE ~AddItem
  <2> SUFFICES ASSUME NEW i \in inflight', NEW j \in Items, status'[j] # "none" PROVE j < i
    BY DEF InsertOrder
  <2>1. status[j] # "none"
    BY <1>2, RowSteps
  <2>2. CASE i \in inflight
    BY <2>1, <2>2 DEF InsertOrder
  <2>3. CASE i \notin inflight
    BY <1>0, <2>1, <2>3, FlightSteps DEF RowInv, Items
  <2> QED
    BY <2>2, <2>3
<1> QED
  BY <1>1, <1>2

LEMMA ListOrderNext ==
  ASSUME LedgerInv, InsertOrder, ListOrder, [Next]_vars, ~overtaken'
  PROVE  ListOrder'
<1>0. /\ RowsOK /\ ItemsOK /\ MaintOK /\ HandInv /\ nItems \in Nat /\ 1 .. nItems \subseteq Items
  BY LedgerParts, Numbers
<1>1. ASSUME todo' \subseteq todo, mjob = "land", \A j \in todo \ todo' : j \notin Unlanded'
      PROVE  ListOrder'
  <2> SUFFICES ASSUME NEW i \in todo', NEW j \in Unlanded', j < i PROVE j \in todo'
    BY DEF ListOrder
  <2>1. i \in 1 .. nItems
    BY <1>0, <1>1 DEF HandInv
  <2>2. j \in Unlanded
    BY <1>0, <2>1, UnlandedNext
  <2> QED
    BY <1>1, <2>2 DEF ListOrder
<1>2. CASE todo' = {} \/ mjob' # "land"
  BY <1>2 DEF ListOrder
<1>3. CASE UNCHANGED <<todo, mjob>>
  BY <1>1, <1>2, <1>3
<1>4. CASE List
  <2> SUFFICES ASSUME mjob = "land", todo' = ListStaged, NEW i \in todo', NEW j \in Unlanded', j < i
               PROVE  j \in todo'
    BY <1>4 DEF List, Listed, ListOrder
  <2>1. i \in Items /\ status[i] = "staged" /\ Cardinality({k \in Rows("staged") : k < i}) < StagedBatch
    BY DEF ListStaged, First, Rows
  <2>2. j \in Items /\ j \in Unlanded
    BY <1>4 DEF List, MaintUnchanged, itemVars, fsVars, Unlanded
  <2>3. status[j] = "staged"
    BY <2>1, <2>2 DEF InsertOrder, Unlanded, Items
  <2> DEFINE Before(k) == {l \in Rows("staged") : l < k}
  <2>4. Before(j) \subseteq Before(i) /\ IsFiniteSet(Before(i))
    <3>1. IsFiniteSet(Items)
      BY LimitBounds, LedgerParts, FS_Interval DEF Items
    <3>2. Before(i) \subseteq Items
      BY DEF Rows
    <3>3. Before(j) \subseteq Before(i)
      BY <2>1, <2>2 DEF Rows, Items
    <3> QED
      BY <3>1, <3>2, <3>3, FS_Subset
  <2>5. Cardinality(Before(j)) < StagedBatch
    <3>1. /\ Cardinality(Before(j)) \in Nat /\ Cardinality(Before(i)) \in Nat
          /\ Cardinality(Before(j)) <= Cardinality(Before(i))
      BY <2>4, FS_Subset, FS_CardinalityType
    <3> QED
      BY <2>1, <3>1, RbLifecycleAssumption
  <2> QED
    BY <2>2, <2>3, <2>5 DEF ListStaged, First, Rows
<1>5. CASE PassBegin \/ JobDone \/ SweepDone
  BY <1>0, <1>2, <1>5 DEF PassBegin, JobDone, SweepDone, HandInv
<1>6. ASSUME NEW i \in Items, LandMove(i) PROVE ListOrder'
  <2>1. mjob = "land" /\ todo' = todo \ {i} /\ store'[i] = NoData
    BY <1>6, LedgerParts DEF LandMove, Pick, FilesOK
  <2> QED
    BY <1>1, <2>1 DEF Unlanded
<1>7. ASSUME NEW i \in Items, LandSkip(i) PROVE ListOrder'
  <2>1. mjob = "land" /\ todo' = todo \ {i} /\ UNCHANGED store
    BY <1>7 DEF LandSkip, Pick, fsVars
  <2>2. CASE store[i] = NoData
    BY <1>1, <2>1, <2>2 DEF Unlanded
  <2>3. CASE todo = {i}
    BY <1>2, <2>1, <2>3
  <2> QED
    BY <1>7, <2>2, <2>3 DEF LandSkip
<1>8. ASSUME NEW i \in Items, PurgeDelete(i) \/ SweepLook(i) PROVE ListOrder'
  BY <1>2, <1>8 DEF PurgeDelete, SweepLook, Pick
<1>9. CASE Spare
  BY <1>2, <1>9 DEF Spare
<1>10. CASE MaintenancePass
  BY <1>3, <1>4, <1>5, <1>6, <1>7, <1>8, <1>9, <1>10 DEF MaintenancePass, LandMeta, LandSet, PurgeMark, SweepDrop
<1>11. CASE Crash
  BY <1>2, <1>11 DEF Crash
<1>12. CASE Outside \/ AddItem \/ RestoreDrainOps \/ UNCHANGED vars
  BY <1>3, <1>12 DEF Outside, OutsideUnchanged, UserCreate, UserDelete, Lose, Expire, NativeTake, EnqueueOp, Tick,
     AddItem, RestoreDrainOps, OpsUnchanged, DrainBegin, DrainEnd, OpBegin, RestoreGet, RestoreCheck, RestoreMove,
     RestoreUnmeta, RestoreSet, ReconcileNames, ReconcileRow, OpFinish, maintVars, vars
<1> QED
  BY <1>10, <1>11, <1>12 DEF Next

LEMMA LandOrderNext ==
  ASSUME LedgerInv, InsertOrder, ListOrder, LandOrder, [Next]_vars
  PROVE  LandOrder'
<1>0. /\ FilesOK /\ RowsOK /\ ItemsOK /\ MaintOK /\ HandInv /\ nItems \in Nat /\ 1 .. nItems \subseteq Items
      /\ \A t \in Tokens : t \in Int
  BY LedgerParts, Numbers DEF Tokens
<1>1. ASSUME \A t \in Tokens : bin'[t] \in {bin[t], NoData},
             \A i \in Items : rpath'[i] # rpath[i] => mpc \in {"meta", "set"} /\ rpath'[i] = mtoken,
             mpc' \in {"meta", "set"} => mpc \in {"meta", "set"} /\ mtoken' = mtoken
      PROVE  LandOrder'
  <2>1. \A t \in Tokens : bin'[t] # NoData => Past(t)'
    BY <1>0, <1>1, PastNext DEF LandOrder
  <2>2. ASSUME NEW i \in Items, rpath'[i] # 0 PROVE Past(rpath[i])'
    <3>1. PICK t \in Int : t = rpath'[i]
      BY <1>0, <1>1 DEF RowsOK, MaintOK
    <3>2. Past(t)
      BY <1>1, <2>2, <3>1 DEF LandOrder
    <3> QED
      BY <3>1, <3>2, PastNext DEF Past
  <2>3. mpc' \in {"meta", "set"} => Past(mtoken)'
    <3>1. ASSUME mpc' \in {"meta", "set"} PROVE Past(mtoken)'
      <4>1. PICK t \in Int : t = mtoken
        BY <1>0 DEF MaintOK
      <4>2. Past(t)'
        BY <1>1, <3>1, <4>1, PastNext DEF LandOrder
      <4> QED
        BY <1>1, <3>1, <4>1, <4>2 DEF Past
    <3> QED
      BY <3>1
  <2> QED
    BY <2>1, <2>2, <2>3 DEF LandOrder
<1>2. ASSUME NEW i \in Items, LandMove(i) PROVE LandOrder'
  <2>1. /\ mjob = "land" /\ todo # {} /\ i = Oldest(todo) /\ todo \in SUBSET Nat
        /\ Token(i) \in Tokens /\ mtoken' = Token(i) /\ UNCHANGED <<rpath, clock, nItems>>
        /\ store'[i] = NoData /\ \A t \in Tokens : t # Token(i) => bin'[t] = bin[t]
    <3>1. Token(i) \in Tokens /\ todo \in SUBSET Nat
      BY <1>0, TokenType, LedgerParts DEF MaintOK, Items, LedgerInv, TypeInv
    <3>2. mjob = "land" /\ todo # {} /\ Picked(i) /\ mtoken' = Token(i) /\ UNCHANGED <<rpath, clock, nItems>>
      BY <1>2 DEF LandMove, Pick, MaintUnchanged
    <3> QED
      BY <1>0, <1>2, <3>1, <3>2 DEF LandMove, Picked, FilesOK
  <2>2. i \in todo /\ \A k \in todo : i <= k
    BY <2>1, OldestMember
  <2>3. ASSUME NEW k \in Unlanded' PROVE i < k
    <3>1. k # i /\ k \in Int /\ i \in Int
      BY <2>1 DEF Unlanded, Items
    <3>2. k \in Unlanded \/ k = nItems + 1
      BY UnlandedNext
    <3>3. CASE k \in Unlanded
      BY <2>1, <2>2, <3>1, <3>3 DEF ListOrder
    <3>4. CASE k = nItems + 1
      BY <1>0, <2>2, <3>4 DEF HandInv
    <3> QED
      BY <3>2, <3>3, <3>4
  <2>4. PICK t \in Tokens : t = Token(i)
    BY <2>1
  <2>5. Past(t)'
    <3>1. i \in 1 .. nItems' /\ t <= clock' + i
      BY <1>0, <2>1, <2>2, <2>4, CountersGrow DEF HandInv, Token, Items
    <3> QED
      BY <2>3, <3>1 DEF Past
  <2>6. \A u \in Tokens : bin'[u] # NoData => Past(u)'
    BY <1>0, <2>1, <2>4, <2>5, PastNext DEF LandOrder
  <2>7. \A j \in Items : rpath'[j] # 0 => Past(rpath[j])'
    <3> SUFFICES ASSUME NEW j \in Items, rpath'[j] # 0 PROVE Past(rpath[j])'
      OBVIOUS
    <3>1. PICK u \in Int : u = rpath[j]
      BY <1>0 DEF RowsOK
    <3>2. Past(u)'
      BY <2>1, <3>1, PastNext DEF LandOrder
    <3> QED
      BY <2>1, <3>1, <3>2 DEF Past
  <2>8. Past(mtoken)'
    BY <2>1, <2>4, <2>5 DEF Past
  <2> QED
    BY <2>6, <2>7, <2>8 DEF LandOrder
<1>3. ASSUME UNCHANGED <<rpath, bin>>, mpc' \in {"meta", "set"} => mpc \in {"meta", "set"} /\ mtoken' = mtoken
      PROVE  LandOrder'
  BY <1>1, <1>3
<1>4. CASE LandSet
  BY <1>0, <1>1, <1>4 DEF LandSet, NextItem, fsVars, RowsOK
<1>5. ASSUME NEW i \in Items, PurgeDelete(i) PROVE LandOrder'
  BY <1>0, <1>1, <1>5 DEF PurgeDelete, Pick, DeleteStaged, DeleteEntry, DeleteKeepsMeta, FilesOK
<1>6. CASE SweepDrop
  BY <1>3, <1>6 DEF SweepDrop, DeleteStaged, NextItem
<1>7. CASE RestoreMove
  BY <1>0, <1>1, <1>7 DEF RestoreMove, MoveBack, OpsUnchanged, maintVars, FilesOK
<1>8. ASSUME NEW i \in Items, NativeTake(i) PROVE LandOrder'
  BY <1>0, <1>1, <1>8 DEF NativeTake, OutsideUnchanged, maintVars, dbVars, FilesOK
<1>9. CASE Outside \/ AddItem \/ Crash \/ UNCHANGED vars
  BY <1>3, <1>8, <1>9 DEF Outside, UserCreate, UserDelete, Lose, Expire, EnqueueOp, Tick, AddItem, Crash,
     OutsideUnchanged, vars, fsVars, dbVars, maintVars
<1>10. CASE MaintenancePass
  BY <1>2, <1>3, <1>4, <1>5, <1>6, <1>10 DEF MaintenancePass, PassBegin, List, JobDone, SweepDone, LandSkip, SweepLook,
     LandMeta, PurgeMark, Spare, NextItem, Pick, fsVars
<1>11. CASE RestoreDrainOps
  BY <1>3, <1>7, <1>11 DEF RestoreDrainOps, OpsUnchanged, DrainBegin, DrainEnd, OpBegin, RestoreGet, ReconcileRow,
     RestoreCheck, RestoreUnmeta, RestoreSet, ReconcileNames, OpFinish, fsVars, maintVars
<1> QED
  BY <1>9, <1>10, <1>11 DEF Next

LEMMA OrderFresh == LedgerInv /\ OrderInv => TokensFresh
<1> SUFFICES ASSUME LedgerInv, OrderInv, mjob = "land", mpc = "each", NEW i \in todo, store[i] # NoData
             PROVE  bin[Token(i)] = NoData /\ \A j \in Items : rpath[j] # Token(i)
  BY DEF TokensFresh
<1>1. i \in Unlanded /\ i \in 1 .. nItems /\ nItems \in Nat /\ clock \in Nat
  BY LedgerParts, Numbers DEF LandInv, HandInv, Unlanded, BoundsOK
<1>2. ~Past(Token(i))
  BY <1>1 DEF Past, Token
<1>3. Token(i) \in Tokens
  BY <1>1, TokenType, LedgerParts DEF Unlanded, LedgerInv, TypeInv
<1>4. Token(i) # 0
  BY <1>1 DEF Token
<1> QED
  BY <1>2, <1>3, <1>4 DEF OrderInv, LandOrder

LEMMA OrderInit == Init => OrderInv
  BY DEF Init, OrderInv, InsertOrder, ListOrder, LandOrder

LEMMA OrderNext == LedgerInv /\ OrderInv /\ [Next]_vars /\ ~overtaken' => OrderInv'
  BY InsertOrderNext, ListOrderNext, LandOrderNext DEF OrderInv

\* What was overtaken, or cut short, failed.
LEMMA HistorySteps ==
  ASSUME LedgerInv, [Next]_vars
  PROVE  /\ overtaken => overtaken'
         /\ overtaken' => overtaken \/ faults' # 0
         /\ ocut' => ocut \/ faults' # 0
<1>1. Outside \/ AddItem \/ UNCHANGED vars => UNCHANGED <<overtaken, ocut>>
  BY DEF vars, maintVars, opsVars, Outside, OutsideUnchanged, UserCreate, UserDelete, Lose, Expire, NativeTake, Tick,
     EnqueueOp, AddItem
<1>2. MaintenancePass => UNCHANGED ocut /\ (overtaken' = overtaken \/ (overtaken' /\ Fails))
  <2>1. ASSUME NEW i \in Items, LandSkip(i) PROVE overtaken' = overtaken \/ (overtaken' /\ Fails)
    BY <2>1, LedgerParts DEF LandSkip, MaintOK
  <2> QED
    BY <2>1 DEF MaintenancePass, MaintUnchanged, opsVars, PassBegin, List, JobDone, SweepDone, LandMove, LandSkip,
       PurgeDelete, SweepLook, LandMeta, LandSet, PurgeMark, Spare, SweepDrop, NextItem, Pick
<1>3. RestoreDrainOps => UNCHANGED overtaken /\ (ocut' => ocut \/ Fails)
  BY DEF RestoreDrainOps, OpsUnchanged, maintVars, DrainBegin, DrainEnd, OpBegin, RestoreGet, ReconcileRow,
     RestoreCheck, RestoreMove, RestoreUnmeta, RestoreSet, ReconcileNames, OpFinish, OpOver
<1>4. Crash => UNCHANGED overtaken /\ ~ocut'
  BY DEF Crash
<1>5. Fails => faults' # 0
  BY FaultsStay, LedgerParts
<1> QED
  BY <1>1, <1>2, <1>3, <1>4, <1>5 DEF Next

LEMMA KeptNext ==
  ASSUME LedgerInv, KeptInv, [Next]_vars
  PROVE  KeptInv'
<1>1. ASSUME ~overtaken' PROVE OrderInv' /\ FilesInv'
  <2>1. OrderInv /\ FilesInv /\ (faults = 0 => ~ocut)
    BY <1>1, HistorySteps DEF KeptInv
  <2> QED
    BY <1>1, <2>1, OrderFresh, OrderNext, FilesInvNext
<1>2. faults' = 0 => ~overtaken' /\ ~ocut'
  BY HistorySteps, FaultsStay, LedgerParts DEF KeptInv
<1> QED
  BY <1>1, <1>2 DEF KeptInv

LEMMA KeptAlways == Spec => [](LedgerInv /\ KeptInv)
<1>1. Init => LedgerInv /\ KeptInv
  <2>1. Init => OrderInv /\ FilesInv /\ ~overtaken /\ ~ocut
    BY OrderInit, FilesInvInit DEF Init
  <2> QED
    BY <2>1, LedgerInvInit DEF KeptInv
<1>2. (LedgerInv /\ KeptInv) /\ [Next]_vars => (LedgerInv /\ KeptInv)'
  BY LedgerInvNext, KeptNext
<1> QED
  BY <1>1, <1>2, PTL DEF Spec

\* The name made for a landed item is new, on whatever clock and through every
\* failure and crash, until a landing that failed has let a younger item of its
\* list go first; so that alone can make two items share a name.
THEOREM NamesFresh == Spec => [](~overtaken => TokensFresh)
<1>1. LedgerInv /\ KeptInv => (~overtaken => TokensFresh)
  BY OrderFresh DEF KeptInv
<1> QED
  BY <1>1, KeptAlways, PTL
-----------------------------------------------------------------------------
(* What is said of files.                                                  *)

\* RB-43, for every item and every command, through every failure and crash: a
\* reconciliation with a whole snapshot closes only rows whose $R file is gone,
\* although the maintenance thread lands and purges items all the while, until
\* an item that was overtaken may have got another's name.
THEOREM ReconciliationSpares == Spec => ReconcileSparesLanded
<1>1. LedgerInv /\ KeptInv /\ [Next]_vars =>
        [\A i \in Items :
           opc = "sift" /\ ~ocut /\ ~overtaken /\ status[i] = "landed" /\ bin[rpath[i]] # NoData =>
             status'[i] \in {"landed", "purged"} /\ (status'[i] = "purged" => mpc = "mark")]_vars
  <2> SUFFICES ASSUME LedgerInv, NameInv, [Next]_vars, NEW i \in Items, opc = "sift", ~ocut, status[i] = "landed",
                      bin[rpath[i]] # NoData
               PROVE  status'[i] \in {"landed", "purged"} /\ (status'[i] = "purged" => mpc = "mark")
    BY DEF KeptInv, FilesInv
  <2>0. RowsOK /\ ItemsOK /\ MaintOK /\ OpsOK /\ BoundInv /\ RowInv /\ LandInv
    BY LedgerParts
  <2>1. CASE UNCHANGED status
    BY <2>1
  <2>2. CASE AddItem
    <3>1. inflight \in SUBSET Nat /\ inflight # {}
      BY <2>0, <2>2 DEF AddItem, ItemsOK
    <3>2. PICK j \in inflight : status' = [status EXCEPT ![j] = "staged"] \/ status' = status
      BY <2>2, <3>1, OldestMember DEF AddItem
    <3> QED
      BY <2>0, <3>2 DEF RowInv, RowsOK
  <2>3. CASE LandSet
    BY <2>0, <2>3 DEF LandSet, SetStatus, MaintOK, LandInv, RowsOK
  <2>4. CASE PurgeMark
    BY <2>0, <2>4 DEF PurgeMark, SetStatus, MaintOK, RowsOK
  <2>5. CASE SweepDone
    BY <2>0, <2>5 DEF SweepDone, Terminal
  <2>6. ASSUME NEW j \in Items, ReconcileRow(j), status' # status PROVE status'[i] = status[i]
    <3>1. j \in otodo /\ rpath[j] \notin onames /\ SetStatus(j, Found(j))
      BY <2>6 DEF ReconcileRow
    <3>2. i # j
      BY <3>1 DEF NameInv
    <3> QED
      BY <2>0, <3>1, <3>2 DEF SetStatus, RowsOK
  <2>7. Outside \/ Crash \/ UNCHANGED vars => UNCHANGED status
    BY DEF Outside, UserCreate, UserDelete, Lose, Expire, NativeTake, EnqueueOp, Tick, Crash, vars, dbVars
  <2>8. MaintenancePass => UNCHANGED status \/ LandSet \/ PurgeMark \/ SweepDone
    BY DEF MaintenancePass, PassBegin, List, JobDone, LandMove, LandSkip, PurgeDelete, SweepLook, LandMeta, Spare,
       SweepDrop
  <2>9. RestoreDrainOps => UNCHANGED status \/ \E j \in Items : ReconcileRow(j)
    BY DEF RestoreDrainOps, DrainBegin, DrainEnd, OpBegin, RestoreGet, RestoreCheck, RestoreMove, RestoreUnmeta,
       RestoreSet, ReconcileNames, OpFinish
  <2> QED
    BY <2>1, <2>2, <2>3, <2>4, <2>5, <2>6, <2>7, <2>8, <2>9 DEF Next
<1> QED
  BY <1>1, KeptAlways, PTL DEF ReconcileSparesLanded, Spec

\* An item whose row offers it for restore is where the row says, whenever no
\* call has failed and the service has not been stopped: landing, sweep, purge,
\* restore and reconciliation move the file and its row on two threads.
THEOREM LiveRowsKept == Spec => []LiveRowHasFile
<1>1. LedgerInv /\ KeptInv => LiveRowHasFile
  BY DEF KeptInv, Undisturbed, FilesInv, CleanInv, LiveClean, LiveRowHasFile
<1> QED
  BY <1>1, KeptAlways, PTL

\* An item whose row is closed (restored, purged) takes up no space: no file of
\* it is left where the row says, whenever no call has failed and the service
\* has not been stopped.
THEOREM ClosedRowsEmpty == Spec => []ClosedRowHasNoFile
<1>1. LedgerInv /\ KeptInv => ClosedRowHasNoFile
  BY DEF KeptInv, Undisturbed, FilesInv, CleanInv, ClosedClean, Emptied, ClosedRowHasNoFile
<1> QED
  BY <1>1, KeptAlways, PTL

\* What the code leaves in $Recycle.Bin, $R and $I, comes in pairs, but for the
\* item a thread has in hand, whenever no call has failed and the service has
\* not been stopped.
THEOREM PairsKept == Spec => []PairsComplete
<1>1. LedgerInv /\ KeptInv => PairsComplete
  <2> SUFFICES ASSUME LedgerInv, KeptInv, Undisturbed, \A i \in Items : ~Busy(i)
               PROVE  meta = {t \in Tokens : bin[t] # NoData}
    BY DEF PairsComplete, InBin
  <2>1. meta \subseteq Tokens /\ MaintOK /\ OpsOK
    BY LedgerParts DEF FilesOK
  <2>2. mpc # "meta" /\ opc # "unmeta"
    BY <2>1 DEF Busy, MaintOK, OpsOK
  <2>3. \A t \in Tokens : (t \in meta => bin[t] # NoData) /\ (bin[t] # NoData => t \in meta)
    BY <2>2 DEF KeptInv, Undisturbed, FilesInv, CleanInv, PairClean, Unpaired
  <2> QED
    BY <2>1, <2>3
<1> QED
  BY <1>1, KeptAlways, PTL

\* A step that takes the last of an item's data is one of four.
LEMMA DataStep ==
  ASSUME LedgerInv, FilesInv, TokensFresh, [Next]_vars, NEW i \in 1 .. nItems, Present(data[i]), ~Present(data[i])'
  PROVE  DataGoesFor(i)
<1>0. /\ FilesOK /\ ItemsOK /\ RowsOK /\ MaintOK /\ OpsOK /\ BoundInv /\ HandInv /\ RowInv /\ SourceInv
      /\ FreshInv /\ NameInv /\ JobInv /\ TargetInv /\ 0 \notin Tokens
      /\ i \in Items /\ data[i] # NoData /\ nItems \in Nat
  BY LedgerParts, Numbers DEF FilesInv, FreshInv
<1>1. data'[i] = data[i]
  BY <1>0, FileSteps DEF UserCreate, UserDelete, NativeTake, LandMove, PurgeDelete, SweepDrop, RestoreMove, Pick,
     MaintUnchanged, OpsUnchanged, itemVars, ItemsOK
<1>2. /\ \A p \in Paths : share'[p] # data[i]
      /\ \A j \in Items : store'[j] # data[i]
      /\ \A t \in Tokens : bin'[t] # data[i]
  BY <1>1 DEF Present
<1>3. \/ \E p \in Paths : share[p] = data[i] /\ share'[p] # share[p]
      \/ \E j \in Items : store[j] = data[i] /\ store'[j] # store[j]
      \/ \E t \in Tokens : bin[t] = data[i] /\ bin'[t] # bin[t]
  BY <1>2 DEF Present
<1>4. ASSUME NEW p \in Paths, UserCreate(p) PROVE FALSE
  BY <1>0, <1>3, <1>4 DEF UserCreate, FilesOK
<1>5. ASSUME NEW p \in Paths, UserDelete(p) PROVE FALSE
  <2>1. nItems + 1 \in Items /\ store[nItems + 1] = NoData
    BY <1>0, <1>5, LimitBounds, LedgerParts DEF UserDelete, BoundInv, Items, RowInv
  <2> QED
    BY <1>0, <1>2, <1>3, <1>5, <2>1 DEF UserDelete, FilesOK
<1>6. ASSUME NEW j \in Items, NativeTake(j) PROVE data[j] = data[i]
  <2>1. rpath[j] \in Tokens /\ bin' = [bin EXCEPT ![rpath[j]] = NoData] /\ UNCHANGED store
    BY <1>0, <1>6 DEF NativeTake, RowsOK
  <2>2. \A p \in Paths : share'[p] # share[p] => share[p] = NoData
    BY <1>0, <1>6 DEF NativeTake, FilesOK
  <2>3. bin[rpath[j]] = data[i]
    BY <1>0, <1>3, <2>1, <2>2 DEF FilesOK
  <2> QED
    BY <1>0, <2>1, <2>3 DEF NameInv
<1>7. ASSUME NEW j \in Items, LandMove(j) PROVE FALSE
  <2>1. j \in todo /\ mjob = "land" /\ mpc = "each" /\ store[j] # NoData /\ Token(j) \in Tokens
    BY <1>0, <1>7, PickedListed, TokenType, LedgerParts DEF LandMove, Pick, LedgerInv, TypeInv
  <2>2. bin[Token(j)] = NoData
    BY <2>1 DEF TokensFresh
  <2> QED
    BY <1>0, <1>2, <1>3, <1>7, <2>1, <2>2 DEF LandMove, FilesOK
<1>8. ASSUME NEW j \in Items, PurgeDelete(j)
      PROVE  data[j] = data[i] /\ (mjob \in {"expire", "stale"} => j \in expired)
  <2>1. j \in todo /\ UNCHANGED share
    BY <1>0, <1>8, PickedListed DEF PurgeDelete, Pick
  <2>2. store[j] = data[i] \/ (rpath[j] # 0 /\ bin[rpath[j]] = data[i])
    <3>1. CASE mjob = "stale"
      BY <1>0, <1>3, <1>8, <2>1, <3>1 DEF PurgeDelete, DeleteStaged, FilesOK
    <3>2. CASE mjob # "stale"
      BY <1>0, <1>3, <1>8, <2>1, <3>2 DEF PurgeDelete, DeleteEntry, DeleteKeepsMeta, FilesOK, JobInv
    <3> QED
      BY <3>1, <3>2
  <2>3. data[j] = data[i]
    BY <1>0, <2>2 DEF NameInv
  <2> QED
    BY <1>0, <2>1, <2>3 DEF JobInv
<1>9. ASSUME SweepDrop PROVE data[mitem] = data[i]
  BY <1>0, <1>3, <1>9 DEF SweepDrop, DeleteStaged, MaintOK, FilesOK, NameInv
<1>10. ASSUME RestoreMove PROVE share[Dest] = data[i] /\ faults # 0
  <2>1. oitem \in Items /\ Dest \in Paths /\ opc = "move"
    BY <1>0, <1>10, DestType DEF RestoreMove, OpsOK
  <2>2. SourceThere /\ MoveBack
    BY <1>3, <1>10 DEF RestoreMove
  <2>3. share[Dest] = data[i]
    <3>1. CASE osrc = "bin"
      <4>1. rpath[oitem] \in Tokens
        BY <1>0, <2>1, <3>1 DEF SourceInv, RowsOK
      <4> QED
        BY <1>0, <1>2, <1>3, <2>1, <2>2, <3>1, <4>1 DEF MoveBack, FilesOK
    <3>2. CASE osrc # "bin"
      BY <1>0, <1>2, <1>3, <2>1, <2>2, <3>2 DEF MoveBack, FilesOK
    <3> QED
      BY <3>1, <3>2
  <2> QED
    BY <1>0, <2>1, <2>3 DEF TargetInv
<1> QED
  BY <1>3, <1>4, <1>5, <1>6, <1>7, <1>8, <1>9, <1>10, FileSteps DEF DataGoesFor

\* No data of a recycled item is lost but where it is purged, swept, taken by an
\* administrator, or restored over after one put it back: no landing, restore or
\* reconciliation and no failure or end of the service destroys any, until an
\* item that was overtaken lands under a name that is taken.
THEOREM DataKept == Spec => RecycledDataKept
<1>1. LedgerInv /\ KeptInv /\ [Next]_vars =>
        [\A i \in 1..nItems : ~overtaken /\ Present(data[i]) /\ ~Present(data[i])' => DataGoesFor(i)]_vars
  BY DataStep, OrderFresh DEF KeptInv
<1> QED
  BY <1>1, KeptAlways, PTL DEF RecycledDataKept, Spec

\* A restore gives back what the row stands for, also when a landing crossed it,
\* a call failed or the service came up again in between, until an item that
\* was overtaken may have got another's name.
THEOREM OwnFileBack == Spec => RestoreGivesOwn
<1>1. LedgerInv /\ KeptInv /\ [Next]_vars =>
        [~overtaken /\ opc = "move" /\ opc' \in {"unmeta", "set"} =>
           share' = [share EXCEPT ![Dest] = data[oitem]]]_vars
  <2> SUFFICES ASSUME LedgerInv, NameInv, [Next]_vars, opc = "move", opc' \in {"unmeta", "set"}
               PROVE  share' = [share EXCEPT ![Dest] = data[oitem]]
    BY DEF KeptInv, FilesInv
  <2>1. RestoreMove
    BY DEF Next, vars, opsVars, Outside, UserCreate, UserDelete, Lose, Expire, NativeTake, EnqueueOp, Tick,
       AddItem, OutsideUnchanged, Crash, MaintenancePass, MaintUnchanged, PassBegin, List, JobDone, SweepDone,
       LandMove, LandSkip, PurgeDelete, SweepLook, Pick, LandMeta, LandSet, PurgeMark, Spare, SweepDrop,
       RestoreDrainOps, DrainBegin, DrainEnd, OpBegin, RestoreGet, RestoreCheck, RestoreUnmeta, RestoreSet,
       ReconcileNames, ReconcileRow, OpFinish, OpOver, ItemFailed, ItemOver
  <2>2. SourceThere /\ MoveBack /\ oitem \in Items
    BY <2>1, LedgerParts DEF RestoreMove, ItemFailed, ItemOver, OpsOK
  <2>3. CASE osrc = "bin"
    <3>1. rpath[oitem] # 0
      BY <2>3, LedgerParts DEF SourceInv
    <3> QED
      BY <2>2, <2>3, <3>1 DEF SourceThere, MoveBack, NameInv
  <2>4. CASE osrc # "bin"
    BY <2>2, <2>4 DEF SourceThere, MoveBack, NameInv
  <2> QED
    BY <2>3, <2>4
<1> QED
  BY <1>1, KeptAlways, PTL DEF RestoreGivesOwn, Spec
=============================================================================
