----------------------------- MODULE RbLifecycle -----------------------------
(***************************************************************************)
(* The life of a recycled file in the service: the port thread inserts its *)
(* row (rbport.c, rbdb.c), the maintenance thread lands it in              *)
(* $Recycle.Bin, expires it and sweeps orphans (rbservice.c, rbstore.c,    *)
(* rbpolicy.c, rbconcile.c), and the ops thread restores it and reconciles *)
(* rows with the bin (rbrestore.c, rbconcile.c).                           *)
(*                                                                         *)
(* The three threads share nothing but the database, whose calls exclude   *)
(* one another, and the file system, whose renames and deletes are atomic; *)
(* a step is one such call.  Rows and files survive a crash, the threads'  *)
(* lists do not.  Items are files: what rbstore.c does with the tree of a  *)
(* recycled directory is left out.                                         *)
(***************************************************************************)
EXTENDS Integers, FiniteSets

CONSTANTS
  Paths,        \* places in the share
  NoData,       \* nothing is there
  MaxData,      \* bound: files users ever create
  MaxItems,     \* bound: deletes
  MaxOps,       \* bound: commands
  OldData,      \* files last written longer ago than OrphanGraceDays
  StagedBatch,
  MaxClock,     \* bound: milliseconds
  MaxFaults,    \* bound: calls that fail, and files taken by Explorer
  MaxCrashes,   \* bound: ends of the service process
  Limits        \* the combinations of bounds a behaviour may have

ASSUME RbLifecycleAssumption ==
  /\ StagedBatch \in Nat \ {0}
  /\ {MaxData, MaxItems, MaxOps, MaxClock, MaxFaults, MaxCrashes} \subseteq Nat
  /\ Limits \subseteq [data : 0..MaxData, items : 0..MaxItems, ops : 0..MaxOps, clock : 0..MaxClock,
                       faults : 0..MaxFaults, crashes : 0..MaxCrashes]
  /\ NoData \notin 1..MaxData
  /\ OldData \subseteq 1..MaxData

Data   == 1..MaxData
Items  == 1..MaxItems        \* by delete time, and so by row id
OpIds  == 1..MaxOps
Tokens == 1..(MaxItems + MaxClock)

VARIABLES
  limit,      \* the bounds of this behaviour, one of Limits
  faults, crashes, clock, nData, nItems, nOps,
  share,      \* the file at each path of the share
  store,      \* the staging file of each item
  bin,        \* the $R file of each token
  meta,       \* tokens with an $I file
  orig,       \* items.orig_path
  data,       \* the file the item was made of
  inflight,   \* staged items whose notification is under way
  expired,    \* items deleted longer ago than RetentionDays
  status,     \* items.status; "none" when there is no row
  rpath,      \* the token in items.recycle_path; 0 when it is NULL
  ops,        \* the ops table
  mjob,       \* the part of MaintenancePass being run; "rest" between passes
  mpc,        \* where in that part
  todo,       \* what is left of the list it read
  mfull,      \* the list of staged rows was a full batch
  mitem,      \* the item in hand
  mtoken,     \* the token made for it
  overtaken,  \* history: a landing failed, and the list went on to a younger item
  opc,        \* where the ops thread is
  batch,      \* what is left of the commands it read
  oid,        \* the command in hand
  otodo,      \* the items it still has to visit
  oitem,      \* the item in hand
  osrc,       \* which of its two files the row named
  obad,       \* an item of this command failed
  onames,     \* the directory snapshot of ReconcileLanded
  ocut        \* history: that snapshot leaves out names that are there

boundVars == <<limit, faults, crashes, clock, nData, nItems, nOps>>
fsVars    == <<share, store, bin, meta>>
itemVars  == <<orig, data, inflight, expired>>
dbVars    == <<status, rpath, ops>>
maintVars == <<mjob, mpc, todo, mfull, mitem, mtoken, overtaken>>
opsVars   == <<opc, batch, oid, otodo, oitem, osrc, obad, onames, ocut>>
vars == <<boundVars, fsVars, itemVars, dbVars, maintVars, opsVars>>

Live     == {"staged", "landed"}
Terminal == {"restored", "purged"}
Rows(s)  == {i \in Items : status[i] = s}
Pending  == {k \in OpIds : ops[k].state = "pending"}

NoOp == [type |-> "none", item |-> 0, dest |-> NoData, state |-> "none"]

Init ==
  /\ limit \in Limits
  /\ faults = 0 /\ crashes = 0 /\ clock = 0
  /\ nData = 0 /\ nItems = 0 /\ nOps = 0
  /\ share = [p \in Paths |-> NoData]
  /\ store = [i \in Items |-> NoData]
  /\ bin = [t \in Tokens |-> NoData]
  /\ meta = {}
  /\ orig = [i \in Items |-> NoData]
  /\ data = [i \in Items |-> NoData]
  /\ inflight = {}
  /\ expired = {}
  /\ status = [i \in Items |-> "none"]
  /\ rpath = [i \in Items |-> 0]
  /\ ops = [k \in OpIds |-> NoOp]
  /\ mjob = "rest" /\ mpc = "list" /\ todo = {} /\ mfull = FALSE
  /\ mitem = 0 /\ mtoken = 0 /\ overtaken = FALSE
  /\ opc = "idle" /\ batch = {} /\ oid = 0 /\ otodo = {} /\ oitem = 0
  /\ osrc = "store" /\ obad = FALSE /\ onames = {} /\ ocut = FALSE

\* A call of this step fails, or none does.
Fails == faults < limit.faults /\ faults' = faults + 1
Works == UNCHANGED faults

Oldest(S)   == CHOOSE i \in S : \A j \in S : i <= j
First(n, S) == {i \in S : Cardinality({j \in S : j < i}) < n}

SetStatusUpsert(i, s) == status' = [status EXCEPT ![i] = s]
\* DbUpdateStatusInternal; a row that was reaped meanwhile stays away.
SetStatus(i, s) == status' = [status EXCEPT ![i] = IF @ = "none" THEN @ ELSE s]

-----------------------------------------------------------------------------
(* Users, the driver and the REST API.                                     *)

OutsideUnchanged == UNCHANGED <<maintVars, opsVars, crashes>>

UserCreate(p) ==
  /\ share[p] = NoData
  /\ nData < limit.data
  /\ nData' = nData + 1
  /\ share' = [share EXCEPT ![p] = nData + 1]
  /\ OutsideUnchanged
  /\ UNCHANGED <<faults, clock, nItems, nOps, store, bin, meta, itemVars, dbVars>>

\* The driver renames the file to a staging path of its own and queues the
\* notification.
UserDelete(p) ==
  /\ share[p] # NoData
  /\ nItems < limit.items
  /\ nItems' = nItems + 1
  /\ share' = [share EXCEPT ![p] = NoData]
  /\ store' = [store EXCEPT ![nItems + 1] = share[p]]
  /\ orig' = [orig EXCEPT ![nItems + 1] = p]
  /\ data' = [data EXCEPT ![nItems + 1] = share[p]]
  /\ inflight' = inflight \cup {nItems + 1}
  /\ OutsideUnchanged
  /\ UNCHANGED <<faults, clock, nData, nOps, bin, meta, expired, dbVars>>

\* The driver drops or drains the notification.
Lose(i) ==
  /\ i \in inflight
  /\ inflight' = inflight \ {i}
  /\ Fails
  /\ OutsideUnchanged
  /\ UNCHANGED <<clock, nData, nItems, nOps, fsVars, orig, data, expired, dbVars>>

\* PortHandleMessage; an insert that fails is logged and forgotten.
AddItem ==
  /\ inflight # {}
  /\ LET i == Oldest(inflight) IN
       /\ inflight' = inflight \ {i}
       /\ \/ status' = [status EXCEPT ![i] = "staged"] /\ Works
          \/ UNCHANGED status /\ Fails
  /\ OutsideUnchanged
  /\ UNCHANGED <<clock, nData, nItems, nOps, fsVars, orig, data, expired, rpath, ops>>

Expire(i) ==
  /\ status[i] # "none" /\ i \notin expired
  /\ expired' = expired \cup {i}
  /\ OutsideUnchanged
  /\ UNCHANGED <<faults, clock, nData, nItems, nOps, fsVars, orig, data, inflight, dbVars>>

Tick ==
  /\ clock < limit.clock
  /\ clock' = clock + 1
  /\ OutsideUnchanged
  /\ UNCHANGED <<faults, nData, nItems, nOps, fsVars, itemVars, dbVars>>

\* An administrator restores or deletes the entry in the desktop Recycle Bin.
NativeTake(i) ==
  /\ status[i] = "landed" /\ bin[rpath[i]] # NoData
  /\ bin' = [bin EXCEPT ![rpath[i]] = NoData]
  /\ meta' = meta \ {rpath[i]}
  /\ \/ UNCHANGED share
     \/ share[orig[i]] = NoData /\ share' = [share EXCEPT ![orig[i]] = bin[rpath[i]]]
  /\ Fails
  /\ OutsideUnchanged
  /\ UNCHANGED <<clock, nData, nItems, nOps, store, itemVars, dbVars>>

\* The API checks that the item exists and leaves the rest to the service.
EnqueueOp(type, i, p) ==
  /\ nOps < limit.ops
  /\ type = "restore" => status[i] # "none"
  /\ nOps' = nOps + 1
  /\ ops' = [ops EXCEPT ![nOps + 1] =
               [type |-> type, item |-> i, dest |-> p, state |-> "pending"]]
  /\ OutsideUnchanged
  /\ UNCHANGED <<faults, clock, nData, nItems, fsVars, itemVars, status, rpath>>

Outside ==
  \/ \E p \in Paths : UserCreate(p) \/ UserDelete(p)
  \/ \E i \in Items : Lose(i) \/ Expire(i) \/ NativeTake(i)
  \/ \E i \in Items, p \in Paths : EnqueueOp("restore", i, p)
  \/ \E type \in {"restore-tree", "reconcile"} : EnqueueOp(type, 0, NoData)
  \/ Tick

-----------------------------------------------------------------------------
(* MaintenancePass.                                                        *)

MaintUnchanged == UNCHANGED <<crashes, clock, nData, nItems, nOps, itemVars, ops, opsVars>>

NextJob == [rest |-> "land", land |-> "expire", expire |-> "stale", stale |-> "watermark",
            watermark |-> "quota", quota |-> "sweep", sweep |-> "rest"]

PassBegin ==
  /\ mjob = "rest"
  /\ mjob' = NextJob[mjob]
  /\ mpc' = "list"
  /\ MaintUnchanged
  /\ UNCHANGED <<faults, fsVars, status, rpath, todo, mfull, mitem, mtoken, overtaken>>

ListStagedAfterLimit == First(StagedBatch, Rows("staged") \cup Rows("landed")) \cap Rows("staged")
ListStaged == First(StagedBatch, Rows("staged"))

ListExpiredYoung == Rows("landed") \ expired
ListExpired      == Rows("landed") \cap expired

Listed(job) ==
  CASE job = "land" -> ListStaged
    [] job = "expire" -> ListExpired
    [] job = "stale" -> Rows("staged") \cap expired
    [] job \in {"watermark", "quota"} -> Rows("landed")
    [] job = "sweep" -> {i \in Items : store[i] # NoData}

\* A list that cannot be read is an empty one.  The sweep is due once an
\* hour; other passes skip it.
List ==
  /\ mjob # "rest" /\ mpc = "list"
  /\ \/ todo' = Listed(mjob) /\ Works
     \/ todo' = {} /\ Fails
     \/ mjob = "sweep" /\ todo' = {} /\ Works
  /\ mfull' = (mjob = "land" /\ Cardinality(todo') = StagedBatch)
  /\ mpc' = "each"
  /\ MaintUnchanged
  /\ UNCHANGED <<fsVars, status, rpath, mjob, mitem, mtoken, overtaken>>

\* "Fewer than a full batch means we drained it."
JobDone ==
  /\ mjob \notin {"rest", "sweep"} /\ mpc = "each" /\ todo = {}
  /\ mjob' = IF mfull THEN mjob ELSE NextJob[mjob]
  /\ mpc' = "list"
  /\ mfull' = FALSE
  /\ MaintUnchanged
  /\ UNCHANGED <<faults, fsVars, status, rpath, todo, mitem, mtoken, overtaken>>

\* DbReapTerminalRows, due when the sweep is; rows past TerminalKeepDays are
\* past RetentionDays.
SweepDone ==
  /\ mjob = "sweep" /\ mpc = "each" /\ todo = {}
  /\ \E S \in SUBSET {i \in expired : status[i] \in Terminal} :
       status' = [i \in Items |-> IF i \in S THEN "none" ELSE status[i]]
  /\ mjob' = NextJob[mjob]
  /\ mpc' = "list"
  /\ MaintUnchanged
  /\ UNCHANGED <<faults, fsVars, rpath, todo, mfull, mitem, mtoken, overtaken>>

\* The next item of the list; retention reads its rows in no order.
Picked(i) == IF mjob \in {"expire", "stale", "sweep"} THEN i \in todo ELSE i = Oldest(todo)
Pick(i, step) ==
  /\ mpc = "each" /\ todo # {} /\ Picked(i)
  /\ todo' = todo \ {i}
  /\ mitem' = IF step = "each" THEN 0 ELSE i
  /\ mpc' = step
  /\ MaintUnchanged
  /\ UNCHANGED <<mjob, mfull>>

\* The item in hand is done with; its token goes out of scope.
NextItem == mpc' = "each" /\ mitem' = 0 /\ mtoken' = 0 /\ UNCHANGED overtaken

TokenOfClock(i) == clock + 1
Token(i) == clock + i

\* MoveFileExW replaces what it finds at the new name.
LandMove(i) ==
  /\ mjob = "land" /\ Pick(i, "meta")
  /\ store[i] # NoData
  /\ store' = [store EXCEPT ![i] = NoData]
  /\ bin' = [bin EXCEPT ![Token(i)] = store[i]]
  /\ mtoken' = Token(i)
  /\ Works
  /\ UNCHANGED <<share, meta, status, rpath, overtaken>>

\* No staging file, no volume, no SID, or the rename fails: next item.
LandSkip(i) ==
  /\ mjob = "land" /\ Pick(i, "each")
  /\ \/ store[i] = NoData /\ Works /\ UNCHANGED overtaken
     \/ Fails /\ overtaken' = (overtaken \/ (store[i] # NoData /\ todo # {i}))
  /\ UNCHANGED <<fsVars, status, rpath, mtoken>>

LandMeta ==
  /\ mpc = "meta"
  /\ \/ meta' = meta \cup {mtoken} /\ Works
     \/ UNCHANGED meta /\ Fails
  /\ mpc' = "set"
  /\ MaintUnchanged
  /\ UNCHANGED <<share, store, bin, status, rpath, mjob, todo, mfull, mitem, mtoken, overtaken>>

LandSetNoPath ==
  /\ mpc = "set"
  /\ SetStatus(mitem, "landed")
  /\ Works
  /\ NextItem
  /\ MaintUnchanged
  /\ UNCHANGED <<fsVars, rpath, mjob, todo, mfull>>

\* DbSetLanded; its result is not looked at.
LandSet ==
  /\ mpc = "set"
  /\ \/ /\ SetStatus(mitem, "landed")
        /\ rpath' = [rpath EXCEPT ![mitem] = mtoken]
        /\ Works
     \/ UNCHANGED <<status, rpath>> /\ Fails
  /\ NextItem
  /\ MaintUnchanged
  /\ UNCHANGED <<fsVars, mjob, todo, mfull>>

\* StoreDeleteEntry, or DeleteFileW on the staging file; failures are logged.
\* $I is deleted although $R could not be, and can fail by itself.
DeleteKeepsMeta(i) == bin' = [bin EXCEPT ![rpath[i]] = NoData] /\ UNCHANGED <<store, meta>>
DeleteEntry(i) ==
  /\ bin' = [bin EXCEPT ![rpath[i]] = NoData]
  /\ meta' = meta \ {rpath[i]}
  /\ UNCHANGED store

DeleteStaged(i) == store' = [store EXCEPT ![i] = NoData] /\ UNCHANGED <<bin, meta>>

PurgeDelete(i) ==
  /\ mjob \in {"expire", "stale", "watermark", "quota"} /\ Pick(i, "mark")
  /\ \/ /\ IF mjob = "stale" THEN DeleteStaged(i) ELSE DeleteEntry(i)
        /\ Works
     \/ UNCHANGED <<store, bin, meta>> /\ Fails
     \/ /\ mjob # "stale" /\ Fails
        /\ DeleteKeepsMeta(i) \/ (meta' = meta \ {rpath[i]} /\ UNCHANGED <<store, bin>>)
  /\ UNCHANGED <<share, status, rpath, mtoken, overtaken>>

PurgeMark ==
  /\ mpc = "mark"
  /\ \/ SetStatus(mitem, "purged") /\ Works
     \/ UNCHANGED status /\ Fails
  /\ NextItem
  /\ MaintUnchanged
  /\ UNCHANGED <<fsVars, rpath, mjob, todo, mfull>>

\* The volume has room, or the rest of the list is another user's.
Spare ==
  /\ mjob \in {"watermark", "quota"} /\ mpc = "each" /\ todo # {}
  /\ todo' = IF mjob = "watermark" THEN {} ELSE todo \ {Oldest(todo)}
  /\ MaintUnchanged
  /\ UNCHANGED <<faults, fsVars, status, rpath, mjob, mpc, mfull, mitem, mtoken, overtaken>>

\* ExamineFile: DbStorePathExists, then the age of the last write.
Unknown(i) == status[i] = "none"
IsOrphan(i) == store[i] \in OldData /\ Unknown(i)
SweepLook(i) ==
  /\ mjob = "sweep"
  /\ \/ IsOrphan(i) /\ Pick(i, "drop") /\ Works
     \/ ~IsOrphan(i) /\ Pick(i, "each") /\ Works
     \/ Pick(i, "each") /\ Fails
  /\ UNCHANGED <<fsVars, status, rpath, mtoken, overtaken>>

SweepDrop ==
  /\ mpc = "drop"
  /\ \/ DeleteStaged(mitem) /\ Works
     \/ UNCHANGED <<store, bin, meta>> /\ Fails
  /\ NextItem
  /\ MaintUnchanged
  /\ UNCHANGED <<share, status, rpath, mjob, todo, mfull>>

MaintenancePass ==
  \/ PassBegin \/ List \/ JobDone \/ SweepDone
  \/ \E i \in Items : LandMove(i) \/ LandSkip(i) \/ PurgeDelete(i) \/ SweepLook(i)
  \/ LandMeta \/ LandSet \/ PurgeMark \/ Spare \/ SweepDrop

-----------------------------------------------------------------------------
(* RestoreDrainOps, on the ops thread.                                     *)

OpsUnchanged == UNCHANGED <<crashes, clock, nData, nItems, nOps, itemVars, rpath, maintVars>>

DrainBegin ==
  /\ opc = "idle" /\ Pending # {}
  /\ batch' = Pending
  /\ opc' = "next"
  /\ OpsUnchanged
  /\ UNCHANGED <<faults, fsVars, status, ops, oid, otodo, oitem, osrc, obad, onames, ocut>>

DrainEnd ==
  /\ opc = "next" /\ batch = {}
  /\ opc' = "idle"
  /\ OpsUnchanged
  /\ UNCHANGED <<faults, fsVars, status, ops, batch, oid, otodo, oitem, osrc, obad, onames, ocut>>

\* A tree command with nothing to restore fails, a reconciliation with
\* nothing to look at is done.
OpBegin ==
  /\ opc = "next" /\ batch # {}
  /\ oid' = Oldest(batch)
  /\ batch' = batch \ {oid'}
  /\ LET type == ops[oid'].type IN
       /\ \/ /\ otodo' = CASE type = "restore"      -> {ops[oid'].item}
                            [] type = "restore-tree" -> Rows("staged") \cup Rows("landed")
                            [] type = "reconcile"    -> Rows("landed")
             /\ Works
          \/ type # "restore" /\ otodo' = {} /\ Fails
       /\ obad' = (type = "restore-tree" /\ otodo' = {})
       /\ opc' = IF type = "reconcile" THEN "names" ELSE "each"
  /\ OpsUnchanged
  /\ UNCHANGED <<fsVars, status, ops, oitem, osrc, onames, ocut>>

Dest == IF ops[oid].type = "restore" THEN ops[oid].dest ELSE orig[oitem]
SourceThere == IF osrc = "bin" THEN bin[rpath[oitem]] # NoData ELSE store[oitem] # NoData

\* RestoreItemById gives up on the item in hand.
ItemOver   == opc' = "each" /\ oitem' = 0 /\ osrc' = "store"
ItemSkipped == ItemOver /\ UNCHANGED obad
ItemFailed == ItemOver /\ obad' = TRUE

\* DbGetItem.
RestoreGet(i) ==
  /\ opc = "each" /\ i \in otodo
  /\ otodo' = otodo \ {i}
  /\ \/ /\ status[i] \in Live
        /\ oitem' = i
        /\ osrc' = IF rpath[i] # 0 THEN "bin" ELSE "store"
        /\ opc' = "check"
        /\ UNCHANGED obad
        /\ Works
     \/ status[i] \notin Live /\ ItemFailed /\ Works
     \/ ItemFailed /\ Fails
  /\ OpsUnchanged
  /\ UNCHANGED <<fsVars, status, ops, batch, oid, onames, ocut>>

\* "source file missing", "target already exists".
NoTargetCheck == SourceThere
MayMove == SourceThere /\ share[Dest] = NoData
RestoreCheck ==
  /\ opc = "check"
  /\ IF MayMove THEN opc' = "move" /\ UNCHANGED <<oitem, osrc, obad>> ELSE ItemFailed
  /\ OpsUnchanged
  /\ UNCHANGED <<faults, fsVars, status, ops, batch, oid, otodo, onames, ocut>>

\* MoveFileExW replaces what it finds at the target.
MoveBack ==
  IF osrc = "bin"
  THEN /\ share' = [share EXCEPT ![Dest] = bin[rpath[oitem]]]
       /\ bin' = [bin EXCEPT ![rpath[oitem]] = NoData]
       /\ UNCHANGED store
  ELSE /\ share' = [share EXCEPT ![Dest] = store[oitem]]
       /\ store' = [store EXCEPT ![oitem] = NoData]
       /\ UNCHANGED bin

RestoreMoveIgnored ==
  /\ opc = "move"
  /\ IF SourceThere THEN MoveBack ELSE UNCHANGED <<share, store, bin>>
  /\ opc' = IF osrc = "bin" THEN "unmeta" ELSE "set"
  /\ OpsUnchanged
  /\ UNCHANGED <<faults, obad, meta, status, ops, batch, oid, otodo, oitem, osrc, onames, ocut>>
RestoreMove ==
  /\ opc = "move"
  /\ \/ /\ SourceThere
        /\ MoveBack
        /\ opc' = IF osrc = "bin" THEN "unmeta" ELSE "set"
        /\ Works
        /\ UNCHANGED <<oitem, osrc, obad>>
     \/ /\ ItemFailed
        /\ \/ ~SourceThere /\ Works
           \/ Fails
        /\ UNCHANGED <<share, store, bin>>
  /\ OpsUnchanged
  /\ UNCHANGED <<meta, status, ops, batch, oid, otodo, onames, ocut>>

RestoreUnmeta ==
  /\ opc = "unmeta"
  /\ \/ meta' = meta \ {rpath[oitem]} /\ Works
     \/ UNCHANGED meta /\ Fails
  /\ opc' = "set"
  /\ OpsUnchanged
  /\ UNCHANGED <<share, store, bin, status, ops, batch, oid, otodo, oitem, osrc, obad, onames, ocut>>

\* DbSetStatus; its result is not looked at.
RestoreSet ==
  /\ opc = "set"
  /\ \/ SetStatus(oitem, "restored") /\ Works
     \/ UNCHANGED status /\ Fails
  /\ ItemOver
  /\ OpsUnchanged
  /\ UNCHANGED <<fsVars, ops, batch, oid, otodo, obad, onames, ocut>>

\* ReconcileLanded: one snapshot of the directory, or it cannot be opened.  A
\* snapshot that breaks off or skips a name is taken for a whole one.
InBin == {t \in Tokens : bin[t] # NoData}
ReconcileNamesUnread ==
  /\ opc = "names"
  /\ \/ onames' = InBin /\ Works
     \/ onames' = {} /\ Fails
  /\ opc' = "sift"
  /\ OpsUnchanged
  /\ UNCHANGED <<fsVars, status, ops, batch, oid, otodo, oitem, osrc, obad, ocut>>
ReconcileNames ==
  /\ opc = "names"
  /\ \/ onames' = InBin /\ UNCHANGED <<otodo, ocut>> /\ Works
     \/ otodo' = {} /\ UNCHANGED <<onames, ocut>> /\ Fails
     \/ onames' \in SUBSET InBin \ {InBin} /\ ocut' = TRUE /\ UNCHANGED otodo /\ Fails
  /\ opc' = "sift"
  /\ OpsUnchanged
  /\ UNCHANGED <<fsVars, status, ops, batch, oid, oitem, osrc, obad>>

Found(i) == IF share[orig[i]] # NoData THEN "restored" ELSE "purged"
ReconcileRowLateRead(i) ==
  /\ opc = "sift" /\ otodo # {}
  /\ status[i] = "landed" /\ rpath[i] \notin onames
  /\ SetStatus(i, Found(i))
  /\ Works
  /\ OpsUnchanged
  /\ UNCHANGED <<fsVars, ops, opc, batch, oid, otodo, oitem, osrc, obad, onames, ocut>>
ReconcileRow(i) ==
  /\ opc = "sift" /\ i \in otodo
  /\ otodo' = otodo \ {i}
  /\ \/ rpath[i] \in onames /\ UNCHANGED status /\ Works
     \/ rpath[i] \notin onames /\ SetStatus(i, Found(i)) /\ Works
     \/ rpath[i] \notin onames /\ UNCHANGED status /\ Fails
  /\ OpsUnchanged
  /\ UNCHANGED <<fsVars, ops, opc, batch, oid, oitem, osrc, obad, onames, ocut>>

OpOver == opc' = "next" /\ oid' = 0 /\ obad' = FALSE /\ onames' = {} /\ ocut' = FALSE
Finish(state) == ops' = [ops EXCEPT ![oid].state = state]

\* DbOpFinish; when it fails the command stays pending.
OpFinishWhenDone ==
  /\ opc \in {"each", "sift"} /\ otodo = {}
  /\ IF obad THEN UNCHANGED ops ELSE Finish("done")
  /\ Works
  /\ OpOver
  /\ OpsUnchanged
  /\ UNCHANGED <<fsVars, status, batch, otodo, oitem, osrc>>
OpFinish ==
  /\ opc \in {"each", "sift"} /\ otodo = {}
  /\ \/ Finish(IF obad THEN "failed" ELSE "done") /\ Works
     \/ UNCHANGED ops /\ Fails
  /\ OpOver
  /\ OpsUnchanged
  /\ UNCHANGED <<fsVars, status, batch, otodo, oitem, osrc>>

RestoreDrainOps ==
  \/ DrainBegin \/ DrainEnd \/ OpBegin
  \/ \E i \in Items : RestoreGet(i) \/ ReconcileRow(i)
  \/ RestoreCheck \/ RestoreMove \/ RestoreUnmeta \/ RestoreSet
  \/ ReconcileNames \/ OpFinish

-----------------------------------------------------------------------------
\* The process ends and is started again.  The driver drains its queue when
\* the port closes.
Crash ==
  /\ crashes < limit.crashes
  /\ crashes' = crashes + 1
  /\ inflight' = {}
  /\ mjob' = "rest" /\ mpc' = "list" /\ todo' = {} /\ mfull' = FALSE
  /\ mitem' = 0 /\ mtoken' = 0
  /\ opc' = "idle" /\ batch' = {} /\ oid' = 0 /\ otodo' = {} /\ oitem' = 0
  /\ osrc' = "store" /\ obad' = FALSE /\ onames' = {} /\ ocut' = FALSE
  /\ UNCHANGED <<faults, clock, nData, nItems, nOps, fsVars, orig, data, expired, dbVars, overtaken>>

Next ==
  /\ Outside \/ AddItem \/ MaintenancePass \/ RestoreDrainOps \/ Crash
  /\ UNCHANGED limit

Spec == Init /\ [][Next]_vars

\* The three threads run, and MaintenancePass is called again and again.
\* Users, administrators, time and failures may do nothing.
Fairness ==
  /\ WF_vars(AddItem /\ UNCHANGED limit)
  /\ WF_vars(MaintenancePass /\ UNCHANGED limit)
  /\ WF_vars(RestoreDrainOps /\ UNCHANGED limit)

FairSpec == Spec /\ Fairness
-----------------------------------------------------------------------------
(* Properties.                                                             *)

BoundsOK == limit \in Limits /\ {faults, crashes, clock, nData, nItems, nOps} \subseteq Nat

FilesOK ==
  /\ share \in [Paths -> Data \cup {NoData}]
  /\ store \in [Items -> Data \cup {NoData}]
  /\ bin \in [Tokens -> Data \cup {NoData}]
  /\ meta \subseteq Tokens

ItemsOK ==
  /\ orig \in [Items -> Paths \cup {NoData}]
  /\ data \in [Items -> Data \cup {NoData}]
  /\ inflight \subseteq 1..nItems
  /\ expired \subseteq Items

RowsOK ==
  /\ status \in [Items -> {"none"} \cup Live \cup Terminal]
  /\ rpath \in [Items -> Tokens \cup {0}]
  /\ \A i \in Items : status[i] = "landed" => rpath[i] \in Tokens

CommandsOK ==
  ops \in [OpIds -> [type : {"none", "restore", "restore-tree", "reconcile"}, item : Items \cup {0},
                     dest : Paths \cup {NoData}, state : {"none", "pending", "done", "failed"}]]

MaintOK ==
  /\ mjob \in DOMAIN NextJob
  /\ mpc \in {"list", "each", "meta", "set", "mark", "drop"}
  /\ mpc \in {"meta", "set"} => mjob = "land" /\ mtoken \in Tokens
  /\ todo \subseteq Items
  /\ mfull \in BOOLEAN
  /\ mitem \in Items \cup {0}
  /\ mpc \in {"meta", "set", "mark", "drop"} => mitem \in Items
  /\ mtoken \in Tokens \cup {0}
  /\ overtaken \in BOOLEAN

OpsOK ==
  /\ opc \in {"idle", "next", "each", "check", "move", "unmeta", "set", "names", "sift"}
  /\ batch \subseteq OpIds
  /\ oid \in OpIds \cup {0}
  /\ opc \notin {"idle", "next"} => oid \in OpIds
  /\ otodo \subseteq Items
  /\ oitem \in Items \cup {0}
  /\ opc \in {"check", "move", "unmeta", "set"} => oitem \in Items
  /\ osrc \in {"bin", "store"}
  /\ obad \in BOOLEAN
  /\ onames \subseteq Tokens
  /\ ocut \in BOOLEAN

TypeOK == BoundsOK /\ FilesOK /\ ItemsOK /\ RowsOK /\ CommandsOK /\ MaintOK /\ OpsOK

Undisturbed == faults = 0 /\ crashes = 0

\* A thread is between the file-system call and the database call for i.
Busy(i) ==
  \/ mpc \in {"meta", "set", "mark"} /\ mitem = i
  \/ opc \in {"unmeta", "set"} /\ oitem = i

\* A row that calls an item recoverable is right: its file is where the row
\* says, whatever the threads have read of it, unless a call failed or the
\* process ended.  A file older than the grace period may have been swept
\* while its notification was under way.
LiveRowHasFile ==
  \A i \in Items : Undisturbed /\ ~Busy(i) /\ data[i] \notin OldData =>
    /\ status[i] = "landed" => bin[rpath[i]] = data[i]
    /\ status[i] = "staged" => store[i] = data[i]

\* An item that left the bin, restored or purged, leaves no file behind in it:
\* space is not held by files no row will ever reclaim.
ClosedRowHasNoFile ==
  \A i \in Items : Undisturbed /\ status[i] \in Terminal =>
    /\ store[i] = NoData
    /\ rpath[i] # 0 => bin[rpath[i]] = NoData

\* What Explorer shows is what is there: outside a step in progress, $R and $I
\* files come in pairs.
PairsComplete ==
  Undisturbed /\ (\A i \in Items : ~Busy(i)) => meta = InBin

\* RB-43: a reconciliation corrects only rows that are wrong.  It never closes
\* the row of an item whose $R file is there, whatever fails and however the
\* maintenance thread lands and purges meanwhile; but a snapshot that was cut
\* short passes for a whole one, and an item that was overtaken may have got
\* another's name.
ReconcileSparesLanded ==
  [][\A i \in Items :
       opc = "sift" /\ ~ocut /\ ~overtaken /\ status[i] = "landed" /\ bin[rpath[i]] # NoData =>
         status'[i] \in {"landed", "purged"} /\ (status'[i] = "purged" => mpc = "mark")]_vars

Present(d) ==
  \/ \E p \in Paths : share[p] = d
  \/ \E i \in Items : store[i] = d
  \/ \E t \in Tokens : bin[t] = d

\* What may destroy the data of an item: purging it, which then is expired or
\* taken for space, the sweep, an administrator who deletes it in the desktop
\* Recycle Bin, or a restore on top of it after he put it back there behind the
\* check.
DataGoesFor(i) ==
  \/ \E j \in Items : PurgeDelete(j) /\ data[j] = data[i] /\ (mjob \in {"expire", "stale"} => j \in expired)
  \/ SweepDrop /\ data[mitem] = data[i]
  \/ \E j \in Items : NativeTake(j) /\ data[j] = data[i]
  \/ RestoreMove /\ share[Dest] = data[i] /\ faults # 0

\* Nothing else does: landing, restoring and reconciling destroy none, no
\* thread destroys what another has given back, and no call that fails and no
\* end of the service loses any, until an item that was overtaken lands under
\* a name that is taken.
RecycledDataKept ==
  [][\A i \in 1..nItems :
       ~overtaken /\ Present(data[i]) /\ ~Present(data[i])' => DataGoesFor(i)]_vars

\* A restore reported done has been carried out: its item has left the bin,
\* though the maintenance thread may have been landing or purging it.
DoneIsDone ==
  [][\A k \in OpIds :
       Undisturbed /\ ops[k].type = "restore" /\ ops[k].state = "pending" /\ ops'[k].state = "done" =>
          status[ops[k].item] \notin Live]_vars

\* The rows and commands implement the ledger a client sees.  In particular no
\* item comes back to the bin once it left it, although every status is
\* written without looking at the one it replaces.
Ledger == INSTANCE RecycleLedger WITH outcome <- [k \in OpIds |-> ops[k].state]
ImplementsLedger == Ledger!Spec

\* Every command gets an answer, after a crash and a failed DbOpFinish too.
OpsAnswered == \A k \in OpIds : ops[k].state = "pending" ~> ops[k].state # "pending"

\* A staged row has lost its file, or is about to be inserted without one.
Stuck == \E i \in Items :
  store[i] = NoData /\ ~Busy(i) /\ (status[i] = "staged" \/ i \in inflight)

\* The backlog drains: as long as no row loses its file, every staged item
\* lands or leaves, also when there are more of them than one batch lists.
BacklogDrains == \A i \in Items : []~Stuck => (status[i] = "staged" ~> status[i] # "staged")

\* Retention catches up: an expired item leaves the bin.
ExpiredPurged ==
  \A i \in Items : []~Stuck => (status[i] \in Live /\ i \in expired ~> status[i] \notin Live)

-----------------------------------------------------------------------------
(* What the comments promise and the code does not keep.                   *)

\* rbservice.c: batches are landed "until the backlog is drained", and the
\* pass goes on to restore commands, retention, quota and the sweep.
PassEnds == mjob # "rest" ~> mjob = "rest"

\* rbrestore.c: a restore refuses to clobber an existing file.
NoClobber ==
  [][\A p \in Paths : opc = "move" /\ opc' # "move" /\ share[p] # NoData => share'[p] = share[p]]_vars

\* rbconcile.c: a file whose notification is still under way is left alone.
InFlightKept == [][\A i \in inflight : store'[i] = store[i]]_vars
=============================================================================
