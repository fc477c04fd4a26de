# Verification of recyclebin_svc

A recycle bin for SMB shares on Windows, in three programs: a mini-filter that
turns a delete into a rename (`driver/`), a C service that files the renamed
data into `$Recycle.Bin`, keeps a SQLite record of it, expires and restores it
(`service_c/`), and a Go REST service with a web page (`service_go/`, `web/`).
This directory holds TLA+ models of its concurrent core, the TLC runs that
check them, and TLAPS proofs.

## 1. Inventory

### 1.1 Components

| component | source | state | operations |
|---|---|---|---|
| mini-filter | `driver/rbminiflt.c` | `G`: `NotifyQueue`, `QueueDepth`, `Reserved`, `ClientPort`, `NotifyEvent`, `Sending`, `QueueActive`, `StageSeq`, `Stats`, configuration, staging-directory cache | `RbfPreCreate`, `RbfPostCreate`, `RbfPreSetInfo`, `RbfStageDelete`, `RbfQueueNotify`, `RbfSendThread`, `RbfPortConnect`, `RbfPortDisconnect`, `RbfPortMessage`, `RbfUnload` |
| port reader | `service_c/rbport.c` | the port handle, its lock, one outstanding read, a statistics worker | `PortConnect`, `PortThreadProc`, `PortHandleMessage`, `PortQueryStats`, `PortSampleStats` |
| database layer | `service_c/rbdb.c`, `db/schema.sql` | tables `items`, `ops`, `driver_stats`; one connection, one critical section | inserts, status updates, listings, migration, backup |
| maintenance | `rbservice.c`, `rbstore.c`, `rbpolicy.c` | the list in hand; files in staging and `$Recycle.Bin` | `MaintenancePass`, `StoreLandItem`, `StoreDeleteEntry`, `PolicyPurgeExpired`, `PolicyDiskWatermark`, `PolicyEnforceQuota` |
| reconciliation | `rbconcile.c` | a directory snapshot | `ReconcileStaging` (orphan sweep), `ReconcileLanded` |
| restore | `rbrestore.c` | the commands in hand | `RestoreDrainOps`, `RestoreItemById`, `RestoreTreeByPrefix` |
| service shell | `rbservice.c`, `rbconfig.c` | `g_StopEvent`, thread handles, `g_Config` | start, stop, reload, one-shot and console modes |
| volume mapping, log, sessions | `rbvol.c`, `rblog.c`, `rbsession.c` | caches | conversions, output |
| REST API | `service_go/` | a read-only and a read-write handle | search, list, `EnqueueOp`, start-up check of the schema version |
| web page, scripts | `web/`, `deploy.ps1`, `build_all.cmd`, `test/` | – | – |

### 1.2 Interaction

```
 user's delete --> mini-filter --rename--> RBStore (staging)
                        |  notification, FltSendMessage, one port
                        v
                   port thread --INSERT--> SQLite <--INSERT ops-- Go API
                        maintenance thread --rename--> $Recycle.Bin, UPDATE items
                        ops thread --rename--> share,  UPDATE items, UPDATE ops
```

Kernel side: callbacks run on arbitrary threads at the same time; one system
thread sends; FltMgr calls connect and disconnect; the Service Control Manager
may unload the driver.  They share `G` under the spin lock `G.QueueLock`, with
some reads outside it.  User side: three threads that share only the database
and the file system.  Nothing is transactional across a rename and a row.

### 1.3 What is hard, and what makes each part correct

- Mini-filter.  The port may close, and its address be used again, between the
  moment a callback reads `G.ClientPort` and the moment the node is inserted or
  sent; slots are handed over on many exits; an auto-reset event is signal for
  work and for stop; unload races with callbacks.  Correct: no node outlives
  its port, slots balance, no wake-up is lost, each staged file is announced at
  most once, unload and disconnect end with nothing left, and no failure turns
  a protected delete into a real one.
- Item life cycle.  The file moves first and the row follows; lists are read
  and used much later, while another thread works on the same items; a crash
  falls between any two steps.  Correct: rows and files agree, a recycled file
  is destroyed only by a purge or the orphan sweep, an item that left the bin
  does not come back, commands are answered once, and the backlog, the
  commands and retention make progress.
- Port reader.  A read that times out is not cancelled and shares buffer, event
  and `OVERLAPPED` with the next; a statistics worker outlives its wait and
  keeps the connection alive; handle numbers are given out again.  Correct: no
  notification is stored twice or out of order, none is lost without a cause,
  nobody but the reader ends the connection, and the reader connects again.
- Start and stop of the process.  Handles are closed and nulled while threads
  use them, waits are bounded.  Correct: nobody works beside `DbClose` without
  a cause, and a stop completes.
- Migration.  A crash between two statements, a client that opens too early.
  Correct: no queued command is lost, the version is stamped last, and every
  prefix of the migration opens again.
- Paths.  Device names that begin each other, prefix tests with and without
  separators, the wildcards of `LIKE`.  Correct: what the driver takes the
  service can give back, and a tree request selects its tree.
- Space policies and reload.  Rows listed before are used after another thread
  changed them; a list is exchanged under its readers and freed.  Correct: the
  quota takes from whom it should, and readers read what is there.

`PROJECT.json` lists each hazard at its line with the properties that cover it,
and a note where none does.

## 2. Modules

| module | content |
|---|---|
| `RecycleGate` | what the mini-filter promises: a file leaves the share for staging, one announcement per staging name, no announcement of a file still in the share |
| `RbMiniflt` | the mini-filter's delete path, notification channel and unload, and their properties |
| `RecycleLedger` | what a client of the REST API may rely on: how the status of an item and the outcome of a command change |
| `RbLifecycle` | the service's three threads over rows and files, and their properties |
| `RbSchema` | opening, creating and migrating the database, and the API service that waits for it |
| `RbPort` | the service's end of the notification channel, and its statistics workers |
| `RbService` | start and stop of the service process |
| `RbPaths` | NT and DOS paths, the tests on them, restores by them |
| `RbPolicy` | watermark, quota, a restore beside them, and a reload of the configuration |
| `MCRbMiniflt`, `MCRbLifecycle`, `MCRbParts` | small sets for TLC; `MCRbParts` takes the last five modules together |
| `RbMinifltProofs`, `RbMinifltGate` | theorems about `RbMiniflt`; the second, which builds on the first, has the unload, the account of renames, the orphans and the refinement of `RecycleGate` |
| `RbLifecycleProofs`, `RbLifecycleFiles` | theorems about `RbLifecycle`: types, the answers to commands and the refinement of `RecycleLedger`; then the files |
| `RbPortProofs`, `RbServiceProofs`, `RbPathsProofs`, `RbPolicyProofs` | theorems about the parts; `RbServiceProofs` is about `RbService` and `RbSchema`, `RbPathsProofs` holds the lemmas about recursive functions that `RbPolicyProofs` uses too |

`RbMiniflt` implements `RecycleGate` and `RbLifecycle` implements
`RecycleLedger` (`ImplementsGate`, `ImplementsLedger`: `INSTANCE ... WITH`, the
abstract specification checked as a property).

### 2.1 RbMiniflt and the code

Each callback `c` has a program counter `pc[c]`, the file it was called for,
the sequence number of the staging name it built and its snapshot of
`G.ClientPort`.  A step ends where another thread may look: at each acquisition
of `G.QueueLock`, at the rename, at an unlocked read, at a wait.

| code | actions |
|---|---|
| `RbfPreSetInfo`, `RbfPreCreate`, `RbfPostCreate` | `PreSetInfo`, `PreCreateForward`, `PreCreateStrip`, `PostCreate` |
| `RbfStageDelete` | `StageNoName`, `StageForward`, `StageNoSid`, `StageReserve`, `StageQueueFull`, `StagePrepare`, `StagePrepareFail`, `StageRename`, `StageRenameFail`, `Drop` |
| `RbfFailDelete` | `FailDelete`: fails closed, or forwards |
| `RbfQueueNotify` | `QueueNotifyEnter`, `QueueNotifySnap`, `QueueNotifyInsert`, `QueueNotifyGiveUp`, `QueueNotifyWake` |
| `RbfSendThread` | `SendThreadHead`, `...Woken`, `...Empty`, `...Dequeue`, `...Sent`, `...Clear` |
| port callbacks | `PortConnect`, `PortDisconnect`, and FltMgr's `ClientGone` |
| `RbfUnload`, `RbfStopSendThread`, `RbfFlushQueue` | `UnloadBegin`, `UnloadSignal`, `UnloadJoin`, `UnloadFlush`, `UnloadUnregister` |

`uncounted` and `delivered` are history variables: nodes freed without a
counter, and messages the service has received.  `FltSendMessage` that runs into
its 30 s timeout returns `STATUS_TIMEOUT`, which `NT_SUCCESS` takes for success
(`rbminiflt.c:1051`): `SendThreadSent` then counts a message nobody got as sent.
The verdicts of the path
matching (`Protected`, `Excluded`, `LongName`) are constants.

Taken from the Windows kernel as the code uses it: a filter that allows one
connection counts it until the disconnect callback has returned;
`FltUnregisterFilter` closes the client connection and waits for callbacks; a
rename through a handle moves the file wherever it is by then; the rename of a
file whose delete is pending fails.  `FltCloseClientPort` is never called by
`RbfPortDisconnect`; what that does inside FltMgr is left aside.

### 2.2 RbLifecycle and the code

An item is a recycled file, numbered by its delete.  `store`, `bin` and `meta`
are the staging files, the `$R` files and the `$I` files; `status` and `rpath`
its row; `ops` the command table.  `mjob`, `mpc`, `todo`, `mfull`, `mitem`,
`mtoken` are the locals of `MaintenancePass`, `opc` ... `onames` those of
`RestoreDrainOps`.  One step is one database call or one change of the file
system.  Reads that nothing can come between usefully are joined to the step
that follows them (the `$R` and `$I` deletes of `StoreDeleteEntry`, the two
existence checks of `RestoreItemById`).  `StoreDeleteEntry` deletes `$I` also
when `$R` could not be deleted, and the reverse: `PurgeDelete` has either file
left behind.  `SnapshotDir` takes what it has read for the whole directory when
the enumeration breaks off, a name cannot be copied or the list cannot grow
(`rbconcile.c:277-287`), and reports a failure only when nothing could be
opened: `ReconcileNames` has all three outcomes.

`overtaken` and `ocut` are history variables: a landing failed and its list went
on to a younger item, and the snapshot in hand leaves out names that are there.

| code | actions |
|---|---|
| driver, seen from the service | `UserDelete`, `Lose` |
| `PortHandleMessage`, `DbAddItem` | `AddItem` |
| `MaintenancePass` | `PassBegin`, `List`, `JobDone`, `SweepDone`; the jobs follow `NextJob` |
| `StoreLandItem` | `LandMove`, `LandSkip`, `LandMeta`, `LandSet` |
| `PolicyPurgeExpired`, `PolicyDiskWatermark`, `PolicyEnforceQuota`, `StoreDeleteEntry` | `PurgeDelete`, `PurgeMark`, `Spare` |
| `ReconcileStaging`, `ExamineFile` | `SweepLook`, `SweepDrop` |
| `DbReapTerminalRows` | in `SweepDone` |
| `OpsThreadProc`, `RestoreDrainOps`, `DbOpFinish` | `DrainBegin`, `OpBegin`, `OpFinish`, `DrainEnd` |
| `RestoreItemById` | `RestoreGet`, `RestoreCheck`, `RestoreMove`, `RestoreUnmeta`, `RestoreSet` |
| `ReconcileLanded`, `SnapshotDir` | `ReconcileNames`, `ReconcileRow` |
| process end and restart | `Crash` |

Abstractions: items are plain files (the trees of recycled directories are
left out); one volume, one SID, one extension; a tree command covers the whole
share; the sweep and the snapshot list a directory at one moment; whether a
volume is short of space or a user over quota is a choice (`Spare`; `RbPolicy`
models the choice itself); the age of an item is a set (`expired`) an item may
enter at any time; owners, access lists and parent directories are left out,
their failures are those of the move.  `OldData` are the files whose last write
is older than the grace period.  `DbReapTerminalRows` takes any of the closed
rows past retention, since `TerminalKeepDays` may be any length.  `Limits` is a
set of bounds of which an initial state chooses one.

### 2.3 RbSchema and the code

One step is one SQL statement.  `ops` and `opsV1` are the table of commands and
the copy the migration renames it to: their DDL (`shape`, and `acl` for the
column `preserve_acl`) and rows `<<id, command>>`; `items`, `stats`, `version`
the rest of what an open looks at.  `cpc` is where `DbOpen` is, `gpc` where
the API service is.

| code | actions |
|---|---|
| `DbOpen`, `PRAGMA user_version` | `DbOpen`, `DbReadVersion` |
| `DbMigrateOpsTypeCheck`: probe, rename, create, copy, drop | `MigrateProbe`, `MigrateRename`, `ApplySchema`, `MigrateCopy`, `MigrateDrop` |
| `DbEnsureSchema`: tables, added columns, stamp | `ApplySchema`, `EnsureColumns`, `StampVersion` |
| the process ends, a statement fails, a stop | `Interrupted`, `StopUp` |
| `openWithRetry`, `verifySchema` | `OpenWithRetry` |
| `EnqueueOp` | `EnqueueOp` |

### 2.4 RbPort and the code

Handles are numbers that name nothing, a live or a dead connection, and that
are given out again.  `pend` counts the reads outstanding at the driver, all on
the one `buf`, `ov` and `event`; `ctx[w]` is a `PORT_SEND_CTX` with its
reference count.

| code | actions |
|---|---|
| `PortThreadProc` | `LoopHead`, `PortConnect`, `ZeroBuffers`, `FilterGetMessage`, `WaitSignalled`, `WaitTimesOut`, `PortHandleMessage`, `PortCloseLocked` |
| `PortSampleStats`, `PortQueryStats` | `PortQueryStats`, `StopAwaiting` |
| `PortSendWorker`, `PortSendCtxRelease` | `FilterSendMessage`, `WorkerLeaves` |
| driver, filter manager, control handler | `DeliverMessage`, `UnloadDriver`, `LoadDriver`, `RequestStop` |

`PortHandleMessage` here is the hand-over; what it stores is `AddItem` in
`RbLifecycle`.  Whether an overlapped call resets its event is a choice.

### 2.5 RbService and the code

`ServiceMain` and `ServiceCtrlHandlerEx` are two threads, with the three
workers between them; `handle` tells an open handle from one that is null and
one that is closed.

| code | actions |
|---|---|
| `ServiceMain` | `OpenDatabase`, `CreateStopEvent`, `CreateThreads`, `UndoStart`, `MainStops` |
| `PortThreadProc`, `MaintainThreadProc`, `OpsThreadProc` | `PollStop`, `Work` |
| `ServiceCtrlHandlerEx` | `ControlStop`, `WaitThread`, `FinalPass`, `CloseDatabase`, `ReportStopped` |

A `WaitForSingleObject` whose handle is closed while it waits may end or go on.
The items of this module are a number, `staged`, of which `failing` never land:
what is done to them is `RbLifecycle`.  A pass takes `StagedBatch` of them at a
time, in the maintenance thread (`Work`, item by item) and in the final pass
(`FinalPass`, batch by batch): with the event set it returns at the first item,
with the event closed it goes on until a batch is not full, and lists a full
batch of failing items for ever (`FinalSpins`).

### 2.6 RbPaths and the code

A path is a sequence of tokens; the separator, the wildcards of `LIKE` and the
digits that end a device name are tokens of their own.  `VolNtToDos`,
`VolDosToNt`, `RbfIsProtected`, `DestIsAllowed`, `SqlLikeEscape` are operators
of the same names; `Like` is SQLite's, with `ESCAPE '\'`, run over the pattern token by token with
the set of lengths of the text matched so far.  `PathsAssumption` says what
paths there are: volumes have a letter and a device of their own and no device
lies beneath another, shares are on volumes, and the names the driver sees are
normalised.  Actions: `DeleteFile`
(the driver's test), `RestoreItemById`, `RestoreTreeByPrefix`.  `RealPath` is
what Windows makes of a DOS path.  `vols` may lack a volume, as when it came
after `VolInit`.

### 2.7 RbPolicy and the code

An item is landed or not; rows and files are `RbLifecycle`.  Items are numbered
by `delete_time`, so what `DbListLandedOldest` returns is the increasing list of
the least numbers landed, or nothing when the call fails.  `heap` holds the
allocations of `ProtectedPaths`, `config` the two fields of `g_Config` that
readers combine.

| code | actions |
|---|---|
| `ReloadConfig` | `ReloadLoad`, `ReloadSwap` (one field a step, in any order), `ReloadFree` |
| loop of `PolicyDiskWatermark` over the paths | `WatchBegin`, `WatchFetch`, `WatchUse`, `WatchFault`, `WatchEnd` |
| its loop over the volumes | `MeasureVolume`, `FreeItem`, `FreeEnd` |
| `PolicyEnforceQuota` | `QuotaBegin`, `QuotaUser`, `TrimItem`, `TrimEnd`, `QuotaEnd` |
| `DestIsAllowed`, a restore on the ops thread | `OpsBegin`, `OpsFetch`, `OpsUse`, `OpsRefuse`, `OpsFault` |

A string read from freed memory, or past the end of the list, is any drive or
junk, or the access faults and the thread's handler ends its round.
`crossed`, `wild`, `cut` and `given` are history variables for the exceptions
below.

## 3. Runs

| run | bounds | shows |
|---|---|---|
| `driver` | 3 files, 2 callbacks, 2 requests, 2 port addresses, queue of 2, 1 fault, both policies | types; RB-23 no use of a released port; RB-25 slots; every rename is accounted for, with a send that fails or times out; the policy on protected and on delete-on-close files; refinement of `RecycleGate`, which has at most one announcement per staging name in it |
| `driver_live` | 2 files, 2 callbacks, 3 requests, 1 port, queue of 1, no fault | depth exact; no lost wake-up; unload leaves nothing; orphans have a cause; queue, disconnect and unload make progress |
| `lifecycle` | 2 paths, batch of 2, 1 clock tick; and 2 deletes with 1 command, 1 delete with 1 command, 1 failure and 1 crash, or 2 deletes with 1 failure (`MixedLimits`) | rows and files agree (`LiveRowHasFile`, `ClosedRowHasNoFile`, `PairsComplete`); RB-43; who may destroy recycled data; a command reported done is done; refinement of `RecycleLedger` |
| `lifecycle_live` | one item, one command and one clock tick, or two items with neither; batch of 1; 1 failure or visit of Explorer, 1 crash | commands are answered, expired items leave, the backlog drains |
| `parts` | see below | types of the five modules; `RbSchema`: `RowsKept`, `StrandedHasCause`, `StampIsLast`, `DbHeals`; `RbPort`: `HandledOnce`, `LostHasCause`, `LiveConnectionKept`, `Reconnects`; `RbService`: `BesideHasCause`, `StopCompletes`; `RbPaths`: `RestoresHome`, `TreeMatchesLiterally`; `RbPolicy`: `QuotaExact`, `ReloadSafe` |
| `queue_bound` | as `driver_live`, both policies | the occupancy `rbminiflt.h` promises is exceeded |
| `orphan` | as above | a staged file outlives its notification |
| `staged_kept` | as above | an overlapping delete destroys a staged file under fail-closed |
| `drained` | 1 item, no wait runs out | the database is closed under running workers |
| `pass_ends` | 1 file, 1 crash, batch of 1 | the landing loop may never end |
| `in_flight_kept` | 1 old file | the sweep takes a file whose notification is on its way |
| `no_clobber` | 2 files, 1 command | a restore replaces a file made after its check |

Why the bounds are enough to be interesting.  Two callbacks are the smallest
number whose inserts, reservations and deletes of one file overlap; a third
request lets a callback come back after the queue was full or drained; two
addresses, reused, tell a stale port from a live one; a queue of one is full
after one reservation.  In the life cycle two items are the smallest number for
tokens to collide, for two items of one original path and for a backlog beyond
a batch; one command of each kind meets every step of the maintenance thread.
One clock tick puts two items at one reading, where the row id has to keep
their names apart, and at two.  A batch of two with one failure is the smallest
in which a landing that failed is overtaken, after which the sum of milliseconds
and id can repeat; the properties say what holds until then.  One failure or
crash reaches each of the windows; the failure is any failing call of a step.

`parts`.  The five modules share no variable, so their product would show
nothing more than each alone: an initial state of `MCRbParts` picks one, whose
steps are then the only ones, while the others stand in a state of rest in
which none of their fair actions is enabled.  Each property of a resting module
holds in its state of rest, so each is about its own part.  The bounds:

- `RbSchema`: two commands of clients, two ends of the service or failing
  statements, two attempts of the API service: an interruption of the repair of
  an interrupted migration.
- `RbPort`: three handle numbers (the connection, a stalled duplicate, and one
  to leak or use again), two workers, two messages, two reads that time out (a
  message lands beside the read it was not meant for), one unload of the driver.
- `RbService`: two items of which any number cannot land, a batch of two and so
  full or not, three waits that run out: every wait may.
- `RbPaths`: two volumes, the name of one beginning the other's; shares, files
  and trees that are siblings by prefix, that contain `%` and `_`, and `..`.
- `RbPolicy`: two items of one user around one of another on two drives,
  listings cut at two (quota) and one (watermark), one reload between a list of
  one and of two paths.

Every passing property has a mutant in `PROJECT.json`: a plausible mistake in a
named definition, under which TLC finds the property violated.

### Exceptions stated in the properties

- `ProtectedFileKept` leaves out a delete-on-close open whose name query fails
  in `RbfPreCreate`, and a long path for which `RbfIsProtected` gets no pool:
  both forward the delete under fail-closed too.
- `OrphansHaveCause` allows the causes the `orphan` run finds: a client that is
  absent, leaving or changed, and an unload.
- `LiveRowHasFile`, `ClosedRowHasNoFile`, `PairsComplete` and `DoneIsDone` hold
  as long as no call failed and the process did not end; neither the code nor
  its documents promise more, since no rename is tied to its row.
  `LiveRowHasFile` leaves out old files, which the sweep may take.
- `RecycledDataKept` and `ReconcileSparesLanded` are about every failure and
  crash.  Both end where an item has been overtaken (`overtaken`), the second
  also at a snapshot that was cut short (`ocut`); section 5 has what the code
  does there.  An administrator who deletes an entry in Explorer, or puts one
  back behind the check of a restore, is a cause of his own.
- `RenamesAccounted` lets `NotifySent` exceed what the service got by the sends
  that timed out, one for each failure.
- `BacklogDrains` and `ExpiredPurged` assume that no staged row lost its file:
  `pass_ends` shows what happens then.
- `StrandedHasCause` allows an interrupted open, an old table without
  `preserve_acl` (the copy names that column and fails) and a command queued
  between the new table and the copy, whose id an old row has.
- `StampIsLast` allows another build's stamp to be overwritten after a failure:
  a version that cannot be read counts as 0.
- `LostHasCause` allows a read that timed out, the loss of the connection and
  the stop; the first is noted under the findings.
- `Reconnects` allows a worker still in `FilterSendMessage`, and a leaked
  duplicate: either keeps the one connection the driver allows.
- `BesideHasCause` allows a wait that ran out, a start undone half way, and the
  handles `ServiceMain` closes, which the `drained` run shows.
- `StopCompletes` allows `FinalSpins`: the loop of `pass_ends`, met by the final
  pass of a stop without the event that would end it.
- `RestoresHome` is about volumes the service knows; `TreeMatchesLiterally` is
  about the escaping.  Which rows begin with the prefix and lie beside its tree
  is no part of it; section 5 has the siblings.
- `QuotaExact` leaves out a user whose listing was cut short, and one who got
  an item back after the totals were read.
- `ReloadSafe` leaves out a read the exchange crossed, or that fetched its
  pointer between the copies of two fields.

### Fairness

`RbMiniflt`: every callback in progress goes on; the send thread runs and
`FltSendMessage` returns, for it has a 30 s timeout; FltMgr delivers a
disconnect and tears ports down during unregistration; an unload once begun
goes on.  Nothing makes a delete, a connect, a client's end or an unload
happen.  `DisconnectCompletes` depends on the number of requests being finite:
`RbfPortDisconnect` polls `G.Sending` before it clears `G.ClientPort`, so a
steady flow of deletes could keep the poll from seeing an idle sender.

`RbLifecycle`: the port, maintenance and ops threads run and their periodic
waits end.  Users, administrators, the clock, failures and crashes may do
nothing, and are bounded in number.

`RbSchema`: the service is started again and its statements end; interruptions
are bounded in number.  Nothing makes a client queue anything.

`RbPort`: the reader's thread runs, and a worker goes on once its call has
returned.  Nothing makes `FilterSendMessage` return (it has no timeout),
nothing makes the driver send, go or come back.

`RbService`: `ServiceMain`, the handler and the workers run, and each bounded
wait ends.  Nothing makes an administrator stop the service.  A worker's
pass over items that cannot land may go on for ever, and the wait for it then
runs out; the final pass nobody waits for, and whether it ends is what
`StopCompletes` asks.

`RbPolicy` and `RbPaths` state safety only and assume no fairness.

## 4. Proofs

Each theorem holds for every value of the constants that the assumptions named
`...Assumption` admit: any number of files, callbacks, ports, slots, workers,
handles, messages, items, commands, failed calls, crashes and reloads, any
paths and any catalog of items.  None has a premise beyond the specification;
where the code breaks a promise the property itself says until when it holds.

### Mini-filter

| theorem | states | argument |
|---|---|---|
| `RbMinifltProofs!TypeCorrect`, `DepthIsLength` | `[](TypeOK /\ DepthExact)` | `TInv == TypeOK /\ DepthExact` is inductive.  `TypeOK` is not: `QueueDepth - 1` stays a natural number only because it is the length of a list that is not empty |
| `PortSafe` | `[]NoReleasedPort` | `PortInv`: FltMgr's one open port is `G.ClientPort`, everything queued or in flight carries it, and a node in flight keeps `Sending` set, which the disconnect waits for; the insert keeps it because it compares the snapshot with `G.ClientPort` under the lock |
| `SlotsExact` | `[]SlotsBalanced` | inductive with `TypeOK`; lemmas say how one callback's move in or out of `HoldsSlot` changes the cardinality of the set |
| `WakeupKept` | `[]NoLostWakeup` | inductive with `TypeOK` |
| `FailClosedKeeps` | `ProtectedFileKept` | one lemma per kind of request, and one for a callback's later steps |
| `StrippedKeeps` | `StrippedFileKept` | needs `IdleIsClean`: an idle callback is not marked as serving a delete-on-close open |
| `RbMinifltGate!UnloadClean` | `[]UnloadLeavesNothing` | `UnloadInv` and `SenderInv` say how far the unload is and that the sender has left, `PortInv` that a node inserted after the flush still has an open port, whose disconnect drains it |
| `RenamesCounted` | `[]RenamesAccounted` | each action moves a rename between two of the places the sum names or leaves all alone (`Transfers`, `Balanced`).  For what `NotifySent` counts, `SentInv`: it is the number of messages delivered, plus at most one for each failure.  A message is delivered once because its sequence number is in one place (`SeqInv`, below), so the set grows with the counter |
| `DriverImplementsGate` | `ImplementsGate` | `SeqInv`: a sequence number is drawn once, and so is in one callback, queued, in flight or delivered, never in two of these; `SeqBound` counts the callbacks that may still draw one, which keeps the numbers below the gate's bound.  Every action is then a step of `RecycleGate` or a stutter |
| `OrphansOnlyForCause` | `[]OrphansHaveCause` | one lemma per part says that a step adds to `Orphans` only when a fault has occurred or one of the situations of `OrphanCause` is there; a queue at its limit refuses before the rename and loses nothing |

### Life cycle

| theorem | states | argument |
|---|---|---|
| `RbLifecycleProofs!LifecycleTyped` | `[]TypeOK` | `TypeInv`: `TypeOK` with the counters within their bounds (`BoundInv`), what is known of pending commands and the one in hand (`CommandInv`), and that the row of an item taken from the bin still names its file (`SourceInv`) |
| `LifecycleImplementsLedger` | `ImplementsLedger` | the code writes every status without looking at the one it replaces, so the refinement rests on `LedgerInv`: what threads have in hand are items with rows (`HandInv`), a row with a path has no staging file (`RowInv`), and a thread between its move and its row took a file the other cannot have taken (`LandInv`, `RestoreInv`), so the row it overwrites is still staged or live |
| `DoneMeansDone` | `DoneIsDone` | `DoneInv`: a restore command that met no failure has its item still before it, in hand, or out of the bin |
| `RbLifecycleFiles!NamesFresh` | `[](~overtaken => TokensFresh)` | `OrderInv`, see below |
| `LiveRowsKept`, `ClosedRowsEmpty`, `PairsKept` | `[]LiveRowHasFile`, `[]ClosedRowHasNoFile`, `[]PairsComplete` | `KeptInv`: until an item is overtaken `OrderInv /\ FilesInv`, and without a failure nothing is overtaken.  `FilesInv`: a file is in one place (`OnePlace`), a file yet to be made is in none (`FreshInv`), what a row names is its own file or gone and no two rows name the same (`NameInv`), a job has listed rows of its kind (`JobInv`), a restore replaces no item's file while nobody else works on the bin (`TargetInv`), and while nothing failed rows and files agree but for the item in hand (`CleanInv`) |
| `ReconciliationSpares`, `DataKept`, `OwnFileBack` | `ReconcileSparesLanded`, `RecycledDataKept`, `RestoreGivesOwn` | `FilesInv` without `CleanInv` needs no failure-free past: it holds through every failed call, visit of Explorer and crash until an item is overtaken.  So then do these: a reconciliation with a whole snapshot spares what is there, an item's data goes only by its purge, the sweep or an administrator, and a restore gives back the item's own file |

`TokensFresh` is the promise at `rbstore.c:187`, "Unique across restarts", of
the name made for an item, at the moment the code moves a file under it.  The
name is row id added to milliseconds, and an item landed later by as many
milliseconds as its id is lower gets the name of another.  Nothing in
`StoreLandItem` excludes that; the order in which its callers come to the items
does.  Rows are inserted in the order of the deletes by the one reader
(`InsertOrder`), a landing pass has listed, of the items still to be landed, all
that are older than one it has listed (`ListOrder`), since `DbListStaged` sorts
by `delete_time` and equal times by row; and so every name in use is one of an
item older than all that are still to be landed (`LandOrder`, `Past`), below any
name the clock and a greater id can make.  `OrderInv` is the conjunction.  One
kind of step breaks it: a landing that fails with younger items behind it in its
list, which sets `overtaken`.  A failure with nothing behind it does no harm,
nor does a crash, a tick or a batch of any size.  Past such a step the promise
is broken: see section 5.

Two things are assumed here.  The model's clock does not go back; a clock set
back can repeat a name, or put rows out of order, without any failure.  And rows
of one second (`delete_time` is whole seconds, `rbdb.c:910`) are listed in row
order: SQL leaves that open, and SQLite's indexes on `delete_time` give it.

### The other parts

| theorem | states | argument |
|---|---|---|
| `RbPortProofs!PortTypes` | `[]PortTypeOK` | a reference count stays within 0 .. 2 only because of `RefsInv`: a context is free, or counts its worker and the reader if that still waits |
| `ConnectionKept` | `LiveConnectionKept` | `HandleInv`: `g_Port` and the duplicates of all workers are different numbers, none of them free; so a late worker's `CloseHandle` is never that of a number given out again |
| `MessagesHandledOnce` | `[]HandledOnce` | `FreshInv`: what the buffer holds when the reader may handle it is newer than all it has handled, however many reads share it; it needs the zeroing before each read |
| `LostOnlyForCause` | `[]LostHasCause` | `OneReadInv`: while no read timed out, no connection ended and no stop came, at most one read is outstanding and all but the message in hand are handled |
| `RbServiceProofs!SchemaTypes`, `MigrationKeepsRows` | `[]SchemaTypeOK`, `[]RowsKept` | `OpenInv` says what is done where `DbOpen` is: at the drop, every row of `ops_v1` is in `ops`, also when a client has queued since the copy |
| `StampedLast` | `StampIsLast` | the same invariant at the stamp: tables, columns, and the version read is the one there is, unless an open broke off |
| `StrandedOnlyForCause` | `[]StrandedHasCause` | `Stranding`: a table `ops_v1` is that of the open under way, or already has one of the three reasons, which then stays: rows only join `ops`, so ids that clash once clash for good |
| `RbServiceProofs!ServiceTypes`, `BesideOnlyForCause` | `[]ServiceTypeOK`, `[]BesideHasCause` | `WaitInv`: while `ServiceMain` still waits and no wait ran out, the handler is past a thread only when it has exited; `MainInv` gives it the open handles |
| `RbPathsProofs!PathsTypes`, `ProtectedRestoresHome` | `[]PathsTypeOK`, `[]RestoresHome` | `PathInv`: every row passed the driver's test.  The paths are then compared token by token: of two devices a file is beneath, one is beneath the other and so the same, the longest match is the right volume, and both forms agree after it |
| `TreesTaken` | `[]TreeMatchesLiterally` | `EscapedMatches`: for every prefix and every text, `LIKE` on what `SqlLikeEscape` writes matches exactly what starts with the prefix.  By induction over the prefix: after its first `k` tokens, escaped, the matcher knows that `k` tokens of the text agree |
| `RbPolicyProofs!ReadersKeepTheirList` | `[]ReloadSafe` | `HeapInv`: outside a swap `g_Config` names a list and its own length, and what is freed is not that list; `ReadInv`: a reader no swap has crossed holds the list `g_Config` names, at an index it has.  `ReloadSafe` alone says nothing of a reader between fetch and use |
| `PolicyTypes` | `[]PolicyTypeOK` | `SpaceType` with the two invariants above; the maintenance thread reads paths only within the watermark |
| `QuotaKept` | `QuotaExact` | `QuotaInv`: for a user still to come, quota plus excess is what the user has, or more if something was given back (`DueInv`); for the user in hand the same of what is landed or still listed, since a row taken by the ops thread is counted as freed when its turn comes (`TrimInv`); everyone else is within the quota or was cut short (`SettledInv`).  Lemmas: the sum of sizes grows with the set and loses exactly what is taken away; a listing as long as the set of rows holds all of them (pigeonhole) |

Induction over data.  The library's induction theorems take an operator as
parameter and cannot be instantiated here, so `RbPathsProofs` derives what it
needs: a set of naturals that is not empty has a least element, from the
well-foundedness of `<`, hence a set that holds 0 and with `i` also `i + 1` holds
all of `0 .. n` (`CountUp`), and a function defined by recursion on `0 .. n`
exists and satisfies its equations (`Unrolled`).  `Like`, `SqlLikeEscape` and
the sum of sizes are such functions.

Model-checked but not proved, since liveness under fairness and `ENABLED` are
out of the prover's reach: `QueueDrains`, `DisconnectCompletes`,
`UnloadCompletes`, `OpsAnswered`, `ExpiredPurged`, `BacklogDrains`, `DbHeals`,
`Reconnects`, `StopCompletes`.  Every other property of a passing run is a
theorem above; `PartsTypeOK` is the conjunction of five of them.

## 5. Findings

Seven runs end in a counterexample against a sentence of the repository:
`queue_bound`, `orphan`, `staged_kept`, `drained`, `pass_ends`,
`in_flight_kept`, `no_clobber`.  `PROJECT.json` quotes the sentence and names
the line of each.

Noted while modelling, not the subject of a run.

Mini-filter and life cycle:

- A comment near `rbminiflt.c:1207` says that reconciliation re-creates lost
  rows, while `ReconcileStaging` only deletes files.
- A send that ran into its timeout is counted in `NotifySent`, which
  `rbminiflt.h:113` and `rbf_protocol.h:87` call messages delivered to user mode
  (`rbminiflt.c:1051`: `STATUS_TIMEOUT` is a success code).
- `RbfFlushQueue` leaves the published queue depth as it was.
- `StageSeq` starts again at every boot, so staging names may meet and the
  rename then fails.
- Neither `RemoveDirectoryW` nor `DeleteFileW` removes a tree that is not
  empty, yet its row is marked purged; the sweep descends into staged trees,
  whose inner files are in no row.
- An item's name in the bin may be in use (`rbstore.c:187-194`): item 1 fails to
  land, item 2 of the same pass lands, and item 1 is tried again as many
  milliseconds later as the ids differ.  The move replaces the data of item 2,
  and a restore of item 2 gives back the file of item 1.  Without `~overtaken`
  TLC finds `TokensFresh`, `RecycledDataKept` and `RestoreGivesOwn` violated (15
  steps for the first) with two items, a batch of 2, one tick and one failure,
  and nothing with a batch of 1; section 4 proves that it takes an overtaken
  item, and thus a failure.
- A snapshot of the directory that breaks off is taken for a whole one
  (`rbconcile.c:277-287`), and rows whose `$R` is there but not in it are closed
  as restored or purged, where `:223-226` says that a directory that cannot be
  read closes none.  That is kept only when the directory cannot be opened.

Port reader:

- A read that timed out stays outstanding (`rbport.c:187-188`), so there can be
  several, and a message that lands while the reader is elsewhere is lost when
  `ZeroBuffers` clears it: the cause `quiet` of `LostHasCause`.
- When `CreateEvent` or `CreateThread` fails, the duplicate handle is freed with
  its context but never closed (`rbport.c:405-418`); it holds the connection.
- `rbport.c:237` calls the query asynchronous, and the reader waits for it at
  `:426`; `:280-282` has a stalled call drained by closing the port, while the
  duplicate keeps the connection open.

Start, stop, migration:

- The final pass returns at the first staged item while `g_StopEvent` is set
  (`rbservice.c:96`, `:277`).  When `ServiceMain` has closed and nulled the event
  (`:379-380`) the test at `:96` fails, and a full batch that cannot land is
  listed again for ever: the defect of `pass_ends`, and `STOPPED` is then never
  reported.  TLC finds `state = "stopping" ~> state = "stopped"` violated.
- A backup that fails waits an hour only before the first success in a process
  (`rbservice.c:170-172`); the statistics sample of the one-shot mode
  (`:457-459`) never has a port.
- A migration can leave rows in `ops_v1` that no later open reads
  (`rbdb.c:191`, `:200`): the causes of `StrandedHasCause`.
- Every error of `verifySchema` is fatal to the API service, a version of 0 as
  well: it gives up on a database whose creation is under way instead of trying
  again.

Paths, policies, configuration:

- A tree restore of `D:\S` selects `D:\SS` too: `LIKE 'prefix%'` has no
  separator (`rbdb.c:724`), where `rbrestore.c:588-589` calls the match a
  genuine path-prefix match that leaves siblings out.
- `VolNtToDos` of a path on a volume it does not know, `HarddiskVolume10`,
  matches `HarddiskVolume1` and gives a path on that volume's drive.
- The watermark frees the oldest items of every volume and counts their bytes
  for the one that is short (`rbpolicy.c:171-178`), where `:4-6` says that it
  does not delete more than necessary.
- The quota's listing for one user is the oldest rows of all users
  (`rbpolicy.c:46-47`), so a user's excess may lie beyond its end.
- `RetentionDays = 0` is refused on reload as a value that would purge
  everything (`rbconfig.c:166`), while `PolicyPurgeExpired` does nothing on 0
  and the start accepts it.
- `ReloadConfig` frees the old list under a reader that holds a pointer into it
  (`rbconfig.c:178-184`): the exception of `ReloadSafe`.

## 6. Plan

Done: mini-filter, life cycle, port reader with its statistics workers, start
and stop, migration and start-up of the API service, path forms and tests,
space policies and reload; every safety property of theirs that a run checks is
proved, the two refinements included (section 4).

Next, in this order:

1. Directory trees in `RbLifecycle`: purge, sweep and restore of a tree.
2. The cache of staging directories of the driver, and a clock that is set back.
3. `RbPort` composed with the connection part of `RbMiniflt`, in place of the
   driver each of the two assumes of the other.

Not modelled:

- `DbBackupTo`, `DbCheckIntegrity`: one sequential step a day, straight into the
  destination file (`rbdb.c:342-391`, no temporary file and no rename); no other
  part reads it.
- The console, one-shot and rebuild modes: they run the same functions from one
  thread without a control handler.
- The driver's reading of its configuration, wildcards of exclusions,
  formatting of staging paths and of `$I` files, normalisation of SIDs:
  sequential conversions without shared state.
- Owners, access lists and parent directories of a restore: their failures are
  the failures of the move, their results are not read again.
- The SMB session snapshot fills a display column; the log is output; the REST
  queries, authentication and the web page change nothing; the deployment and
  build scripts do not run with the system.

## 7. Running

```
tlc -workers 2 -config Driver.cfg MCRbMiniflt.tla      # DriverLive, QueueBound, Orphan, StagedKept
tlc -workers 2 -config Lifecycle.cfg MCRbLifecycle.tla # LifecycleLive, PassEnds, InFlightKept, NoClobber
tlc -workers 2 -config Parts.cfg MCRbParts.tla
tlc -workers 2 -config Drained.cfg RbService.tla
tlapm RbMinifltProofs.tla                              # the other modules named *Proofs, RbMinifltGate, RbLifecycleFiles
```

`CHECK_DEADLOCK FALSE` stands where a system may really stop: an unloaded
driver and a stopped service do nothing more, nor does a reader that has left.
The life cycle's threads never stop, and the check is on for them.
