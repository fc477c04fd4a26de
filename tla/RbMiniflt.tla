------------------------------ MODULE RbMiniflt ------------------------------
(***************************************************************************)
(* The mini-filter of driver/rbminiflt.c: delete callbacks that rename a   *)
(* protected file into the staging area and queue a notification, the one  *)
(* thread that sends notifications to the service, the communication port  *)
(* the service connects to, and the unload of the driver.                  *)
(*                                                                         *)
(* Callbacks run concurrently on arbitrary threads.  A step below ends     *)
(* where the code lets another thread observe or change shared state: at   *)
(* every acquisition of G.QueueLock, at the rename, at an unlocked read of *)
(* G.QueueActive and at a wait.                                            *)
(***************************************************************************)
EXTENDS Integers, Sequences, FiniteSets

CONSTANTS
  Files,         \* files of the volume
  Protected,     \* those below a prefix of G.Protected
  Excluded,      \* those whose last component matches G.Exclude
  LongName,      \* those whose path exceeds the 512-byte stack buffer
  NoFile,
  Callbacks,     \* threads that may be inside a callback
  Ports,         \* addresses FltMgr gives to client ports; reused
  NoPort,        \* G.ClientPort == NULL
  Policies,      \* the values Parameters\FailClosed may have
  RBF_QUEUE_MAX,
  MaxRequests,   \* bound: delete requests of a behaviour
  MaxFaults      \* bound: kernel calls of a behaviour that fail

ASSUME RbMinifltAssumption ==
  /\ Protected \subseteq Files
  /\ Excluded \subseteq Files
  /\ NoFile \notin Files
  /\ NoPort \notin Ports
  /\ IsFiniteSet(Callbacks)
  /\ Policies \subseteq BOOLEAN
  /\ RBF_QUEUE_MAX \in Nat
  /\ MaxRequests \in Nat
  /\ MaxFaults \in Nat

VARIABLES
  FailClosed,   \* G.FailClosed, as RbfLoadConfig found it in the registry
  faults,       \* kernel calls that failed so far
  loc,          \* where a file's data is: share, stage, or gone (destroyed)
  storeName,    \* sequence number in the staging name of a staged file
  requests,     \* delete requests so far
  pc,           \* where each callback is
  via,          \* the IRP it serves: SET_INFORMATION or a delete-on-close open
  file,         \* the file it was called for
  seq,          \* the sequence number in the staging path it built
  snap,         \* its snapshot of G.ClientPort
  StageSeq,     \* G.StageSeq
  Reserved,     \* G.Reserved
  NotifyQueue,  \* G.NotifyQueue
  QueueDepth,   \* G.QueueDepth
  ClientPort,   \* G.ClientPort
  conn,         \* FltMgr's side of each client port
  NotifyEvent,  \* G.NotifyEvent, an auto-reset event
  Sending,      \* G.Sending
  inflight,     \* the node FltSendMessage is working on, if any
  tpc,          \* where the send thread is
  QueueActive,  \* G.QueueActive
  upc,          \* where RbfUnload is
  Stats,        \* G.Stats
  delivered,    \* notifications FltMgr handed to the service
  uncounted     \* nodes freed by a drain or a flush, which no counter records

fsVars     == <<loc, storeName>>
cbVars     == <<pc, via, file, seq, snap>>
queueVars  == <<NotifyQueue, QueueDepth, Reserved>>
portVars   == <<ClientPort, conn>>
sendVars   == <<Sending, inflight, tpc>>
unloadVars == <<QueueActive, upc>>
vars == <<FailClosed, faults, fsVars, requests, cbVars, StageSeq, queueVars, portVars, NotifyEvent,
          sendVars, unloadVars, Stats, delivered, uncounted>>

StatNames == {"Intercepts", "RenameOk", "RenameFail", "NotifySent",
              "NotifyDropped", "NotifyQueueFull", "DeleteDenied"}

Message == [file : Files, seq : Nat]
Node    == [file : Files, seq : Nat, port : Ports]

\* The callback owns the file's notification, or has yet to allocate it.
Carrying == {"staged", "snap", "insert"}
\* The callback holds a slot taken by RbfReserveQueueSlot.
HoldsSlot == {"prepare", "rename"} \cup Carrying

Init ==
  /\ FailClosed \in Policies
  /\ faults = 0
  /\ loc = [f \in Files |-> "share"]
  /\ storeName = [f \in Files |-> 0]
  /\ requests = 0
  /\ pc = [c \in Callbacks |-> "idle"]
  /\ via = [c \in Callbacks |-> "setinfo"]
  /\ file = [c \in Callbacks |-> NoFile]
  /\ seq = [c \in Callbacks |-> 0]
  /\ snap = [c \in Callbacks |-> NoPort]
  /\ StageSeq = 0
  /\ Reserved = 0
  /\ NotifyQueue = <<>>
  /\ QueueDepth = 0
  /\ ClientPort = NoPort
  /\ conn = [p \in Ports |-> "free"]
  /\ NotifyEvent = FALSE
  /\ Sending = FALSE
  /\ inflight = {}
  /\ tpc = "head"
  /\ QueueActive = TRUE
  /\ upc = "loaded"
  /\ Stats = [k \in StatNames |-> 0]
  /\ delivered = {}
  /\ uncounted = 0

-----------------------------------------------------------------------------
(* Building blocks of the callbacks.                                       *)

Count(S) == Stats' = [k \in StatNames |-> IF k \in S THEN Stats[k] + 1 ELSE Stats[k]]

\* A kernel call of this step fails, or none does.
Fails == faults < MaxFaults /\ faults' = faults + 1
Works == UNCHANGED faults

Goto(c, label) == pc' = [pc EXCEPT ![c] = label]

\* Mutants below, each named for its mistake, are what the checks must refute.

Return(c) ==
  /\ Goto(c, "idle")
  /\ via' = [via EXCEPT ![c] = "setinfo"]
  /\ file' = [file EXCEPT ![c] = NoFile]
  /\ seq' = [seq EXCEPT ![c] = 0]
  /\ snap' = [snap EXCEPT ![c] = NoPort]

\* No callback touches these.
CallbackUnchanged == UNCHANGED <<FailClosed, portVars, sendVars, unloadVars, delivered, uncounted>>

\* FLT_PREOP_SUCCESS_NO_CALLBACK: the file system deletes the file.  In
\* RbfPostCreate the flag is stripped already and the result is ignored.
ForwardDoc(c) == loc' = [loc EXCEPT ![file[c]] = "gone"]
Forward(c) ==
  loc' = IF via[c] = "setinfo" THEN [loc EXCEPT ![file[c]] = "gone"] ELSE loc

FailDeleteOpen(c, counters) == Count(counters) /\ Forward(c) /\ Return(c)
FailDelete(c, counters) ==
  /\ Count(counters \cup (IF FailClosed THEN {"DeleteDenied"} ELSE {}))
  /\ IF FailClosed THEN UNCHANGED loc ELSE Forward(c)
  /\ Return(c)

ReserveQueueSlot == Reserved < RBF_QUEUE_MAX /\ Reserved' = Reserved + 1

LeakQueueSlot == UNCHANGED Reserved
ReleaseQueueSlot == Reserved' = IF Reserved > 0 THEN Reserved - 1 ELSE Reserved

RacySeq == UNCHANGED StageSeq
NextSeq == StageSeq' = StageSeq + 1

NeverWake == UNCHANGED NotifyEvent
WakeIfWaiting == NotifyEvent' = (tpc = "wait")
WakeSender == NotifyEvent' = TRUE

\* A file in RBStore is outside every protected prefix.
IsProtected(f) == loc[f] = "share" /\ f \in Protected
ToStage(f) == IsProtected(f) /\ f \notin Excluded

-----------------------------------------------------------------------------
(* RbfPreSetInfo, RbfPreCreate, RbfPostCreate: how a delete gets here.     *)

\* The caller opens the file, or opened it, by its name in the share.
Request(c, f) ==
  /\ pc[c] = "idle"
  /\ upc # "done"
  /\ requests < MaxRequests
  /\ requests' = requests + 1
  /\ loc[f] = "share"
  /\ CallbackUnchanged
  /\ UNCHANGED <<storeName, seq, snap, StageSeq, queueVars, NotifyEvent, Stats>>

PreSetInfo(c, f) ==
  /\ Request(c, f)
  /\ Goto(c, "stage")
  /\ file' = [file EXCEPT ![c] = f]
  /\ Works
  /\ UNCHANGED <<loc, via>>

\* The flag stays, and the file system deletes the file on close.  A failed
\* name query, or no memory to upcase a long name, gives the same verdict.
PreCreateForward(c, f) ==
  /\ Request(c, f)
  /\ \/ ~ToStage(f) /\ Works
     \/ Fails
  /\ loc' = [loc EXCEPT ![f] = "gone"]
  /\ UNCHANGED <<pc, via, file>>

PreCreateStrip(c, f) ==
  /\ Request(c, f)
  /\ ToStage(f)
  /\ Goto(c, "create")
  /\ via' = [via EXCEPT ![c] = "doc"]
  /\ file' = [file EXCEPT ![c] = f]
  /\ Works
  /\ UNCHANGED loc

\* The create may fail for any reason, and must when the name is vacant.
PostCreate(c) ==
  /\ pc[c] = "create"
  /\ \/ /\ loc[file[c]] = "share"
        /\ Goto(c, "stage")
        /\ UNCHANGED <<via, file, seq, snap>>
     \/ Return(c)
  /\ Works
  /\ CallbackUnchanged
  /\ UNCHANGED <<fsVars, requests, StageSeq, queueVars, NotifyEvent, Stats>>

-----------------------------------------------------------------------------
(* RbfStageDelete.                                                         *)

StageUnchanged ==
  /\ CallbackUnchanged
  /\ UNCHANGED <<requests, NotifyQueue, QueueDepth, NotifyEvent>>

StageNoName(c) ==
  /\ pc[c] = "stage"
  /\ Fails
  /\ FailDelete(c, {})
  /\ StageUnchanged
  /\ UNCHANGED <<storeName, StageSeq, Reserved>>

\* RbfIsProtected also says no when a long path finds no upcase buffer.
StageForward(c) ==
  /\ pc[c] = "stage"
  /\ \/ ~ToStage(file[c]) /\ Works
     \/ file[c] \in LongName /\ Fails
  /\ Forward(c)
  /\ Return(c)
  /\ StageUnchanged
  /\ UNCHANGED <<storeName, StageSeq, Reserved, Stats>>

StageNoSid(c) ==
  /\ pc[c] = "stage"
  /\ ToStage(file[c])
  /\ Fails
  /\ FailDelete(c, {"Intercepts"})
  /\ StageUnchanged
  /\ UNCHANGED <<storeName, StageSeq, Reserved>>

StageReserve(c) ==
  /\ pc[c] = "stage"
  /\ ToStage(file[c])
  /\ ReserveQueueSlot
  /\ Count({"Intercepts"})
  /\ Goto(c, "prepare")
  /\ Works
  /\ StageUnchanged
  /\ UNCHANGED <<fsVars, via, file, seq, snap, StageSeq>>

StageQueueFull(c) ==
  /\ pc[c] = "stage"
  /\ ToStage(file[c])
  /\ ~(Reserved < RBF_QUEUE_MAX)
  /\ FailDelete(c, {"Intercepts", "NotifyQueueFull"})
  /\ Works
  /\ StageUnchanged
  /\ UNCHANGED <<storeName, StageSeq, Reserved>>

\* RbfEnsureStoreDir and RbfBuildStorePath.
StagePrepare(c) ==
  /\ pc[c] = "prepare"
  /\ NextSeq
  /\ seq' = [seq EXCEPT ![c] = StageSeq + 1]
  /\ Goto(c, "rename")
  /\ Works
  /\ StageUnchanged
  /\ UNCHANGED <<fsVars, via, file, snap, Reserved, Stats>>

\* Before or after the sequence number was drawn.
StagePrepareFail(c) ==
  /\ pc[c] = "prepare"
  /\ Fails
  /\ ReleaseQueueSlot
  /\ FailDelete(c, {})
  /\ NextSeq \/ UNCHANGED StageSeq
  /\ StageUnchanged
  /\ UNCHANGED storeName

\* The rename goes through the handle: it moves the file from wherever it is
\* now, the staging area included, unless it is marked deleted.
StageRename(c) ==
  /\ pc[c] = "rename"
  /\ loc[file[c]] # "gone"
  /\ loc' = [loc EXCEPT ![file[c]] = "stage"]
  /\ storeName' = [storeName EXCEPT ![file[c]] = seq[c]]
  /\ Count({"RenameOk"})
  /\ Goto(c, "staged")
  /\ Works
  /\ StageUnchanged
  /\ UNCHANGED <<via, file, seq, snap, StageSeq, Reserved>>

StageRenameFail(c) ==
  /\ pc[c] = "rename"
  /\ \/ loc[file[c]] = "gone" /\ Works
     \/ Fails
  /\ ReleaseQueueSlot
  /\ FailDelete(c, {"RenameFail"})
  /\ StageUnchanged
  /\ UNCHANGED <<storeName, StageSeq>>

-----------------------------------------------------------------------------
(* RbfAllocNotify and RbfQueueNotify, after the rename succeeded.          *)

CountNothing == UNCHANGED Stats
CountDrop == Count({"NotifyDropped"})

\* Every failure frees the notification, gives the slot back and counts.
Drop(c) ==
  /\ ReleaseQueueSlot
  /\ CountDrop
  /\ Return(c)
  /\ StageUnchanged
  /\ UNCHANGED <<fsVars, StageSeq>>

Advance(c, label) ==
  /\ Goto(c, label)
  /\ Works
  /\ StageUnchanged
  /\ UNCHANGED <<fsVars, via, file, seq, StageSeq, Reserved, Stats>>

QueueNotifyEnter(c) ==
  /\ pc[c] = "staged"
  /\ \/ QueueActive /\ Advance(c, "snap") /\ UNCHANGED snap
     \/ ~QueueActive /\ Works /\ Drop(c)
     \/ Fails /\ Drop(c)

QueueNotifySnapUnchecked(c) ==
  /\ pc[c] = "snap"
  /\ snap' = [snap EXCEPT ![c] = ClientPort]
  /\ Advance(c, "insert")
QueueNotifySnap(c) ==
  /\ pc[c] = "snap"
  /\ \/ /\ ClientPort # NoPort
        /\ snap' = [snap EXCEPT ![c] = ClientPort]
        /\ Advance(c, "insert")
     \/ ClientPort = NoPort /\ Works /\ Drop(c)

\* RB-23: the second look at G.ClientPort, under the lock that inserts.
PortUnchecked(c) == TRUE
PortStill(c) == ClientPort = snap[c]

QueueNotifyInsert(c) ==
  /\ pc[c] = "insert"
  /\ PortStill(c)
  /\ NotifyQueue' = Append(NotifyQueue, [file |-> file[c], seq |-> seq[c], port |-> snap[c]])
  /\ QueueDepth' = QueueDepth + 1
  /\ ReleaseQueueSlot
  /\ Goto(c, "wake")
  /\ Works
  /\ CallbackUnchanged
  /\ UNCHANGED <<fsVars, requests, via, file, seq, snap, StageSeq, NotifyEvent, Stats>>

QueueNotifyGiveUpWhenFull(c) ==
  /\ pc[c] = "insert"
  /\ ~PortStill(c) \/ QueueDepth >= RBF_QUEUE_MAX
  /\ Works
  /\ Drop(c)
QueueNotifyGiveUp(c) ==
  /\ pc[c] = "insert"
  /\ \/ ~PortStill(c) /\ Works
     \/ Fails
  /\ Drop(c)

QueueNotifyWake(c) ==
  /\ pc[c] = "wake"
  /\ WakeSender
  /\ Return(c)
  /\ Works
  /\ CallbackUnchanged
  /\ UNCHANGED <<fsVars, requests, StageSeq, queueVars, Stats>>

-----------------------------------------------------------------------------
(* RbfSendThread.                                                          *)

SendThreadUnchanged ==
  UNCHANGED <<FailClosed, fsVars, requests, cbVars, StageSeq, Reserved, portVars, unloadVars, uncounted>>

SendThreadHead ==
  /\ tpc = "head"
  /\ tpc' = IF QueueActive THEN "wait" ELSE "exited"
  /\ SendThreadUnchanged
  /\ UNCHANGED <<faults, NotifyQueue, QueueDepth, NotifyEvent, Sending, inflight, Stats, delivered>>

SendThreadWoken ==
  /\ tpc = "wait"
  /\ NotifyEvent
  /\ NotifyEvent' = FALSE
  /\ tpc' = IF QueueActive THEN "drain" ELSE "exited"
  /\ SendThreadUnchanged
  /\ UNCHANGED <<faults, NotifyQueue, QueueDepth, Sending, inflight, Stats, delivered>>

SendThreadEmpty ==
  /\ tpc = "drain"
  /\ NotifyQueue = <<>>
  /\ tpc' = "head"
  /\ SendThreadUnchanged
  /\ UNCHANGED <<faults, NotifyQueue, QueueDepth, NotifyEvent, Sending, inflight, Stats, delivered>>

SendThreadDequeue ==
  /\ tpc = "drain"
  /\ NotifyQueue # <<>>
  /\ inflight' = {Head(NotifyQueue)}
  /\ NotifyQueue' = Tail(NotifyQueue)
  /\ QueueDepth' = QueueDepth - 1
  /\ Sending' = TRUE
  /\ tpc' = "sending"
  /\ SendThreadUnchanged
  /\ UNCHANGED <<faults, NotifyEvent, Stats, delivered>>

\* FltSendMessage returns: the service took the message, or the port is down,
\* or the send failed, or thirty seconds passed.  STATUS_TIMEOUT is a success
\* code, so a message that nobody took is counted as sent.
SendThreadSent ==
  /\ tpc = "sending"
  /\ \E n \in inflight :
       \/ /\ conn[n.port] = "live"
          /\ delivered' = delivered \cup {[file |-> n.file, seq |-> n.seq]}
          /\ Count({"NotifySent"})
          /\ Works
       \/ /\ \/ conn[n.port] # "live" /\ CountDrop /\ Works
             \/ (CountDrop \/ Count({"NotifySent"})) /\ Fails
          /\ UNCHANGED delivered
  /\ inflight' = {}
  /\ tpc' = "sent"
  /\ SendThreadUnchanged
  /\ UNCHANGED <<NotifyQueue, QueueDepth, NotifyEvent, Sending>>

SendThreadClear ==
  /\ tpc = "sent"
  /\ Sending' = FALSE
  /\ tpc' = "drain"
  /\ SendThreadUnchanged
  /\ UNCHANGED <<faults, NotifyQueue, QueueDepth, NotifyEvent, inflight, Stats, delivered>>

SendThread ==
  \/ SendThreadHead  \/ SendThreadWoken   \/ SendThreadEmpty
  \/ SendThreadDequeue \/ SendThreadSent  \/ SendThreadClear

-----------------------------------------------------------------------------
(* The communication port.  FltCreateCommunicationPort allows one client.  *)

PortConnect(p) ==
  /\ upc \notin {"closed", "done"}
  /\ \A q \in Ports : conn[q] = "free"
  /\ conn' = [conn EXCEPT ![p] = "live"]
  /\ ClientPort' = p
  /\ UNCHANGED <<FailClosed, faults, fsVars, requests, cbVars, StageSeq, queueVars, NotifyEvent, sendVars,
                 unloadVars, Stats, delivered, uncounted>>

\* The service stops or dies, or FltUnregisterFilter tears the port down.
ClientGone(p) ==
  /\ conn[p] = "live"
  /\ conn' = [conn EXCEPT ![p] = "closing"]
  /\ UNCHANGED <<FailClosed, faults, fsVars, requests, cbVars, StageSeq, queueVars, ClientPort, NotifyEvent,
                 sendVars, unloadVars, Stats, delivered, uncounted>>

SendThreadParked == tpc = "wait"
SendIdle == ~Sending

NoDrain == UNCHANGED <<NotifyQueue, QueueDepth, uncounted>>
DrainForgetsDepth ==
  /\ NotifyQueue' = <<>>
  /\ uncounted' = uncounted + Len(NotifyQueue)
  /\ UNCHANGED QueueDepth
Drain ==
  /\ NotifyQueue' = <<>>
  /\ QueueDepth' = QueueDepth - Len(NotifyQueue)
  /\ uncounted' = uncounted + Len(NotifyQueue)

\* RbfPortDisconnect, from the pass of its polling loop that finds the send
\* thread idle; FltMgr releases the port when the callback returns.
PortDisconnect(p) ==
  /\ conn[p] = "closing"
  /\ SendIdle
  /\ ClientPort' = NoPort
  /\ Drain
  /\ conn' = [conn EXCEPT ![p] = "free"]
  /\ UNCHANGED <<FailClosed, faults, fsVars, requests, cbVars, StageSeq, Reserved, NotifyEvent, sendVars,
                 unloadVars, Stats, delivered>>

-----------------------------------------------------------------------------
(* RbfUnload, RbfStopSendThread, RbfFlushQueue.                            *)

UnloadUnchanged ==
  UNCHANGED <<FailClosed, faults, fsVars, requests, cbVars, StageSeq, Reserved, portVars, sendVars, Stats, delivered>>

UnloadBegin ==
  /\ upc = "loaded"
  /\ QueueActive' = FALSE
  /\ upc' = "inactive"
  /\ UnloadUnchanged
  /\ UNCHANGED <<NotifyQueue, QueueDepth, NotifyEvent, uncounted>>

UnloadSignal ==
  /\ upc = "inactive"
  /\ WakeSender
  /\ upc' = "stopping"
  /\ UnloadUnchanged
  /\ UNCHANGED <<NotifyQueue, QueueDepth, QueueActive, uncounted>>

UnloadJoin ==
  /\ upc = "stopping"
  /\ tpc = "exited"
  /\ upc' = "flushing"
  /\ UnloadUnchanged
  /\ UNCHANGED <<NotifyQueue, QueueDepth, QueueActive, NotifyEvent, uncounted>>

UnloadFlush ==
  /\ upc = "flushing"
  /\ IF NotifyQueue = <<>>
     THEN /\ upc' = "closed"
          /\ UNCHANGED <<NotifyQueue, QueueDepth, uncounted>>
     ELSE /\ NotifyQueue' = Tail(NotifyQueue)
          /\ QueueDepth' = QueueDepth - 1
          /\ uncounted' = uncounted + 1
          /\ UNCHANGED upc
  /\ UnloadUnchanged
  /\ UNCHANGED <<QueueActive, NotifyEvent>>

\* FltUnregisterFilter waits for the callbacks and the port.
UnloadUnregister ==
  /\ upc = "closed"
  /\ \A c \in Callbacks : pc[c] = "idle"
  /\ \A p \in Ports : conn[p] = "free"
  /\ upc' = "done"
  /\ UnloadUnchanged
  /\ UNCHANGED <<NotifyQueue, QueueDepth, QueueActive, NotifyEvent, uncounted>>

Unload == UnloadBegin \/ UnloadSignal \/ UnloadJoin \/ UnloadFlush \/ UnloadUnregister

-----------------------------------------------------------------------------
NewRequest(c) ==
  \E f \in Files : PreSetInfo(c, f) \/ PreCreateForward(c, f) \/ PreCreateStrip(c, f)

\* What a callback does once it has begun; it never blocks.
Callback(c) ==
  \/ PostCreate(c)
  \/ StageNoName(c) \/ StageForward(c) \/ StageNoSid(c)
  \/ StageReserve(c) \/ StageQueueFull(c)
  \/ StagePrepare(c) \/ StagePrepareFail(c)
  \/ StageRename(c) \/ StageRenameFail(c)
  \/ QueueNotifyEnter(c) \/ QueueNotifySnap(c)
  \/ QueueNotifyInsert(c) \/ QueueNotifyGiveUp(c) \/ QueueNotifyWake(c)

Next ==
  \/ \E c \in Callbacks : NewRequest(c) \/ Callback(c)
  \/ SendThread
  \/ \E p \in Ports : PortConnect(p) \/ ClientGone(p) \/ PortDisconnect(p)
  \/ Unload

Spec == Init /\ [][Next]_vars

\* Threads run, FltSendMessage returns, FltMgr delivers the disconnect and
\* tears ports down while unregistering.  Nothing makes a delete, a
\* connection, a client's end or an unload happen.
Fairness ==
  /\ \A c \in Callbacks : WF_vars(Callback(c))
  /\ WF_vars(SendThread)
  /\ \A p \in Ports : WF_vars(PortDisconnect(p)) /\ WF_vars(upc = "closed" /\ ClientGone(p))
  /\ WF_vars(Unload /\ upc # "loaded")

FairSpec == Spec /\ Fairness

-----------------------------------------------------------------------------
(* Properties.                                                             *)

\* Every variable has the type of the field it stands for.
TypeOK ==
  /\ FailClosed \in BOOLEAN
  /\ faults \in Nat
  /\ loc \in [Files -> {"share", "stage", "gone"}]
  /\ storeName \in [Files -> Nat]
  /\ requests \in Nat
  /\ pc \in [Callbacks -> {"idle", "create", "stage", "wake"} \cup HoldsSlot]
  /\ via \in [Callbacks -> {"setinfo", "doc"}]
  /\ file \in [Callbacks -> Files \cup {NoFile}]
  /\ \A c \in Callbacks : pc[c] # "idle" => file[c] \in Files
  /\ seq \in [Callbacks -> Nat]
  /\ snap \in [Callbacks -> Ports \cup {NoPort}]
  /\ \A c \in Callbacks : pc[c] = "insert" => snap[c] \in Ports
  /\ StageSeq \in Nat
  /\ Reserved \in Nat
  /\ NotifyQueue \in Seq(Node)
  /\ QueueDepth \in Nat
  /\ ClientPort \in Ports \cup {NoPort}
  /\ conn \in [Ports -> {"free", "live", "closing"}]
  /\ NotifyEvent \in BOOLEAN
  /\ Sending \in BOOLEAN
  /\ inflight \in SUBSET Node
  /\ tpc \in {"head", "wait", "drain", "sending", "sent", "exited"}
  /\ QueueActive \in BOOLEAN
  /\ upc \in {"loaded", "inactive", "stopping", "flushing", "closed", "done"}
  /\ Stats \in [StatNames -> Nat]
  /\ delivered \in SUBSET Message
  /\ uncounted \in Nat

\* RB-23: no queued node and no send in progress refers to a client port that
\* FltMgr has released, whatever the order of connects, disconnects, port
\* snapshots and sends, and even when a port's address is used again.
NoReleasedPort ==
  /\ \A i \in 1..Len(NotifyQueue) : conn[NotifyQueue[i].port] # "free"
  /\ \A n \in inflight : conn[n.port] # "free"

\* RB-25: G.Reserved is the number of callbacks between reserving a slot and
\* handing it on; no path of RbfStageDelete or RbfQueueNotify leaks one or
\* gives one back twice, so its "if (G.Reserved > 0)" never hides an error.
SlotsBalanced == Reserved = Cardinality({c \in Callbacks : pc[c] \in HoldsSlot})

\* G.QueueDepth, which the statistics publish, is the length of the list
\* through inserts, dequeues, drains and the flush.
DepthExact == QueueDepth = Len(NotifyQueue)

\* No lost wake-up: when nodes are queued and the send thread is on its way
\* to its wait or in it, the event is set or its insertor is about to set it.
NoLostWakeup ==
  (NotifyQueue # <<>> /\ tpc \in {"head", "wait"}) =>
    NotifyEvent \/ \E c \in Callbacks : pc[c] = "wake"

\* The messages not yet delivered, dropped or freed, by who holds them.
Held(c) == {[file |-> file[c], seq |-> seq[c]]}
Carried(c) == IF pc[c] \in Carrying THEN Held(c) ELSE {}
Queued == {[file |-> NotifyQueue[i].file, seq |-> NotifyQueue[i].seq] :
             i \in 1..Len(NotifyQueue)}
InFlight == {[file |-> n.file, seq |-> n.seq] : n \in inflight}
Pending == (UNION {Carried(c) : c \in Callbacks}) \cup Queued \cup InFlight

Orphans == {f \in Files : loc[f] = "stage" /\
             [file |-> f, seq |-> storeName[f]] \notin Pending \cup delivered}

\* RB-08: while the service is connected, a step in which no kernel call fails
\* and no send times out orphans no staged file.  However long the burst of
\* deletes, and full or not, the queue makes no orphan.
OrphansHaveCause ==
  [][(Orphans' \ Orphans # {} /\ faults' = faults) =>
       \/ ~QueueActive
       \/ ClientPort = NoPort
       \/ \E p \in Ports : conn[p] = "closing"
       \/ \E c \in Callbacks : pc[c] = "insert" /\ snap[c] # ClientPort]_vars

\* Every successful rename is accounted for: its notification was sent or
\* dropped (and counted as such), is pending, or was freed by a disconnect or
\* by the unload, which count nothing.  What the service got was counted as
\* sent, once; what was counted so and did not get there was sent in vain for
\* thirty seconds.
RenamesAccounted ==
  /\ Stats["RenameOk"] =
       Stats["NotifySent"] + Stats["NotifyDropped"] + uncounted
         + Cardinality({c \in Callbacks : pc[c] \in Carrying})
         + Len(NotifyQueue) + Cardinality(inflight)
  /\ Stats["NotifySent"] \in Cardinality(delivered) .. (Cardinality(delivered) + faults)

\* RB-04: under fail-closed a protected file leaves the share for nowhere but
\* the staging area, with two exceptions the code makes: a delete-on-close open
\* whose name cannot be had, and a long path that cannot be upcased.
ProtectedFileKept ==
  [][\A f \in Protected \ Excluded :
       (FailClosed /\ loc[f] = "share" /\ loc'[f] = "gone") =>
         faults' # faults /\ (requests' # requests \/ f \in LongName)]_vars

\* After RbfUnload nothing of the driver is left: the thread is gone, no node
\* is queued, no slot is held and no port is open, although a callback that saw
\* QueueActive before it was cleared may insert after RbfFlushQueue.
UnloadLeavesNothing ==
  upc = "done" =>
    /\ tpc = "exited" /\ ~Sending /\ inflight = {}
    /\ NotifyQueue = <<>> /\ QueueDepth = 0 /\ Reserved = 0
    /\ ClientPort = NoPort

\* Every queued notification leaves the queue, by being sent or freed.
QueueDrains == NotifyQueue # <<>> ~> NotifyQueue = <<>>

\* RbfPortDisconnect's poll on G.Sending ends and FltMgr gets its port back.
DisconnectCompletes == \A p \in Ports : conn[p] = "closing" ~> conn[p] = "free"

\* RbfUnload ends: the send thread hears of it even when it is asleep or deep
\* in a backlog, and the flush and the teardown come to an end.
UnloadCompletes == upc = "inactive" ~> upc = "done"

\* RB-33: once RbfPreCreate stripped FILE_DELETE_ON_CLOSE, no outcome of the
\* staging destroys the file, the legacy fail-open policy included.
StrippedFileKept ==
  [][\A c \in Callbacks :
       (via[c] = "doc" /\ pc'[c] = "idle") => loc'[file[c]] = loc[file[c]]]_vars

\* The driver implements RecycleGate: the abstract announcements pending are
\* those a callback, the queue or the send thread holds.
Gate == INSTANCE RecycleGate WITH
  pending <- Pending, announced <- delivered, Seqs <- 1..MaxRequests
ImplementsGate == Gate!Spec

-----------------------------------------------------------------------------
(* What the comments promise and the code does not keep.                   *)

\* rbminiflt.h on G.Reserved: the occupancy QueueDepth + Reserved is bounded.
QueueBounded == QueueDepth + Reserved <= RBF_QUEUE_MAX

\* RB-08: "The staged file can then never outlive its notification."
NoOrphan == Orphans = {}

\* RB-04: with fail-closed data is never destroyed silently.
StagedFileKept == [][\A f \in Protected : FailClosed /\ loc[f] = "stage" => loc'[f] = "stage"]_vars

=============================================================================
