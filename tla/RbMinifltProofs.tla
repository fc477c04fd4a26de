--------------------------- MODULE RbMinifltProofs ---------------------------
(***************************************************************************)
(* Theorems about RbMiniflt, for every number of files, callbacks, ports   *)
(* and requests and every queue capacity.                                  *)
(***************************************************************************)
EXTENDS RbMiniflt, FiniteSetTheorems, TLAPS

-----------------------------------------------------------------------------
(* Types.  That QueueDepth never goes below zero rests on its being the    *)
(* length of the queue, so the two are proved together.                    *)

TInv == TypeOK /\ DepthExact

LEMMA TInvInit == Init => TInv
<1> SUFFICES ASSUME Init PROVE TInv
  OBVIOUS
<1>1. FailClosed \in BOOLEAN
  BY RbMinifltAssumption DEF Init
<1>2. NotifyQueue \in Seq(Node) /\ Len(NotifyQueue) = 0
  BY DEF Init
<1>3. Stats \in [StatNames -> Nat]
  BY DEF Init
<1> QED
  BY <1>1, <1>2, <1>3 DEF Init, TInv, TypeOK, DepthExact, HoldsSlot, Carrying

\* A delete arriving keeps the types.
LEMMA TInvRequest ==
  ASSUME TInv, NEW c \in Callbacks, NEW f \in Files, 
         PreSetInfo(c, f) \/ PreCreateForward(c, f) \/ PreCreateStrip(c, f)
  PROVE  TInv'
<1> USE DEF TInv, TypeOK, DepthExact, Request, CallbackUnchanged, unloadVars, portVars, sendVars,
            queueVars, Goto, Works, Fails, HoldsSlot, Carrying
<1>1. CASE PreSetInfo(c, f)
  BY <1>1 DEF PreSetInfo
<1>2. CASE PreCreateForward(c, f)
  BY <1>2 DEF PreCreateForward
<1>3. CASE PreCreateStrip(c, f)
  BY <1>3 DEF PreCreateStrip
<1> QED BY <1>1, <1>2, <1>3

LEMMA CountType ==
  ASSUME Stats \in [StatNames -> Nat], NEW S, Count(S)
  PROVE  Stats' \in [StatNames -> Nat]
  BY DEF Count

\* What leaving a callback does to its locals and to the file.
LEMMA ReturnType ==
  ASSUME TypeOK, NEW c \in Callbacks, Return(c)
  PROVE  /\ pc' \in [Callbacks -> {"idle", "create", "stage", "wake"} \cup HoldsSlot]
         /\ via' \in [Callbacks -> {"setinfo", "doc"}]
         /\ file' \in [Callbacks -> Files \cup {NoFile}]
         /\ \A d \in Callbacks : pc'[d] # "idle" => file'[d] \in Files
         /\ seq' \in [Callbacks -> Nat]
         /\ snap' \in [Callbacks -> Ports \cup {NoPort}]
         /\ \A d \in Callbacks : pc'[d] = "insert" => snap'[d] \in Ports
  BY DEF TypeOK, Return, Goto

LEMMA ForwardType ==
  ASSUME TypeOK, NEW c \in Callbacks, Forward(c)
  PROVE  loc' \in [Files -> {"share", "stage", "gone"}]
  BY DEF TypeOK, Forward

\* A delete that cannot be staged, whatever was counted before.
LEMMA FailDeleteType ==
  ASSUME TInv, NEW c \in Callbacks, NEW S, FailDelete(c, S), Works \/ Fails, StageUnchanged,
         UNCHANGED storeName, StageSeq' \in Nat, Reserved' \in Nat
  PROVE  TInv'
<1>1. loc' \in [Files -> {"share", "stage", "gone"}]
  BY ForwardType DEF TInv, TypeOK, FailDelete
<1>2. Stats' \in [StatNames -> Nat]
  BY CountType DEF TInv, TypeOK, FailDelete
<1> QED
  BY <1>1, <1>2, ReturnType
  DEF TInv, TypeOK, DepthExact, FailDelete, StageUnchanged, CallbackUnchanged, unloadVars, portVars,
      sendVars, Works, Fails

LEMMA ReleaseType ==
  ASSUME TInv, ReleaseQueueSlot
  PROVE  Reserved' \in Nat
  BY DEF TInv, TypeOK, ReleaseQueueSlot

\* Every step of RbfStageDelete up to the rename keeps the types.
LEMMA TInvStage ==
  ASSUME TInv, NEW c \in Callbacks,
         \/ PostCreate(c)
         \/ StageNoName(c) \/ StageForward(c) \/ StageNoSid(c)
         \/ StageReserve(c) \/ StageQueueFull(c)
         \/ StagePrepare(c) \/ StagePrepareFail(c)
         \/ StageRename(c) \/ StageRenameFail(c)
  PROVE  TInv'
<1>0. Reserved \in Nat /\ StageSeq \in Nat
  BY DEF TInv, TypeOK
<1>1. CASE PostCreate(c)
  <2>1. CASE Return(c)
    BY <1>1, <2>1, ReturnType
    DEF PostCreate, TInv, TypeOK, DepthExact, CallbackUnchanged, fsVars, unloadVars, portVars,
        sendVars, queueVars, Works
  <2>2. CASE Goto(c, "stage") /\ UNCHANGED <<via, file, seq, snap>>
    BY <1>1, <2>2
    DEF PostCreate, TInv, TypeOK, DepthExact, CallbackUnchanged, fsVars, unloadVars, portVars,
        sendVars, queueVars, Goto, Works
  <2> QED
    BY <1>1, <2>1, <2>2 DEF PostCreate
<1>2. CASE StageNoName(c)
  BY <1>0, <1>2, FailDeleteType DEF StageNoName
<1>3. CASE StageForward(c)
  <2>1. loc' \in [Files -> {"share", "stage", "gone"}]
    BY <1>3, ForwardType DEF StageForward, TInv
  <2>2. Return(c) /\ StageUnchanged /\ UNCHANGED <<storeName, StageSeq, Reserved, Stats>>
        /\ faults' \in Nat
    BY <1>3 DEF StageForward, Works, Fails, TInv, TypeOK
  <2> QED
  BY <2>1, <2>2, ReturnType
  DEF TInv, TypeOK, DepthExact, StageUnchanged, CallbackUnchanged, unloadVars, portVars,
      sendVars
<1>4. CASE StageNoSid(c)
  BY <1>0, <1>4, FailDeleteType DEF StageNoSid
<1>5. CASE StageReserve(c)
  BY <1>5, CountType
  DEF StageReserve, ReserveQueueSlot, TInv, TypeOK, DepthExact, StageUnchanged, CallbackUnchanged,
      fsVars, unloadVars, portVars, sendVars, Goto, Works, HoldsSlot, Carrying
<1>6. CASE StageQueueFull(c)
  BY <1>0, <1>6, FailDeleteType DEF StageQueueFull
<1>7. CASE StagePrepare(c)
  BY <1>7
  DEF StagePrepare, NextSeq, TInv, TypeOK, DepthExact, StageUnchanged, CallbackUnchanged,
      fsVars, unloadVars, portVars, sendVars, Goto, Works, HoldsSlot, Carrying
<1>8. CASE StagePrepareFail(c)
  BY <1>0, <1>8, FailDeleteType, ReleaseType DEF StagePrepareFail, NextSeq
<1>9. CASE StageRename(c)
  BY <1>9, CountType
  DEF StageRename, TInv, TypeOK, DepthExact, StageUnchanged, CallbackUnchanged,
      unloadVars, portVars, sendVars, Goto, Works, HoldsSlot, Carrying
<1>10. CASE StageRenameFail(c)
  BY <1>0, <1>10, FailDeleteType, ReleaseType DEF StageRenameFail
<1> QED
  BY <1>1, <1>2, <1>3, <1>4, <1>5, <1>6, <1>7, <1>8, <1>9, <1>10

LEMMA DropType ==
  ASSUME TInv, NEW c \in Callbacks, Drop(c), Works \/ Fails
  PROVE  TInv'
  BY ReturnType, CountType
  DEF TInv, TypeOK, DepthExact, Drop, CountDrop, ReleaseQueueSlot, StageUnchanged, CallbackUnchanged,
      fsVars, unloadVars, portVars, sendVars, Works, Fails

\* The moves of RbfQueueNotify that only go on.
LEMMA AdvanceType ==
  ASSUME TInv, NEW c \in Callbacks, pc[c] \in Carrying,
         NEW label \in {"snap", "insert"}, Advance(c, label),
         snap' \in [Callbacks -> Ports \cup {NoPort}],
         label = "insert" => snap'[c] \in Ports,
         \A d \in Callbacks : d # c => snap'[d] = snap[d]
  PROVE  TInv'
<1>1. pc' \in [Callbacks -> {"idle", "create", "stage", "wake"} \cup HoldsSlot]
  BY DEF TInv, TypeOK, Advance, Goto, HoldsSlot, Carrying
<1>2. \A d \in Callbacks : pc'[d] # "idle" => file'[d] \in Files
  BY DEF TInv, TypeOK, Advance, Goto, Carrying
<1>3. \A d \in Callbacks : pc'[d] = "insert" => snap'[d] \in Ports
  BY DEF TInv, TypeOK, Advance, Goto
<1> QED
  BY <1>1, <1>2, <1>3
  DEF TInv, TypeOK, DepthExact, Advance, StageUnchanged, CallbackUnchanged, fsVars,
      unloadVars, portVars, sendVars, Works

\* So does every step of RbfQueueNotify.
LEMMA TInvNotify ==
  ASSUME TInv, NEW c \in Callbacks,
         \/ QueueNotifyEnter(c) \/ QueueNotifySnap(c)
         \/ QueueNotifyInsert(c) \/ QueueNotifyGiveUp(c) \/ QueueNotifyWake(c)
  PROVE  TInv'
<1>1. CASE QueueNotifyEnter(c)
  <2>1. CASE Advance(c, "snap") /\ UNCHANGED snap
    BY <1>1, <2>1, AdvanceType DEF QueueNotifyEnter, Carrying, TInv, TypeOK
  <2> QED
    BY <1>1, <2>1, DropType DEF QueueNotifyEnter
<1>2. CASE QueueNotifySnap(c)
  <2>1. CASE Advance(c, "insert") /\ ClientPort # NoPort /\ snap' = [snap EXCEPT ![c] = ClientPort]
    BY <1>2, <2>1, AdvanceType DEF QueueNotifySnap, Carrying, TInv, TypeOK
  <2> QED
    BY <1>2, <2>1, DropType DEF QueueNotifySnap
<1>3. CASE QueueNotifyInsert(c)
  <2> DEFINE n == [file |-> file[c], seq |-> seq[c], port |-> snap[c]]
  <2>1. n \in Node
    BY <1>3 DEF QueueNotifyInsert, Node, TInv, TypeOK
  <2>2. NotifyQueue' \in Seq(Node) /\ Len(NotifyQueue') = Len(NotifyQueue) + 1
    BY <1>3, <2>1 DEF QueueNotifyInsert, TInv, TypeOK
  <2>3. Reserved' \in Nat
    BY <1>3, ReleaseType DEF QueueNotifyInsert
  <2> QED
    BY <1>3, <2>2, <2>3
    DEF QueueNotifyInsert, TInv, TypeOK, DepthExact, CallbackUnchanged, fsVars, unloadVars,
        portVars, sendVars, Goto, Works, HoldsSlot, Carrying
<1>4. CASE QueueNotifyGiveUp(c)
  BY <1>4, DropType DEF QueueNotifyGiveUp
<1>5. CASE QueueNotifyWake(c)
  BY <1>5, ReturnType
  DEF QueueNotifyWake, WakeSender, TInv, TypeOK, DepthExact, CallbackUnchanged, fsVars, queueVars,
      unloadVars, portVars, sendVars, Works
<1> QED
  BY <1>1, <1>2, <1>3, <1>4, <1>5

\* What the queue is after its head is taken.
LEMMA TailType ==
  ASSUME TInv, NotifyQueue # <<>>
  PROVE  /\ Head(NotifyQueue) \in Node
         /\ Tail(NotifyQueue) \in Seq(Node)
         /\ Len(Tail(NotifyQueue)) = QueueDepth - 1
         /\ QueueDepth - 1 \in Nat
  BY DEF TInv, TypeOK, DepthExact

\* The send thread keeps the types.
LEMMA TInvSendThread == ASSUME TInv, SendThread PROVE TInv'
<1>1. CASE SendThreadDequeue
  <2>1. /\ inflight' \in SUBSET Node
        /\ NotifyQueue' \in Seq(Node) /\ QueueDepth' \in Nat /\ QueueDepth' = Len(NotifyQueue')
    BY <1>1, TailType DEF SendThreadDequeue
  <2> QED
    BY <1>1, <2>1
    DEF SendThreadDequeue, SendThreadUnchanged, TInv, TypeOK, DepthExact, fsVars, cbVars, portVars, unloadVars
<1>2. CASE SendThreadSent
  <2>1. faults' \in Nat /\ Stats' \in [StatNames -> Nat] /\ delivered' \in SUBSET Message
    BY <1>2, CountType
    DEF SendThreadSent, Works, Fails, CountDrop, TInv, TypeOK, Node, Message
  <2> QED
    BY <1>2, <2>1
    DEF SendThreadSent, SendThreadUnchanged, TInv, TypeOK, DepthExact, fsVars, cbVars, portVars, unloadVars
<1>3. CASE SendThreadHead
  BY <1>3
  DEF SendThreadHead, SendThreadUnchanged, TInv, TypeOK, DepthExact, fsVars, cbVars, portVars, unloadVars
<1>4. CASE SendThreadWoken
  BY <1>4
  DEF SendThreadWoken, SendThreadUnchanged, TInv, TypeOK, DepthExact, fsVars, cbVars, portVars, unloadVars
<1>5. CASE SendThreadEmpty
  BY <1>5
  DEF SendThreadEmpty, SendThreadUnchanged, TInv, TypeOK, DepthExact, fsVars, cbVars, portVars, unloadVars
<1>6. CASE SendThreadClear
  BY <1>6
  DEF SendThreadClear, SendThreadUnchanged, TInv, TypeOK, DepthExact, fsVars, cbVars, portVars, unloadVars
<1> QED
  BY <1>1, <1>2, <1>3, <1>4, <1>5, <1>6 DEF SendThread

\* So do the port's callbacks.
LEMMA TInvPort ==
  ASSUME TInv, NEW p \in Ports, PortConnect(p) \/ ClientGone(p) \/ PortDisconnect(p)
  PROVE  TInv'
<1>1. CASE PortConnect(p)
  <2>1. conn' \in [Ports -> {"free", "live", "closing"}] /\ ClientPort' \in Ports
    BY <1>1 DEF PortConnect, TInv, TypeOK
  <2> QED
    BY <1>1, <2>1
    DEF PortConnect, TInv, TypeOK, DepthExact, fsVars, cbVars, queueVars, sendVars, unloadVars
<1>2. CASE ClientGone(p)
  <2>1. conn' \in [Ports -> {"free", "live", "closing"}]
    BY <1>2 DEF ClientGone, TInv, TypeOK
  <2> QED
    BY <1>2, <2>1
    DEF ClientGone, TInv, TypeOK, DepthExact, fsVars, cbVars, queueVars, sendVars, unloadVars
<1>3. CASE PortDisconnect(p)
  <2>1. /\ NotifyQueue' \in Seq(Node) /\ Len(NotifyQueue') = 0 /\ QueueDepth' = 0
        /\ uncounted' \in Nat
    BY <1>3 DEF PortDisconnect, Drain, TInv, TypeOK, DepthExact
  <2>2. conn' \in [Ports -> {"free", "live", "closing"}]
    BY <1>3 DEF PortDisconnect, TInv, TypeOK
  <2> QED
    BY <1>3, <2>1, <2>2
    DEF PortDisconnect, TInv, TypeOK, DepthExact, fsVars, cbVars, sendVars, unloadVars
<1> QED
  BY <1>1, <1>2, <1>3

\* So does the unload.
LEMMA TInvUnload == ASSUME TInv, Unload PROVE TInv'
<1>1. CASE UnloadFlush
  <2>1. CASE NotifyQueue = <<>>
    BY <1>1, <2>1
    DEF UnloadFlush, UnloadUnchanged, TInv, TypeOK, DepthExact, fsVars, cbVars, portVars, sendVars
  <2>2. CASE NotifyQueue # <<>>
    <3>1. NotifyQueue' \in Seq(Node) /\ QueueDepth' \in Nat /\ QueueDepth' = Len(NotifyQueue')
      BY <1>1, <2>2, TailType DEF UnloadFlush
    <3>2. uncounted' \in Nat
      BY <1>1, <2>2 DEF UnloadFlush, TInv, TypeOK
    <3> QED
      BY <1>1, <2>2, <3>1, <3>2
      DEF UnloadFlush, UnloadUnchanged, TInv, TypeOK, DepthExact, fsVars, cbVars, portVars, sendVars
  <2> QED
    BY <2>1, <2>2
<1>2. CASE UnloadBegin
  BY <1>2
  DEF UnloadBegin, UnloadUnchanged, TInv, TypeOK, DepthExact, fsVars, cbVars, portVars, sendVars
<1>3. CASE UnloadSignal
  BY <1>3
  DEF UnloadSignal, UnloadUnchanged, WakeSender, TInv, TypeOK, DepthExact, fsVars, cbVars, portVars, sendVars
<1>4. CASE UnloadJoin
  BY <1>4
  DEF UnloadJoin, UnloadUnchanged, TInv, TypeOK, DepthExact, fsVars, cbVars, portVars, sendVars
<1>5. CASE UnloadUnregister
  BY <1>5
  DEF UnloadUnregister, UnloadUnchanged, TInv, TypeOK, DepthExact, fsVars, cbVars, portVars, sendVars
<1> QED
  BY <1>1, <1>2, <1>3, <1>4, <1>5 DEF Unload

LEMMA TInvStutter == ASSUME TInv, UNCHANGED vars PROVE TInv'
  BY DEF vars, TInv, TypeOK, DepthExact, fsVars, cbVars, queueVars, portVars, sendVars, unloadVars

LEMMA TInvStep == TInv /\ [Next]_vars => TInv'
<1> SUFFICES ASSUME TInv, [Next]_vars PROVE TInv'
  OBVIOUS
<1>1. ASSUME NEW c \in Callbacks, NewRequest(c) PROVE TInv'
  BY <1>1, TInvRequest DEF NewRequest
<1>2. ASSUME NEW c \in Callbacks, Callback(c) PROVE TInv'
  BY <1>2, TInvStage, TInvNotify DEF Callback
<1>3. ASSUME NEW p \in Ports, PortConnect(p) \/ ClientGone(p) \/ PortDisconnect(p) PROVE TInv'
  BY <1>3, TInvPort
<1> QED
  BY <1>1, <1>2, <1>3, TInvSendThread, TInvUnload, TInvStutter DEF Next

\* The fields of G keep their types, and the depth the statistics publish is
\* the length of the queue, through inserts, dequeues, drains and the flush.
THEOREM TypeCorrect == Spec => [](TypeOK /\ DepthExact)
<1>1. Spec => []TInv
  BY TInvInit, TInvStep, PTL DEF Spec
<1>2. TInv => TypeOK /\ DepthExact
  BY DEF TInv
<1> QED
  BY <1>1, <1>2, PTL

\* G.QueueDepth, which four paths keep by hand, is the length of the list.
THEOREM DepthIsLength == Spec => []DepthExact
  BY TypeCorrect, PTL

-----------------------------------------------------------------------------
(* Ports.  G.ClientPort follows FltMgr's idea of the one client from its    *)
(* connection to the return of RbfPortDisconnect, and everything queued or  *)
(* in flight carries that port.                                             *)

PortInv ==
  /\ \A p \in Ports : conn[p] # "free" => ClientPort = p
  /\ ClientPort # NoPort => conn[ClientPort] # "free"
  /\ \A i \in 1..Len(NotifyQueue) : NotifyQueue[i].port = ClientPort
  /\ \A n \in inflight : n.port = ClientPort
  /\ inflight # {} => Sending /\ tpc = "sending"

\* Everything the send thread and the port know of the notifications.
channelVars == <<NotifyQueue, portVars, sendVars>>

LEMMA PortInvInit == Init => PortInv
  BY RbMinifltAssumption DEF Init, PortInv

\* No step of a callback but the insertion touches the channel.
LEMMA CallbackQuiet ==
  ASSUME NEW c \in Callbacks, NewRequest(c) \/ Callback(c), ~QueueNotifyInsert(c)
  PROVE  UNCHANGED channelVars
<1>1. CASE NewRequest(c)
  BY <1>1
  DEF NewRequest, PreSetInfo, PreCreateForward, PreCreateStrip, Request, CallbackUnchanged, channelVars, queueVars
<1>2. CASE PostCreate(c) \/ QueueNotifyWake(c)
  BY <1>2 DEF PostCreate, QueueNotifyWake, CallbackUnchanged, channelVars, queueVars
<1>3. ASSUME StageUnchanged PROVE UNCHANGED channelVars
  BY <1>3 DEF StageUnchanged, CallbackUnchanged, channelVars
<1>4. CASE \/ StageNoName(c) \/ StageForward(c) \/ StageNoSid(c)
           \/ StageReserve(c) \/ StageQueueFull(c)
           \/ StagePrepare(c) \/ StagePrepareFail(c)
           \/ StageRename(c) \/ StageRenameFail(c)
  BY <1>3, <1>4
  DEF StageNoName, StageForward, StageNoSid, StageReserve, StageQueueFull, StagePrepare, StagePrepareFail,
      StageRename, StageRenameFail
<1>5. CASE QueueNotifyEnter(c) \/ QueueNotifySnap(c) \/ QueueNotifyGiveUp(c)
  BY <1>3, <1>5 DEF QueueNotifyEnter, QueueNotifySnap, QueueNotifyGiveUp, Drop, Advance
<1> QED
  BY <1>1, <1>2, <1>4, <1>5 DEF Callback

\* What Append leaves at each position.
LEMMA AppendElements ==
  ASSUME NEW S, NEW q \in Seq(S), NEW x \in S, NEW i \in 1..Len(Append(q, x))
  PROVE  /\ i \in 1..Len(q) => Append(q, x)[i] = q[i]
         /\ i \in 1..Len(q) \/ Append(q, x)[i] = x
  OBVIOUS

LEMMA PortInvInsert ==
  ASSUME TypeOK, PortInv, NEW c \in Callbacks, QueueNotifyInsert(c)
  PROVE  PortInv'
<1>1. UNCHANGED <<ClientPort, conn, Sending, inflight, tpc>>
  BY DEF QueueNotifyInsert, CallbackUnchanged, portVars, sendVars
<1> DEFINE n == [file |-> file[c], seq |-> seq[c], port |-> snap[c]]
<1>2. n \in Node /\ n.port = ClientPort /\ NotifyQueue' = Append(NotifyQueue, n)
  BY DEF QueueNotifyInsert, PortStill, TypeOK, Node
<1> HIDE DEF n
<1>3. ASSUME NEW i \in 1..Len(NotifyQueue') PROVE NotifyQueue'[i].port = ClientPort
  <2>1. NotifyQueue \in Seq(Node)
    BY DEF TypeOK
  <2>2. /\ i \in 1..Len(NotifyQueue) => NotifyQueue'[i] = NotifyQueue[i]
        /\ i \in 1..Len(NotifyQueue) \/ NotifyQueue'[i] = n
    BY <1>2, <2>1, AppendElements
  <2> QED
    BY <1>2, <2>2 DEF PortInv
<1> QED
  BY <1>1, <1>3 DEF PortInv

\* Dropping the head of the queue keeps the claim about the rest.
LEMMA PortInvTail ==
  ASSUME TypeOK, PortInv, NotifyQueue # <<>>
  PROVE  /\ Head(NotifyQueue).port = ClientPort
         /\ \A i \in 1..Len(Tail(NotifyQueue)) : Tail(NotifyQueue)[i].port = ClientPort
  BY DEF TypeOK, PortInv

LEMMA PortInvSendThread == ASSUME TypeOK, PortInv, SendThread PROVE PortInv'
<1>1. CASE SendThreadDequeue
  BY <1>1, PortInvTail DEF SendThreadDequeue, SendThreadUnchanged, portVars, PortInv
<1>2. CASE \/ SendThreadHead \/ SendThreadWoken \/ SendThreadEmpty
           \/ SendThreadSent \/ SendThreadClear
  BY <1>2
  DEF SendThreadHead, SendThreadWoken, SendThreadEmpty, SendThreadSent, SendThreadClear,
      SendThreadUnchanged, portVars, PortInv
<1> QED
  BY <1>1, <1>2 DEF SendThread

\* A node's port is an address, never NoPort.
LEMMA QueuedPort ==
  ASSUME TypeOK
  PROVE  /\ \A i \in 1..Len(NotifyQueue) : NotifyQueue[i].port \in Ports
         /\ \A n \in inflight : n.port \in Ports
         /\ NotifyQueue # <<>> => 1 \in 1..Len(NotifyQueue)
<1>1. \A n \in Node : n.port \in Ports
  BY DEF Node
<1>2. \A i \in 1..Len(NotifyQueue) : NotifyQueue[i] \in Node
  BY DEF TypeOK
<1>3. \A n \in inflight : n \in Node
  BY DEF TypeOK
<1>4. NotifyQueue # <<>> => 1 \in 1..Len(NotifyQueue)
  BY DEF TypeOK
<1> QED
  BY <1>1, <1>2, <1>3, <1>4

LEMMA PortInvPort ==
  ASSUME TypeOK, PortInv, NEW p \in Ports, PortConnect(p) \/ ClientGone(p) \/ PortDisconnect(p)
  PROVE  PortInv'
<1>1. CASE PortConnect(p)
  <2>1. ClientPort = NoPort
    BY <1>1 DEF PortConnect, TypeOK, PortInv
  <2>2. NotifyQueue = <<>> /\ inflight = {}
    <3>1. NoPort \notin Ports
      BY RbMinifltAssumption
    <3>2. \A n \in inflight : FALSE
      BY <2>1, <3>1, QueuedPort DEF PortInv
    <3>3. NotifyQueue = <<>>
      BY <2>1, <3>1, QueuedPort DEF PortInv
    <3> QED
      BY <3>2, <3>3
  <2> QED
    BY <1>1, <2>2 DEF PortConnect, queueVars, sendVars, TypeOK, PortInv
<1>2. CASE ClientGone(p)
  BY <1>2 DEF ClientGone, queueVars, sendVars, TypeOK, PortInv
<1>3. CASE PortDisconnect(p)
  BY <1>3, RbMinifltAssumption DEF PortDisconnect, SendIdle, Drain, sendVars, TypeOK, PortInv
<1> QED
  BY <1>1, <1>2, <1>3

LEMMA PortInvUnload == ASSUME TypeOK, PortInv, Unload PROVE PortInv'
<1>1. UNCHANGED <<portVars, sendVars>>
  BY DEF Unload, UnloadBegin, UnloadSignal, UnloadJoin, UnloadFlush, UnloadUnregister, UnloadUnchanged
<1>2. NotifyQueue' = NotifyQueue \/ (NotifyQueue # <<>> /\ NotifyQueue' = Tail(NotifyQueue))
  BY DEF Unload, UnloadBegin, UnloadSignal, UnloadJoin, UnloadFlush, UnloadUnregister
<1> QED
  BY <1>1, <1>2, PortInvTail DEF portVars, sendVars, PortInv

LEMMA PortInvStep == TypeOK /\ PortInv /\ [Next]_vars => PortInv'
<1> SUFFICES ASSUME TypeOK, PortInv, [Next]_vars PROVE PortInv'
  OBVIOUS
<1>1. ASSUME UNCHANGED channelVars PROVE PortInv'
  BY <1>1 DEF channelVars, portVars, sendVars, PortInv
<1>2. ASSUME NEW c \in Callbacks, NewRequest(c) \/ Callback(c) PROVE PortInv'
  BY <1>1, <1>2, CallbackQuiet, PortInvInsert
<1>3. CASE UNCHANGED vars
  BY <1>1, <1>3 DEF vars, channelVars, queueVars
<1> QED
  BY <1>2, <1>3, PortInvSendThread, PortInvPort, PortInvUnload DEF Next

\* RB-23: no queued node and no send in progress refers to a client port that
\* FltMgr has released: RbfQueueNotify looks at G.ClientPort again under the
\* lock it inserts with, and RbfPortDisconnect waits for G.Sending and drains
\* before it returns.
THEOREM PortSafe == Spec => []NoReleasedPort
<1>1. Spec => []PortInv
  BY TypeCorrect, PortInvInit, PortInvStep, PTL DEF Spec
<1>2. TypeOK /\ PortInv => NoReleasedPort
  <2> SUFFICES ASSUME TypeOK, PortInv PROVE NoReleasedPort
    OBVIOUS
  <2>1. \A p \in Ports : p = ClientPort => conn[p] # "free"
    BY RbMinifltAssumption DEF PortInv
  <2> QED
    BY <2>1, QueuedPort DEF PortInv, NoReleasedPort
<1> QED
  BY TypeCorrect, <1>1, <1>2, PTL

-----------------------------------------------------------------------------
(* Queue slots.                                                            *)

\* The send thread, the port and the unload leave files, callbacks and slots
\* alone.
LEMMA SystemQuiet ==
  ASSUME SendThread \/ Unload \/ (\E p \in Ports : PortConnect(p) \/ ClientGone(p) \/ PortDisconnect(p))
  PROVE  UNCHANGED <<fsVars, cbVars, Reserved>>
<1>1. CASE SendThread
  BY <1>1
  DEF SendThread, SendThreadHead, SendThreadWoken, SendThreadEmpty, SendThreadDequeue, SendThreadSent,
      SendThreadClear, SendThreadUnchanged
<1>2. CASE Unload
  BY <1>2
  DEF Unload, UnloadBegin, UnloadSignal, UnloadJoin, UnloadFlush, UnloadUnregister, UnloadUnchanged
<1>3. CASE \E p \in Ports : PortConnect(p) \/ ClientGone(p) \/ PortDisconnect(p)
  BY <1>3 DEF PortConnect, ClientGone, PortDisconnect, queueVars
<1> QED
  BY <1>1, <1>2, <1>3

Slots == {c \in Callbacks : pc[c] \in HoldsSlot}

LEMMA SlotsFinite ==
  /\ IsFiniteSet(Slots)
  /\ Cardinality(Slots) \in Nat
  BY RbMinifltAssumption, FS_Subset, FS_CardinalityType DEF Slots

\* A callback that moves to a place with a slot is in Slots from then on, and
\* one that moves to any other place is not.
LEMMA SlotMove ==
  ASSUME TypeOK, NEW c \in Callbacks, NEW label, Goto(c, label)
  PROVE  /\ label \in HoldsSlot => Slots' = Slots \cup {c}
         /\ label \notin HoldsSlot => Slots' = Slots \ {c}
  BY DEF TypeOK, Goto, Slots

LEMMA SlotTaken ==
  ASSUME TypeOK, SlotsBalanced, NEW c \in Callbacks, NEW label \in HoldsSlot, Goto(c, label),
         pc[c] \notin HoldsSlot, ReserveQueueSlot
  PROVE  SlotsBalanced'
<1>1. Slots' = Slots \cup {c} /\ c \notin Slots
  BY SlotMove DEF Slots
<1>2. Cardinality(Slots') = Cardinality(Slots) + 1
  BY <1>1, SlotsFinite, FS_AddElement
<1> QED
  BY <1>2 DEF SlotsBalanced, Slots, ReserveQueueSlot

\* The slot is there to give back, so ReleaseQueueSlot does decrement.
LEMMA SlotGiven ==
  ASSUME TypeOK, SlotsBalanced, NEW c \in Callbacks, NEW label, label \notin HoldsSlot, Goto(c, label),
         pc[c] \in HoldsSlot, ReleaseQueueSlot
  PROVE  SlotsBalanced'
<1>1. Slots' = Slots \ {c} /\ c \in Slots
  BY SlotMove DEF Slots
<1>2. Cardinality(Slots') = Cardinality(Slots) - 1
  BY <1>1, SlotsFinite, FS_RemoveElement
<1>3. Cardinality(Slots) > 0
  BY <1>1, SlotsFinite, FS_EmptySet
<1> QED
  BY <1>2, <1>3, SlotsFinite DEF SlotsBalanced, Slots, ReleaseQueueSlot

LEMMA SlotKept ==
  ASSUME TypeOK, SlotsBalanced, NEW c \in Callbacks, NEW label, Goto(c, label),
         pc[c] \in HoldsSlot <=> label \in HoldsSlot, UNCHANGED Reserved
  PROVE  SlotsBalanced'
<1>1. Slots' = Slots
  BY SlotMove DEF Slots
<1> QED
  BY <1>1 DEF SlotsBalanced, Slots

LEMMA SlotsUntouched ==
  ASSUME SlotsBalanced, UNCHANGED <<pc, Reserved>>
  PROVE  SlotsBalanced'
  BY DEF SlotsBalanced

LEMMA SlotsDrop ==
  ASSUME TypeOK, SlotsBalanced, NEW c \in Callbacks, pc[c] \in HoldsSlot, Drop(c)
  PROVE  SlotsBalanced'
  BY SlotGiven DEF Drop, Return, HoldsSlot, Carrying

LEMMA SlotsCallback ==
  ASSUME TypeOK, SlotsBalanced, NEW c \in Callbacks, NewRequest(c) \/ Callback(c)
  PROVE  SlotsBalanced'
<1>1. CASE NewRequest(c)
  BY <1>1, SlotKept, SlotsUntouched
  DEF NewRequest, PreSetInfo, PreCreateForward, PreCreateStrip, Request, queueVars, HoldsSlot, Carrying
<1>2. CASE PostCreate(c)
  BY <1>2, SlotKept DEF PostCreate, Return, queueVars, HoldsSlot, Carrying
<1>3. CASE StageNoName(c) \/ StageForward(c) \/ StageNoSid(c) \/ StageQueueFull(c)
  BY <1>3, SlotKept
  DEF StageNoName, StageForward, StageNoSid, StageQueueFull, FailDelete, Return, HoldsSlot, Carrying
<1>4. CASE StageReserve(c)
  BY <1>4, SlotTaken DEF StageReserve, HoldsSlot, Carrying
<1>5. CASE StagePrepareFail(c) \/ StageRenameFail(c)
  BY <1>5, SlotGiven DEF StagePrepareFail, StageRenameFail, FailDelete, Return, HoldsSlot, Carrying
<1>6. CASE StagePrepare(c) \/ StageRename(c)
  BY <1>6, SlotKept DEF StagePrepare, StageRename, HoldsSlot, Carrying
<1>7. CASE QueueNotifyEnter(c) \/ QueueNotifySnap(c)
  BY <1>7, SlotKept, SlotsDrop DEF QueueNotifyEnter, QueueNotifySnap, Advance, HoldsSlot, Carrying
<1>8. CASE QueueNotifyGiveUp(c)
  BY <1>8, SlotsDrop DEF QueueNotifyGiveUp, HoldsSlot, Carrying
<1>9. CASE QueueNotifyInsert(c)
  BY <1>9, SlotGiven DEF QueueNotifyInsert, HoldsSlot, Carrying
<1>10. CASE QueueNotifyWake(c)
  BY <1>10, SlotKept DEF QueueNotifyWake, Return, queueVars, HoldsSlot, Carrying
<1> QED
  BY <1>1, <1>2, <1>3, <1>4, <1>5, <1>6, <1>7, <1>8, <1>9, <1>10 DEF Callback

LEMMA SlotsStep == TypeOK /\ SlotsBalanced /\ [Next]_vars => SlotsBalanced'
<1> SUFFICES ASSUME TypeOK, SlotsBalanced, [Next]_vars PROVE SlotsBalanced'
  OBVIOUS
<1>1. CASE UNCHANGED vars
  BY <1>1, SlotsUntouched DEF vars, cbVars, queueVars
<1> QED
  BY <1>1, SystemQuiet, SlotsUntouched, SlotsCallback DEF Next, cbVars

\* RB-25: G.Reserved is the number of callbacks between RbfReserveQueueSlot and
\* the insertion or the failure that ends its claim, so no path leaks a slot
\* and none gives one back twice.
THEOREM SlotsExact == Spec => []SlotsBalanced
<1>1. Init => SlotsBalanced
  <2> SUFFICES ASSUME Init PROVE Slots = {} /\ Reserved = 0
    BY FS_EmptySet DEF Slots, SlotsBalanced
  <2> QED
    BY DEF Init, Slots, HoldsSlot, Carrying
<1> QED
  BY TypeCorrect, <1>1, SlotsStep, PTL DEF Spec

-----------------------------------------------------------------------------
(* The wake-up.  NoLostWakeup is inductive as it stands: the event is set  *)
(* after the insertion, and the send thread, which alone consumes it, then *)
(* looks at the queue until it finds it empty.                             *)

LEMMA WakeOther ==
  ASSUME NEW c \in Callbacks, NewRequest(c) \/ Callback(c), ~QueueNotifyWake(c), TypeOK
  PROVE  UNCHANGED NotifyEvent /\ \A d \in Callbacks : pc[d] = "wake" => pc'[d] = "wake"
<1>1. CASE NewRequest(c)
  BY <1>1
  DEF NewRequest, PreSetInfo, PreCreateForward, PreCreateStrip, Request, Goto, TypeOK
<1>2. CASE PostCreate(c)
  BY <1>2 DEF PostCreate, Return, Goto, TypeOK
<1>3. CASE \/ StageNoName(c) \/ StageForward(c) \/ StageNoSid(c) \/ StageQueueFull(c)
           \/ StagePrepareFail(c) \/ StageRenameFail(c)
  BY <1>3
  DEF StageNoName, StageForward, StageNoSid, StageQueueFull, StagePrepareFail, StageRenameFail,
      FailDelete, Return, Goto, StageUnchanged, TypeOK
<1>4. CASE StageReserve(c) \/ StagePrepare(c) \/ StageRename(c)
  BY <1>4 DEF StageReserve, StagePrepare, StageRename, Goto, StageUnchanged, TypeOK
<1>5. CASE QueueNotifyEnter(c) \/ QueueNotifySnap(c) \/ QueueNotifyGiveUp(c)
  BY <1>5
  DEF QueueNotifyEnter, QueueNotifySnap, QueueNotifyGiveUp, Drop, Advance, Return, Goto, StageUnchanged, TypeOK
<1>6. CASE QueueNotifyInsert(c)
  BY <1>6 DEF QueueNotifyInsert, Goto, TypeOK
<1> QED
  BY <1>1, <1>2, <1>3, <1>4, <1>5, <1>6 DEF Callback

LEMMA WakeCallback ==
  ASSUME TypeOK, NoLostWakeup, NEW c \in Callbacks, NewRequest(c) \/ Callback(c)
  PROVE  NoLostWakeup'
<1>1. CASE QueueNotifyWake(c)
  BY <1>1 DEF QueueNotifyWake, WakeSender, NoLostWakeup
<1>2. CASE QueueNotifyInsert(c)
  BY <1>2 DEF QueueNotifyInsert, Goto, TypeOK, NoLostWakeup
<1>3. CASE ~QueueNotifyWake(c) /\ ~QueueNotifyInsert(c)
  <2>1. UNCHANGED <<NotifyQueue, tpc>>
    BY <1>3, CallbackQuiet DEF channelVars, sendVars
  <2> QED
    BY <1>3, <2>1, WakeOther DEF NoLostWakeup
<1> QED
  BY <1>1, <1>2, <1>3

LEMMA WakeStep == TypeOK /\ NoLostWakeup /\ [Next]_vars => NoLostWakeup'
<1> SUFFICES ASSUME TypeOK, NoLostWakeup, [Next]_vars PROVE NoLostWakeup'
  OBVIOUS
<1>1. CASE SendThread
  BY <1>1
  DEF SendThread, SendThreadHead, SendThreadWoken, SendThreadEmpty, SendThreadDequeue, SendThreadSent,
      SendThreadClear, SendThreadUnchanged, cbVars, NoLostWakeup
<1>2. ASSUME NEW p \in Ports, PortConnect(p) \/ ClientGone(p) \/ PortDisconnect(p)
      PROVE  NoLostWakeup'
  BY <1>2 DEF PortConnect, ClientGone, PortDisconnect, Drain, cbVars, queueVars, sendVars, NoLostWakeup
<1>3. CASE Unload
  BY <1>3
  DEF Unload, UnloadBegin, UnloadSignal, UnloadJoin, UnloadFlush, UnloadUnregister, UnloadUnchanged,
      WakeSender, cbVars, sendVars, NoLostWakeup
<1>4. CASE UNCHANGED vars
  BY <1>4 DEF vars, cbVars, queueVars, sendVars, NoLostWakeup
<1> QED
  BY <1>1, <1>2, <1>3, <1>4, WakeCallback DEF Next

\* A queued node never waits for an event that nobody is going to set.
THEOREM WakeupKept == Spec => []NoLostWakeup
<1>1. Init => NoLostWakeup
  BY DEF Init, NoLostWakeup
<1> QED
  BY TypeCorrect, <1>1, WakeStep, PTL DEF Spec

-----------------------------------------------------------------------------
(* Where files go.                                                         *)

LEMMA KeptByRequest ==
  ASSUME TypeOK, NEW c \in Callbacks, NewRequest(c), NEW f \in Protected \ Excluded,
         loc[f] = "share", loc'[f] = "gone"
  PROVE  faults' # faults /\ requests' # requests
<1>1. PICK g \in Files : PreCreateForward(c, g)
  BY DEF NewRequest, PreSetInfo, PreCreateStrip
<1>2. g = f
  BY <1>1 DEF PreCreateForward, TypeOK
<1>3. Fails
  BY <1>1, <1>2 DEF PreCreateForward, ToStage, IsProtected
<1> QED
  BY <1>1, <1>3 DEF PreCreateForward, Request, Fails, TypeOK

LEMMA KeptByCallback ==
  ASSUME TypeOK, NEW c \in Callbacks, Callback(c), NEW f \in Protected \ Excluded,
         FailClosed, loc[f] = "share", loc'[f] = "gone"
  PROVE  faults' # faults /\ f \in LongName
<1>1. CASE StageForward(c)
  <2>1. file[c] = f
    BY <1>1 DEF StageForward, Forward, TypeOK
  <2>2. f \in LongName /\ Fails
    BY <1>1, <2>1 DEF StageForward, ToStage, IsProtected
  <2> QED
    BY <2>2 DEF Fails, TypeOK
<1>2. CASE StageNoName(c) \/ StageNoSid(c) \/ StageQueueFull(c) \/ StagePrepareFail(c) \/ StageRenameFail(c)
  BY <1>2
  DEF StageNoName, StageNoSid, StageQueueFull, StagePrepareFail, StageRenameFail, FailDelete
<1>3. CASE PostCreate(c) \/ StageReserve(c) \/ StagePrepare(c)
  BY <1>3 DEF PostCreate, StageReserve, StagePrepare, fsVars
<1>5. CASE StageRename(c)
  BY <1>5 DEF StageRename, TypeOK
<1>4. CASE QueueNotifyEnter(c) \/ QueueNotifySnap(c) \/ QueueNotifyInsert(c)
           \/ QueueNotifyGiveUp(c) \/ QueueNotifyWake(c)
  BY <1>4
  DEF QueueNotifyEnter, QueueNotifySnap, QueueNotifyInsert, QueueNotifyGiveUp, QueueNotifyWake, Drop,
      Advance, fsVars
<1> QED
  BY <1>1, <1>2, <1>3, <1>4, <1>5 DEF Callback

\* RB-04: under fail-closed a protected file is destroyed only by a
\* delete-on-close open whose name cannot be had or a long path that cannot be
\* upcased; a full queue, a failed rename or a missing SID never costs a file.
THEOREM FailClosedKeeps == Spec => ProtectedFileKept
<1> DEFINE Kept == \A f \in Protected \ Excluded :
             (FailClosed /\ loc[f] = "share" /\ loc'[f] = "gone") =>
               faults' # faults /\ (requests' # requests \/ f \in LongName)
<1>1. TypeOK /\ [Next]_vars => [Kept]_vars
  <2> SUFFICES ASSUME TypeOK, Next, NEW f \in Protected \ Excluded,
                      FailClosed, loc[f] = "share", loc'[f] = "gone"
               PROVE  faults' # faults /\ (requests' # requests \/ f \in LongName)
    OBVIOUS
  <2> QED
    BY SystemQuiet, KeptByRequest, KeptByCallback DEF Next, fsVars
<1> QED
  BY TypeCorrect, <1>1, PTL DEF Spec, ProtectedFileKept

\* Outside a callback no request is being served, so no stale one is either.
IdleIsClean == \A c \in Callbacks : pc[c] = "idle" => via[c] = "setinfo"

LEMMA IdleIsCleanStep == TypeOK /\ IdleIsClean /\ [Next]_vars => IdleIsClean'
<1> SUFFICES ASSUME TypeOK, IdleIsClean, [Next]_vars PROVE IdleIsClean'
  OBVIOUS
<1>1. ASSUME UNCHANGED cbVars PROVE IdleIsClean'
  BY <1>1 DEF cbVars, IdleIsClean
<1>2. ASSUME NEW c \in Callbacks, NewRequest(c) PROVE IdleIsClean'
  BY <1>2
  DEF NewRequest, PreSetInfo, PreCreateForward, PreCreateStrip, Request, Goto, TypeOK, IdleIsClean
<1>3. ASSUME NEW c \in Callbacks, Callback(c) PROVE IdleIsClean'
  <2>1. ASSUME Return(c) PROVE IdleIsClean'
    BY <2>1 DEF Return, Goto, TypeOK, IdleIsClean
  <2>2. ASSUME NEW label, label # "idle", Goto(c, label), UNCHANGED via PROVE IdleIsClean'
    BY <2>2 DEF Goto, TypeOK, IdleIsClean
  <2>3. CASE \/ StageNoName(c) \/ StageForward(c) \/ StageNoSid(c) \/ StageQueueFull(c)
             \/ StagePrepareFail(c) \/ StageRenameFail(c) \/ QueueNotifyWake(c)
    BY <2>1, <2>3
    DEF StageNoName, StageForward, StageNoSid, StageQueueFull, StagePrepareFail, StageRenameFail,
        FailDelete, QueueNotifyWake
  <2>4. CASE \/ PostCreate(c) \/ StageReserve(c) \/ StagePrepare(c) \/ StageRename(c)
    BY <2>1, <2>2, <2>4 DEF PostCreate, StageReserve, StagePrepare, StageRename
  <2>5. CASE \/ QueueNotifyEnter(c) \/ QueueNotifySnap(c) \/ QueueNotifyInsert(c) \/ QueueNotifyGiveUp(c)
    BY <2>1, <2>2, <2>5
    DEF QueueNotifyEnter, QueueNotifySnap, QueueNotifyInsert, QueueNotifyGiveUp, Drop, Advance
  <2> QED
    BY <1>3, <2>3, <2>4, <2>5 DEF Callback
<1> QED
  BY <1>1, <1>2, <1>3, SystemQuiet DEF Next, vars

\* A callback serving a stripped open leaves its file where it is when it ends.
LEMMA StrippedCallback ==
  ASSUME TypeOK, NEW c \in Callbacks, Callback(c), via[c] = "doc", pc'[c] = "idle"
  PROVE  loc'[file[c]] = loc[file[c]]
<1>1. ASSUME Forward(c) \/ UNCHANGED loc PROVE loc'[file[c]] = loc[file[c]]
  BY <1>1 DEF Forward
<1>2. CASE \/ StageNoName(c) \/ StageForward(c) \/ StageNoSid(c) \/ StageQueueFull(c)
           \/ StagePrepareFail(c) \/ StageRenameFail(c)
  BY <1>1, <1>2
  DEF StageNoName, StageForward, StageNoSid, StageQueueFull, StagePrepareFail, StageRenameFail, FailDelete
<1>3. CASE PostCreate(c) \/ StageReserve(c) \/ StagePrepare(c)
  BY <1>1, <1>3 DEF PostCreate, StageReserve, StagePrepare, fsVars
<1>4. CASE StageRename(c)
  BY <1>4 DEF StageRename, Goto, TypeOK
<1>5. CASE QueueNotifyEnter(c) \/ QueueNotifySnap(c) \/ QueueNotifyInsert(c)
           \/ QueueNotifyGiveUp(c) \/ QueueNotifyWake(c)
  BY <1>1, <1>5
  DEF QueueNotifyEnter, QueueNotifySnap, QueueNotifyInsert, QueueNotifyGiveUp, QueueNotifyWake, Drop,
      Advance, fsVars
<1> QED
  BY <1>2, <1>3, <1>4, <1>5 DEF Callback

\* A step of one callback does not move another.
LEMMA OthersStay ==
  ASSUME TypeOK, NEW c \in Callbacks, NEW d \in Callbacks, c # d, NewRequest(d) \/ Callback(d)
  PROVE  pc'[c] = pc[c]
<1>1. ASSUME NEW label, Goto(d, label) PROVE pc'[c] = pc[c]
  BY <1>1 DEF Goto, TypeOK
<1>2. CASE NewRequest(d)
  BY <1>1, <1>2 DEF NewRequest, PreSetInfo, PreCreateForward, PreCreateStrip
<1>3. CASE PostCreate(d) \/ StageReserve(d) \/ StagePrepare(d) \/ StageRename(d)
  BY <1>1, <1>3 DEF PostCreate, StageReserve, StagePrepare, StageRename, Return
<1>4. CASE \/ StageNoName(d) \/ StageForward(d) \/ StageNoSid(d) \/ StageQueueFull(d)
           \/ StagePrepareFail(d) \/ StageRenameFail(d)
  BY <1>1, <1>4
  DEF StageNoName, StageForward, StageNoSid, StageQueueFull, StagePrepareFail, StageRenameFail,
      FailDelete, Return
<1>5. CASE QueueNotifyEnter(d) \/ QueueNotifySnap(d) \/ QueueNotifyInsert(d)
           \/ QueueNotifyGiveUp(d) \/ QueueNotifyWake(d)
  BY <1>1, <1>5
  DEF QueueNotifyEnter, QueueNotifySnap, QueueNotifyInsert, QueueNotifyGiveUp, QueueNotifyWake, Drop,
      Advance, Return
<1> QED
  BY <1>2, <1>3, <1>4, <1>5 DEF Callback

\* RB-33: once RbfPreCreate stripped FILE_DELETE_ON_CLOSE, no outcome of the
\* staging destroys the file, the fail-open policy included.
THEOREM StrippedKeeps == Spec => StrippedFileKept
<1> DEFINE Kept == \A c \in Callbacks :
             (via[c] = "doc" /\ pc'[c] = "idle") => loc'[file[c]] = loc[file[c]]
<1>1. Init => IdleIsClean
  BY DEF Init, IdleIsClean
<1>2. Spec => []IdleIsClean
  BY TypeCorrect, <1>1, IdleIsCleanStep, PTL DEF Spec
<1>3. TypeOK /\ IdleIsClean /\ [Next]_vars => [Kept]_vars
  <2> SUFFICES ASSUME TypeOK, IdleIsClean, Next, NEW c \in Callbacks, via[c] = "doc", pc'[c] = "idle"
               PROVE  loc'[file[c]] = loc[file[c]]
    OBVIOUS
  <2>1. pc[c] # "idle"
    BY DEF IdleIsClean
  <2>2. NewRequest(c) => pc[c] = "idle"
    BY DEF NewRequest, PreSetInfo, PreCreateForward, PreCreateStrip, Request
  <2> QED
    BY <2>1, <2>2, OthersStay, StrippedCallback, SystemQuiet DEF Next, cbVars
<1> QED
  BY TypeCorrect, <1>2, <1>3, PTL DEF Spec, StrippedFileKept
=============================================================================
