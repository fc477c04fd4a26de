---------------------------- MODULE RbMinifltGate ----------------------------
(***************************************************************************)
(* More theorems about RbMiniflt, again for every value of its constants:  *)
(* every rename is accounted for, nothing outlives the unload, and the     *)
(* driver implements RecycleGate.                                          *)
(***************************************************************************)
EXTENDS RbMinifltProofs

-----------------------------------------------------------------------------
(* The send thread.  G.Sending and the node in flight follow its place in  *)
(* the code, and it does not come back once RbfStopSendThread saw it exit. *)

SenderInv ==
  /\ Sending <=> tpc \in {"sending", "sent"}
  /\ IF tpc = "sending" THEN \E n \in Node : inflight = {n} ELSE inflight = {}

\* What RbfUnload has done so far stays done.
UnloadInv ==
  /\ upc # "loaded" => ~QueueActive
  /\ upc \in {"flushing", "closed", "done"} => tpc = "exited"
  /\ upc = "done" => /\ \A c \in Callbacks : pc[c] = "idle"
                     /\ \A p \in Ports : conn[p] = "free"

\* Steps of a callback leave the send thread and the unload alone.
LEMMA CallbackLeavesSystem ==
  ASSUME NEW c \in Callbacks, NewRequest(c) \/ Callback(c)
  PROVE  UNCHANGED <<FailClosed, portVars, sendVars, unloadVars, delivered, uncounted>>
<1>1. CASE NewRequest(c)
  BY <1>1 DEF NewRequest, PreSetInfo, PreCreateForward, PreCreateStrip, Request, CallbackUnchanged
<1>2. CASE PostCreate(c) \/ QueueNotifyWake(c) \/ QueueNotifyInsert(c)
  BY <1>2 DEF PostCreate, QueueNotifyWake, QueueNotifyInsert, CallbackUnchanged
<1>3. CASE \/ StageNoName(c) \/ StageForward(c) \/ StageNoSid(c)
           \/ StageReserve(c) \/ StageQueueFull(c)
           \/ StagePrepare(c) \/ StagePrepareFail(c)
           \/ StageRename(c) \/ StageRenameFail(c)
  BY <1>3
  DEF StageNoName, StageForward, StageNoSid, StageReserve, StageQueueFull, StagePrepare, StagePrepareFail,
      StageRename, StageRenameFail, StageUnchanged, CallbackUnchanged
<1>4. CASE QueueNotifyEnter(c) \/ QueueNotifySnap(c) \/ QueueNotifyGiveUp(c)
  BY <1>4
  DEF QueueNotifyEnter, QueueNotifySnap, QueueNotifyGiveUp, Drop, Advance, StageUnchanged, CallbackUnchanged
<1> QED
  BY <1>1, <1>2, <1>3, <1>4 DEF Callback

\* A callback that takes a step is not idle, or the driver is still loaded.
LEMMA CallbackIsBusy ==
  ASSUME NEW c \in Callbacks, NewRequest(c) \/ Callback(c)
  PROVE  pc[c] # "idle" \/ upc # "done"
<1>1. CASE NewRequest(c)
  BY <1>1 DEF NewRequest, PreSetInfo, PreCreateForward, PreCreateStrip, Request
<1>2. CASE Callback(c)
  BY <1>2
  DEF Callback, PostCreate, StageNoName, StageForward, StageNoSid, StageReserve, StageQueueFull,
      StagePrepare, StagePrepareFail, StageRename, StageRenameFail, QueueNotifyEnter, QueueNotifySnap,
      QueueNotifyInsert, QueueNotifyGiveUp, QueueNotifyWake
<1> QED
  BY <1>1, <1>2

LEMMA SenderInvStep == TypeOK /\ SenderInv /\ [Next]_vars => SenderInv'
<1> SUFFICES ASSUME TypeOK, SenderInv, [Next]_vars PROVE SenderInv'
  OBVIOUS
<1>1. ASSUME UNCHANGED sendVars PROVE SenderInv'
  BY <1>1 DEF sendVars, SenderInv
<1>2. CASE SendThreadDequeue
  <2>1. Head(NotifyQueue) \in Node
    BY <1>2 DEF SendThreadDequeue, TypeOK
  <2> QED
    BY <1>2, <2>1 DEF SendThreadDequeue, SenderInv
<1>3. CASE SendThreadHead \/ SendThreadWoken \/ SendThreadEmpty \/ SendThreadClear
  BY <1>3 DEF SendThreadHead, SendThreadWoken, SendThreadEmpty, SendThreadClear, SenderInv
<1>4. CASE SendThreadSent
  BY <1>4 DEF SendThreadSent, SenderInv
<1>5. ASSUME NEW p \in Ports, PortConnect(p) \/ ClientGone(p) \/ PortDisconnect(p) PROVE SenderInv'
  BY <1>1, <1>5 DEF PortConnect, ClientGone, PortDisconnect
<1>6. CASE Unload
  BY <1>1, <1>6
  DEF Unload, UnloadBegin, UnloadSignal, UnloadJoin, UnloadFlush, UnloadUnregister, UnloadUnchanged
<1>7. CASE UNCHANGED vars
  BY <1>1, <1>7 DEF vars
<1> QED
  BY <1>1, <1>2, <1>3, <1>4, <1>5, <1>6, <1>7, CallbackLeavesSystem DEF Next, SendThread

LEMMA UnloadInvStep == TypeOK /\ UnloadInv /\ [Next]_vars => UnloadInv'
<1> SUFFICES ASSUME TypeOK, UnloadInv, [Next]_vars PROVE UnloadInv'
  OBVIOUS
<1>1. ASSUME NEW c \in Callbacks, NewRequest(c) \/ Callback(c) PROVE UnloadInv'
  <2>1. upc # "done" /\ UNCHANGED <<upc, QueueActive, tpc, conn>>
    BY <1>1, CallbackLeavesSystem, CallbackIsBusy DEF UnloadInv, sendVars, unloadVars, portVars
  <2> QED
    BY <2>1 DEF UnloadInv
<1>2. CASE SendThread
  <2>1. tpc # "exited" /\ UNCHANGED <<upc, QueueActive, pc, conn>>
    BY <1>2
    DEF SendThread, SendThreadHead, SendThreadWoken, SendThreadEmpty, SendThreadDequeue, SendThreadSent,
        SendThreadClear, SendThreadUnchanged, unloadVars, portVars, cbVars
  <2> QED
    BY <2>1 DEF UnloadInv
<1>3. ASSUME NEW p \in Ports, PortConnect(p) \/ ClientGone(p) \/ PortDisconnect(p) PROVE UnloadInv'
  <2>1. upc # "done" \/ conn[p] # "free"
    BY <1>3 DEF PortConnect, ClientGone, PortDisconnect
  <2>2. upc # "done" /\ UNCHANGED <<upc, QueueActive, tpc, pc>>
    BY <1>3, <2>1 DEF PortConnect, ClientGone, PortDisconnect, UnloadInv, sendVars, unloadVars, cbVars
  <2> QED
    BY <2>2 DEF UnloadInv
<1>4. CASE Unload
  <2>1. UNCHANGED <<pc, conn, tpc>>
    BY <1>4
    DEF Unload, UnloadBegin, UnloadSignal, UnloadJoin, UnloadFlush, UnloadUnregister, UnloadUnchanged,
        cbVars, portVars, sendVars
  <2> QED
    BY <1>4, <2>1
    DEF Unload, UnloadBegin, UnloadSignal, UnloadJoin, UnloadFlush, UnloadUnregister, UnloadInv
<1>5. CASE UNCHANGED vars
  BY <1>5 DEF vars, cbVars, portVars, sendVars, unloadVars, UnloadInv
<1> QED
  BY <1>1, <1>2, <1>3, <1>4, <1>5 DEF Next

LEMMA SystemInvariants == Spec => [](SenderInv /\ UnloadInv /\ PortInv)
<1>1. Init => SenderInv /\ UnloadInv
  BY DEF Init, SenderInv, UnloadInv
<1> QED
  BY TypeCorrect, <1>1, PortInvInit, SenderInvStep, UnloadInvStep, PortInvStep, PTL DEF Spec

\* RbfUnload leaves no thread, no node, no slot and no port behind.  A callback
\* may insert after RbfFlushQueue; its port must then still be open, and
\* FltUnregisterFilter ends only when RbfPortDisconnect has drained and
\* released it.
THEOREM UnloadClean == Spec => []UnloadLeavesNothing
<1>1. TypeOK /\ DepthExact /\ SlotsBalanced /\ SenderInv /\ UnloadInv /\ PortInv => UnloadLeavesNothing
  <2> SUFFICES ASSUME TypeOK, DepthExact, SlotsBalanced, SenderInv, UnloadInv, PortInv, upc = "done"
               PROVE  /\ tpc = "exited" /\ ~Sending /\ inflight = {}
                      /\ NotifyQueue = <<>> /\ QueueDepth = 0 /\ Reserved = 0
                      /\ ClientPort = NoPort
    BY DEF UnloadLeavesNothing
  <2>1. tpc = "exited" /\ ~Sending /\ inflight = {}
    BY DEF UnloadInv, SenderInv
  <2>2. ClientPort = NoPort
    BY DEF UnloadInv, PortInv, TypeOK
  <2>3. NotifyQueue = <<>>
    BY <2>2, QueuedPort, RbMinifltAssumption DEF PortInv
  <2>4. QueueDepth = 0
    BY <2>3 DEF DepthExact
  <2>5. Slots = {}
    BY DEF UnloadInv, Slots, HoldsSlot, Carrying
  <2>6. Reserved = 0
    BY <2>5, FS_EmptySet DEF SlotsBalanced, Slots
  <2> QED
    BY <2>1, <2>2, <2>3, <2>4, <2>6
<1> QED
  BY TypeCorrect, SlotsExact, SystemInvariants, <1>1, PTL

-----------------------------------------------------------------------------
(* Accounting for renames.  A rename is always in exactly one of seven      *)
(* places; every step moves it from one to another.                        *)

Tally(ok, sent, dropped, freed, carried, queued, flying) ==
  ok = sent + dropped + freed + carried + queued + flying

\* The transfers the driver makes keep the books balanced.
LEMMA Transfers ==
  ASSUME NEW ok \in Nat, NEW sent \in Nat, NEW dropped \in Nat, NEW freed \in Nat,
         NEW carried \in Nat, NEW queued \in Nat, NEW flying \in Nat,
         Tally(ok, sent, dropped, freed, carried, queued, flying)
  PROVE  /\ Tally(ok + 1, sent, dropped, freed, carried + 1, queued, flying)
         /\ Tally(ok, sent, dropped + 1, freed, carried - 1, queued, flying)
         /\ Tally(ok, sent, dropped, freed, carried - 1, queued + 1, flying)
         /\ Tally(ok, sent, dropped, freed, carried, queued - 1, flying + 1)
         /\ Tally(ok, sent + 1, dropped, freed, carried, queued, flying - 1)
         /\ Tally(ok, sent, dropped + 1, freed, carried, queued, flying - 1)
         /\ Tally(ok, sent, dropped, freed + queued, carried, 0, flying)
         /\ Tally(ok, sent, dropped, freed + 1, carried, queued - 1, flying)
  BY DEF Tally

Carriers == {c \in Callbacks : pc[c] \in Carrying}

Balanced ==
  Tally(Stats["RenameOk"], Stats["NotifySent"], Stats["NotifyDropped"], uncounted,
        Cardinality(Carriers), Len(NotifyQueue), Cardinality(inflight))

LEMMA CarriersFinite ==
  /\ IsFiniteSet(Carriers)
  /\ Cardinality(Carriers) \in Nat
  BY RbMinifltAssumption, FS_Subset, FS_CardinalityType DEF Carriers

LEMMA CarrierTaken ==
  ASSUME TypeOK, NEW c \in Callbacks, NEW label \in Carrying, Goto(c, label), pc[c] \notin Carrying
  PROVE  Cardinality(Carriers') = Cardinality(Carriers) + 1
<1>1. Carriers' = Carriers \cup {c} /\ c \notin Carriers
  BY DEF TypeOK, Goto, Carriers
<1> QED
  BY <1>1, CarriersFinite, FS_AddElement

LEMMA CarrierGiven ==
  ASSUME TypeOK, NEW c \in Callbacks, NEW label, label \notin Carrying, Goto(c, label), pc[c] \in Carrying
  PROVE  Cardinality(Carriers') = Cardinality(Carriers) - 1
<1>1. Carriers' = Carriers \ {c} /\ c \in Carriers
  BY DEF TypeOK, Goto, Carriers
<1> QED
  BY <1>1, CarriersFinite, FS_RemoveElement

LEMMA CarrierKept ==
  ASSUME TypeOK, NEW c \in Callbacks, NEW label, Goto(c, label), pc[c] \in Carrying <=> label \in Carrying
  PROVE  Carriers' = Carriers
  BY DEF TypeOK, Goto, Carriers

\* What counting does to one counter.
LEMMA CountOne ==
  ASSUME TypeOK, NEW S, Count(S), NEW k \in StatNames
  PROVE  Stats'[k] = IF k \in S THEN Stats[k] + 1 ELSE Stats[k]
  BY DEF Count

\* The quantities added up are numbers.
LEMMA Numbers ==
  ASSUME TypeOK, SenderInv
  PROVE  /\ Stats["RenameOk"] \in Nat /\ Stats["NotifySent"] \in Nat /\ Stats["NotifyDropped"] \in Nat
         /\ uncounted \in Nat /\ Len(NotifyQueue) \in Nat /\ Cardinality(inflight) \in Nat
         /\ Cardinality(Carriers) \in Nat
<1>1. Cardinality(inflight) \in Nat
  BY FS_Singleton, FS_EmptySet DEF SenderInv
<1> QED
  BY <1>1, CarriersFinite DEF TypeOK, StatNames

\* What the books become by each transfer.
LEMMA Booked ==
  ASSUME TypeOK, SenderInv, Balanced
  PROVE  LET ok == Stats["RenameOk"]     sent == Stats["NotifySent"]   dropped == Stats["NotifyDropped"]
             carried == Cardinality(Carriers)  queued == Len(NotifyQueue)  flying == Cardinality(inflight)
         IN  /\ Tally(ok + 1, sent, dropped, uncounted, carried + 1, queued, flying)
             /\ Tally(ok, sent, dropped + 1, uncounted, carried - 1, queued, flying)
             /\ Tally(ok, sent, dropped, uncounted, carried - 1, queued + 1, flying)
             /\ Tally(ok, sent, dropped, uncounted, carried, queued - 1, flying + 1)
             /\ Tally(ok, sent + 1, dropped, uncounted, carried, queued, flying - 1)
             /\ Tally(ok, sent, dropped + 1, uncounted, carried, queued, flying - 1)
             /\ Tally(ok, sent, dropped, uncounted + queued, carried, 0, flying)
             /\ Tally(ok, sent, dropped, uncounted + 1, carried, queued - 1, flying)
  BY Numbers, Transfers DEF Balanced

\* A step that moves no notification and counts nothing of one's fate.
LEMMA BooksUntouched ==
  ASSUME TypeOK, Balanced, UNCHANGED <<uncounted, NotifyQueue, inflight>>, Carriers' = Carriers,
         NEW S, Count(S) \/ UNCHANGED Stats, S \cap {"RenameOk", "NotifySent", "NotifyDropped"} = {}
  PROVE  Balanced'
<1>1. /\ Stats'["RenameOk"] = Stats["RenameOk"]
      /\ Stats'["NotifySent"] = Stats["NotifySent"]
      /\ Stats'["NotifyDropped"] = Stats["NotifyDropped"]
  BY CountOne DEF StatNames
<1> QED
  BY <1>1 DEF Balanced

\* Drop trades the carrier for a count.
LEMMA BooksDrop ==
  ASSUME TypeOK, SenderInv, Balanced, NEW c \in Callbacks, pc[c] \in Carrying, Drop(c)
  PROVE  Balanced'
<1>1. Cardinality(Carriers') = Cardinality(Carriers) - 1
  BY CarrierGiven DEF Drop, Return, Carrying
<1>2. /\ Stats'["RenameOk"] = Stats["RenameOk"]
      /\ Stats'["NotifySent"] = Stats["NotifySent"]
      /\ Stats'["NotifyDropped"] = Stats["NotifyDropped"] + 1
  BY CountOne DEF Drop, CountDrop, StatNames
<1>3. UNCHANGED <<uncounted, NotifyQueue, inflight>>
  BY DEF Drop, StageUnchanged, CallbackUnchanged, sendVars
<1> QED
  BY <1>1, <1>2, <1>3, Booked DEF Balanced

\* The places of RbfStageDelete at which it may end without a rename.
LEMMA BooksFailDelete ==
  ASSUME TypeOK, Balanced, NEW c \in Callbacks, pc[c] \notin Carrying, NEW S,
         FailDelete(c, S), StageUnchanged, S \cap {"RenameOk", "NotifySent", "NotifyDropped"} = {}
  PROVE  Balanced'
<1> DEFINE counted == S \cup (IF FailClosed THEN {"DeleteDenied"} ELSE {})
<1>1. Carriers' = Carriers
  BY CarrierKept DEF FailDelete, Return, Carrying
<1>2. Count(counted) /\ counted \cap {"RenameOk", "NotifySent", "NotifyDropped"} = {}
  BY DEF FailDelete
<1>3. UNCHANGED <<uncounted, NotifyQueue, inflight>>
  BY DEF StageUnchanged, CallbackUnchanged, sendVars
<1> HIDE DEF counted
<1> QED
  BY <1>1, <1>2, <1>3, BooksUntouched

LEMMA BooksStage ==
  ASSUME TypeOK, SenderInv, Balanced, NEW c \in Callbacks, NewRequest(c) \/ Callback(c),
         ~QueueNotifyInsert(c)
  PROVE  Balanced'
<1>0. UNCHANGED <<uncounted, NotifyQueue, inflight>>
  BY CallbackQuiet, CallbackLeavesSystem DEF channelVars, sendVars
<1>1. CASE NewRequest(c)
  <2>1. UNCHANGED Stats /\ (UNCHANGED pc \/ \E l \in {"stage", "create"} : Goto(c, l)) /\ pc[c] = "idle"
    BY <1>1 DEF NewRequest, PreSetInfo, PreCreateForward, PreCreateStrip, Request
  <2>2. Carriers' = Carriers
    BY <2>1, CarrierKept DEF Carriers, Carrying
  <2> QED
    BY <1>0, <2>1, <2>2 DEF Balanced
<1>2. CASE PostCreate(c) \/ QueueNotifyWake(c) \/ StageForward(c) \/ StagePrepare(c)
  <2>1. /\ UNCHANGED Stats
        /\ pc[c] \notin Carrying
        /\ \E l \in {"idle", "stage", "rename"} : Goto(c, l)
    BY <1>2 DEF PostCreate, QueueNotifyWake, StageForward, StagePrepare, Return, Carrying
  <2>2. Carriers' = Carriers
    BY <2>1, CarrierKept DEF Carrying
  <2> QED
    BY <1>0, <2>1, <2>2 DEF Balanced
<1>3. CASE StageNoName(c) \/ StageNoSid(c) \/ StageQueueFull(c) \/ StagePrepareFail(c) \/ StageRenameFail(c)
  BY <1>3, BooksFailDelete
  DEF StageNoName, StageNoSid, StageQueueFull, StagePrepareFail, StageRenameFail, Carrying
<1>4. CASE StageReserve(c)
  <2>1. Carriers' = Carriers
    BY <1>4, CarrierKept DEF StageReserve, Carrying
  <2> QED
    BY <1>0, <1>4, <2>1, BooksUntouched DEF StageReserve
<1>5. CASE StageRename(c)
  <2>1. Cardinality(Carriers') = Cardinality(Carriers) + 1
    BY <1>5, CarrierTaken DEF StageRename, Carrying
  <2>2. /\ Stats'["RenameOk"] = Stats["RenameOk"] + 1
        /\ Stats'["NotifySent"] = Stats["NotifySent"]
        /\ Stats'["NotifyDropped"] = Stats["NotifyDropped"]
    BY <1>5, CountOne DEF StageRename, StatNames
  <2> QED
    BY <1>0, <2>1, <2>2, Booked DEF Balanced
<1>6. CASE QueueNotifyEnter(c) \/ QueueNotifySnap(c) \/ QueueNotifyGiveUp(c)
  <2>1. pc[c] \in Carrying
    BY <1>6 DEF QueueNotifyEnter, QueueNotifySnap, QueueNotifyGiveUp, Carrying
  <2>2. ASSUME NEW l \in {"snap", "insert"}, Advance(c, l) PROVE Balanced'
    <3>1. Carriers' = Carriers
      BY <2>1, <2>2, CarrierKept DEF Advance, Carrying
    <3> QED
      BY <1>0, <2>2, <3>1 DEF Advance, Balanced
  <2> QED
    BY <1>6, <2>1, <2>2, BooksDrop DEF QueueNotifyEnter, QueueNotifySnap, QueueNotifyGiveUp
<1> QED
  BY <1>1, <1>2, <1>3, <1>4, <1>5, <1>6 DEF Callback

LEMMA BooksInsert ==
  ASSUME TypeOK, SenderInv, Balanced, NEW c \in Callbacks, QueueNotifyInsert(c)
  PROVE  Balanced'
<1>1. Cardinality(Carriers') = Cardinality(Carriers) - 1
  BY CarrierGiven DEF QueueNotifyInsert, Carrying
<1>2. Len(NotifyQueue') = Len(NotifyQueue) + 1
  BY DEF QueueNotifyInsert, TypeOK
<1>3. UNCHANGED <<uncounted, inflight, Stats>>
  BY DEF QueueNotifyInsert, CallbackUnchanged, sendVars
<1> QED
  BY <1>1, <1>2, <1>3, Booked DEF Balanced

\* What one node less, and one more in flight, make of the two lengths.
LEMMA Lengths ==
  ASSUME TypeOK, SenderInv
  PROVE  /\ NotifyQueue # <<>> => Len(Tail(NotifyQueue)) = Len(NotifyQueue) - 1
         /\ Len(<<>>) = 0
         /\ \A n : Cardinality({n}) = 1
         /\ Cardinality({}) = 0
         /\ Cardinality(inflight) = IF tpc = "sending" THEN 1 ELSE 0
<1>1. \A n : Cardinality({n}) = 1
  BY FS_Singleton
<1>2. Cardinality({}) = 0
  BY FS_EmptySet
<1>3. NotifyQueue # <<>> => Len(Tail(NotifyQueue)) = Len(NotifyQueue) - 1
  BY DEF TypeOK
<1>4. Cardinality(inflight) = IF tpc = "sending" THEN 1 ELSE 0
  BY <1>1, <1>2 DEF SenderInv
<1> QED
  BY <1>1, <1>2, <1>3, <1>4

LEMMA BooksSendThread ==
  ASSUME TypeOK, SenderInv, Balanced, SendThread
  PROVE  Balanced'
<1>0. UNCHANGED <<uncounted, pc>> /\ Carriers' = Carriers
  <2>1. UNCHANGED <<uncounted, pc>>
    BY DEF SendThread, SendThreadHead, SendThreadWoken, SendThreadEmpty, SendThreadDequeue, SendThreadSent,
        SendThreadClear, SendThreadUnchanged, cbVars
  <2> QED
    BY <2>1 DEF Carriers
<1>1. CASE SendThreadDequeue
  <2>1. Len(NotifyQueue') = Len(NotifyQueue) - 1
    BY <1>1, Lengths DEF SendThreadDequeue
  <2>3. Cardinality(inflight') = Cardinality(inflight) + 1
    <3>1. Cardinality(inflight) = 0
      BY <1>1, Lengths DEF SendThreadDequeue
    <3>2. PICK n : inflight' = {n}
      BY <1>1 DEF SendThreadDequeue
    <3>3. Cardinality({n}) = 1
      BY FS_Singleton
    <3> QED
      BY <3>1, <3>2, <3>3
  <2>2. UNCHANGED Stats
    BY <1>1 DEF SendThreadDequeue
  <2> QED
    BY <1>0, <2>1, <2>2, <2>3, Booked DEF Balanced
<1>2. CASE SendThreadSent
  <2>1. /\ UNCHANGED NotifyQueue
        /\ Cardinality(inflight') = Cardinality(inflight) - 1
    BY <1>2, Lengths DEF SendThreadSent
  <2>2. Stats'["RenameOk"] = Stats["RenameOk"]
    BY <1>2, CountOne DEF SendThreadSent, CountDrop, StatNames
  <2>3. CASE Count({"NotifySent"})
    <3>1. /\ Stats'["NotifySent"] = Stats["NotifySent"] + 1
          /\ Stats'["NotifyDropped"] = Stats["NotifyDropped"]
      BY <2>3, CountOne DEF StatNames
    <3> QED
      BY <1>0, <2>1, <2>2, <3>1, Booked DEF Balanced
  <2>4. CASE CountDrop
    <3>1. /\ Stats'["NotifySent"] = Stats["NotifySent"]
          /\ Stats'["NotifyDropped"] = Stats["NotifyDropped"] + 1
      BY <2>4, CountOne DEF CountDrop, StatNames
    <3> QED
      BY <1>0, <2>1, <2>2, <3>1, Booked DEF Balanced
  <2> QED
    BY <1>2, <2>3, <2>4 DEF SendThreadSent
<1>3. CASE SendThreadHead \/ SendThreadWoken \/ SendThreadEmpty \/ SendThreadClear
  <2>1. UNCHANGED <<NotifyQueue, inflight, Stats>>
    BY <1>3 DEF SendThreadHead, SendThreadWoken, SendThreadEmpty, SendThreadClear
  <2> QED
    BY <1>0, <2>1 DEF Balanced
<1> QED
  BY <1>1, <1>2, <1>3 DEF SendThread

LEMMA BooksPort ==
  ASSUME TypeOK, SenderInv, Balanced, NEW p \in Ports,
         PortConnect(p) \/ ClientGone(p) \/ PortDisconnect(p)
  PROVE  Balanced'
<1>0. UNCHANGED <<Stats, inflight, pc>> /\ Carriers' = Carriers
  <2>1. UNCHANGED <<Stats, inflight, pc>>
    BY DEF PortConnect, ClientGone, PortDisconnect, sendVars, cbVars
  <2> QED
    BY <2>1 DEF Carriers
<1>1. CASE PortConnect(p) \/ ClientGone(p)
  <2>1. UNCHANGED <<NotifyQueue, uncounted>>
    BY <1>1 DEF PortConnect, ClientGone, queueVars
  <2> QED
    BY <1>0, <2>1 DEF Balanced
<1>2. CASE PortDisconnect(p)
  <2>1. Len(NotifyQueue') = 0 /\ uncounted' = uncounted + Len(NotifyQueue)
    BY <1>2, Lengths DEF PortDisconnect, Drain
  <2> QED
    BY <1>0, <2>1, Booked DEF Balanced
<1> QED
  BY <1>1, <1>2

LEMMA BooksUnload ==
  ASSUME TypeOK, SenderInv, Balanced, Unload
  PROVE  Balanced'
<1>0. UNCHANGED <<Stats, inflight, pc>> /\ Carriers' = Carriers
  <2>1. UNCHANGED <<Stats, inflight, pc>>
    BY DEF Unload, UnloadBegin, UnloadSignal, UnloadJoin, UnloadFlush, UnloadUnregister, UnloadUnchanged,
           sendVars, cbVars
  <2> QED
    BY <2>1 DEF Carriers
<1>1. CASE UNCHANGED <<NotifyQueue, uncounted>>
  BY <1>0, <1>1 DEF Balanced
<1>2. CASE NotifyQueue # <<>> /\ NotifyQueue' = Tail(NotifyQueue) /\ uncounted' = uncounted + 1
  <2>1. Len(NotifyQueue') = Len(NotifyQueue) - 1
    BY <1>2, Lengths
  <2> QED
    BY <1>0, <1>2, <2>1, Booked DEF Balanced
<1> QED
  BY <1>1, <1>2 DEF Unload, UnloadBegin, UnloadSignal, UnloadJoin, UnloadFlush, UnloadUnregister

LEMMA BooksStep == TypeOK /\ SenderInv /\ Balanced /\ [Next]_vars => Balanced'
<1> SUFFICES ASSUME TypeOK, SenderInv, Balanced, [Next]_vars PROVE Balanced'
  OBVIOUS
<1>1. CASE UNCHANGED vars
  <2>1. Carriers' = Carriers /\ UNCHANGED <<Stats, uncounted, NotifyQueue, inflight>>
    BY <1>1 DEF vars, cbVars, queueVars, sendVars, Carriers
  <2> QED
    BY <2>1 DEF Balanced
<1> QED
  BY <1>1, BooksStage, BooksInsert, BooksSendThread, BooksPort, BooksUnload DEF Next

LEMMA BooksBalance == Spec => []Balanced
<1>1. Init => Balanced
  <2> SUFFICES ASSUME Init PROVE Balanced
    OBVIOUS
  <2>1. Carriers = {} /\ inflight = {} /\ NotifyQueue = <<>> /\ uncounted = 0
    BY DEF Init, Carriers, Carrying
  <2>2. Stats["RenameOk"] = 0 /\ Stats["NotifySent"] = 0 /\ Stats["NotifyDropped"] = 0
    BY DEF Init, StatNames
  <2>3. Cardinality(Carriers) = 0 /\ Cardinality(inflight) = 0 /\ Len(NotifyQueue) = 0
    BY <2>1, FS_EmptySet
  <2> QED
    BY <2>1, <2>2, <2>3 DEF Balanced, Tally
<1> QED
  BY TypeCorrect, SystemInvariants, <1>1, BooksStep, PTL DEF Spec

-----------------------------------------------------------------------------
(* Sequence numbers.  RbfBuildStorePath draws each number once, so at most  *)
(* one callback, node or message carries it.                               *)

Numbered == {"rename"} \cup Carrying

UsedSeqs ==
  {NotifyQueue[i].seq : i \in 1..Len(NotifyQueue)} \cup {n.seq : n \in inflight}
    \cup {m.seq : m \in delivered}

CallbackSeqs ==
  /\ \A c \in Callbacks : pc[c] \in Numbered => seq[c] \in 1..StageSeq /\ seq[c] \notin UsedSeqs
  /\ \A c, d \in Callbacks : pc[c] \in Numbered /\ pc[d] \in Numbered /\ c # d => seq[c] # seq[d]

ChannelSeqs ==
  /\ UsedSeqs \subseteq 1..StageSeq
  /\ \A i, j \in 1..Len(NotifyQueue) : i # j => NotifyQueue[i].seq # NotifyQueue[j].seq
  /\ \A i \in 1..Len(NotifyQueue) : \A n \in inflight : NotifyQueue[i].seq # n.seq

SeqInv == CallbackSeqs /\ ChannelSeqs

\* Moving one callback leaves the others' place, file and number alone.
OthersKeep(c) ==
  \A d \in Callbacks : d # c => pc'[d] = pc[d] /\ file'[d] = file[d] /\ seq'[d] = seq[d]

\* The four ways a step of a callback may treat its sequence number.
Leaves(c) ==
  pc'[c] \notin Numbered /\ StageSeq' \in {StageSeq, StageSeq + 1} /\ UNCHANGED NotifyQueue
Keeps(c) ==
  pc[c] \in Numbered /\ pc'[c] \in Carrying /\ UNCHANGED <<file, seq, StageSeq, NotifyQueue>>

LEMMA CallbackShape ==
  ASSUME TypeOK, NEW c \in Callbacks, NewRequest(c) \/ Callback(c)
  PROVE  /\ OthersKeep(c)
         /\ Leaves(c) \/ Keeps(c) \/ StagePrepare(c) \/ QueueNotifyInsert(c)
<1>1. ASSUME NEW l, NEW f, Goto(c, l), UNCHANGED seq, file' = [file EXCEPT ![c] = f]
      PROVE  OthersKeep(c) /\ pc'[c] = l
  BY <1>1 DEF TypeOK, Goto, OthersKeep
<1>0. ASSUME NEW l, Goto(c, l), UNCHANGED <<file, seq>>
      PROVE  OthersKeep(c) /\ pc'[c] = l
  BY <1>0 DEF TypeOK, Goto, OthersKeep
<1>2. ASSUME Return(c) PROVE OthersKeep(c) /\ pc'[c] = "idle"
  BY <1>2 DEF TypeOK, Return, Goto, OthersKeep
<1>3. "idle" \notin Numbered /\ "create" \notin Numbered /\ "stage" \notin Numbered
      /\ "prepare" \notin Numbered /\ "wake" \notin Numbered
  BY DEF Numbered, Carrying
<1>4. CASE NewRequest(c)
  <2>1. /\ UNCHANGED <<seq, StageSeq, NotifyQueue>>
        /\ \/ UNCHANGED <<pc, file>>
           \/ \E l \in {"stage", "create"}, f \in Files : Goto(c, l) /\ file' = [file EXCEPT ![c] = f]
        /\ pc[c] = "idle"
    BY <1>4 DEF NewRequest, PreSetInfo, PreCreateForward, PreCreateStrip, Request, queueVars
  <2>2. CASE UNCHANGED <<pc, file>>
    BY <1>3, <2>1, <2>2 DEF OthersKeep, Leaves
  <2> QED
    BY <1>1, <1>3, <2>1, <2>2 DEF Leaves
<1>5. CASE PostCreate(c) \/ StageReserve(c) \/ QueueNotifyWake(c)
  <2>1. /\ UNCHANGED <<StageSeq, NotifyQueue>>
        /\ \/ Return(c)
           \/ \E l \in {"stage", "prepare"} : Goto(c, l) /\ UNCHANGED <<file, seq>>
    BY <1>5 DEF PostCreate, StageReserve, QueueNotifyWake, StageUnchanged, queueVars
  <2> QED
    BY <1>0, <1>2, <1>3, <2>1 DEF Leaves
<1>6. CASE \/ StageNoName(c) \/ StageForward(c) \/ StageNoSid(c) \/ StageQueueFull(c)
           \/ StagePrepareFail(c) \/ StageRenameFail(c)
  <2>1. Return(c) /\ UNCHANGED NotifyQueue /\ StageSeq' \in {StageSeq, StageSeq + 1}
    BY <1>6
    DEF StageNoName, StageForward, StageNoSid, StageQueueFull, StagePrepareFail, StageRenameFail,
        FailDelete, StageUnchanged, NextSeq
  <2> QED
    BY <1>2, <1>3, <2>1 DEF Leaves
<1>7. CASE StagePrepare(c)
  BY <1>7 DEF StagePrepare, TypeOK, Goto, OthersKeep
<1>8. CASE StageRename(c)
  <2>1. Goto(c, "staged") /\ pc[c] = "rename" /\ UNCHANGED <<file, seq, StageSeq, NotifyQueue>>
    BY <1>8 DEF StageRename, StageUnchanged
  <2> QED
    BY <1>0, <2>1 DEF Keeps, Numbered, Carrying
<1>9. CASE QueueNotifyEnter(c) \/ QueueNotifySnap(c) \/ QueueNotifyGiveUp(c)
  <2>1. CASE Drop(c)
    <3>1. Return(c) /\ UNCHANGED <<NotifyQueue, StageSeq>>
      BY <2>1 DEF Drop, StageUnchanged
    <3> QED
      BY <1>2, <1>3, <3>1 DEF Leaves
  <2>2. ASSUME NEW l \in {"snap", "insert"}, Advance(c, l), pc[c] \in Carrying
        PROVE  OthersKeep(c) /\ Keeps(c)
    <3>1. Goto(c, l) /\ UNCHANGED <<file, seq, StageSeq, NotifyQueue>>
      BY <2>2 DEF Advance, StageUnchanged
    <3>2. pc'[c] = l /\ OthersKeep(c)
      BY <1>0, <3>1
    <3> QED
      BY <2>2, <3>1, <3>2 DEF Keeps, Numbered, Carrying
  <2> QED
    BY <1>9, <2>1, <2>2 DEF QueueNotifyEnter, QueueNotifySnap, QueueNotifyGiveUp, Carrying
<1>10. CASE QueueNotifyInsert(c)
  <2>1. Goto(c, "wake") /\ UNCHANGED <<file, seq>>
    BY <1>10 DEF QueueNotifyInsert
  <2> QED
    BY <1>0, <1>10, <2>1
<1> QED
  BY <1>4, <1>5, <1>6, <1>7, <1>8, <1>9, <1>10 DEF Callback

\* What the set of used numbers has in it.
LEMMA UsedSeq ==
  /\ \A i \in 1..Len(NotifyQueue) : NotifyQueue[i].seq \in UsedSeqs
  /\ \A n \in inflight : n.seq \in UsedSeqs
  /\ \A m \in delivered : m.seq \in UsedSeqs
  /\ \A s \in UsedSeqs : \/ \E i \in 1..Len(NotifyQueue) : s = NotifyQueue[i].seq
                         \/ \E n \in inflight : s = n.seq
                         \/ \E m \in delivered : s = m.seq
  BY DEF UsedSeqs

\* A callback that inserts gives its number to the queue.
LEMMA SeqInsert ==
  ASSUME TypeOK, SeqInv, NEW c \in Callbacks, QueueNotifyInsert(c), OthersKeep(c)
  PROVE  SeqInv'
<1>0. pc[c] = "insert" /\ pc'[c] = "wake" /\ UNCHANGED <<StageSeq, inflight, delivered>>
  BY DEF TypeOK, QueueNotifyInsert, Goto, CallbackUnchanged, sendVars
<1>1. seq[c] \in 1..StageSeq /\ seq[c] \notin UsedSeqs
  BY <1>0 DEF SeqInv, CallbackSeqs, Numbered, Carrying
<1> DEFINE n == [file |-> file[c], seq |-> seq[c], port |-> snap[c]]
<1>2. n \in Node /\ n.seq = seq[c] /\ NotifyQueue' = Append(NotifyQueue, n)
  BY <1>0 DEF QueueNotifyInsert, TypeOK, Node
<1> HIDE DEF n
<1>3. /\ NotifyQueue \in Seq(Node)
      /\ Len(NotifyQueue) \in Nat /\ Len(NotifyQueue') = Len(NotifyQueue) + 1
      /\ \A i \in 1..Len(NotifyQueue) : NotifyQueue'[i] = NotifyQueue[i]
      /\ NotifyQueue'[Len(NotifyQueue) + 1] = n
  BY <1>2 DEF TypeOK
<1>4. ASSUME NEW i \in 1..Len(NotifyQueue')
      PROVE  \/ i \in 1..Len(NotifyQueue) /\ NotifyQueue'[i].seq = NotifyQueue[i].seq
             \/ i = Len(NotifyQueue) + 1 /\ NotifyQueue'[i].seq = seq[c]
  BY <1>2, <1>3
<1>5. UsedSeqs' \subseteq UsedSeqs \cup {seq[c]}
  BY <1>0, <1>4, UsedSeq DEF UsedSeqs
<1>6. CallbackSeqs'
  <2>1. ASSUME NEW d \in Callbacks, pc'[d] \in Numbered
        PROVE  d # c /\ pc[d] \in Numbered /\ seq'[d] = seq[d]
    BY <1>0, <2>1 DEF OthersKeep, Numbered, Carrying
  <2>2. ASSUME NEW d \in Callbacks, pc'[d] \in Numbered
        PROVE  seq'[d] \in 1..StageSeq' /\ seq'[d] \notin UsedSeqs'
    BY <1>0, <1>5, <2>1, <2>2 DEF SeqInv, CallbackSeqs, Numbered, Carrying
  <2> QED
    BY <2>1, <2>2 DEF SeqInv, CallbackSeqs
<1>7. ChannelSeqs'
  <2>1. UsedSeqs' \subseteq 1..StageSeq'
    BY <1>0, <1>1, <1>5 DEF SeqInv, ChannelSeqs
  <2>2. ASSUME NEW i \in 1..Len(NotifyQueue'), NEW j \in 1..Len(NotifyQueue'), i # j
        PROVE  NotifyQueue'[i].seq # NotifyQueue'[j].seq
    <3>1. \A k \in 1..Len(NotifyQueue) : NotifyQueue[k].seq # seq[c]
      BY <1>1, UsedSeq
    <3> QED
      BY <1>4, <2>2, <3>1 DEF SeqInv, ChannelSeqs
  <2>3. ASSUME NEW i \in 1..Len(NotifyQueue'), NEW k \in inflight'
        PROVE  NotifyQueue'[i].seq # k.seq
    <3>1. k \in inflight /\ k.seq # seq[c]
      BY <1>0, <1>1, UsedSeq
    <3> QED
      BY <1>4, <3>1 DEF SeqInv, ChannelSeqs
  <2> QED
    BY <2>1, <2>2, <2>3 DEF ChannelSeqs
<1> QED
  BY <1>6, <1>7 DEF SeqInv

LEMMA SeqCallback ==
  ASSUME TypeOK, SeqInv, NEW c \in Callbacks, NewRequest(c) \/ Callback(c)
  PROVE  SeqInv'
<1>0. UNCHANGED <<inflight, delivered>> /\ OthersKeep(c) /\ StageSeq \in Nat
  BY CallbackLeavesSystem, CallbackShape DEF sendVars, TypeOK
<1>1. CASE QueueNotifyInsert(c)
  BY <1>0, <1>1, SeqInsert
<1>2. ASSUME UNCHANGED NotifyQueue PROVE UsedSeqs' = UsedSeqs
  BY <1>0, <1>2 DEF UsedSeqs
<1>3. ASSUME UNCHANGED NotifyQueue, StageSeq' \in {StageSeq, StageSeq + 1} PROVE ChannelSeqs'
  <2>1. UsedSeqs' \subseteq 1..StageSeq'
    <3>1. UsedSeqs \subseteq 1..StageSeq
      BY DEF SeqInv, ChannelSeqs
    <3>2. 1..StageSeq \subseteq 1..StageSeq'
      BY <1>0, <1>3
    <3> QED
      BY <1>2, <1>3, <3>1, <3>2
  <2> QED
    BY <1>0, <1>3, <2>1 DEF SeqInv, ChannelSeqs
<1>4. CASE Leaves(c)
  <2>1. ASSUME NEW d \in Callbacks, pc'[d] \in Numbered
        PROVE  d # c /\ pc[d] \in Numbered /\ seq'[d] = seq[d]
    BY <1>0, <1>4, <2>1 DEF OthersKeep, Leaves
  <2>2. CallbackSeqs'
    BY <1>0, <1>2, <1>4, <2>1 DEF Leaves, SeqInv, CallbackSeqs
  <2> QED
    BY <1>3, <1>4, <2>2 DEF Leaves, SeqInv
<1>5. CASE Keeps(c)
  <2>1. ASSUME NEW d \in Callbacks, pc'[d] \in Numbered
        PROVE  pc[d] \in Numbered
    BY <1>0, <1>5, <2>1 DEF OthersKeep, Keeps
  <2>2. CallbackSeqs'
    BY <1>2, <1>5, <2>1 DEF Keeps, SeqInv, CallbackSeqs
  <2> QED
    BY <1>3, <1>5, <2>2 DEF Keeps, SeqInv
<1>6. CASE StagePrepare(c)
  <2>1. seq'[c] = StageSeq + 1 /\ StageSeq' = StageSeq + 1 /\ UNCHANGED NotifyQueue
    BY <1>6 DEF StagePrepare, NextSeq, StageUnchanged, TypeOK
  <2>2. ASSUME NEW d \in Callbacks, pc'[d] \in Numbered, d # c
        PROVE  pc[d] \in Numbered /\ seq'[d] = seq[d] /\ seq[d] \in 1..StageSeq /\ seq[d] \notin UsedSeqs
    BY <1>0, <2>2 DEF OthersKeep, SeqInv, CallbackSeqs
  <2>3. StageSeq + 1 \notin UsedSeqs
    BY <1>0 DEF SeqInv, ChannelSeqs
  <2>4. ASSUME NEW d \in Callbacks, pc'[d] \in Numbered
        PROVE  seq'[d] \in 1..StageSeq' /\ seq'[d] \notin UsedSeqs'
    BY <1>0, <1>2, <2>1, <2>2, <2>3, <2>4
  <2>5. ASSUME NEW d \in Callbacks, NEW e \in Callbacks,
               pc'[d] \in Numbered, pc'[e] \in Numbered, d # e
        PROVE  seq'[d] # seq'[e]
    <3>1. CASE d # c /\ e # c
      BY <2>2, <2>5, <3>1 DEF SeqInv, CallbackSeqs
    <3>2. CASE d = c \/ e = c
      BY <1>0, <2>1, <2>2, <2>5, <3>2
    <3> QED
      BY <3>1, <3>2
  <2>6. CallbackSeqs'
    BY <2>4, <2>5 DEF CallbackSeqs
  <2> QED
    BY <1>3, <2>1, <2>6 DEF SeqInv
<1> QED
  BY <1>1, <1>4, <1>5, <1>6, CallbackShape

\* What is left of the queue when its head is taken.
LEMMA TailElements ==
  ASSUME TypeOK, NotifyQueue # <<>>
  PROVE  /\ 1 \in 1..Len(NotifyQueue) /\ Head(NotifyQueue) = NotifyQueue[1]
         /\ \A i \in 1..Len(Tail(NotifyQueue)) :
              i + 1 \in 1..Len(NotifyQueue) /\ Tail(NotifyQueue)[i] = NotifyQueue[i + 1]
         /\ \A i \in 1..Len(Tail(NotifyQueue)) : i \in Int /\ i + 1 # 1
  BY DEF TypeOK

\* Dropping nodes off the queue, or sending its head, uses no number again.
LEMMA SeqShrink ==
  ASSUME TypeOK, SeqInv, UNCHANGED <<pc, seq, StageSeq>>, UsedSeqs' \subseteq UsedSeqs,
         \/ NotifyQueue' = <<>>
         \/ UNCHANGED NotifyQueue
         \/ NotifyQueue # <<>> /\ NotifyQueue' = Tail(NotifyQueue),
         \A i \in 1..Len(NotifyQueue') : \A n \in inflight' : NotifyQueue'[i].seq # n.seq
  PROVE  SeqInv'
<1>1. CallbackSeqs'
  BY DEF SeqInv, CallbackSeqs
<1>2. \A i, j \in 1..Len(NotifyQueue') : i # j => NotifyQueue'[i].seq # NotifyQueue'[j].seq
  <2>1. CASE NotifyQueue' = <<>>
    BY <2>1
  <2>2. CASE UNCHANGED NotifyQueue
    BY <2>2 DEF SeqInv, ChannelSeqs
  <2>3. CASE NotifyQueue # <<>> /\ NotifyQueue' = Tail(NotifyQueue)
    <3> SUFFICES ASSUME NEW i \in 1..Len(NotifyQueue'), NEW j \in 1..Len(NotifyQueue'), i # j
                 PROVE  NotifyQueue'[i].seq # NotifyQueue'[j].seq
      OBVIOUS
    <3>1. /\ i + 1 \in 1..Len(NotifyQueue) /\ NotifyQueue'[i] = NotifyQueue[i + 1]
          /\ j + 1 \in 1..Len(NotifyQueue) /\ NotifyQueue'[j] = NotifyQueue[j + 1]
          /\ i \in Int /\ j \in Int
      BY <2>3, TailElements
    <3>2. i + 1 # j + 1
      BY <3>1
    <3> QED
      BY <3>1, <3>2 DEF SeqInv, ChannelSeqs
  <2> QED
    BY <2>1, <2>2, <2>3
<1>3. UsedSeqs' \subseteq 1..StageSeq'
  BY DEF SeqInv, ChannelSeqs
<1> QED
  BY <1>1, <1>2, <1>3 DEF SeqInv, ChannelSeqs

\* Every element of the shorter queue was one of the longer.
LEMMA QueueShrinks ==
  ASSUME TypeOK,
         \/ NotifyQueue' = <<>>
         \/ UNCHANGED NotifyQueue
         \/ NotifyQueue # <<>> /\ NotifyQueue' = Tail(NotifyQueue)
  PROVE  \A i \in 1..Len(NotifyQueue') : \E j \in 1..Len(NotifyQueue) : NotifyQueue'[i] = NotifyQueue[j]
<1>1. CASE NotifyQueue' = <<>>
  BY <1>1
<1>2. CASE UNCHANGED NotifyQueue
  BY <1>2
<1>3. CASE NotifyQueue # <<>> /\ NotifyQueue' = Tail(NotifyQueue)
  BY <1>3, TailElements
<1> QED
  BY <1>1, <1>2, <1>3

LEMMA SeqSend ==
  ASSUME TypeOK, SenderInv, SeqInv, SendThread
  PROVE  SeqInv'
<1>0. UNCHANGED <<pc, seq, StageSeq>>
  BY DEF SendThread, SendThreadHead, SendThreadWoken, SendThreadEmpty, SendThreadDequeue, SendThreadSent,
         SendThreadClear, SendThreadUnchanged, cbVars
<1>1. CASE SendThreadDequeue
  <2>1. /\ NotifyQueue # <<>> /\ NotifyQueue' = Tail(NotifyQueue)
        /\ inflight' = {NotifyQueue[1]} /\ UNCHANGED delivered
    BY <1>1, TailElements DEF SendThreadDequeue
  <2>2. UsedSeqs' \subseteq UsedSeqs
    <3>1. \A i \in 1..Len(NotifyQueue') : NotifyQueue'[i].seq \in UsedSeqs
      BY <2>1, QueueShrinks, UsedSeq
    <3>2. NotifyQueue[1].seq \in UsedSeqs
      BY <2>1, TailElements, UsedSeq
    <3> QED
      BY <2>1, <3>1, <3>2, UsedSeq DEF UsedSeqs
  <2>3. ASSUME NEW i \in 1..Len(NotifyQueue') PROVE NotifyQueue'[i].seq # NotifyQueue[1].seq
    <3>1. /\ i + 1 \in 1..Len(NotifyQueue) /\ NotifyQueue'[i] = NotifyQueue[i + 1] /\ i + 1 # 1
          /\ 1 \in 1..Len(NotifyQueue)
      BY <2>1, TailElements
    <3> QED
      BY <3>1 DEF SeqInv, ChannelSeqs
  <2> QED
    BY <1>0, <2>1, <2>2, <2>3, SeqShrink
<1>2. CASE SendThreadSent
  <2>1. UNCHANGED NotifyQueue /\ inflight' = {}
    BY <1>2 DEF SendThreadSent
  <2>2. \A m \in delivered' : m \in delivered \/ \E n \in inflight : m.seq = n.seq
    BY <1>2 DEF SendThreadSent
  <2>3. UsedSeqs' \subseteq UsedSeqs
    BY <2>1, <2>2, UsedSeq DEF UsedSeqs
  <2> QED
    BY <1>0, <2>1, <2>3, SeqShrink
<1>3. CASE SendThreadHead \/ SendThreadWoken \/ SendThreadEmpty \/ SendThreadClear
  <2>1. UNCHANGED <<NotifyQueue, inflight, delivered>>
    BY <1>3 DEF SendThreadHead, SendThreadWoken, SendThreadEmpty, SendThreadClear
  <2> QED
    BY <1>0, <2>1 DEF SeqInv, CallbackSeqs, ChannelSeqs, UsedSeqs
<1> QED
  BY <1>1, <1>2, <1>3 DEF SendThread

\* What the port and the unload do to a notification is to free it.
LEMMA SystemFrees ==
  ASSUME \/ \E p \in Ports : PortConnect(p) \/ ClientGone(p) \/ PortDisconnect(p)
         \/ Unload
  PROVE  /\ UNCHANGED <<loc, pc, file, seq, StageSeq, requests, inflight, delivered>>
         /\ \/ NotifyQueue' = <<>>
            \/ UNCHANGED NotifyQueue
            \/ NotifyQueue # <<>> /\ NotifyQueue' = Tail(NotifyQueue)
<1>1. CASE \E p \in Ports : PortConnect(p) \/ ClientGone(p) \/ PortDisconnect(p)
  BY <1>1 DEF PortConnect, ClientGone, PortDisconnect, Drain, fsVars, cbVars, sendVars, queueVars
<1>2. CASE Unload
  BY <1>2
  DEF Unload, UnloadBegin, UnloadSignal, UnloadJoin, UnloadFlush, UnloadUnregister, UnloadUnchanged,
      fsVars, cbVars, sendVars
<1> QED
  BY <1>1, <1>2

LEMMA SeqInvStep == TypeOK /\ SenderInv /\ SeqInv /\ [Next]_vars => SeqInv'
<1> SUFFICES ASSUME TypeOK, SenderInv, SeqInv, [Next]_vars PROVE SeqInv'
  OBVIOUS
<1>1. CASE \/ \E p \in Ports : PortConnect(p) \/ ClientGone(p) \/ PortDisconnect(p)
           \/ Unload
  <2>1. UNCHANGED <<pc, seq, StageSeq, inflight, delivered>>
    BY <1>1, SystemFrees
  <2>2. \A i \in 1..Len(NotifyQueue') : \E j \in 1..Len(NotifyQueue) : NotifyQueue'[i] = NotifyQueue[j]
    BY <1>1, SystemFrees, QueueShrinks
  <2>3. UsedSeqs' \subseteq UsedSeqs
    BY <2>1, <2>2 DEF UsedSeqs
  <2>4. \A i \in 1..Len(NotifyQueue') : \A n \in inflight' : NotifyQueue'[i].seq # n.seq
    BY <2>1, <2>2 DEF SeqInv, ChannelSeqs
  <2> QED
    BY <1>1, <2>1, <2>3, <2>4, SystemFrees, SeqShrink
<1>2. CASE UNCHANGED vars
  BY <1>2 DEF vars, cbVars, queueVars, sendVars, SeqInv, CallbackSeqs, ChannelSeqs, UsedSeqs
<1> QED
  BY <1>1, <1>2, SeqCallback, SeqSend DEF Next

-----------------------------------------------------------------------------
(* A delete draws at most one number, so the numbers fit into 1..MaxRequests. *)

Waiting == {c \in Callbacks : pc[c] \in {"create", "stage", "prepare"}}

SeqBound == StageSeq + Cardinality(Waiting) <= requests /\ requests <= MaxRequests

LEMMA WaitingFinite ==
  /\ IsFiniteSet(Waiting)
  /\ Cardinality(Waiting) \in Nat
  BY RbMinifltAssumption, FS_Subset, FS_CardinalityType DEF Waiting

\* How the waiting callbacks change when one of them moves.
LEMMA WaitingMove ==
  ASSUME NEW c \in Callbacks, OthersKeep(c)
  PROVE  /\ Cardinality(Waiting') \in Nat
         /\ Cardinality(Waiting') <= Cardinality(Waiting) + 1
         /\ c \in Waiting => Cardinality(Waiting') <= Cardinality(Waiting)
         /\ c \notin Waiting' => Cardinality(Waiting') <= Cardinality(Waiting)
         /\ c \in Waiting /\ c \notin Waiting' => Cardinality(Waiting') = Cardinality(Waiting) - 1
<1>1. \/ Waiting' = Waiting
      \/ c \notin Waiting /\ c \in Waiting' /\ Waiting' = Waiting \cup {c}
      \/ c \in Waiting /\ c \notin Waiting' /\ Waiting' = Waiting \ {c}
  BY DEF OthersKeep, Waiting
<1>2. CASE Waiting' = Waiting
  BY <1>2, WaitingFinite
<1>3. CASE c \notin Waiting /\ c \in Waiting' /\ Waiting' = Waiting \cup {c}
  <2>1. Cardinality(Waiting') = Cardinality(Waiting) + 1
    BY <1>3, WaitingFinite, FS_AddElement
  <2> QED
    BY <1>3, <2>1, WaitingFinite
<1>4. CASE c \in Waiting /\ c \notin Waiting' /\ Waiting' = Waiting \ {c}
  <2>1. Cardinality(Waiting') = Cardinality(Waiting) - 1
    BY <1>4, WaitingFinite, FS_RemoveElement
  <2>2. Cardinality(Waiting') \in Nat
    BY <1>4, WaitingFinite, FS_RemoveElement, FS_CardinalityType
  <2> QED
    BY <1>4, <2>1, <2>2, WaitingFinite
<1> QED
  BY <1>1, <1>2, <1>3, <1>4

LEMMA BoundCallback ==
  ASSUME TypeOK, SeqBound, NEW c \in Callbacks, NewRequest(c) \/ Callback(c)
  PROVE  SeqBound'
<1>0. OthersKeep(c) /\ StageSeq \in Nat /\ requests \in Nat /\ Cardinality(Waiting) \in Nat
      /\ MaxRequests \in Nat
  BY CallbackShape, WaitingFinite, RbMinifltAssumption DEF TypeOK
<1>1. CASE NewRequest(c)
  <2>1. StageSeq' = StageSeq /\ requests' = requests + 1 /\ requests' <= MaxRequests
    BY <1>0, <1>1 DEF NewRequest, PreSetInfo, PreCreateForward, PreCreateStrip, Request
  <2>2. Cardinality(Waiting') \in Nat /\ Cardinality(Waiting') <= Cardinality(Waiting) + 1
    BY <1>0, WaitingMove
  <2> QED
    BY <1>0, <2>1, <2>2 DEF SeqBound
<1>2. CASE StagePrepare(c) \/ StagePrepareFail(c)
  <2>1. UNCHANGED requests /\ StageSeq' \in {StageSeq, StageSeq + 1}
    BY <1>2 DEF StagePrepare, StagePrepareFail, NextSeq, StageUnchanged
  <2>2. c \in Waiting /\ c \notin Waiting'
    BY <1>2 DEF StagePrepare, StagePrepareFail, FailDelete, Return, Goto, TypeOK, Waiting
  <2>3. Cardinality(Waiting') \in Nat /\ Cardinality(Waiting') = Cardinality(Waiting) - 1
    BY <1>0, <2>2, WaitingMove
  <2> QED
    BY <1>0, <2>1, <2>3 DEF SeqBound
<1>3. CASE Callback(c) /\ ~(StagePrepare(c) \/ StagePrepareFail(c))
  <2>1. UNCHANGED <<requests, StageSeq>>
    <3>1. CASE PostCreate(c) \/ QueueNotifyInsert(c) \/ QueueNotifyWake(c)
      BY <3>1 DEF PostCreate, QueueNotifyInsert, QueueNotifyWake
    <3>2. CASE \/ StageNoName(c) \/ StageForward(c) \/ StageNoSid(c) \/ StageReserve(c) \/ StageQueueFull(c)
               \/ StageRename(c) \/ StageRenameFail(c)
      BY <3>2
      DEF StageNoName, StageForward, StageNoSid, StageReserve, StageQueueFull, StageRename, StageRenameFail,
          StageUnchanged
    <3>3. CASE QueueNotifyEnter(c) \/ QueueNotifySnap(c) \/ QueueNotifyGiveUp(c)
      BY <3>3
      DEF QueueNotifyEnter, QueueNotifySnap, QueueNotifyGiveUp, Drop, Advance, StageUnchanged
    <3> QED
      BY <1>3, <3>1, <3>2, <3>3 DEF Callback
  <2>2. c \in Waiting \/ c \notin Waiting'
    <3>1. CASE PostCreate(c) \/ StageReserve(c)
      BY <3>1 DEF PostCreate, StageReserve, Waiting
    <3>2. CASE \/ StageNoName(c) \/ StageForward(c) \/ StageNoSid(c) \/ StageQueueFull(c)
               \/ StageRename(c) \/ StageRenameFail(c) \/ QueueNotifyInsert(c) \/ QueueNotifyWake(c)
      <4>1. \E l \in {"idle", "staged", "wake"} : Goto(c, l)
        BY <3>2
        DEF StageNoName, StageForward, StageNoSid, StageQueueFull, StageRename, StageRenameFail,
            QueueNotifyInsert, QueueNotifyWake, FailDelete, Return
      <4> QED
        BY <4>1 DEF Goto, TypeOK, Waiting
    <3>3. CASE QueueNotifyEnter(c) \/ QueueNotifySnap(c) \/ QueueNotifyGiveUp(c)
      <4>1. \E l \in {"idle", "snap", "insert"} : Goto(c, l)
        BY <3>3 DEF QueueNotifyEnter, QueueNotifySnap, QueueNotifyGiveUp, Drop, Advance, Return
      <4> QED
        BY <4>1 DEF Goto, TypeOK, Waiting
    <3> QED
      BY <1>3, <3>1, <3>2, <3>3 DEF Callback
  <2>3. Cardinality(Waiting') \in Nat /\ Cardinality(Waiting') <= Cardinality(Waiting)
    BY <1>0, <2>2, WaitingMove
  <2> QED
    BY <1>0, <2>1, <2>3 DEF SeqBound
<1> QED
  BY <1>1, <1>2, <1>3

LEMMA SeqBoundStep == TypeOK /\ SeqBound /\ [Next]_vars => SeqBound'
<1> SUFFICES ASSUME TypeOK, SeqBound, [Next]_vars PROVE SeqBound'
  OBVIOUS
<1>1. ASSUME UNCHANGED <<StageSeq, requests, pc>> PROVE SeqBound'
  BY <1>1 DEF SeqBound, Waiting
<1>2. CASE SendThread
  BY <1>1, <1>2
  DEF SendThread, SendThreadHead, SendThreadWoken, SendThreadEmpty, SendThreadDequeue, SendThreadSent,
      SendThreadClear, SendThreadUnchanged, cbVars
<1>3. CASE UNCHANGED vars
  BY <1>1, <1>3 DEF vars, cbVars
<1> QED
  BY <1>1, <1>2, <1>3, SystemFrees, BoundCallback DEF Next

LEMMA NumbersFit == Spec => [](SeqInv /\ SeqBound)
<1>1. Init => SeqInv
  BY DEF Init, SeqInv, CallbackSeqs, ChannelSeqs, UsedSeqs, Numbered, Carrying
<1>2. Init => SeqBound
  <2> SUFFICES ASSUME Init PROVE SeqBound
    OBVIOUS
  <2>1. Waiting = {} /\ StageSeq = 0 /\ requests = 0
    BY DEF Init, Waiting
  <2>2. Cardinality(Waiting) = 0 /\ MaxRequests \in Nat
    BY <2>1, FS_EmptySet, RbMinifltAssumption
  <2> QED
    BY <2>1, <2>2 DEF SeqBound
<1> QED
  BY TypeCorrect, SystemInvariants, <1>1, <1>2, SeqInvStep, SeqBoundStep, PTL DEF Spec

-----------------------------------------------------------------------------
(* The refinement.                                                         *)

\* Who holds a pending announcement.
LEMMA PendingHolder ==
  ASSUME NEW m
  PROVE  m \in Pending <=> \/ \E c \in Callbacks : pc[c] \in Carrying /\ m = [file |-> file[c], seq |-> seq[c]]
                           \/ m \in Queued
                           \/ m \in InFlight
<1>1. \A c \in Callbacks : m \in Carried(c) <=> pc[c] \in Carrying /\ m = [file |-> file[c], seq |-> seq[c]]
  BY DEF Carried, Held
<1> HIDE DEF Carried
<1> QED
  BY <1>1 DEF Pending

\* A callback that carries nothing before or after a step changes nothing that
\* is pending, as long as it leaves the queue alone.
LEMMA PendingKept ==
  ASSUME NEW c \in Callbacks, OthersKeep(c), UNCHANGED <<NotifyQueue, inflight>>,
         pc[c] \notin Carrying, pc'[c] \notin Carrying
  PROVE  Pending' = Pending
<1>1. \A d \in Callbacks : Carried(d)' = Carried(d)
  BY DEF OthersKeep, Carried, Held
<1>2. Queued' = Queued /\ InFlight' = InFlight
  BY DEF Queued, InFlight
<1> HIDE DEF Carried
<1> QED
  BY <1>1, <1>2 DEF Pending

\* What the queue and the send thread hold after the nodes moved or went.
LEMMA PendingFreed ==
  ASSUME UNCHANGED <<pc, file, seq>>,
         \A i \in 1..Len(NotifyQueue') : \E j \in 1..Len(NotifyQueue) : NotifyQueue'[i] = NotifyQueue[j],
         \A n \in inflight' : n \in inflight \/ \E j \in 1..Len(NotifyQueue) : n = NotifyQueue[j]
  PROVE  Pending' \subseteq Pending
<1>1. Queued' \subseteq Queued
  BY DEF Queued
<1>2. InFlight' \subseteq InFlight \cup Queued
  BY DEF InFlight, Queued
<1>3. \A c \in Callbacks : Carried(c)' = Carried(c)
  BY DEF Carried, Held
<1> HIDE DEF Carried
<1> QED
  BY <1>1, <1>2, <1>3 DEF Pending

LEMMA GateInit == Init => Gate!Init
<1> SUFFICES ASSUME Init PROVE Gate!Init
  OBVIOUS
<1>1. Pending = {}
  BY DEF Init, Pending, Carried, Queued, InFlight, Carrying
<1> QED
  BY <1>1 DEF Init, Gate!Init

\* RbfStageDelete renames: the file gets a name nobody else carries.
LEMMA GateStage ==
  ASSUME TypeOK, SeqInv, SeqBound, NEW c \in Callbacks, StageRename(c)
  PROVE  Gate!Next
<1> DEFINE m == [file |-> file[c], seq |-> seq[c]]
<1>0. /\ pc[c] = "rename" /\ pc'[c] = "staged" /\ OthersKeep(c)
      /\ file'[c] = file[c] /\ seq'[c] = seq[c] /\ file[c] \in Files
      /\ loc[file[c]] # "gone" /\ loc' = [loc EXCEPT ![file[c]] = "stage"]
      /\ UNCHANGED <<NotifyQueue, inflight, delivered>>
  <2>1. OthersKeep(c)
    BY CallbackShape DEF Callback
  <2>2. UNCHANGED <<NotifyQueue, inflight, delivered>>
    BY DEF StageRename, StageUnchanged, CallbackUnchanged, sendVars
  <2> QED
    BY <2>1, <2>2 DEF StageRename, Goto, TypeOK
<1>1. seq[c] \in 1..MaxRequests
  <2>1. seq[c] \in 1..StageSeq
    BY <1>0 DEF SeqInv, CallbackSeqs, Numbered
  <2>2. StageSeq \in Nat /\ StageSeq <= MaxRequests /\ MaxRequests \in Nat
    BY WaitingFinite, RbMinifltAssumption DEF SeqBound, TypeOK
  <2> QED
    BY <2>1, <2>2
<1>2. m \in Gate!Name
  BY <1>0, <1>1 DEF Gate!Name
<1>3. \A k \in Pending \cup delivered : k.seq # m.seq
  <2>1. ASSUME NEW d \in Callbacks, pc[d] \in Carrying PROVE seq[d] # seq[c]
    BY <1>0, <2>1 DEF SeqInv, CallbackSeqs, Numbered, Carrying
  <2>2. seq[c] \notin UsedSeqs
    BY <1>0 DEF SeqInv, CallbackSeqs, Numbered
  <2>3. \A k \in Queued : k.seq \in UsedSeqs
    BY UsedSeq DEF Queued
  <2>4. \A k \in InFlight : k.seq \in UsedSeqs
    BY UsedSeq DEF InFlight
  <2> QED
    BY <2>1, <2>2, <2>3, <2>4, UsedSeq, PendingHolder
<1>4. Pending' = Pending \cup {m}
  <2>1. \A d \in Callbacks : d # c => Carried(d)' = Carried(d)
    BY <1>0 DEF OthersKeep, Carried, Held
  <2>2. Carried(c) = {} /\ Carried(c)' = {m}
    BY <1>0 DEF Carried, Held, Carrying
  <2>3. Queued' = Queued /\ InFlight' = InFlight
    BY <1>0 DEF Queued, InFlight
  <2> HIDE DEF m
  <2> QED
    BY <2>1, <2>2, <2>3 DEF Pending
<1>5. Gate!Stage(m)
  BY <1>0, <1>3, <1>4 DEF Gate!Stage
<1> HIDE DEF m
<1> QED
  BY <1>2, <1>5 DEF Gate!Next

\* A callback that holds no announcement yet leaves the file or lets it go.
LEMMA GateDelete ==
  ASSUME TypeOK, NEW c \in Callbacks,
         \/ NewRequest(c)
         \/ PostCreate(c)
         \/ StageNoName(c) \/ StageForward(c) \/ StageNoSid(c) \/ StageReserve(c) \/ StageQueueFull(c)
         \/ StagePrepare(c) \/ StagePrepareFail(c) \/ StageRenameFail(c)
  PROVE  Gate!Next
<1>1. UNCHANGED <<NotifyQueue, inflight, delivered>> /\ OthersKeep(c)
  <2>1. ~QueueNotifyInsert(c)
    BY DEF NewRequest, PreSetInfo, PreCreateForward, PreCreateStrip, Request, PostCreate, StageNoName,
           StageForward, StageNoSid, StageReserve, StageQueueFull, StagePrepare, StagePrepareFail,
           StageRenameFail, QueueNotifyInsert
  <2>2. NewRequest(c) \/ Callback(c)
    BY DEF Callback
  <2> QED
    BY <2>1, <2>2, CallbackQuiet, CallbackLeavesSystem, CallbackShape DEF channelVars, sendVars
<1>2. pc[c] \notin Carrying /\ pc'[c] \notin Carrying
  <2>1. \/ UNCHANGED pc
        \/ \E l \in {"idle", "create", "stage", "prepare", "rename"} : Goto(c, l)
    BY DEF NewRequest, PreSetInfo, PreCreateForward, PreCreateStrip, Request, PostCreate, StageNoName,
           StageForward, StageNoSid, StageReserve, StageQueueFull, StagePrepare, StagePrepareFail,
           StageRenameFail, FailDelete, Return
  <2>2. pc[c] \in {"idle", "create", "stage", "prepare", "rename"}
    BY DEF NewRequest, PreSetInfo, PreCreateForward, PreCreateStrip, Request, PostCreate, StageNoName,
           StageForward, StageNoSid, StageReserve, StageQueueFull, StagePrepare, StagePrepareFail,
           StageRenameFail
  <2> QED
    BY <2>1, <2>2 DEF Goto, TypeOK, Carrying
<1>3. loc' = loc \/ \E f \in Files : loc' = [loc EXCEPT ![f] = "gone"]
  <2>1. ASSUME Forward(c), file[c] \in Files
        PROVE  loc' = loc \/ \E f \in Files : loc' = [loc EXCEPT ![f] = "gone"]
    BY <2>1 DEF Forward
  <2>2. CASE NewRequest(c)
    BY <2>2 DEF NewRequest, PreSetInfo, PreCreateForward, PreCreateStrip
  <2>3. CASE PostCreate(c) \/ StageReserve(c) \/ StagePrepare(c)
    BY <2>3 DEF PostCreate, StageReserve, StagePrepare, fsVars
  <2>4. CASE \/ StageNoName(c) \/ StageForward(c) \/ StageNoSid(c) \/ StageQueueFull(c)
             \/ StagePrepareFail(c) \/ StageRenameFail(c)
    <3>1. file[c] \in Files
      BY <2>4
      DEF StageNoName, StageForward, StageNoSid, StageQueueFull, StagePrepareFail, StageRenameFail, TypeOK
    <3>2. UNCHANGED loc \/ Forward(c)
      BY <2>4
      DEF StageNoName, StageForward, StageNoSid, StageQueueFull, StagePrepareFail, StageRenameFail, FailDelete
    <3> QED
      BY <2>1, <3>1, <3>2
  <2> QED
    BY <2>2, <2>3, <2>4
<1>4. Pending' = Pending
  BY <1>1, <1>2, PendingKept
<1> QED
  BY <1>1, <1>3, <1>4 DEF Gate!Next, Gate!Lose, Gate!Destroy

\* RbfQueueNotify hands the announcement to the queue, or loses it.
LEMMA GateNotify ==
  ASSUME TypeOK, NEW c \in Callbacks,
         \/ QueueNotifyEnter(c) \/ QueueNotifySnap(c)
         \/ QueueNotifyInsert(c) \/ QueueNotifyGiveUp(c) \/ QueueNotifyWake(c)
  PROVE  Gate!Next
<1>1. UNCHANGED <<loc, inflight, delivered>> /\ OthersKeep(c)
  <2>1. NewRequest(c) \/ Callback(c)
    BY DEF Callback
  <2>2. UNCHANGED loc
    BY DEF QueueNotifyEnter, QueueNotifySnap, QueueNotifyInsert, QueueNotifyGiveUp, QueueNotifyWake, Drop,
           Advance, fsVars
  <2> QED
    BY <2>1, <2>2, CallbackLeavesSystem, CallbackShape DEF sendVars
<1>2. \A d \in Callbacks : d # c => Carried(d)' = Carried(d)
  BY <1>1 DEF OthersKeep, Carried, Held
<1>3. InFlight' = InFlight
  BY <1>1 DEF InFlight
<1>4. Pending' \subseteq Pending
  <2>1. CASE QueueNotifyInsert(c)
    <3> DEFINE n == [file |-> file[c], seq |-> seq[c], port |-> snap[c]]
    <3>1. /\ NotifyQueue' = Append(NotifyQueue, n) /\ n \in Node
          /\ pc[c] = "insert" /\ pc'[c] = "wake"
      BY <2>1 DEF QueueNotifyInsert, Goto, TypeOK, Node
    <3>2. [file |-> n.file, seq |-> n.seq] \in Carried(c) /\ Carried(c)' = {}
      BY <3>1 DEF Carried, Held, Carrying
    <3> HIDE DEF n
    <3>3. \A i \in 1..Len(NotifyQueue') :
            (i \in 1..Len(NotifyQueue) /\ NotifyQueue'[i] = NotifyQueue[i]) \/ NotifyQueue'[i] = n
      BY <3>1 DEF TypeOK
    <3>4. Queued' \subseteq Queued \cup Carried(c)
      BY <3>2, <3>3 DEF Queued
    <3> HIDE DEF Carried
    <3>5. Carried(c) \subseteq Pending /\ Queued \subseteq Pending /\ InFlight \subseteq Pending
      BY DEF Pending
    <3>6. \A d \in Callbacks : Carried(d)' \subseteq Pending
      BY <1>2, <3>2 DEF Pending
    <3>7. Pending' = (UNION {Carried(d)' : d \in Callbacks}) \cup Queued' \cup InFlight'
      BY DEF Pending
    <3> QED
      BY <1>3, <3>4, <3>5, <3>6, <3>7
  <2>2. CASE ~QueueNotifyInsert(c)
    <3>1. Queued' = Queued
      BY <2>2, CallbackQuiet DEF Callback, channelVars, Queued
    <3>2. Carried(c)' \subseteq Carried(c)
      <4>1. CASE pc'[c] \notin Carrying
        BY <4>1 DEF Carried
      <4>2. CASE pc'[c] \in Carrying
        <5>1. pc[c] \in Carrying /\ UNCHANGED <<file, seq>>
          BY <2>2, <4>2
          DEF QueueNotifyEnter, QueueNotifySnap, QueueNotifyGiveUp, QueueNotifyWake, Drop, Advance, Return,
              Goto, TypeOK, Carrying
        <5> QED
          BY <5>1 DEF Carried, Held
      <4> QED
        BY <4>1, <4>2
    <3> HIDE DEF Carried
    <3> QED
      BY <1>2, <1>3, <3>1, <3>2 DEF Pending
  <2> QED
    BY <2>1, <2>2
<1> QED
  BY <1>1, <1>4 DEF Gate!Next, Gate!Lose

\* The send thread announces what it sent, or loses it.
LEMMA GateSend ==
  ASSUME TypeOK, SenderInv, SeqInv, SendThread
  PROVE  Gate!Next
<1>1. UNCHANGED <<loc, pc, file, seq>>
  BY DEF SendThread, SendThreadHead, SendThreadWoken, SendThreadEmpty, SendThreadDequeue, SendThreadSent,
         SendThreadClear, SendThreadUnchanged, fsVars, cbVars
<1>2. CASE SendThreadSent
  <2>1. PICK n \in Node : inflight = {n}
    BY <1>2 DEF SendThreadSent, SenderInv
  <2> DEFINE m == [file |-> n.file, seq |-> n.seq]
  <2>2. /\ UNCHANGED NotifyQueue /\ inflight' = {}
        /\ delivered' = delivered \cup {m} \/ UNCHANGED delivered
    BY <1>2, <2>1 DEF SendThreadSent
  <2>3. InFlight = {m} /\ InFlight' = {} /\ Queued' = Queued
    BY <2>1, <2>2 DEF InFlight, Queued
  <2>4. \A c \in Callbacks : Carried(c)' = Carried(c)
    BY <1>1 DEF Carried, Held
  <2>5. n.seq \in UsedSeqs /\ m.seq = n.seq
    BY <2>1, UsedSeq
  <2>6. m \notin Queued
    BY <2>1, <2>5 DEF Queued, SeqInv, ChannelSeqs
  <2>7. \A c \in Callbacks : m \notin Carried(c)
    BY <2>5 DEF Carried, Held, SeqInv, CallbackSeqs, Numbered
  <2> HIDE DEF m, Carried
  <2>8. m \in Pending /\ Pending' = Pending \ {m}
    BY <2>3, <2>4, <2>6, <2>7 DEF Pending
  <2>9. CASE delivered' = delivered \cup {m}
    BY <1>1, <2>8, <2>9 DEF Gate!Next, Gate!Announce
  <2>10. CASE UNCHANGED delivered
    BY <1>1, <2>8, <2>10 DEF Gate!Next, Gate!Lose
  <2> QED
    BY <2>2, <2>9, <2>10
<1>3. CASE ~SendThreadSent
  <2>1. UNCHANGED delivered
    BY <1>3
    DEF SendThread, SendThreadHead, SendThreadWoken, SendThreadEmpty, SendThreadDequeue, SendThreadClear
  <2>2. /\ \A i \in 1..Len(NotifyQueue') : \E j \in 1..Len(NotifyQueue) : NotifyQueue'[i] = NotifyQueue[j]
        /\ \A n \in inflight' : n \in inflight \/ \E j \in 1..Len(NotifyQueue) : n = NotifyQueue[j]
    <3>1. CASE SendThreadDequeue
      BY <3>1, QueueShrinks, TailElements DEF SendThreadDequeue
    <3>2. CASE SendThreadHead \/ SendThreadWoken \/ SendThreadEmpty \/ SendThreadClear
      BY <3>2 DEF SendThreadHead, SendThreadWoken, SendThreadEmpty, SendThreadClear
    <3> QED
      BY <1>3, <3>1, <3>2 DEF SendThread
  <2> QED
    BY <1>1, <2>1, <2>2, PendingFreed DEF Gate!Next, Gate!Lose
<1> QED
  BY <1>2, <1>3

LEMMA GateStep ==
  TypeOK /\ SenderInv /\ SeqInv /\ SeqBound /\ [Next]_vars => [Gate!Next]_(Gate!gateVars)
<1> SUFFICES ASSUME TypeOK, SenderInv, SeqInv, SeqBound, [Next]_vars PROVE [Gate!Next]_(Gate!gateVars)
  OBVIOUS
<1>1. ASSUME NEW c \in Callbacks, NewRequest(c) \/ Callback(c) PROVE Gate!Next
  BY <1>1, GateStage, GateDelete, GateNotify DEF Callback
<1>2. CASE \/ \E p \in Ports : PortConnect(p) \/ ClientGone(p) \/ PortDisconnect(p)
           \/ Unload
  <2>1. UNCHANGED <<loc, pc, file, seq, inflight, delivered>>
    BY <1>2, SystemFrees
  <2>2. \A i \in 1..Len(NotifyQueue') : \E j \in 1..Len(NotifyQueue) : NotifyQueue'[i] = NotifyQueue[j]
    BY <1>2, SystemFrees, QueueShrinks
  <2> QED
    BY <2>1, <2>2, PendingFreed DEF Gate!Next, Gate!Lose
<1>3. CASE UNCHANGED vars
  <2>1. UNCHANGED <<loc, pc, file, seq, inflight, delivered, NotifyQueue>>
    BY <1>3 DEF vars, fsVars, cbVars, queueVars, sendVars
  <2>2. Pending' \subseteq Pending
    BY <2>1, PendingFreed
  <2> QED
    BY <2>1, <2>2 DEF Gate!Next, Gate!Lose
<1> QED
  BY <1>1, <1>2, <1>3, GateSend DEF Next

\* The driver implements RecycleGate: through every interleaving of callbacks,
\* send thread, port and unload, a file is renamed under a number that no
\* pending or delivered announcement carries, only what is pending is announced
\* and that once, and whatever else happens loses announcements, never invents
\* one.
THEOREM DriverImplementsGate == Spec => ImplementsGate
<1>1. Init => Gate!Init
  BY GateInit
<1>2. TypeOK /\ SenderInv /\ SeqInv /\ SeqBound /\ [Next]_vars => [Gate!Next]_(Gate!gateVars)
  BY GateStep
<1> QED
  BY TypeCorrect, SystemInvariants, NumbersFit, <1>1, <1>2, PTL DEF Spec, ImplementsGate, Gate!Spec

-----------------------------------------------------------------------------
(* What was sent and what got there.                                       *)

\* A message on its way has not been delivered, by the gate; and a message
\* counted as sent was delivered, or a call failed.
SentInv ==
  /\ Pending \cap delivered = {}
  /\ IsFiniteSet(delivered)
  /\ Stats["NotifySent"] \in Cardinality(delivered) .. (Cardinality(delivered) + faults)

\* Only the send thread counts a message as sent, or delivers one.
LEMMA SentElsewhere ==
  ASSUME TypeOK, [Next]_vars, ~SendThreadSent
  PROVE  /\ UNCHANGED delivered /\ Stats'["NotifySent"] = Stats["NotifySent"]
         /\ faults' \in {faults, faults + 1}
<1>1. ASSUME UNCHANGED <<delivered, Stats>>, Works \/ Fails
      PROVE  /\ UNCHANGED delivered /\ Stats'["NotifySent"] = Stats["NotifySent"]
             /\ faults' \in {faults, faults + 1}
  BY <1>1 DEF Works, Fails
<1>2. ASSUME UNCHANGED delivered, Works \/ Fails, NEW S, Count(S), "NotifySent" \notin S
      PROVE  /\ UNCHANGED delivered /\ Stats'["NotifySent"] = Stats["NotifySent"]
             /\ faults' \in {faults, faults + 1}
  BY <1>2, CountOne DEF Works, Fails, StatNames
<1>3. ASSUME NEW c \in Callbacks, NewRequest(c) \/ Callback(c)
      PROVE  /\ UNCHANGED delivered /\ Stats'["NotifySent"] = Stats["NotifySent"]
             /\ faults' \in {faults, faults + 1}
  <2>1. CASE NewRequest(c)
    BY <1>1, <2>1
    DEF NewRequest, PreSetInfo, PreCreateForward, PreCreateStrip, Request, CallbackUnchanged
  <2>2. CASE PostCreate(c) \/ QueueNotifyWake(c) \/ StageForward(c) \/ StagePrepare(c) \/ QueueNotifyInsert(c)
    BY <1>1, <2>2
    DEF PostCreate, QueueNotifyWake, StageForward, StagePrepare, QueueNotifyInsert, StageUnchanged, CallbackUnchanged
  <2>3. ASSUME NEW S, FailDelete(c, S), StageUnchanged, Works \/ Fails, "NotifySent" \notin S
        PROVE  /\ UNCHANGED delivered /\ Stats'["NotifySent"] = Stats["NotifySent"]
               /\ faults' \in {faults, faults + 1}
    <3> DEFINE counted == S \cup (IF FailClosed THEN {"DeleteDenied"} ELSE {})
    <3>1. Count(counted) /\ "NotifySent" \notin counted /\ UNCHANGED delivered
      BY <2>3 DEF FailDelete, StageUnchanged, CallbackUnchanged
    <3> HIDE DEF counted
    <3> QED
      BY <1>2, <2>3, <3>1
  <2>4. CASE StageNoName(c) \/ StageNoSid(c) \/ StageQueueFull(c) \/ StagePrepareFail(c) \/ StageRenameFail(c)
    BY <2>3, <2>4 DEF StageNoName, StageNoSid, StageQueueFull, StagePrepareFail, StageRenameFail
  <2>5. CASE StageReserve(c) \/ StageRename(c)
    BY <1>2, <2>5 DEF StageReserve, StageRename, StageUnchanged, CallbackUnchanged
  <2>6. ASSUME Drop(c), Works \/ Fails
        PROVE  /\ UNCHANGED delivered /\ Stats'["NotifySent"] = Stats["NotifySent"]
               /\ faults' \in {faults, faults + 1}
    BY <1>2, <2>6 DEF Drop, CountDrop, StageUnchanged, CallbackUnchanged
  <2>7. ASSUME NEW l, Advance(c, l)
        PROVE  /\ UNCHANGED delivered /\ Stats'["NotifySent"] = Stats["NotifySent"]
               /\ faults' \in {faults, faults + 1}
    BY <1>1, <2>7 DEF Advance, StageUnchanged, CallbackUnchanged
  <2>8. CASE QueueNotifyEnter(c) \/ QueueNotifySnap(c) \/ QueueNotifyGiveUp(c)
    BY <2>6, <2>7, <2>8 DEF QueueNotifyEnter, QueueNotifySnap, QueueNotifyGiveUp
  <2> QED
    BY <1>3, <2>1, <2>2, <2>4, <2>5, <2>8 DEF Callback
<1>4. CASE SendThread
  BY <1>4 DEF SendThread, SendThreadHead, SendThreadWoken, SendThreadEmpty, SendThreadDequeue, SendThreadClear
<1>5. CASE \E p \in Ports : PortConnect(p) \/ ClientGone(p) \/ PortDisconnect(p)
  BY <1>5 DEF PortConnect, ClientGone, PortDisconnect
<1>6. CASE Unload
  BY <1>6 DEF Unload, UnloadBegin, UnloadSignal, UnloadJoin, UnloadFlush, UnloadUnregister, UnloadUnchanged
<1>7. CASE UNCHANGED vars
  BY <1>7 DEF vars
<1> QED
  BY <1>3, <1>4, <1>5, <1>6, <1>7 DEF Next

LEMMA SentStep ==
  TypeOK /\ SenderInv /\ SeqInv /\ SeqBound /\ SentInv /\ [Next]_vars => SentInv'
<1> SUFFICES ASSUME TypeOK, SenderInv, SeqInv, SeqBound, SentInv, [Next]_vars PROVE SentInv'
  OBVIOUS
<1>0. faults \in Nat /\ Stats["NotifySent"] \in Nat /\ Cardinality(delivered) \in Nat
  BY FS_CardinalityType DEF TypeOK, StatNames, SentInv
<1>1. (Pending \cap delivered)' = {}
  <2>1. CASE Gate!Next
    <3>1. ASSUME NEW m, Gate!Stage(m) PROVE (Pending \cap delivered)' = {}
      BY <3>1 DEF Gate!Stage, SentInv
    <3>2. ASSUME NEW m, Gate!Announce(m) PROVE (Pending \cap delivered)' = {}
      BY <3>2 DEF Gate!Announce, SentInv
    <3>3. Gate!Lose \/ (\E f \in Files : Gate!Destroy(f)) => (Pending \cap delivered)' = {}
      BY DEF Gate!Lose, Gate!Destroy, SentInv
    <3> QED
      BY <2>1, <3>1, <3>2, <3>3 DEF Gate!Next
  <2>2. CASE UNCHANGED Gate!gateVars
    BY <2>2 DEF Gate!gateVars, SentInv
  <2> QED
    BY <2>1, <2>2, GateStep
<1>2. CASE SendThreadSent
  <2>1. PICK n \in Node : inflight = {n}
    BY <1>2 DEF SendThreadSent, SenderInv
  <2> DEFINE m == [file |-> n.file, seq |-> n.seq]
  <2>2. m \in Pending
    BY <2>1 DEF Pending, InFlight
  <2>3. IsFiniteSet(delivered \cup {m}) /\ Cardinality(delivered \cup {m}) = Cardinality(delivered) + 1
    BY <2>2, FS_AddElement DEF SentInv
  <2>4. \/ delivered' = delivered \cup {m} /\ Count({"NotifySent"}) /\ Works
        \/ UNCHANGED delivered /\ CountDrop /\ (Works \/ Fails)
        \/ UNCHANGED delivered /\ Count({"NotifySent"}) /\ Fails
    BY <1>2, <2>1 DEF SendThreadSent
  <2> HIDE DEF m
  <2>5. /\ Count({"NotifySent"}) => Stats'["NotifySent"] = Stats["NotifySent"] + 1
        /\ CountDrop => Stats'["NotifySent"] = Stats["NotifySent"]
    BY CountOne DEF CountDrop, StatNames
  <2>6. Stats["NotifySent"] \in Cardinality(delivered) .. (Cardinality(delivered) + faults) /\ IsFiniteSet(delivered)
    BY DEF SentInv
  <2>7. CASE delivered' = delivered \cup {m} /\ Count({"NotifySent"}) /\ Works
    <3>1. /\ Cardinality(delivered') = Cardinality(delivered) + 1 /\ faults' = faults
          /\ Stats'["NotifySent"] = Stats["NotifySent"] + 1
      BY <2>3, <2>5, <2>7 DEF Works
    <3>2. Stats'["NotifySent"] \in Cardinality(delivered') .. (Cardinality(delivered') + faults')
      BY <1>0, <2>6, <3>1
    <3> QED
      BY <1>1, <2>3, <2>7, <3>2 DEF SentInv
  <2>8. CASE UNCHANGED delivered /\ CountDrop /\ (Works \/ Fails)
    BY <1>0, <1>1, <2>5, <2>6, <2>8 DEF SentInv, Works, Fails
  <2>9. CASE UNCHANGED delivered /\ Count({"NotifySent"}) /\ Fails
    BY <1>0, <1>1, <2>5, <2>6, <2>9 DEF SentInv, Fails
  <2> QED
    BY <2>4, <2>7, <2>8, <2>9
<1>3. CASE ~SendThreadSent
  BY <1>0, <1>1, <1>3, SentElsewhere DEF SentInv
<1> QED
  BY <1>2, <1>3

\* No notification disappears from the statistics unseen: every file renamed is
\* in RenameOk, and its notification was counted as sent or as dropped, is held
\* by a callback, the queue or the send thread, or was freed by
\* RbfPortDisconnect or RbfFlushQueue, the two places that count nothing.  What
\* was delivered was counted as sent; the converse takes that no send times out.
THEOREM RenamesCounted == Spec => []RenamesAccounted
<1>1. Init => SentInv
  <2> SUFFICES ASSUME Init PROVE SentInv
    OBVIOUS
  <2>1. delivered = {} /\ Stats["NotifySent"] = 0 /\ faults = 0
    BY DEF Init, StatNames
  <2>2. IsFiniteSet(delivered) /\ Cardinality(delivered) = 0
    BY <2>1, FS_EmptySet
  <2> QED
    BY <2>1, <2>2 DEF SentInv
<1>2. Balanced /\ SentInv => RenamesAccounted
  BY DEF Balanced, Tally, Carriers, SentInv, RenamesAccounted
<1> QED
  BY TypeCorrect, SystemInvariants, NumbersFit, BooksBalance, <1>1, <1>2, SentStep, PTL DEF Spec

-----------------------------------------------------------------------------
(* Orphans.  A step makes one only by taking an announcement away.         *)

LEMMA OrphansKept ==
  ASSUME UNCHANGED storeName, \A f \in Files : loc'[f] = "stage" => loc[f] = "stage",
         Pending \subseteq Pending' \cup delivered', delivered \subseteq delivered'
  PROVE  Orphans' \subseteq Orphans
  BY DEF Orphans

\* Nothing is taken away when every holder is still there.
LEMMA PendingStays ==
  ASSUME UNCHANGED inflight, \A c \in Callbacks : Carried(c) \subseteq Carried(c)',
         \A i \in 1..Len(NotifyQueue) : \E j \in 1..Len(NotifyQueue') : NotifyQueue[i] = NotifyQueue'[j]
  PROVE  Pending \subseteq Pending'
<1>1. Queued \subseteq Queued'
  BY DEF Queued
<1>2. InFlight' = InFlight
  BY DEF InFlight
<1> HIDE DEF Carried
<1> QED
  BY <1>1, <1>2 DEF Pending

\* A callback carries on with its announcement unless it drops it.
LEMMA CarriedStays ==
  ASSUME NEW c \in Callbacks, OthersKeep(c), pc[c] \notin Carrying \/ Keeps(c)
  PROVE  \A d \in Callbacks : Carried(d) \subseteq Carried(d)'
<1>1. ASSUME NEW d \in Callbacks, d # c PROVE Carried(d)' = Carried(d)
  BY <1>1 DEF OthersKeep, Carried, Held
<1>2. Carried(c) \subseteq Carried(c)'
  BY DEF Keeps, Carried, Held
<1> QED
  BY <1>1, <1>2

LEMMA OrphansDelete ==
  ASSUME TypeOK, NEW c \in Callbacks,
         \/ NewRequest(c)
         \/ PostCreate(c)
         \/ StageNoName(c) \/ StageForward(c) \/ StageNoSid(c) \/ StageReserve(c) \/ StageQueueFull(c)
         \/ StagePrepare(c) \/ StagePrepareFail(c) \/ StageRenameFail(c)
         \/ QueueNotifyWake(c)
  PROVE  Orphans' \subseteq Orphans
<1>1. pc[c] \notin Carrying /\ ~QueueNotifyInsert(c) /\ UNCHANGED storeName
  BY DEF NewRequest, PreSetInfo, PreCreateForward, PreCreateStrip, Request, PostCreate, StageNoName,
         StageForward, StageNoSid, StageReserve, StageQueueFull, StagePrepare, StagePrepareFail,
         StageRenameFail, QueueNotifyWake, QueueNotifyInsert, FailDelete, fsVars, Carrying
<1>2. UNCHANGED <<NotifyQueue, inflight, delivered>> /\ OthersKeep(c)
  <2>1. NewRequest(c) \/ Callback(c)
    BY DEF Callback
  <2> QED
    BY <1>1, <2>1, CallbackQuiet, CallbackLeavesSystem, CallbackShape DEF channelVars, sendVars
<1>3. Pending \subseteq Pending'
  BY <1>1, <1>2, CarriedStays, PendingStays
<1>4. ASSUME NEW f \in Files, loc'[f] = "stage" PROVE loc[f] = "stage"
  <2>1. \/ UNCHANGED loc
        \/ \E g : loc' = [loc EXCEPT ![g] = "gone"]
    BY DEF NewRequest, PreSetInfo, PreCreateForward, PreCreateStrip, PostCreate, StageNoName, StageForward,
           StageNoSid, StageReserve, StageQueueFull, StagePrepare, StagePrepareFail, StageRenameFail,
           QueueNotifyWake, FailDelete, Forward, fsVars
  <2> QED
    BY <1>4, <2>1 DEF TypeOK
<1> QED
  BY <1>1, <1>2, <1>3, <1>4, OrphansKept

\* A renamed file has its notification with the callback.
LEMMA OrphansRename ==
  ASSUME TypeOK, NEW c \in Callbacks, StageRename(c)
  PROVE  Orphans' \subseteq Orphans
<1>1. /\ pc[c] = "rename" /\ pc'[c] = "staged" /\ UNCHANGED <<file, seq>> /\ file[c] \in Files
      /\ loc' = [loc EXCEPT ![file[c]] = "stage"]
      /\ storeName' = [storeName EXCEPT ![file[c]] = seq[c]]
  BY DEF StageRename, Goto, TypeOK
<1>2. UNCHANGED <<NotifyQueue, inflight, delivered>> /\ OthersKeep(c)
  <2>1. Callback(c) /\ ~QueueNotifyInsert(c)
    BY DEF Callback, StageRename, QueueNotifyInsert
  <2> QED
    BY <2>1, CallbackQuiet, CallbackLeavesSystem, CallbackShape DEF channelVars, sendVars
<1>3. Pending \subseteq Pending'
  BY <1>1, <1>2, CarriedStays, PendingStays DEF Carrying
<1>4. [file |-> file[c], seq |-> seq[c]] \in Pending'
  <2>1. [file |-> file[c], seq |-> seq[c]] \in Carried(c)'
    BY <1>1 DEF Carried, Held, Carrying
  <2> HIDE DEF Carried
  <2> QED
    BY <2>1 DEF Pending
<1>5. ASSUME NEW f \in Orphans' PROVE f \in Orphans
  <2>1. f \in Files /\ loc'[f] = "stage" /\ [file |-> f, seq |-> storeName'[f]] \notin Pending' \cup delivered'
    BY <1>5 DEF Orphans
  <2>2. f # file[c]
    BY <1>1, <1>4, <2>1 DEF TypeOK
  <2>3. loc[f] = "stage" /\ storeName'[f] = storeName[f]
    BY <1>1, <2>1, <2>2 DEF TypeOK
  <2> QED
    BY <1>2, <1>3, <2>1, <2>3 DEF Orphans
<1> QED
  BY <1>5

\* The situations in which a notification is lost without a failed call.
OrphanCause ==
  \/ ~QueueActive
  \/ ClientPort = NoPort
  \/ \E p \in Ports : conn[p] = "closing"
  \/ \E c \in Callbacks : pc[c] = "insert" /\ snap[c] # ClientPort

LEMMA OrphansNotify ==
  ASSUME TypeOK, NEW c \in Callbacks, UNCHANGED faults,
         QueueNotifyEnter(c) \/ QueueNotifySnap(c) \/ QueueNotifyInsert(c) \/ QueueNotifyGiveUp(c)
  PROVE  Orphans' \subseteq Orphans \/ OrphanCause
<1>0. ~Fails
  BY DEF Fails, TypeOK
<1>1. UNCHANGED <<fsVars, inflight, delivered>> /\ OthersKeep(c)
  <2>1. Callback(c)
    BY DEF Callback
  <2>2. UNCHANGED fsVars
    BY DEF QueueNotifyEnter, QueueNotifySnap, QueueNotifyInsert, QueueNotifyGiveUp, Drop, Advance
  <2> QED
    BY <2>1, <2>2, CallbackLeavesSystem, CallbackShape DEF sendVars
<1>2. ASSUME Pending \subseteq Pending' PROVE Orphans' \subseteq Orphans
  BY <1>1, <1>2, OrphansKept DEF fsVars
<1>3. ASSUME NEW l \in {"snap", "insert"}, Advance(c, l), pc[c] \in Carrying
      PROVE  Orphans' \subseteq Orphans
  <2>1. Keeps(c)
    BY <1>3 DEF Advance, Goto, StageUnchanged, TypeOK, Keeps, Numbered, Carrying
  <2>2. UNCHANGED NotifyQueue
    BY <2>1 DEF Keeps
  <2>3. Pending \subseteq Pending'
    BY <1>1, <2>1, <2>2, CarriedStays, PendingStays
  <2> QED
    BY <1>2, <2>3
<1>4. CASE QueueNotifyEnter(c) \/ QueueNotifySnap(c) \/ QueueNotifyGiveUp(c)
  BY <1>0, <1>3, <1>4
  DEF QueueNotifyEnter, QueueNotifySnap, QueueNotifyGiveUp, PortStill, OrphanCause, Carrying
<1>5. CASE QueueNotifyInsert(c)
  <2> DEFINE n == [file |-> file[c], seq |-> seq[c], port |-> snap[c]]
  <2>1. NotifyQueue' = Append(NotifyQueue, n) /\ n \in Node /\ NotifyQueue \in Seq(Node)
    BY <1>5 DEF QueueNotifyInsert, TypeOK, Node
  <2>2. Held(c) = {[file |-> n.file, seq |-> n.seq]}
    BY DEF Held
  <2> HIDE DEF n
  <2>3. /\ \A i \in 1..Len(NotifyQueue) : i \in 1..Len(NotifyQueue') /\ NotifyQueue'[i] = NotifyQueue[i]
        /\ Len(NotifyQueue') \in 1..Len(NotifyQueue') /\ NotifyQueue'[Len(NotifyQueue')] = n
    BY <2>1
  <2>4. Held(c) \subseteq Queued' /\ Queued \subseteq Queued'
    BY <2>2, <2>3 DEF Queued
  <2>5. \A d \in Callbacks : Carried(d) \subseteq Carried(d)' \cup Queued'
    BY <1>1, <2>4 DEF OthersKeep, Carried, Held
  <2>6. InFlight' = InFlight
    BY <1>1 DEF InFlight
  <2> HIDE DEF Carried
  <2>7. Pending \subseteq Pending'
    BY <2>4, <2>5, <2>6 DEF Pending
  <2> QED
    BY <1>2, <2>7
<1> QED
  BY <1>4, <1>5

LEMMA OrphansSend ==
  ASSUME TypeOK, SenderInv, PortInv, SendThread, UNCHANGED faults
  PROVE  Orphans' \subseteq Orphans \/ OrphanCause
<1>0. ~Fails
  BY DEF Fails, TypeOK
<1>1. UNCHANGED <<fsVars, pc, file, seq>>
  BY DEF SendThread, SendThreadHead, SendThreadWoken, SendThreadEmpty, SendThreadDequeue, SendThreadSent,
         SendThreadClear, SendThreadUnchanged, cbVars
<1>2. \A c \in Callbacks : Carried(c)' = Carried(c)
  BY <1>1 DEF Carried, Held
<1>3. ASSUME Pending \subseteq Pending' \cup delivered', delivered \subseteq delivered'
      PROVE  Orphans' \subseteq Orphans
  BY <1>1, <1>3, OrphansKept DEF fsVars
<1>4. CASE SendThreadDequeue
  <2>1. /\ NotifyQueue # <<>> /\ inflight = {} /\ inflight' = {NotifyQueue[1]}
        /\ NotifyQueue' = Tail(NotifyQueue) /\ UNCHANGED delivered
    BY <1>4, TailElements DEF SendThreadDequeue, SenderInv
  <2>2. \A i \in 1..Len(NotifyQueue) :
          i = 1 \/ (i - 1 \in 1..Len(NotifyQueue') /\ NotifyQueue'[i - 1] = NotifyQueue[i])
    BY <2>1 DEF TypeOK
  <2>3. Queued \subseteq Queued' \cup InFlight' /\ InFlight = {}
    BY <2>1, <2>2 DEF Queued, InFlight
  <2> HIDE DEF Carried
  <2>4. Pending \subseteq Pending'
    BY <1>2, <2>3 DEF Pending
  <2> QED
    BY <1>3, <2>1, <2>4
<1>5. CASE SendThreadSent
  <2>1. PICK n \in Node : inflight = {n}
    BY <1>5 DEF SendThreadSent, SenderInv
  <2>2. CASE delivered' = delivered \cup {[file |-> n.file, seq |-> n.seq]} /\ UNCHANGED NotifyQueue
    <3>1. InFlight \subseteq delivered' /\ Queued' = Queued
      BY <2>1, <2>2 DEF InFlight, Queued
    <3> HIDE DEF Carried
    <3>2. Pending \subseteq Pending' \cup delivered'
      BY <1>2, <3>1 DEF Pending
    <3> QED
      BY <1>3, <2>2, <3>2
  <2>3. CASE conn[n.port] # "live"
    <3>1. n.port \in Ports /\ conn[n.port] # "free"
      BY <2>1, QueuedPort, RbMinifltAssumption DEF PortInv
    <3>2. conn[n.port] = "closing"
      BY <2>3, <3>1 DEF TypeOK
    <3> QED
      BY <3>1, <3>2 DEF OrphanCause
  <2> QED
    BY <1>0, <1>5, <2>1, <2>2, <2>3 DEF SendThreadSent
<1>6. CASE SendThreadHead \/ SendThreadWoken \/ SendThreadEmpty \/ SendThreadClear
  <2>1. UNCHANGED <<NotifyQueue, inflight, delivered>>
    BY <1>6 DEF SendThreadHead, SendThreadWoken, SendThreadEmpty, SendThreadClear
  <2>2. Pending \subseteq Pending'
    BY <1>2, <2>1, PendingStays
  <2> QED
    BY <1>3, <2>1, <2>2
<1> QED
  BY <1>4, <1>5, <1>6 DEF SendThread

LEMMA OrphansSystem ==
  ASSUME TypeOK, UnloadInv,
         \/ \E p \in Ports : PortConnect(p) \/ ClientGone(p) \/ PortDisconnect(p)
         \/ Unload
  PROVE  Orphans' \subseteq Orphans \/ OrphanCause
<1>1. UNCHANGED <<loc, storeName, pc, file, seq, inflight, delivered>>
  BY SystemFrees, SystemQuiet DEF fsVars
<1>2. ASSUME UNCHANGED NotifyQueue PROVE Orphans' \subseteq Orphans
  <2>1. \A c \in Callbacks : Carried(c)' = Carried(c)
    BY <1>1 DEF Carried, Held
  <2>2. Pending \subseteq Pending'
    BY <1>1, <1>2, <2>1, PendingStays
  <2> QED
    BY <1>1, <2>2, OrphansKept
<1>3. CASE \E p \in Ports : PortDisconnect(p)
  BY <1>3 DEF PortDisconnect, OrphanCause
<1>4. CASE \E p \in Ports : PortConnect(p) \/ ClientGone(p)
  BY <1>2, <1>4 DEF PortConnect, ClientGone, queueVars
<1>5. CASE Unload
  <2>1. UNCHANGED NotifyQueue \/ upc = "flushing"
    BY <1>5 DEF Unload, UnloadBegin, UnloadSignal, UnloadJoin, UnloadFlush, UnloadUnregister
  <2> QED
    BY <1>2, <2>1 DEF UnloadInv, OrphanCause
<1> QED
  BY <1>3, <1>4, <1>5

\* RB-08: with the service connected, a staged file loses its notification only
\* to a failed kernel call or send, the unload, or a connection that went away
\* (or was replaced between the two looks at G.ClientPort); a queue at its
\* limit or a long burst of deletes never costs one.
THEOREM OrphansOnlyForCause == Spec => OrphansHaveCause
<1> DEFINE Caused == (Orphans' \ Orphans # {} /\ faults' = faults) =>
                       \/ ~QueueActive
                       \/ ClientPort = NoPort
                       \/ \E p \in Ports : conn[p] = "closing"
                       \/ \E c \in Callbacks : pc[c] = "insert" /\ snap[c] # ClientPort
<1>1. TypeOK /\ SenderInv /\ UnloadInv /\ PortInv /\ [Next]_vars => [Caused]_vars
  <2> SUFFICES ASSUME TypeOK, SenderInv, UnloadInv, PortInv, Next, faults' = faults
               PROVE  Orphans' \subseteq Orphans \/ OrphanCause
    BY DEF OrphanCause
  <2>1. ASSUME NEW c \in Callbacks, NewRequest(c) \/ Callback(c)
        PROVE  Orphans' \subseteq Orphans \/ OrphanCause
    BY <2>1, OrphansDelete, OrphansRename, OrphansNotify DEF Callback
  <2> QED
    BY <2>1, OrphansSend, OrphansSystem DEF Next
<1> QED
  BY TypeCorrect, SystemInvariants, <1>1, PTL DEF Spec, OrphansHaveCause

=============================================================================
