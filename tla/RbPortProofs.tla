---------------------------- MODULE RbPortProofs ----------------------------
(***************************************************************************)
(* Theorems about RbPort, for every number of handles, workers, messages,  *)
(* quiet reads and unloads of the driver.                                  *)
(***************************************************************************)
EXTENDS RbPort, TLAPS

Ctx == [pc : {"idle", "call", "clear", "close", "release", "gone"},
        port : Handles \cup {0}, refs : 0 .. 2]

\* Between DuplicateHandle and CloseHandle a worker owns the handle in its context.
Owns(w) == ctx[w].pc \in {"call", "clear", "close"}

\* g_Port and the duplicates are all different, and all in use.
HandleInv ==
  /\ gPort # 0 => handles[gPort] # "free"
  /\ rpc = "connect" => gPort = 0
  /\ \A w \in Workers : Owns(w) =>
       ctx[w].port \in Handles /\ ctx[w].port # gPort /\ handles[ctx[w].port] # "free"
  /\ \A v, w \in Workers : Owns(v) /\ Owns(w) /\ v # w => ctx[v].port # ctx[w].port

\* The reader waits for the worker of context w.
Awaits(w) == rpc = "await" /\ caller = w

\* A context is free, or counts the worker that has not left it and the reader
\* that waits for it.
RefsInv ==
  \A w \in Workers :
    /\ ctx[w].pc = "idle" => ctx[w] = Idle /\ ~Awaits(w)
    /\ ctx[w].pc = "gone" => Awaits(w) /\ ctx[w].refs = 1
    /\ ctx[w].pc \notin {"idle", "gone"} => ctx[w].refs = IF Awaits(w) THEN 2 ELSE 1

ConnInv == PortTypeOK /\ HandleInv /\ RefsInv

-----------------------------------------------------------------------------
(* Types.                                                                  *)

LEMMA PortTypeInit == PortInit => PortTypeOK
<1> SUFFICES ASSUME PortInit PROVE PortTypeOK
  OBVIOUS
<1>1. handles \in [Handles -> {"free", "live", "dead"}]
  BY DEF PortInit
<1>2. ctx \in [Workers -> Ctx]
  BY DEF PortInit, Idle, Ctx
<1>3. caller \in Workers
  BY PortAssumption DEF PortInit
<1>4. handled \in Seq(1 .. MaxMsgs)
  BY DEF PortInit
<1>5. sent \in 0 .. MaxMsgs /\ buf \in 0 .. sent
  BY PortAssumption DEF PortInit
<1> QED
  BY <1>1, <1>2, <1>3, <1>4, <1>5 DEF PortInit, PortTypeOK, Ctx

\* What closing a handle does to the types.
LEMMA CloseHandleType ==
  ASSUME PortTypeOK, NEW h \in Handles \cup {0}, CloseHandle(h)
  PROVE  /\ handles' \in [Handles -> {"free", "live", "dead"}]
         /\ torn' \in BOOLEAN /\ pend' \in Nat /\ event' \in BOOLEAN
         /\ ov' \in {"none", "pending", "done", "aborted", "failed"}
         /\ \A g \in Handles : g # h => handles'[g] = handles[g]
<1>1. handles' \in [Handles -> {"free", "live", "dead"}]
      /\ \A g \in Handles : g # h => handles'[g] = handles[g]
  BY DEF CloseHandle, PortTypeOK
<1>2. CASE Connected(handles) /\ ~Connected(handles')
  <2>1. /\ torn' = TRUE /\ pend' = 0
        /\ IF pend > 0 THEN ov' = "aborted" /\ event' = TRUE ELSE UNCHANGED <<ov, event>>
    BY <1>2 DEF CloseHandle
  <2>2. event' = TRUE \/ event' = event
    BY <2>1
  <2> QED
    BY <1>1, <2>1, <2>2 DEF PortTypeOK
<1>3. CASE ~(Connected(handles) /\ ~Connected(handles'))
  <2>1. UNCHANGED <<torn, pend, ov, event>>
    BY <1>3 DEF CloseHandle
  <2> QED
    BY <1>1, <2>1 DEF PortTypeOK
<1> QED
  BY <1>2, <1>3

LEMMA PortTypeDriver ==
  ASSUME PortTypeOK, DeliverMessage \/ UnloadDriver \/ LoadDriver \/ RequestStop
  PROVE  PortTypeOK'
<1> USE PortAssumption DEF PortTypeOK, driverVars, readVars, connVars, sendVars
<1>1. CASE DeliverMessage
  BY <1>1 DEF DeliverMessage
<1>2. CASE UnloadDriver
  <2>1. handles' \in [Handles -> {"free", "live", "dead"}]
    BY <1>2 DEF UnloadDriver
  <2>2. torn' \in BOOLEAN
    BY <1>2 DEF UnloadDriver, Connected
  <2>3. event' \in BOOLEAN /\ ov' \in {"none", "pending", "done", "aborted", "failed"}
    BY <1>2 DEF UnloadDriver
  <2>4. UNCHANGED <<sendVars, rpc, stop, quiet, gPort, buf, sent, handled>>
        /\ unloads' \in Nat /\ pend' \in Nat
    BY <1>2 DEF UnloadDriver
  <2>5. up' \in BOOLEAN
    BY <1>2 DEF UnloadDriver
  <2> QED
    BY <2>1, <2>2, <2>3, <2>4, <2>5
<1>3. CASE LoadDriver
  BY <1>3 DEF LoadDriver
<1>4. CASE RequestStop
  BY <1>4 DEF RequestStop
<1> QED
  BY <1>1, <1>2, <1>3, <1>4

LEMMA PortTypeReader ==
  ASSUME PortTypeOK,
         \/ LoopHead \/ PortConnect \/ ZeroBuffers \/ FilterGetMessage \/ WaitSignalled
         \/ PortHandleMessage \/ WaitTimesOut \/ PortCloseLocked
  PROVE  PortTypeOK'
<1> USE PortAssumption DEF PortTypeOK, driverVars, readVars, connVars, sendVars
<1>1. CASE LoopHead
  BY <1>1 DEF LoopHead
<1>2. CASE PortConnect
  <2>1. CASE UNCHANGED <<gPort, handles>> /\ rpc' = "top"
    BY <1>2, <2>1 DEF PortConnect
  <2>2. CASE \E h \in FreeHandles :
               gPort' = h /\ handles' = [handles EXCEPT ![h] = "live"] /\ rpc' = "zero"
    BY <1>2, <2>2 DEF PortConnect, FreeHandles
  <2> QED
    BY <1>2, <2>1, <2>2 DEF PortConnect
<1>3. CASE ZeroBuffers
  <2>1. event' \in BOOLEAN
    BY <1>3 DEF ZeroBuffers
  <2>2. /\ rpc' = "issue" /\ buf' \in 0 .. sent /\ ov' = "none"
        /\ UNCHANGED <<driverVars, connVars, sendVars, stop, quiet, pend, sent, handled>>
    BY <1>3 DEF ZeroBuffers
  <2> QED
    BY <2>1, <2>2
<1>4. CASE FilterGetMessage
  <2>1. event' \in BOOLEAN
    BY <1>4 DEF FilterGetMessage
  <2>2. /\ rpc' \in {"wait", "handle", "close"} /\ sent' \in 0 .. MaxMsgs /\ buf' \in 0 .. sent'
        /\ ov' \in {"none", "pending", "done", "aborted", "failed"} /\ pend' \in Nat
        /\ UNCHANGED <<driverVars, connVars, sendVars, stop, quiet, handled>>
    <3>1. UNCHANGED <<driverVars, connVars, sendVars, stop, quiet, handled>>
      BY <1>4 DEF FilterGetMessage
    <3>2. CASE /\ rpc' = "wait" /\ pend' = pend + 1 /\ ov' = "pending"
               /\ UNCHANGED <<buf, sent>>
      BY <3>1, <3>2
    <3>3. CASE /\ rpc' = "handle" /\ sent < MaxMsgs /\ sent' = sent + 1 /\ buf' = sent + 1
               /\ ov' = "done" /\ pend' = pend
      BY <3>1, <3>3
    <3>4. CASE rpc' = "close" /\ UNCHANGED <<buf, ov, pend, sent>>
      BY <3>1, <3>4
    <3> QED
      BY <1>4, <3>2, <3>3, <3>4 DEF FilterGetMessage
  <2> QED
    BY <2>1, <2>2
<1>5. CASE WaitSignalled
  BY <1>5 DEF WaitSignalled
<1>6. CASE PortHandleMessage
  <2>1. CASE buf = 0
    BY <1>6, <2>1 DEF PortHandleMessage
  <2>2. CASE buf # 0
    <3>1. buf \in 1 .. MaxMsgs
      BY <2>2
    <3>2. Append(handled, buf) \in Seq(1 .. MaxMsgs)
      BY <3>1
    <3> QED
      BY <1>6, <2>2, <3>2 DEF PortHandleMessage
  <2> QED
    BY <2>1, <2>2
<1>7. CASE WaitTimesOut
  BY <1>7 DEF WaitTimesOut
<1>8. CASE PortCloseLocked
  <2>1. CloseHandle(gPort) /\ gPort' = 0 /\ rpc' \in {"done", "top"}
    BY <1>8 DEF PortCloseLocked
  <2> QED
    BY <1>8, <2>1, CloseHandleType DEF PortCloseLocked
<1> QED
  BY <1>1, <1>2, <1>3, <1>4, <1>5, <1>6, <1>7, <1>8

-----------------------------------------------------------------------------
(* Handles and contexts.                                                   *)

LEMMA ConnInvInit == PortInit => ConnInv
<1> SUFFICES ASSUME PortInit PROVE ConnInv
  OBVIOUS
<1>1. \A w \in Workers : ctx[w] = Idle /\ ctx[w].pc = "idle"
  BY DEF PortInit, Idle
<1> QED
  BY <1>1, PortTypeInit DEF PortInit, ConnInv, HandleInv, RefsInv, Owns, Awaits

\* Most steps change neither a handle nor a context.
LEMMA HandlesStay ==
  ASSUME HandleInv, UNCHANGED <<ctx, gPort, handles>>, rpc' = "connect" => gPort = 0
  PROVE  HandleInv'
  BY DEF HandleInv, Owns

LEMMA RefsStay ==
  ASSUME RefsInv, UNCHANGED <<ctx, caller>>, rpc' = "await" <=> rpc = "await"
  PROVE  RefsInv'
  BY DEF RefsInv, Awaits

LEMMA ConnInvDriver ==
  ASSUME ConnInv, DeliverMessage \/ UnloadDriver \/ LoadDriver \/ RequestStop
  PROVE  ConnInv'
<1>1. UNCHANGED <<ctx, caller, gPort, rpc>>
  BY DEF DeliverMessage, UnloadDriver, LoadDriver, RequestStop, connVars, sendVars
<1>2. \A h \in Handles : handles[h] # "free" => handles'[h] # "free"
  BY DEF DeliverMessage, UnloadDriver, LoadDriver, RequestStop, connVars, ConnInv, PortTypeOK
<1>3. HandleInv'
  BY <1>1, <1>2 DEF ConnInv, HandleInv, Owns, PortTypeOK
<1> QED
  BY <1>1, <1>3, PortTypeDriver, RefsStay DEF ConnInv

LEMMA ConnInvReader ==
  ASSUME ConnInv,
         \/ LoopHead \/ PortConnect \/ ZeroBuffers \/ FilterGetMessage \/ WaitSignalled
         \/ PortHandleMessage \/ WaitTimesOut \/ PortCloseLocked
  PROVE  ConnInv'
<1>1. UNCHANGED <<ctx, caller>> /\ rpc # "await" /\ rpc' # "await"
  BY DEF LoopHead, PortConnect, ZeroBuffers, FilterGetMessage, WaitSignalled, PortHandleMessage,
         WaitTimesOut, PortCloseLocked, sendVars
<1>2. RefsInv'
  BY <1>1, RefsStay DEF ConnInv
<1>3. HandleInv'
  <2>1. CASE \/ LoopHead \/ ZeroBuffers \/ FilterGetMessage \/ WaitSignalled
             \/ PortHandleMessage \/ WaitTimesOut
    <3>1. UNCHANGED <<gPort, handles>> /\ (rpc' = "connect" => gPort = 0)
      BY <2>1
      DEF LoopHead, ZeroBuffers, FilterGetMessage, WaitSignalled, PortHandleMessage,
          WaitTimesOut, connVars
    <3> QED
      BY <1>1, <3>1, HandlesStay DEF ConnInv
  <2>2. CASE PortConnect
    <3>1. CASE UNCHANGED <<gPort, handles>> /\ rpc' = "top"
      BY <1>1, <3>1, HandlesStay DEF ConnInv
    <3>2. CASE \E h \in FreeHandles :
                 gPort' = h /\ handles' = [handles EXCEPT ![h] = "live"] /\ rpc' = "zero"
      <4>1. PICK h \in FreeHandles :
                 gPort' = h /\ handles' = [handles EXCEPT ![h] = "live"] /\ rpc' = "zero"
        BY <3>2
      <4>2. h \in Handles /\ handles[h] = "free" /\ handles'[h] = "live"
            /\ \A g \in Handles : g # h => handles'[g] = handles[g]
        BY <4>1 DEF FreeHandles, ConnInv, PortTypeOK
      <4> QED
        BY <1>1, <4>1, <4>2 DEF ConnInv, HandleInv, Owns
    <3> QED
      BY <2>2, <3>1, <3>2 DEF PortConnect
  <2>3. CASE PortCloseLocked
    <3>1. CloseHandle(gPort) /\ gPort' = 0 /\ rpc' # "connect" /\ gPort \in Handles \cup {0}
      BY <2>3 DEF PortCloseLocked, ConnInv, PortTypeOK
    <3>2. \A g \in Handles : g # gPort => handles'[g] = handles[g]
      BY <3>1, CloseHandleType DEF ConnInv
    <3>3. 0 \notin Handles
      BY PortAssumption
    <3> QED
      BY <1>1, <3>1, <3>2, <3>3 DEF ConnInv, HandleInv, Owns
  <2> QED
    BY <2>1, <2>2, <2>3
<1> QED
  BY <1>2, <1>3, PortTypeReader DEF ConnInv

\* A worker starts, with a handle and a context of its own.
LEMMA ConnInvQuery ==
  ASSUME ConnInv, PortQueryStats
  PROVE  ConnInv'
<1>1. UNCHANGED <<driverVars, readVars, gPort, torn, stop, quiet>> /\ rpc = "sample"
      /\ rpc' \in {"top", "await"}
  BY DEF PortQueryStats
<1>2. CASE UNCHANGED <<handles, sendVars>> /\ rpc' = "top"
  <2>1. PortTypeOK'
    BY <1>1, <1>2 DEF ConnInv, PortTypeOK, driverVars, readVars, sendVars
  <2> QED
    BY <1>1, <1>2, <2>1, HandlesStay, RefsStay DEF ConnInv, sendVars
<1>3. ASSUME NEW h \in Handles, DuplicateHandle(h),
             handles' = [handles EXCEPT ![h] = handles[gPort]], Names(gPort) # "free"
      PROVE  /\ handles' \in [Handles -> {"free", "live", "dead"}]
             /\ handles[h] = "free" /\ handles'[h] # "free" /\ h # gPort
             /\ \A g \in Handles : g # h => handles'[g] = handles[g]
             /\ \A w \in Workers : Owns(w) => ctx[w].port # h
             /\ gPort \in Handles /\ handles[gPort] # "free"
  <2>1. gPort \in Handles /\ handles[gPort] # "free"
    BY <1>3 DEF Names
  <2>2. handles[h] = "free"
    BY <1>3 DEF DuplicateHandle, FreeHandles
  <2> QED
    BY <1>3, <2>1, <2>2 DEF ConnInv, PortTypeOK, HandleInv
<1>4. CASE \E h \in Handles :
             /\ DuplicateHandle(h) /\ Names(gPort) # "free"
             /\ handles' = [handles EXCEPT ![h] = handles[gPort]]
             /\ leaked' = leaked \cup {h} /\ rpc' = "top"
             /\ UNCHANGED <<inFlight, ctx, caller>>
  <2>1. PICK h \in Handles :
             /\ DuplicateHandle(h) /\ Names(gPort) # "free"
             /\ handles' = [handles EXCEPT ![h] = handles[gPort]]
             /\ leaked' = leaked \cup {h} /\ rpc' = "top"
             /\ UNCHANGED <<inFlight, ctx, caller>>
    BY <1>4
  <2>2. PortTypeOK'
    BY <1>1, <1>3, <2>1 DEF ConnInv, PortTypeOK, driverVars, readVars
  <2>3. HandleInv'
    <3>1. gPort' = gPort /\ handles'[gPort] # "free" /\ rpc' # "connect"
      BY <1>1, <1>3, <2>1
    <3>2. \A w \in Workers : Owns(w)' <=> Owns(w)
      BY <2>1 DEF Owns
    <3>3. \A w \in Workers : Owns(w) =>
             /\ ctx[w].port \in Handles /\ ctx[w].port # gPort /\ ctx[w].port # h
             /\ handles[ctx[w].port] # "free"
      BY <1>3, <2>1 DEF ConnInv, HandleInv
    <3>4. \A w \in Workers : Owns(w) => handles'[ctx[w].port] # "free"
      BY <1>3, <2>1, <3>3
    <3>5. \A v, w \in Workers : Owns(v) /\ Owns(w) /\ v # w => ctx[v].port # ctx[w].port
      BY DEF ConnInv, HandleInv
    <3>6. ctx' = ctx
      BY <2>1
    <3> QED
      BY <3>1, <3>2, <3>3, <3>4, <3>5, <3>6 DEF HandleInv
  <2> QED
    BY <1>1, <2>1, <2>2, <2>3, RefsStay DEF ConnInv
<1>5. CASE \E h \in Handles, w \in IdleWorkers :
             /\ DuplicateHandle(h) /\ Names(gPort) # "free"
             /\ handles' = [handles EXCEPT ![h] = handles[gPort]]
             /\ inFlight' = TRUE
             /\ ctx' = [ctx EXCEPT ![w] = [pc |-> "call", port |-> h, refs |-> 2]]
             /\ caller' = w /\ rpc' = "await" /\ UNCHANGED leaked
  <2>1. PICK h \in Handles, w \in IdleWorkers :
             /\ DuplicateHandle(h) /\ Names(gPort) # "free"
             /\ handles' = [handles EXCEPT ![h] = handles[gPort]]
             /\ inFlight' = TRUE
             /\ ctx' = [ctx EXCEPT ![w] = [pc |-> "call", port |-> h, refs |-> 2]]
             /\ caller' = w /\ rpc' = "await" /\ UNCHANGED leaked
    BY <1>5
  <2>2. /\ w \in Workers /\ ctx[w].pc = "idle"
        /\ ctx'[w].pc = "call" /\ ctx'[w].port = h /\ ctx'[w].refs = 2
        /\ \A v \in Workers : v # w => ctx'[v] = ctx[v]
    BY <2>1 DEF ConnInv, PortTypeOK, IdleWorkers, Idle
  <2>3. ctx' \in [Workers -> Ctx]
    BY <2>1, <2>2 DEF ConnInv, PortTypeOK, Ctx
  <2>4. inFlight' \in BOOLEAN
    BY <2>1
  <2>5. PortTypeOK'
    BY <1>1, <1>3, <2>1, <2>2, <2>3, <2>4 DEF ConnInv, PortTypeOK, driverVars, readVars, Ctx
  <2>6. HandleInv'
    <3>1. \A v \in Workers : v # w => (Owns(v)' <=> Owns(v))
      BY <2>2 DEF Owns
    <3>2. /\ gPort' = gPort /\ gPort' \in Handles /\ handles'[gPort] # "free"
          /\ ctx'[w].port # gPort' /\ ctx'[w].port \in Handles
          /\ handles'[ctx'[w].port] # "free"
      BY <1>1, <1>3, <2>1, <2>2
    <3>3. \A v \in Workers : v # w /\ Owns(v)' =>
             /\ ctx'[v].port \in Handles /\ ctx'[v].port # gPort' /\ ctx'[v].port # ctx'[w].port
             /\ handles'[ctx'[v].port] # "free"
        <4> SUFFICES ASSUME NEW v \in Workers, v # w, Owns(v)'
                   PROVE  /\ ctx'[v].port \in Handles /\ ctx'[v].port # gPort'
                          /\ ctx'[v].port # ctx'[w].port /\ handles'[ctx'[v].port] # "free"
        OBVIOUS
      <4>1. /\ ctx'[v] = ctx[v] /\ ctx[v].port \in Handles /\ ctx[v].port # gPort
            /\ handles[ctx[v].port] # "free"
        BY <2>2, <3>1 DEF ConnInv, HandleInv
      <4>2. ctx[v].port # h /\ handles'[ctx[v].port] = handles[ctx[v].port]
        BY <1>3, <2>1, <3>1, <4>1
      <4> QED
        BY <1>1, <2>2, <4>1, <4>2
    <3>4. \A u, v \in Workers : u # w /\ v # w /\ Owns(u)' /\ Owns(v)' /\ u # v =>
             ctx'[u].port # ctx'[v].port
      BY <2>2, <3>1 DEF ConnInv, HandleInv
    <3> QED
      BY <2>1, <3>2, <3>3, <3>4 DEF HandleInv
  <2>7. RefsInv'
    BY <1>1, <2>1, <2>2 DEF ConnInv, RefsInv, Awaits
  <2> QED
    BY <2>5, <2>6, <2>7 DEF ConnInv
<1> QED
  BY <1>1, <1>2, <1>4, <1>5 DEF PortQueryStats, IdleWorkers

\* One reference less.
LEMMA ReleaseType ==
  ASSUME PortTypeOK, NEW w \in Workers, ctx[w].refs \in {1, 2},
         NEW p \in {"call", "clear", "close", "release", "gone"}, PortSendCtxRelease(w, p)
  PROVE  /\ ctx' \in [Workers -> Ctx]
         /\ \A v \in Workers : v # w => ctx'[v] = ctx[v]
         /\ ctx[w].refs = 1 => ctx'[w] = Idle
         /\ ctx[w].refs = 2 => /\ ctx'[w].refs = 1 /\ ctx'[w].pc = p
                               /\ ctx'[w].port = ctx[w].port
<1>1. CASE ctx[w].refs = 1
  <2>1. ctx' = [ctx EXCEPT ![w] = Idle]
    BY <1>1 DEF PortSendCtxRelease
  <2>2. Idle \in Ctx
    BY DEF Idle, Ctx
  <2> QED
    BY <1>1, <2>1, <2>2 DEF PortTypeOK, Ctx
<1>2. CASE ctx[w].refs = 2
  <2> DEFINE left == [pc |-> p, port |-> ctx[w].port, refs |-> 1]
  <2>1. ctx' = [ctx EXCEPT ![w] = left]
    BY <1>2 DEF PortSendCtxRelease
  <2>2. ctx[w] \in Ctx
    BY DEF PortTypeOK, Ctx
  <2>3. left \in Ctx /\ left.refs = 1 /\ left.pc = p /\ left.port = ctx[w].port
    BY <1>2, <2>2 DEF Ctx
  <2> HIDE DEF left
  <2> QED
    BY <1>2, <2>1, <2>3 DEF PortTypeOK, Ctx
<1> QED
  BY <1>1, <1>2

LEMMA ConnInvStopAwaiting ==
  ASSUME ConnInv, StopAwaiting
  PROVE  ConnInv'
<1>1. /\ rpc = "await" /\ rpc' = "top" /\ PortSendCtxRelease(caller, ctx[caller].pc)
      /\ UNCHANGED <<driverVars, readVars, connVars, inFlight, caller, leaked, stop, quiet>>
  BY DEF StopAwaiting
<1>2. /\ caller \in Workers /\ Awaits(caller) /\ ctx[caller].refs \in {1, 2}
      /\ ctx[caller].pc \in {"call", "clear", "close", "release", "gone"}
      /\ ctx[caller].refs = 1 <=> ctx[caller].pc = "gone"
  BY <1>1 DEF ConnInv, PortTypeOK, RefsInv, Awaits
<1>3. /\ ctx' \in [Workers -> Ctx]
      /\ \A v \in Workers : v # caller => ctx'[v] = ctx[v]
      /\ ctx[caller].refs = 1 => ctx'[caller] = Idle
      /\ ctx[caller].refs = 2 =>
           /\ ctx'[caller].refs = 1 /\ ctx'[caller].pc = ctx[caller].pc
           /\ ctx'[caller].port = ctx[caller].port
  BY <1>1, <1>2, ReleaseType DEF ConnInv
<1>4. Idle.pc = "idle"
  BY DEF Idle
<1>5. PortTypeOK'
  BY <1>1, <1>3 DEF ConnInv, PortTypeOK, driverVars, readVars, connVars, Ctx
<1>6. HandleInv'
  BY <1>1, <1>2, <1>3, <1>4 DEF ConnInv, HandleInv, Owns, connVars
<1>7. RefsInv'
  BY <1>1, <1>2, <1>3, <1>4 DEF ConnInv, RefsInv, Awaits
<1> QED
  BY <1>5, <1>6, <1>7 DEF ConnInv

\* A worker moves on to label p without touching a handle.
LEMMA ConnInvGoto ==
  ASSUME ConnInv, NEW w \in Workers, NEW p \in {"clear", "close", "release"},
         ctx[w].pc \in {"call", "clear", "close"}, ctx' = [ctx EXCEPT ![w].pc = p],
         UNCHANGED <<gPort, caller, rpc>>,
         \A v \in Workers : Owns(v)' => handles'[ctx[v].port] = handles[ctx[v].port],
         gPort # 0 => handles'[gPort] = handles[gPort]
  PROVE  ctx' \in [Workers -> Ctx] /\ HandleInv' /\ RefsInv'
<1>1. /\ ctx' \in [Workers -> Ctx] /\ ctx'[w].pc = p
      /\ ctx'[w].port = ctx[w].port /\ ctx'[w].refs = ctx[w].refs
      /\ \A v \in Workers : v # w => ctx'[v] = ctx[v]
  BY DEF ConnInv, PortTypeOK, Ctx
<1>2. HandleInv'
  BY <1>1 DEF ConnInv, HandleInv, Owns
<1>3. RefsInv'
  BY <1>1 DEF ConnInv, RefsInv, Awaits
<1> QED
  BY <1>1, <1>2, <1>3

LEMMA ConnInvWorker ==
  ASSUME ConnInv, NEW w \in Workers, FilterSendMessage(w) \/ WorkerLeaves(w)
  PROVE  ConnInv'
<1>1. CASE FilterSendMessage(w)
  <2>1. ctx' \in [Workers -> Ctx] /\ HandleInv' /\ RefsInv'
    BY <1>1, ConnInvGoto DEF FilterSendMessage, connVars
  <2> QED
    BY <1>1, <2>1
    DEF FilterSendMessage, ConnInv, PortTypeOK, driverVars, readVars, connVars, Ctx
<1>2. CASE ctx[w].pc = "clear" /\ inFlight' = FALSE /\ ctx' = [ctx EXCEPT ![w].pc = "close"]
           /\ UNCHANGED <<driverVars, readVars, connVars, caller, leaked, rpc, stop, quiet>>
  <2>1. ctx' \in [Workers -> Ctx] /\ HandleInv' /\ RefsInv'
    BY <1>2, ConnInvGoto DEF connVars
  <2>2. inFlight' \in BOOLEAN
    BY <1>2
  <2>3. UNCHANGED <<driverVars, readVars, connVars, caller, leaked, rpc, stop, quiet>>
    BY <1>2
  <2> QED
    BY <2>1, <2>2, <2>3 DEF ConnInv, PortTypeOK, driverVars, readVars, connVars, Ctx
<1>3. CASE /\ ctx[w].pc = "close" /\ CloseHandle(ctx[w].port)
           /\ ctx' = [ctx EXCEPT ![w].pc = "release"]
           /\ UNCHANGED <<driverVars, inFlight, caller, leaked, rpc, stop, quiet, gPort, buf,
                          sent, handled>>
  <2> DEFINE h == ctx[w].port
  <2>1. Owns(w) /\ h \in Handles /\ h # gPort
    BY <1>3 DEF ConnInv, HandleInv, Owns
  <2>2. /\ handles' \in [Handles -> {"free", "live", "dead"}]
        /\ torn' \in BOOLEAN /\ pend' \in Nat /\ event' \in BOOLEAN
        /\ ov' \in {"none", "pending", "done", "aborted", "failed"}
        /\ \A g \in Handles : g # h => handles'[g] = handles[g]
    BY <1>3, <2>1, CloseHandleType DEF ConnInv
  <2>3. \A v \in Workers : Owns(v)' => Owns(v) /\ v # w
    BY <1>3 DEF Owns, ConnInv, PortTypeOK
  <2>4. \A v \in Workers : Owns(v)' => handles'[ctx[v].port] = handles[ctx[v].port]
    BY <2>1, <2>2, <2>3 DEF ConnInv, HandleInv
  <2>5. gPort # 0 => handles'[gPort] = handles[gPort]
    BY <2>1, <2>2 DEF ConnInv, PortTypeOK
  <2>6. ctx' \in [Workers -> Ctx] /\ HandleInv' /\ RefsInv'
    BY <1>3, <2>4, <2>5, ConnInvGoto
  <2>7. PortTypeOK'
    BY <1>3, <2>2, <2>6 DEF ConnInv, PortTypeOK, driverVars, Ctx
  <2> QED
    BY <2>6, <2>7 DEF ConnInv
<1>4. CASE ctx[w].pc = "release" /\ PortSendCtxRelease(w, "gone")
           /\ UNCHANGED <<driverVars, readVars, connVars, inFlight, caller, leaked, rpc, stop,
                          quiet>>
  <2>1. ctx[w].refs \in {1, 2} /\ (ctx[w].refs = 2 <=> Awaits(w))
    BY <1>4 DEF ConnInv, RefsInv
  <2>2. /\ ctx' \in [Workers -> Ctx]
        /\ \A v \in Workers : v # w => ctx'[v] = ctx[v]
        /\ ctx[w].refs = 1 => ctx'[w] = Idle
        /\ ctx[w].refs = 2 => ctx'[w].refs = 1 /\ ctx'[w].pc = "gone"
    BY <1>4, <2>1, ReleaseType DEF ConnInv
  <2>3. Idle.pc = "idle"
    BY DEF Idle
  <2>4. PortTypeOK'
    BY <1>4, <2>2 DEF ConnInv, PortTypeOK, driverVars, readVars, connVars, Ctx
  <2>5. HandleInv'
    BY <1>4, <2>1, <2>2, <2>3 DEF ConnInv, HandleInv, Owns, connVars
  <2>6. RefsInv'
    BY <1>4, <2>1, <2>2, <2>3 DEF ConnInv, RefsInv, Awaits
  <2> QED
    BY <2>4, <2>5, <2>6 DEF ConnInv
<1> QED
  BY <1>1, <1>2, <1>3, <1>4 DEF WorkerLeaves

LEMMA ConnInvStep == ConnInv /\ [PortNext]_portVars => ConnInv'
<1> SUFFICES ASSUME ConnInv, [PortNext]_portVars PROVE ConnInv'
  OBVIOUS
<1>1. CASE UNCHANGED portVars
  <2>1. UNCHANGED <<ctx, caller, rpc, gPort, handles>>
    BY <1>1 DEF portVars, connVars, sendVars
  <2>2. PortTypeOK'
    BY <1>1
    DEF portVars, driverVars, readVars, connVars, sendVars, ConnInv, PortTypeOK
  <2> QED
    BY <2>1, <2>2, RefsStay, HandlesStay DEF ConnInv, HandleInv
<1> QED
  BY <1>1, ConnInvDriver, ConnInvReader, ConnInvQuery, ConnInvStopAwaiting, ConnInvWorker
  DEF PortNext, PortThreadProc

\* Every variable of the reader keeps to its values.
THEOREM PortTypes == PortSpec => []PortTypeOK
  BY ConnInvInit, ConnInvStep, PTL DEF PortSpec, ConnInv

\* The reader's connection ends only by the reader or with the driver (RB-35):
\* no worker ever holds the number in g_Port.
THEOREM ConnectionKept == PortSpec => LiveConnectionKept
<1> DEFINE Kept == Names(gPort) = "live" /\ handles'[gPort] # "live" => gPort' = 0 \/ up # up'
<1>1. ConnInv /\ [PortNext]_portVars => [Kept]_portVars
  <2> SUFFICES ASSUME ConnInv, PortNext, Names(gPort) = "live", handles'[gPort] # "live"
               PROVE  gPort' = 0 \/ up # up'
    OBVIOUS
  <2>1. gPort \in Handles /\ handles[gPort] = "live" /\ handles' # handles
    BY DEF Names
  <2>2. CASE DeliverMessage \/ LoadDriver \/ RequestStop
    BY <2>1, <2>2 DEF DeliverMessage, LoadDriver, RequestStop, connVars
  <2>3. CASE UnloadDriver
    BY <2>3 DEF UnloadDriver
  <2>4. CASE \/ LoopHead \/ ZeroBuffers \/ FilterGetMessage \/ WaitSignalled
             \/ PortHandleMessage \/ WaitTimesOut \/ StopAwaiting
    BY <2>1, <2>4
    DEF LoopHead, ZeroBuffers, FilterGetMessage, WaitSignalled, PortHandleMessage, WaitTimesOut,
        StopAwaiting, connVars
  <2>5. CASE PortConnect
    <3>1. rpc = "connect" /\ gPort = 0
      BY <2>5 DEF PortConnect, ConnInv, HandleInv
    <3> QED
      BY <2>1, <3>1, PortAssumption
  <2>6. CASE PortCloseLocked
    BY <2>6 DEF PortCloseLocked
  <2>7. CASE PortQueryStats
    <3>1. PICK h \in Handles : DuplicateHandle(h) /\ handles' = [handles EXCEPT ![h] = handles[gPort]]
      BY <2>1, <2>7 DEF PortQueryStats
    <3> QED
      BY <2>1, <3>1 DEF ConnInv, PortTypeOK
  <2>8. CASE \E w \in Workers : FilterSendMessage(w) \/ WorkerLeaves(w)
    <3>1. PICK w \in Workers : FilterSendMessage(w) \/ WorkerLeaves(w)
      BY <2>8
    <3>2. ctx[w].pc = "close" /\ CloseHandle(ctx[w].port)
      BY <2>1, <3>1 DEF FilterSendMessage, WorkerLeaves, connVars
    <3>3. ctx[w].port \in Handles /\ ctx[w].port # gPort
      BY <3>2 DEF ConnInv, HandleInv, Owns
    <3> QED
      BY <2>1, <3>2, <3>3, CloseHandleType DEF ConnInv
  <2> QED
    BY <2>2, <2>3, <2>4, <2>5, <2>6, <2>7, <2>8 DEF PortNext, PortThreadProc
<1> QED
  BY <1>1, ConnInvInit, ConnInvStep, PTL DEF PortSpec, LiveConnectionKept

-----------------------------------------------------------------------------
(* The shared buffer.                                                      *)

\* What lies in the buffer when the reader may come to handle it is newer than
\* all it has handled.
FreshInv ==
  /\ \A i \in DOMAIN handled : handled[i] <= sent
  /\ rpc \in {"issue", "wait", "handle"} /\ buf # 0 => \A i \in DOMAIN handled : handled[i] < buf

LEMMA FreshStep ==
  ASSUME ConnInv, FreshInv, HandledOnce, [PortNext]_portVars
  PROVE  FreshInv' /\ HandledOnce'
<1>1. handled \in Seq(Nat) /\ sent \in Nat /\ buf \in Nat /\ buf <= sent
  BY PortAssumption DEF ConnInv, PortTypeOK
<1>2. CASE PortHandleMessage
  <2>1. rpc = "handle" /\ rpc' = "top" /\ UNCHANGED <<buf, sent>>
    BY <1>2 DEF PortHandleMessage
  <2>2. CASE buf = 0
    BY <1>2, <2>1, <2>2 DEF PortHandleMessage, FreshInv, HandledOnce
  <2>3. CASE buf # 0
    <3>1. handled' = Append(handled, buf)
      BY <1>2, <2>3 DEF PortHandleMessage
    <3>2. /\ DOMAIN handled' = 1 .. Len(handled) + 1 /\ DOMAIN handled = 1 .. Len(handled)
          /\ handled'[Len(handled) + 1] = buf /\ Len(handled) \in Nat
          /\ \A i \in 1 .. Len(handled) : handled'[i] = handled[i] /\ handled[i] \in Nat
      BY <1>1, <3>1
    <3>3. \A i \in 1 .. Len(handled) : handled[i] < buf
      BY <2>1, <2>3, <3>2 DEF FreshInv
    <3> QED
      BY <1>1, <2>1, <3>2, <3>3 DEF FreshInv, HandledOnce
  <2> QED
    BY <2>2, <2>3
<1>3. CASE DeliverMessage \/ FilterGetMessage
  <2>1. UNCHANGED handled
    BY <1>3 DEF DeliverMessage, FilterGetMessage
  <2>2. \/ UNCHANGED <<buf, sent>> /\ (rpc' = rpc \/ rpc = "issue")
        \/ sent' = sent + 1 /\ buf' = sent + 1
    BY <1>3 DEF DeliverMessage, FilterGetMessage
  <2>3. \A i \in DOMAIN handled : handled[i] \in Nat
    BY <1>1
  <2> QED
    BY <1>1, <2>1, <2>2, <2>3 DEF FreshInv, HandledOnce
<1>4. CASE ZeroBuffers
  BY <1>4 DEF ZeroBuffers, FreshInv, HandledOnce
<1>5. CASE \/ LoopHead \/ PortConnect \/ WaitSignalled \/ WaitTimesOut \/ PortCloseLocked
           \/ PortQueryStats \/ StopAwaiting
  <2>1. UNCHANGED <<handled, buf, sent>> /\ rpc' # "issue" /\ (rpc' \in {"wait", "handle"} => rpc = "wait")
    BY <1>5
    DEF LoopHead, PortConnect, WaitSignalled, WaitTimesOut, PortCloseLocked, PortQueryStats,
        StopAwaiting, readVars
  <2> QED
    BY <2>1 DEF FreshInv, HandledOnce
<1>6. CASE \/ UnloadDriver \/ LoadDriver \/ RequestStop \/ UNCHANGED portVars
           \/ \E w \in Workers : FilterSendMessage(w) \/ WorkerLeaves(w)
  <2>1. UNCHANGED <<handled, buf, sent, rpc>>
    BY <1>6
    DEF UnloadDriver, LoadDriver, RequestStop, portVars, readVars, FilterSendMessage, WorkerLeaves
  <2> QED
    BY <2>1 DEF FreshInv, HandledOnce
<1> QED
  BY <1>2, <1>3, <1>4, <1>5, <1>6 DEF PortNext, PortThreadProc

\* No notification is given to PortHandleMessage twice or after a later one, for
\* all the reads that share its buffer.
THEOREM MessagesHandledOnce == PortSpec => []HandledOnce
<1>1. PortInit => FreshInv /\ HandledOnce
  BY DEF PortInit, FreshInv, HandledOnce
<1> QED
  BY <1>1, ConnInvInit, ConnInvStep, FreshStep, PTL DEF PortSpec

\* Until a read has timed out, and while no connection has ended and no stop was
\* asked for, there is one read at most and the reader waits for it: what was
\* sent is handled, but for the message in its hand.
Undisturbed == quiet = 0 /\ ~torn /\ ~stop
AllHandled(n) == \A m \in 1 .. n : \E i \in DOMAIN handled : handled[i] = m
HoldsLast == pend = 0 /\ ov = "done" /\ event /\ buf = sent /\ sent > 0 /\ AllHandled(sent - 1)

OneReadInv ==
  Undisturbed =>
    /\ gPort # 0 => handles[gPort] = "live"
    /\ rpc \in {"top", "connect", "zero", "issue", "wait", "handle"}
    /\ rpc \in {"top", "connect", "zero", "issue"} => pend = 0 /\ AllHandled(sent)
    /\ rpc \in {"zero", "issue", "wait", "handle"} => gPort # 0
    /\ rpc = "issue" => ~event
    /\ rpc = "wait" => HoldsLast \/ (pend = 1 /\ ov = "pending" /\ ~event /\ AllHandled(sent))
    /\ rpc = "handle" => HoldsLast

LEMMA OneReadLosesNone ==
  ASSUME PortTypeOK, OneReadInv
  PROVE  LostHasCause
<1> SUFFICES ASSUME Undisturbed PROVE Lost = {}
  BY DEF LostHasCause, Undisturbed, PortTypeOK
<1>1. CASE AllHandled(sent)
  BY <1>1 DEF AllHandled, Lost
<1>2. CASE HoldsLast /\ rpc \in {"wait", "handle"}
  <2>1. InHand = {sent} /\ sent \in Nat
    BY <1>2, PortAssumption DEF HoldsLast, InHand, PortTypeOK
  <2>2. \A m \in 1 .. sent : m = sent \/ m \in 1 .. sent - 1
    BY <2>1
  <2> QED
    BY <1>2, <2>1, <2>2 DEF HoldsLast, AllHandled, Lost
<1> QED
  BY <1>1, <1>2 DEF OneReadInv

LEMMA OneReadStep ==
  ASSUME ConnInv, OneReadInv, [PortNext]_portVars
  PROVE  OneReadInv'
<1> SUFFICES ASSUME Undisturbed' PROVE OneReadInv'
  BY DEF OneReadInv
<1>1. /\ handled \in Seq(1 .. MaxMsgs) /\ sent \in Nat /\ quiet \in Nat /\ pend \in Nat
      /\ gPort \in Handles \cup {0} /\ handles \in [Handles -> {"free", "live", "dead"}]
  BY PortAssumption DEF ConnInv, PortTypeOK
<1>2. CASE UNCHANGED <<readVars, handles, gPort, torn, rpc, stop, quiet>>
  BY <1>2 DEF readVars, OneReadInv, Undisturbed, HoldsLast, AllHandled
<1>3. CASE LoadDriver \/ RequestStop \/ UNCHANGED portVars
  BY <1>2, <1>3
  DEF LoadDriver, RequestStop, Undisturbed, portVars, readVars, connVars, driverVars, sendVars
<1>4. CASE DeliverMessage
  <2>1. Undisturbed /\ pend > 0 /\ rpc' = rpc /\ handled' = handled
    BY <1>4 DEF DeliverMessage, Undisturbed, connVars
  <2>2. rpc = "wait" /\ pend = 1 /\ AllHandled(sent)
    BY <2>1 DEF OneReadInv, HoldsLast
  <2>3. sent' = sent + 1 /\ buf' = sent' /\ event' /\ ov' = "done" /\ pend' = 0
    BY <1>1, <1>4, <2>2 DEF DeliverMessage
  <2>4. /\ \A m \in 1 .. sent : \E i \in DOMAIN handled' : handled'[i] = m
        /\ sent' - 1 = sent /\ sent' > 0
    <3>1. sent' - 1 = sent /\ sent' > 0
      BY <1>1, <2>3
    <3>2. \A m \in 1 .. sent : \E i \in DOMAIN handled : handled[i] = m
      BY <2>2 DEF AllHandled
    <3> QED
      BY <2>1, <3>1, <3>2
  <2>5. HoldsLast'
    BY <2>1, <2>2, <2>3, <2>4 DEF HoldsLast, AllHandled
  <2> QED
    BY <1>4, <2>1, <2>2, <2>5 DEF OneReadInv, DeliverMessage, connVars
<1>5. CASE UnloadDriver
  <2>1. Undisturbed /\ ~Connected(handles)
    BY <1>5 DEF UnloadDriver, Undisturbed
  <2>2. gPort = 0 /\ handles' = handles
    BY <1>1, <1>5, <2>1, PortAssumption DEF OneReadInv, Connected, UnloadDriver
  <2>3. pend = 0 /\ rpc \in {"top", "connect"} /\ AllHandled(sent)
    BY <2>1, <2>2 DEF OneReadInv
  <2>4. UNCHANGED <<pend, sent, handled, rpc, gPort>>
    BY <1>5, <2>3 DEF UnloadDriver
  <2> QED
    BY <2>2, <2>3, <2>4 DEF OneReadInv, AllHandled
<1>6. CASE LoopHead
  BY <1>1, <1>6 DEF LoopHead, OneReadInv, Undisturbed, AllHandled, readVars, connVars
<1>7. CASE PortConnect
  <2>1. /\ rpc = "connect" /\ gPort = 0 /\ Undisturbed
        /\ UNCHANGED <<pend, ov, event, buf, sent, handled>>
    BY <1>7 DEF PortConnect, ConnInv, HandleInv, Undisturbed, readVars
  <2>2. pend = 0 /\ AllHandled(sent)
    BY <2>1 DEF OneReadInv
  <2>4. CASE UNCHANGED <<gPort, handles>> /\ rpc' = "top"
    BY <2>1, <2>2, <2>4 DEF OneReadInv, AllHandled
  <2>5. CASE \E h \in FreeHandles :
               gPort' = h /\ handles' = [handles EXCEPT ![h] = "live"] /\ rpc' = "zero"
    <3>1. gPort' \in Handles /\ handles'[gPort'] = "live" /\ rpc' = "zero"
      BY <1>1, <2>5 DEF FreeHandles
    <3>2. gPort' # 0
      BY <3>1, PortAssumption
    <3> QED
      BY <2>1, <2>2, <3>1, <3>2 DEF OneReadInv, AllHandled
  <2> QED
    BY <1>7, <2>4, <2>5 DEF PortConnect
<1>8. CASE ZeroBuffers
  BY <1>1, <1>8 DEF ZeroBuffers, OneReadInv, Undisturbed, AllHandled, connVars
<1>9. CASE FilterGetMessage
  <2>1. /\ rpc = "issue" /\ Undisturbed
        /\ UNCHANGED <<gPort, handles, handled>>
    BY <1>9 DEF FilterGetMessage, Undisturbed, connVars
  <2>2. pend = 0 /\ AllHandled(sent) /\ gPort # 0 /\ handles[gPort] = "live" /\ ~event
    BY <2>1 DEF OneReadInv
  <2>3. Names(gPort) = "live"
    BY <1>1, <2>2 DEF Names
  <2>4. CASE /\ pend' = pend + 1 /\ ov' = "pending" /\ event' \in {event, FALSE}
             /\ rpc' = "wait" /\ UNCHANGED <<buf, sent>>
    <3>1. pend' = 1
      BY <2>2, <2>4
    <3>2. ~event'
      BY <2>2, <2>4, Zenon
    <3> QED
      BY <2>1, <2>2, <2>4, <3>1, <3>2 DEF OneReadInv, AllHandled
  <2>5. CASE /\ sent' = sent + 1 /\ buf' = sent + 1 /\ ov' = "done" /\ event' = TRUE
             /\ rpc' = "handle" /\ UNCHANGED pend
    <3>1. sent' - 1 = sent /\ sent' > 0 /\ buf' = sent' /\ pend' = 0 /\ event'
      BY <1>1, <2>2, <2>5
    <3>2. \A m \in 1 .. sent : \E i \in DOMAIN handled' : handled'[i] = m
      BY <2>1, <2>2 DEF AllHandled
    <3>3. HoldsLast'
      BY <2>5, <3>1, <3>2 DEF HoldsLast, AllHandled
    <3> QED
      BY <2>1, <2>2, <2>5, <3>3 DEF OneReadInv
  <2> QED
    BY <1>9, <2>3, <2>4, <2>5 DEF FilterGetMessage
<1>10. CASE WaitSignalled
  BY <1>10
  DEF WaitSignalled, OneReadInv, Undisturbed, HoldsLast, AllHandled, readVars, connVars
<1>11. CASE PortHandleMessage
  <2>1. Undisturbed /\ HoldsLast /\ rpc' = "top" /\ UNCHANGED <<pend, sent, gPort, handles>>
    BY <1>11 DEF PortHandleMessage, OneReadInv, Undisturbed, connVars
  <2>2. handled' = Append(handled, sent) /\ sent > 0 /\ pend = 0 /\ AllHandled(sent - 1)
    BY <1>1, <1>11, <2>1 DEF PortHandleMessage, HoldsLast
  <2>3. AllHandled(sent)'
    <3>1. \A i \in DOMAIN handled : i \in DOMAIN handled' /\ handled'[i] = handled[i]
      BY <1>1, <2>2
    <3>2. \E i \in DOMAIN handled' : handled'[i] = sent
      BY <1>1, <2>2
    <3>3. \A m \in 1 .. sent : m = sent \/ m \in 1 .. sent - 1
      BY <1>1
    <3> QED
      BY <2>1, <2>2, <3>1, <3>2, <3>3 DEF AllHandled
  <2> QED
    BY <2>1, <2>2, <2>3 DEF OneReadInv
<1>12. CASE WaitTimesOut
  BY <1>1, <1>12 DEF WaitTimesOut, Undisturbed
<1>13. CASE PortCloseLocked \/ PortQueryStats \/ StopAwaiting
  <2>1. rpc \in {"close", "exit", "sample", "await"}
    BY <1>13 DEF PortCloseLocked, PortQueryStats, StopAwaiting
  <2>2. Undisturbed
    BY <1>13 DEF PortCloseLocked, CloseHandle, PortQueryStats, StopAwaiting, connVars, Undisturbed
  <2> QED
    BY <2>1, <2>2 DEF OneReadInv
<1>14. CASE \E w \in Workers : FilterSendMessage(w) \/ WorkerLeaves(w)
  <2>1. PICK w \in Workers : FilterSendMessage(w) \/ WorkerLeaves(w)
    BY <1>14
  <2>2. CASE ctx[w].pc = "close" /\ CloseHandle(ctx[w].port)
             /\ UNCHANGED <<rpc, stop, quiet, gPort, buf, sent, handled>>
    <3>1. ctx[w].port \in Handles /\ ctx[w].port # gPort
      BY <2>2 DEF ConnInv, HandleInv, Owns
    <3>2. /\ \A h \in Handles : h # ctx[w].port => handles'[h] = handles[h]
          /\ UNCHANGED <<torn, pend, ov, event>>
      BY <1>1, <2>2, <3>1 DEF CloseHandle, Undisturbed
    <3>3. gPort # 0 => handles'[gPort] = handles[gPort]
      BY <1>1, <3>1, <3>2
    <3> QED
      BY <2>2, <3>2, <3>3 DEF OneReadInv, Undisturbed, HoldsLast, AllHandled
  <2>3. CASE UNCHANGED <<readVars, connVars, rpc, stop, quiet>>
    BY <1>2, <2>3 DEF connVars
  <2> QED
    BY <2>1, <2>2, <2>3 DEF FilterSendMessage, WorkerLeaves
<1> QED
  BY <1>3, <1>4, <1>5, <1>6, <1>7, <1>8, <1>9, <1>10, <1>11, <1>12, <1>13, <1>14
  DEF PortNext, PortThreadProc

\* A notification that reached a read is lost only beside a read that timed out,
\* with a connection that ended, or at the stop (LostHasCause).
THEOREM LostOnlyForCause == PortSpec => []LostHasCause
<1>1. PortInit => OneReadInv
  BY DEF PortInit, OneReadInv, AllHandled
<1>2. ConnInv /\ OneReadInv => LostHasCause
  BY OneReadLosesNone DEF ConnInv
<1> QED
  BY <1>1, <1>2, ConnInvInit, ConnInvStep, OneReadStep, PTL DEF PortSpec
=============================================================================
