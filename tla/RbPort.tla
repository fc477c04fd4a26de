------------------------------- MODULE RbPort -------------------------------
(***************************************************************************)
(* The port reader of rbservice.exe (rbport.c): one thread that reads the  *)
(* driver's notifications with overlapped reads, and the short-lived       *)
(* workers that ask the driver for its counters over a duplicate of the    *)
(* reader's handle.                                                        *)
(*                                                                         *)
(* Handles are numbers that the system gives out again once they are       *)
(* closed.  The driver accepts one connection; it ends when the last       *)
(* handle on it is closed, or with the driver.                             *)
(***************************************************************************)
EXTENDS Integers, Sequences, FiniteSets

CONSTANTS
  Handles,       \* handle numbers
  Workers,       \* contexts of statistics workers
  MaxMsgs,       \* bound: notifications the driver sends
  MaxQuiet,      \* bound: reads that time out
  MaxUnloads,    \* bound: unloads of the driver
  MaxLeaks       \* bound: CreateEvent or CreateThread failures of PortQueryStats

ASSUME PortAssumption ==
  /\ Handles \subseteq Nat \ {0} /\ Workers # {}
  /\ MaxMsgs \in Nat /\ MaxQuiet \in Nat /\ MaxUnloads \in Nat /\ MaxLeaks \in Nat

VARIABLES
  up,        \* the driver is loaded
  handles,   \* what each handle number names: "free", a "live" or a "dead" connection
  gPort,     \* g_Port, 0 for NULL
  rpc,       \* where PortThreadProc is
  buf,       \* the message in buf, 0 for none
  ov,        \* the OVERLAPPED: "none", "pending", "done", "aborted" or "failed"
  event,     \* hMsgEvent is set
  pend,      \* reads outstanding at the driver, all with that buf, ov and event
  sent,      \* history: notifications that reached a read, as the driver numbers them
  handled,   \* history: the messages given to PortHandleMessage, in order
  torn,      \* history: a connection has ended
  inFlight,  \* g_SendInFlight
  ctx,       \* PORT_SEND_CTX of each worker
  caller,    \* the context the reader waits for, or the last one
  leaked,    \* history: duplicates no thread will close
  stop,      \* g_StopEvent is set
  quiet, unloads

driverVars == <<up, unloads>>
readVars   == <<buf, ov, event, pend, sent, handled>>
connVars   == <<handles, gPort, torn>>
sendVars   == <<inFlight, ctx, caller, leaked>>
portVars   == <<driverVars, readVars, connVars, sendVars, rpc, stop, quiet>>

Idle == [pc |-> "idle", port |-> 0, refs |-> 0]

PortInit ==
  /\ up \in BOOLEAN /\ unloads = 0
  /\ handles = [h \in Handles |-> "free"] /\ gPort = 0 /\ torn = FALSE
  /\ rpc = "top" /\ stop = FALSE /\ quiet = 0
  /\ buf = 0 /\ ov = "none" /\ event = FALSE /\ pend = 0
  /\ sent = 0 /\ handled = <<>>
  /\ inFlight = FALSE /\ ctx = [w \in Workers |-> Idle] /\ caller = CHOOSE w \in Workers : TRUE
  /\ leaked = {}

FreeHandles == {h \in Handles : handles[h] = "free"}
Connected(hs) == \E h \in Handles : hs[h] = "live"
Names(h) == IF h \in Handles THEN handles[h] ELSE "free"

\* CloseHandle: with the last handle the connection ends, and its reads are
\* cancelled.  A number that names nothing is refused.
CloseHandle(h) ==
  /\ handles' = IF h \in Handles THEN [handles EXCEPT ![h] = "free"] ELSE handles
  /\ IF Connected(handles) /\ ~Connected(handles')
       THEN /\ torn' = TRUE
            /\ pend' = 0
            /\ IF pend > 0 THEN ov' = "aborted" /\ event' = TRUE ELSE UNCHANGED <<ov, event>>
       ELSE UNCHANGED <<torn, pend, ov, event>>

-----------------------------------------------------------------------------
(* The driver and the filter manager, as the reader meets them.            *)

\* A message goes to any outstanding read, whether or not the reader waits.
DeliverMessage ==
  /\ up /\ pend > 0 /\ sent < MaxMsgs
  /\ sent' = sent + 1
  /\ buf' = sent + 1 /\ ov' = "done" /\ event' = TRUE
  /\ pend' = pend - 1
  /\ UNCHANGED <<driverVars, connVars, sendVars, rpc, stop, quiet, handled>>

UnloadDriver ==
  /\ up /\ unloads < MaxUnloads
  /\ up' = FALSE /\ unloads' = unloads + 1
  /\ handles' = [h \in Handles |-> IF handles[h] = "live" THEN "dead" ELSE handles[h]]
  /\ torn' = (torn \/ Connected(handles))
  /\ pend' = 0
  /\ IF pend > 0 THEN ov' = "failed" /\ event' = TRUE ELSE UNCHANGED <<ov, event>>
  /\ UNCHANGED <<sendVars, rpc, stop, quiet, gPort, buf, sent, handled>>

LoadDriver ==
  /\ ~up
  /\ up' = TRUE
  /\ UNCHANGED <<unloads, readVars, connVars, sendVars, rpc, stop, quiet>>

RequestStop ==
  /\ ~stop /\ stop' = TRUE
  /\ UNCHANGED <<driverVars, readVars, connVars, sendVars, rpc, quiet>>

-----------------------------------------------------------------------------
(* PortThreadProc.  Its local "connected" is gPort # 0 at the loop's head. *)

LoopHead ==
  /\ rpc = "top"
  /\ rpc' = CASE stop -> "exit" [] ~stop /\ gPort = 0 -> "connect" [] OTHER -> "zero"
  /\ UNCHANGED <<driverVars, readVars, connVars, sendVars, stop, quiet>>

\* One connection at a time.  After a failure the loop waits RBSVC_RECONNECT_MS
\* for the stop event, and looks at it again.
PortConnect ==
  /\ rpc = "connect"
  /\ IF up /\ ~Connected(handles) /\ FreeHandles # {}
       THEN \E h \in FreeHandles :
              gPort' = h /\ handles' = [handles EXCEPT ![h] = "live"] /\ rpc' = "zero"
       ELSE rpc' = "top" /\ UNCHANGED <<gPort, handles>>
  /\ UNCHANGED <<driverVars, readVars, torn, sendVars, stop, quiet>>

ZeroBuffers ==
  /\ rpc = "zero" /\ rpc' = "issue"
  /\ buf' = 0 /\ ov' = "none" /\ event' = FALSE
  /\ UNCHANGED <<driverVars, connVars, sendVars, stop, quiet, pend, sent, handled>>

GetMessageWhenPending ==
  /\ rpc = "issue"
  /\ IF Names(gPort) = "live"
       THEN \/ /\ pend' = pend + 1 /\ ov' = "pending" /\ event' = FALSE
               /\ rpc' = "wait"
               /\ UNCHANGED <<buf, sent>>
            \/ /\ pend = 0 /\ sent < MaxMsgs
               /\ sent' = sent + 1
               /\ rpc' = "top"
               /\ UNCHANGED <<buf, ov, event, pend>>
       ELSE rpc' = "close" /\ UNCHANGED <<buf, ov, event, pend, sent>>
  /\ UNCHANGED <<driverVars, connVars, sendVars, stop, quiet, handled>>

\* FilterGetMessage: the read is left pending (whether that resets the event is
\* not documented), a message was waiting for one, or the connection is gone.
FilterGetMessage ==
  /\ rpc = "issue"
  /\ IF Names(gPort) = "live"
       THEN \/ /\ pend' = pend + 1 /\ ov' = "pending" /\ event' \in {event, FALSE}
               /\ rpc' = "wait"
               /\ UNCHANGED <<buf, sent>>
            \/ /\ pend = 0 /\ sent < MaxMsgs
               /\ sent' = sent + 1
               /\ buf' = sent + 1 /\ ov' = "done" /\ event' = TRUE
               /\ rpc' = "handle"
               /\ UNCHANGED pend
       ELSE rpc' = "close" /\ UNCHANGED <<buf, ov, event, pend, sent>>
  /\ UNCHANGED <<driverVars, connVars, sendVars, stop, quiet, handled>>

\* The event, then GetOverlappedResult.
WaitSignalled ==
  /\ rpc = "wait" /\ event
  /\ rpc' = CASE ov = "done" -> "handle" [] ov = "aborted" -> "top" [] OTHER -> "close"
  /\ UNCHANGED <<driverVars, readVars, connVars, sendVars, stop, quiet>>

HandleAndWaitAgain ==
  /\ rpc = "handle"
  /\ handled' = IF buf # 0 THEN Append(handled, buf) ELSE handled
  /\ rpc' = "wait"
  /\ UNCHANGED <<driverVars, connVars, sendVars, stop, quiet, buf, ov, event, pend, sent>>

PortHandleMessage ==
  /\ rpc = "handle"
  /\ handled' = IF buf # 0 THEN Append(handled, buf) ELSE handled
  /\ rpc' = "top"
  /\ UNCHANGED <<driverVars, connVars, sendVars, stop, quiet, buf, ov, event, pend, sent>>

\* RBSVC_PORT_READ_MS have passed.  The read stays outstanding; a statistics
\* sample may be due.
WaitTimesOut ==
  /\ rpc = "wait" /\ ~event
  /\ quiet < MaxQuiet \/ stop
  /\ quiet' = IF stop THEN quiet ELSE quiet + 1
  /\ \/ stop /\ rpc' = "exit"
     \/ ~stop /\ rpc' \in {"sample", "top"}
  /\ UNCHANGED <<driverVars, readVars, connVars, sendVars, stop>>

PortForget ==
  /\ rpc \in {"close", "exit"}
  /\ gPort' = 0
  /\ rpc' = IF rpc = "exit" THEN "done" ELSE "top"
  /\ UNCHANGED <<driverVars, readVars, sendVars, stop, quiet, handles, torn>>

PortCloseLocked ==
  /\ rpc \in {"close", "exit"}
  /\ CloseHandle(gPort)
  /\ gPort' = 0
  /\ rpc' = IF rpc = "exit" THEN "done" ELSE "top"
  /\ UNCHANGED <<driverVars, sendVars, stop, quiet, buf, sent, handled>>

-----------------------------------------------------------------------------
(* PortSampleStats: PortQueryStats, called by the reader, and its worker.  *)

IdleWorkers == {w \in Workers : ctx[w] = Idle}

UseGPort(h) == h = gPort
\* DuplicateHandle: a number of its own for what g_Port names.
DuplicateHandle(h) == h \in FreeHandles

PortQueryStats ==
  /\ rpc = "sample"
  /\ \/ /\ inFlight \/ Names(gPort) = "free" \/ FreeHandles = {} \/ IdleWorkers = {}
        /\ rpc' = "top"
        /\ UNCHANGED <<handles, sendVars>>
     \/ /\ ~inFlight /\ Names(gPort) # "free" /\ IdleWorkers # {}
        /\ \E h \in Handles : LET w == CHOOSE v \in IdleWorkers : TRUE IN
             /\ DuplicateHandle(h)
             /\ handles' = [handles EXCEPT ![h] = handles[gPort]]
             /\ \/ /\ inFlight' = TRUE
                   /\ ctx' = [ctx EXCEPT ![w] = [pc |-> "call", port |-> h, refs |-> 2]]
                   /\ caller' = w
                   /\ rpc' = "await"
                   /\ UNCHANGED leaked
                \/ \* no event or no thread: the context is freed, its handle is not
                   /\ Cardinality(leaked) < MaxLeaks
                   /\ leaked' = leaked \cup {h}
                   /\ rpc' = "top"
                   /\ UNCHANGED <<inFlight, ctx, caller>>
  /\ UNCHANGED <<driverVars, readVars, gPort, torn, stop, quiet>>

PortSendCtxRelease(w, pc) ==
  ctx' = [ctx EXCEPT ![w] = IF @.refs = 1 THEN Idle
                            ELSE [pc |-> pc, port |-> @.port, refs |-> @.refs - 1]]

StopAwaitingForBoth ==
  /\ rpc = "await"
  /\ ctx' = [ctx EXCEPT ![caller] = IF @.refs = 1 THEN Idle ELSE [@ EXCEPT !.refs = 0]]
  /\ rpc' = "top"
  /\ UNCHANGED <<driverVars, readVars, connVars, inFlight, caller, leaked, stop, quiet>>

\* The wait for c->Done ends: the worker set it, or RBSVC_PORT_READ_MS passed.
StopAwaiting ==
  /\ rpc = "await"
  /\ PortSendCtxRelease(caller, ctx[caller].pc)
  /\ rpc' = "top"
  /\ UNCHANGED <<driverVars, readVars, connVars, inFlight, caller, leaked, stop, quiet>>

\* FilterSendMessage has no timeout; Done is set as it returns.
FilterSendMessage(w) ==
  /\ ctx[w].pc = "call"
  /\ ctx' = [ctx EXCEPT ![w].pc = "clear"]
  /\ UNCHANGED <<driverVars, readVars, connVars, inFlight, caller, leaked, rpc, stop, quiet>>

WorkerLeaves(w) ==
  \/ /\ ctx[w].pc = "clear"
     /\ inFlight' = FALSE
     /\ ctx' = [ctx EXCEPT ![w].pc = "close"]
     /\ UNCHANGED <<driverVars, readVars, connVars, caller, leaked, rpc, stop, quiet>>
  \/ /\ ctx[w].pc = "close"
     /\ CloseHandle(ctx[w].port)
     /\ ctx' = [ctx EXCEPT ![w].pc = "release"]
     /\ UNCHANGED <<driverVars, inFlight, caller, leaked, rpc, stop, quiet, gPort, buf, sent,
                    handled>>
  \/ /\ ctx[w].pc = "release"
     /\ PortSendCtxRelease(w, "gone")
     /\ UNCHANGED <<driverVars, readVars, connVars, inFlight, caller, leaked, rpc, stop, quiet>>

PortThreadProc ==
  \/ LoopHead \/ PortConnect \/ ZeroBuffers \/ FilterGetMessage \/ WaitSignalled
  \/ PortHandleMessage \/ WaitTimesOut \/ PortCloseLocked \/ PortQueryStats \/ StopAwaiting

PortNext ==
  \/ PortThreadProc
  \/ \E w \in Workers : FilterSendMessage(w) \/ WorkerLeaves(w)
  \/ DeliverMessage \/ UnloadDriver \/ LoadDriver \/ RequestStop

PortSpec == PortInit /\ [][PortNext]_portVars

\* Threads run.  Nothing makes the driver answer a worker, or come back.
PortFairness ==
  /\ WF_portVars(PortThreadProc)
  /\ \A w \in Workers : WF_portVars(WorkerLeaves(w))

-----------------------------------------------------------------------------
(* Properties.                                                             *)

PortTypeOK ==
  /\ up \in BOOLEAN /\ torn \in BOOLEAN /\ event \in BOOLEAN
  /\ inFlight \in BOOLEAN /\ stop \in BOOLEAN
  /\ handles \in [Handles -> {"free", "live", "dead"}]
  /\ gPort \in Handles \cup {0}
  /\ rpc \in {"top", "connect", "zero", "issue", "wait", "handle", "close", "sample", "await",
              "exit", "done"}
  /\ sent \in 0 .. MaxMsgs /\ buf \in 0 .. sent
  /\ pend \in Nat /\ quiet \in Nat /\ unloads \in Nat
  /\ ov \in {"none", "pending", "done", "aborted", "failed"}
  /\ handled \in Seq(1 .. MaxMsgs)
  /\ ctx \in [Workers -> [pc : {"idle", "call", "clear", "close", "release", "gone"},
                          port : Handles \cup {0}, refs : 0 .. 2]]
  /\ caller \in Workers /\ leaked \subseteq Handles

\* No notification is stored twice, and none before an earlier one, though
\* every read shares one buffer, one OVERLAPPED and one event.
HandledOnce == \A i, j \in DOMAIN handled : i < j => handled[i] < handled[j]

InHand == IF event /\ ov = "done" /\ rpc \in {"wait", "handle"} THEN {buf} ELSE {}
Lost   == (1 .. sent) \ (InHand \cup {handled[i] : i \in DOMAIN handled})

\* A notification the driver has handed over is lost only when an earlier read
\* timed out and was left outstanding beside the next, or with its connection.
LostHasCause == Lost # {} => quiet > 0 \/ torn \/ stop

\* The connection the reader uses ends only by the reader's own close or with
\* the driver: a statistics worker, however late it is, cannot end it.
LiveConnectionKept ==
  [][Names(gPort) = "live" /\ handles'[gPort] # "live" => gPort' = 0 \/ up # up']_portVars

HeldElsewhere ==
  \E h \in leaked \cup {ctx[w].port : w \in {v \in Workers : ctx[v].pc = "call"}} :
    Names(h) = "live"

\* After the loss of its connection the reader gets another as soon as the
\* driver is there, unless a worker that FilterSendMessage keeps, or a handle
\* that was leaked, still holds the old one.
Reconnects ==
  up /\ gPort = 0 /\ ~stop ~> gPort # 0 \/ ~up \/ stop \/ HeldElsewhere
=============================================================================
