----------------------------- MODULE RbService -----------------------------
(***************************************************************************)
(* The life of the service process (rbservice.c): ServiceMain opens the    *)
(* database and starts the worker threads, each worker polls g_StopEvent   *)
(* between two pieces of work, and the control handler that stops the      *)
(* service signals the event, waits for the workers, makes a final pass    *)
(* and closes the database.  ServiceMain and the handler are two threads.  *)
(***************************************************************************)
EXTENDS Integers, FiniteSets

CONSTANTS
  StagedBatch,   \* g_Config.StagedBatch, the items listed at a time
  MaxStaged,     \* bound: items staged before and while the service runs
  MaxTimeouts    \* bound: waits of the handler that run out

ASSUME ServiceAssumption ==
  StagedBatch \in Nat \ {0} /\ MaxStaged \in Nat /\ MaxTimeouts \in Nat

Threads == {"port", "maint", "ops"}

VARIABLES
  state,        \* the state reported to the SCM
  mpc,          \* where ServiceMain is
  hpc,          \* where ServiceCtrlHandlerEx is
  thread,       \* what each worker does
  handle,       \* g_PortThread, g_MaintThread, g_OpsThread: "null", "open" or "closed"
  stopEvent,    \* g_StopEvent: "null", "unset" or "set"
  db,           \* g_Db: "null", "open", or "closed" again
  staged,       \* items a pass lists
  failing,      \* those of them whose landing fails each time it is tried
  beside,       \* history: the workers alive as DbClose ran
  waiting,      \* the handler's wait for the thread hpc names has begun
  arrived,      \* items staged so far
  timeouts

svcVars == <<state, mpc, hpc, thread, handle, stopEvent, db, staged, failing, beside,
             waiting, arrived, timeouts>>

ServiceInit ==
  /\ state = "start" /\ mpc = "open" /\ hpc = "idle"
  /\ thread = [t \in Threads |-> "none"]
  /\ handle = [t \in Threads |-> "null"]
  /\ stopEvent = "null" /\ db = "null"
  /\ staged \in 0 .. MaxStaged /\ failing \in 0 .. staged /\ arrived = staged
  /\ beside = {} /\ waiting = FALSE /\ timeouts = 0

Alive == {t \in Threads : thread[t] \notin {"none", "exited"}}

\* A wait for g_StopEvent ends with WAIT_OBJECT_0; for NULL it fails at once.
StopSeen == stopEvent = "set"

DbClose ==
  /\ db' = "closed"
  /\ beside' = Alive

-----------------------------------------------------------------------------
(* ServiceMain.                                                            *)

MainUnchanged == UNCHANGED <<hpc, staged, failing, waiting, arrived, timeouts>>

GiveUp == state' = "stopped" /\ mpc' = "returned"

OpenDatabase ==
  /\ mpc = "open"
  /\ \/ db' = "open" /\ mpc' = "event" /\ UNCHANGED state
     \/ GiveUp /\ UNCHANGED db
  /\ MainUnchanged
  /\ UNCHANGED <<thread, handle, stopEvent, beside>>

CreateStopEvent ==
  /\ mpc = "event"
  /\ \/ stopEvent' = "unset" /\ mpc' = "threads" /\ UNCHANGED <<state, db, beside>>
     \/ GiveUp /\ DbClose /\ UNCHANGED stopEvent
  /\ MainUnchanged
  /\ UNCHANGED <<thread, handle>>

\* Three calls of CreateThread; one that fails leaves the others running.
CreateThreads ==
  /\ mpc = "threads"
  /\ \E started \in SUBSET Threads :
       /\ thread' = [t \in Threads |-> IF t \in started THEN "delay" ELSE "none"]
       /\ handle' = [t \in Threads |-> IF t \in started THEN "open" ELSE "null"]
       /\ IF started = Threads
            THEN state' = "running" /\ mpc' = "wait" /\ UNCHANGED stopEvent
            ELSE stopEvent' = "set" /\ mpc' = "undo" /\ UNCHANGED state
  /\ MainUnchanged
  /\ UNCHANGED <<db, beside>>

UndoStart ==
  /\ mpc = "undo"
  /\ DbClose /\ GiveUp
  /\ MainUnchanged
  /\ UNCHANGED <<thread, handle, stopEvent>>

\* The event ServiceMain waits for is the one the workers are told by.
MainStops ==
  \/ /\ mpc = "wait" /\ StopSeen
     /\ handle' = [t \in Threads |-> IF t = "ops" THEN "null" ELSE "closed"]
     /\ mpc' = "closeEvent"
     /\ UNCHANGED stopEvent
     /\ MainUnchanged /\ UNCHANGED <<state, thread, db, beside>>
  \/ /\ mpc = "closeEvent"
     /\ stopEvent' = "null"
     /\ mpc' = "returned"
     /\ MainUnchanged /\ UNCHANGED <<state, thread, handle, db, beside>>

ServiceMain == OpenDatabase \/ CreateStopEvent \/ CreateThreads \/ UndoStart \/ MainStops

-----------------------------------------------------------------------------
(* The workers.  The process, and they with it, ends with "stopped".       *)

WorkerUnchanged == 
  UNCHANGED <<state, mpc, hpc, handle, stopEvent, db, beside, waiting, timeouts>>

Running(t) == state # "stopped" /\ t \in Alive

\* A worker that is told to stop before its first round leaves; the ops thread
\* drains once more when it is told so later.
PollStop(t) ==
  /\ Running(t) /\ thread[t] \in {"delay", "poll"}
  /\ thread' = [thread EXCEPT ![t] =
       CASE StopSeen /\ t = "ops" /\ @ = "poll" -> "last"
         [] StopSeen /\ ~(t = "ops" /\ @ = "poll") -> "exited"
         [] ~StopSeen /\ @ = "delay" /\ t # "port" -> "poll"
         [] OTHER -> "work"]
  /\ WorkerUnchanged
  /\ UNCHANGED <<staged, failing, arrived>>

\* One notification stored; one item of a pass, which lands or does not, or a
\* return at the stop event; one drain of the ops table.  Each looks at g_Db
\* first.  A pass with items left ends at a batch that is not full, and so not
\* while a full one of failing items is listed again and again.
Work(t) ==
  /\ Running(t) /\ thread[t] \in {"work", "last"}
  /\ LET more == t = "maint" /\ db = "open" /\ staged > 0 /\ ~StopSeen
     IN  /\ \/ UNCHANGED <<staged, failing, arrived>>
            \/ /\ t = "port" /\ db = "open" /\ arrived < MaxStaged
               /\ staged' = staged + 1 /\ arrived' = arrived + 1
               /\ failing' \in {failing, failing + 1}
            \/ more /\ staged > failing /\ staged' = staged - 1 /\ UNCHANGED <<failing, arrived>>
         /\ \/ more /\ UNCHANGED thread
            \/ /\ ~more \/ failing < StagedBatch
               /\ thread' = [thread EXCEPT ![t] = IF @ = "last" THEN "exited" ELSE "poll"]
  /\ WorkerUnchanged

-----------------------------------------------------------------------------
(* ServiceCtrlHandlerEx, called by the SCM once for a running service.     *)

HandlerUnchanged == UNCHANGED <<mpc, thread, handle, failing, arrived>>

ControlStop ==
  /\ hpc = "idle" /\ state = "running"
  /\ state' = "stopping"
  /\ stopEvent' = (IF stopEvent = "null" THEN "null" ELSE "set")
  /\ hpc' = "port"
  /\ HandlerUnchanged
  /\ UNCHANGED <<db, staged, beside, waiting, timeouts>>

NextWaitBeforeOps == [t \in Threads |-> IF t = "port" THEN "maint" ELSE "final"]
NextWait == [t \in Threads |->
               CASE t = "port" -> "maint" [] t = "maint" -> "ops" [] t = "ops" -> "final"]

WaitThreadForever ==
  /\ hpc \in Threads
  /\ \/ /\ ~waiting /\ handle[hpc] = "open"
        /\ waiting' = TRUE
        /\ UNCHANGED hpc
     \/ /\ (~waiting /\ handle[hpc] # "open") \/ thread[hpc] = "exited"
        /\ waiting' = FALSE
        /\ hpc' = NextWait[hpc]
  /\ HandlerUnchanged
  /\ UNCHANGED <<state, stopEvent, db, staged, beside, timeouts>>

\* No wait on a null handle; one on a handle ServiceMain has closed fails at
\* once; one that has begun ends with the thread, or runs out, and may end or
\* go on (Windows leaves it undefined) when the handle is closed under it.
WaitThread ==
  /\ hpc \in Threads
  /\ \/ /\ ~waiting /\ handle[hpc] = "open"
        /\ waiting' = TRUE
        /\ UNCHANGED <<hpc, timeouts>>
     \/ /\ waiting \/ handle[hpc] # "open"
        /\ \/ (handle[hpc] # "open" \/ thread[hpc] = "exited") /\ UNCHANGED timeouts
           \/ waiting /\ timeouts < MaxTimeouts /\ timeouts' = timeouts + 1
        /\ waiting' = FALSE
        /\ hpc' = NextWait[hpc]
  /\ HandlerUnchanged
  /\ UNCHANGED <<state, stopEvent, db, staged, beside>>

\* A final pass that forgets to end at a batch that is not full.
FinalPassUntilNone ==
  /\ hpc = "final"
  /\ LET n == IF staged < StagedBatch THEN staged ELSE StagedBatch
     IN  \/ StopSeen /\ hpc' = "close" /\ UNCHANGED staged
         \/ /\ ~StopSeen
            /\ \E k \in 0 .. n :
                 /\ k <= staged - failing /\ n - k <= failing
                 /\ staged' = staged - k
            /\ hpc' = (IF n = 0 THEN "close" ELSE "final")
  /\ HandlerUnchanged
  /\ UNCHANGED <<state, stopEvent, db, beside, waiting, timeouts>>

\* MaintenancePass(1) returns before its first item while the event is set.
\* Where ServiceMain has taken the event away it lands batch after batch, until
\* one is not full: never, when a full batch fails and is listed again.
FinalPass ==
  /\ hpc = "final"
  /\ LET n == IF staged < StagedBatch THEN staged ELSE StagedBatch
     IN  \/ StopSeen /\ hpc' = "close" /\ UNCHANGED staged
         \/ /\ ~StopSeen
            /\ \E k \in 0 .. n :
                 /\ k <= staged - failing /\ n - k <= failing
                 /\ staged' = staged - k
            /\ hpc' = (IF n < StagedBatch THEN "close" ELSE "final")
  /\ HandlerUnchanged
  /\ UNCHANGED <<state, stopEvent, db, beside, waiting, timeouts>>

CloseDatabase ==
  /\ hpc = "close"
  /\ DbClose
  /\ hpc' = "report"
  /\ HandlerUnchanged
  /\ UNCHANGED <<state, stopEvent, staged, waiting, timeouts>>

ReportStopped ==
  /\ hpc = "report"
  /\ state' = "stopped"
  /\ hpc' = "done"
  /\ HandlerUnchanged
  /\ UNCHANGED <<stopEvent, db, staged, beside, waiting, timeouts>>

Handler == WaitThread \/ FinalPass \/ CloseDatabase \/ ReportStopped

ServiceNext ==
  \/ ServiceMain
  \/ \E t \in Threads : PollStop(t) \/ Work(t)
  \/ ControlStop \/ Handler

ServiceSpec == ServiceInit /\ [][ServiceNext]_svcVars

\* Every thread runs, and a wait of 15, 20 or 10 s ends; nothing makes an
\* administrator stop the service.
ServiceFairness ==
  /\ WF_svcVars(ServiceMain)
  /\ WF_svcVars(Handler)
  /\ \A t \in Threads : WF_svcVars(PollStop(t)) /\ WF_svcVars(Work(t))

-----------------------------------------------------------------------------
(* Properties.                                                             *)

ServiceTypeOK ==
  /\ state \in {"start", "running", "stopping", "stopped"}
  /\ mpc \in {"open", "event", "threads", "undo", "wait", "closeEvent", "returned"}
  /\ hpc \in Threads \cup {"idle", "final", "close", "report", "done"}
  /\ thread \in [Threads -> {"none", "delay", "poll", "work", "last", "exited"}]
  /\ handle \in [Threads -> {"null", "open", "closed"}]
  /\ stopEvent \in {"null", "unset", "set"}
  /\ db \in {"null", "open", "closed"}
  /\ waiting \in BOOLEAN
  /\ staged \in 0 .. MaxStaged /\ failing \in 0 .. staged
  /\ arrived \in 0 .. MaxStaged /\ timeouts \in 0 .. MaxTimeouts
  /\ beside \subseteq Threads

\* The header of rbservice.c: the workers have exited before the database is
\* closed, however long one of them takes.  Violated even when no wait times
\* out: ServiceMain wakes by the same event and closes the handles first.
DrainedBeforeClose == hpc \in {"report", "done"} => beside = {}

\* A worker still lives as the database is closed only when a wait timed out,
\* when the start failed half way, or when ServiceMain, which woke by the same
\* event, closed the handles before the handler had waited on them.
BesideHasCause ==
  beside # {} => timeouts > 0 \/ mpc \in {"closeEvent", "returned"}

\* The final pass, of which nothing is told to stop, before a full batch none
\* of which will ever land.
FinalSpins == hpc = "final" /\ ~StopSeen /\ failing >= StagedBatch

\* A service that is told to stop reports so in the end, whatever a worker is
\* doing, and although ServiceMain takes the stop event away from the workers
\* that have not polled it yet: but for the final pass it takes the event away
\* from too, which lists a full batch that cannot land again and again.
StopCompletes == state = "stopping" ~> state = "stopped" \/ FinalSpins
=============================================================================
