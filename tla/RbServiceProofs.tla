-------------------------- MODULE RbServiceProofs --------------------------
(***************************************************************************)
(* Theorems about the service process: its start and stop (RbService), for *)
(* every number of items and of waits that time out, and the database it   *)
(* opens (RbSchema), for every set of commands and every number of         *)
(* interruptions.                                                          *)
(***************************************************************************)
EXTENDS RbService, RbSchema, FiniteSetTheorems, TLAPS

\* Where ServiceMain is tells what there is to wait for.
MainInv ==
  /\ mpc \in {"open", "event", "threads", "undo"} => hpc = "idle" /\ state = "start" /\ beside = {}
  /\ mpc \in {"open", "event", "threads"} => Alive = {}
  /\ mpc = "wait" => \A t \in Threads : handle[t] = "open"

\* As long as no wait ran out and ServiceMain still waits, the handler is past
\* a thread only when it has exited.
WaitInv ==
  timeouts = 0 /\ mpc = "wait" =>
    /\ hpc \in {"maint", "ops", "final", "close"} => thread["port"] = "exited"
    /\ hpc \in {"ops", "final", "close"} => thread["maint"] = "exited"
    /\ hpc \in {"final", "close"} => thread["ops"] = "exited"
    /\ beside = {}

CountInv == staged <= arrived

ServiceInv == ServiceTypeOK /\ CountInv /\ MainInv /\ WaitInv /\ BesideHasCause

LEMMA ServiceInvInit == ServiceInit => ServiceInv
<1> SUFFICES ASSUME ServiceInit PROVE ServiceInv
  OBVIOUS
<1>1. \A t \in Threads : thread[t] = "none"
  BY DEF ServiceInit
<1>2. Alive = {}
  BY <1>1 DEF Alive
<1>3. ServiceTypeOK
  <2>1. thread \in [Threads -> {"none", "delay", "poll", "work", "last", "exited"}]
    BY DEF ServiceInit
  <2>2. handle \in [Threads -> {"null", "open", "closed"}]
    BY DEF ServiceInit
  <2>3. timeouts \in 0 .. MaxTimeouts
    BY ServiceAssumption DEF ServiceInit
  <2> QED
    BY <2>1, <2>2, <2>3 DEF ServiceInit, ServiceTypeOK
<1> QED
  BY <1>2, <1>3 DEF ServiceInit, ServiceInv, MainInv, CountInv, WaitInv, BesideHasCause

\* A step of ServiceMain.
LEMMA ServiceInvMain ==
  ASSUME ServiceInv, ServiceMain
  PROVE  ServiceInv'
<1> USE DEF ServiceInv, ServiceTypeOK, MainInv, WaitInv, BesideHasCause, CountInv, Alive, Threads,
            MainUnchanged, GiveUp, DbClose
<1>1. CASE OpenDatabase
  BY <1>1 DEF OpenDatabase
<1>2. CASE CreateStopEvent
  BY <1>2 DEF CreateStopEvent
<1>3. CASE CreateThreads
  BY <1>3 DEF CreateThreads
<1>4. CASE UndoStart
  BY <1>4 DEF UndoStart
<1>5. CASE MainStops
  <2>1. UNCHANGED <<state, hpc, thread, db, staged, failing, beside, waiting, arrived, timeouts>>
    BY <1>5 DEF MainStops
  <2>2. mpc' \in {"closeEvent", "returned"}
    BY <1>5 DEF MainStops
  <2>3. handle' \in [Threads -> {"null", "open", "closed"}]
    BY <1>5 DEF MainStops
  <2>4. stopEvent' \in {"null", "unset", "set"}
    BY <1>5 DEF MainStops
  <2> QED
    BY <2>1, <2>2, <2>3, <2>4
<1> QED
  BY <1>1, <1>2, <1>3, <1>4, <1>5 DEF ServiceMain

\* A worker that has exited, or was never started, does nothing more.
LEMMA ServiceInvWorker ==
  ASSUME ServiceInv, NEW t \in Threads, PollStop(t) \/ Work(t)
  PROVE  ServiceInv'
<1> USE DEF ServiceInv, ServiceTypeOK, MainInv, WaitInv, BesideHasCause, CountInv, Alive, Threads,
            Running, WorkerUnchanged
<1>1. CASE PollStop(t)
  BY <1>1 DEF PollStop
<1>2. CASE Work(t)
  <2>1. staged' \in 0 .. MaxStaged /\ arrived' \in 0 .. MaxStaged /\ staged' <= arrived'
    BY <1>2, ServiceAssumption DEF Work
  <2>2. thread' \in [Threads -> {"none", "delay", "poll", "work", "last", "exited"}]
        /\ \A u \in Threads : thread[u] \in {"none", "exited"} => thread'[u] = thread[u]
    BY <1>2 DEF Work
  <2> QED
    BY <1>2, <2>1, <2>2 DEF Work
<1> QED
  BY <1>1, <1>2

\* A step of the control handler.
LEMMA ServiceInvHandler ==
  ASSUME ServiceInv, ControlStop \/ Handler
  PROVE  ServiceInv'
<1> USE DEF ServiceInv, ServiceTypeOK, MainInv, WaitInv, BesideHasCause, CountInv, Alive, Threads,
            HandlerUnchanged
<1>1. CASE ControlStop
  BY <1>1 DEF ControlStop
<1>2. CASE WaitThread
  <2>1. hpc' \in {hpc, NextWait[hpc]} /\ (hpc' # hpc => hpc' = NextWait[hpc])
    BY <1>2 DEF WaitThread
  <2>2. timeouts' \in 0 .. MaxTimeouts /\ (timeouts' = 0 => timeouts = 0)
    BY <1>2, ServiceAssumption DEF WaitThread
  <2>3. timeouts' = 0 /\ mpc = "wait" /\ hpc' # hpc => thread[hpc] = "exited"
    BY <1>2, ServiceAssumption DEF WaitThread
  <2>4. UNCHANGED <<state, mpc, thread, handle, stopEvent, db, staged, failing, arrived, beside>>
        /\ waiting' \in BOOLEAN /\ hpc \in Threads
    BY <1>2 DEF WaitThread
  <2>5. /\ hpc = "port" => NextWait[hpc] = "maint"
        /\ hpc = "maint" => NextWait[hpc] = "ops"
        /\ hpc = "ops" => NextWait[hpc] = "final"
    BY DEF NextWait
  <2> QED
    BY <2>1, <2>2, <2>3, <2>4, <2>5
<1>3. CASE FinalPass
  BY <1>3, ServiceAssumption DEF FinalPass
<1>4. CASE CloseDatabase
  BY <1>4 DEF CloseDatabase, DbClose
<1>5. CASE ReportStopped
  BY <1>5 DEF ReportStopped
<1> QED
  BY <1>1, <1>2, <1>3, <1>4, <1>5 DEF Handler

LEMMA ServiceInvStep == ServiceInv /\ [ServiceNext]_svcVars => ServiceInv'
<1> SUFFICES ASSUME ServiceInv, [ServiceNext]_svcVars PROVE ServiceInv'
  OBVIOUS
<1>1. CASE UNCHANGED svcVars
  BY <1>1
  DEF svcVars, ServiceInv, ServiceTypeOK, MainInv, WaitInv, BesideHasCause, CountInv, Alive
<1> QED
  BY <1>1, ServiceInvMain, ServiceInvWorker, ServiceInvHandler DEF ServiceNext

\* Every variable of the service's life keeps to its values.
THEOREM ServiceTypes == ServiceSpec => []ServiceTypeOK
  BY ServiceInvInit, ServiceInvStep, PTL DEF ServiceSpec, ServiceInv

\* The database is closed beside a live worker only after a wait that timed out,
\* a start that failed half way, or once ServiceMain has begun to close handles.
THEOREM BesideOnlyForCause == ServiceSpec => []BesideHasCause
  BY ServiceInvInit, ServiceInvStep, PTL DEF ServiceSpec, ServiceInv

-----------------------------------------------------------------------------
(* The database: what an open leaves behind, wherever it breaks off.       *)

\* A table that is not there has no rows, and tables are finite.
TablesInv ==
  /\ ops.shape = "none" => ops.rows = {} /\ ~ops.acl
  /\ opsV1.shape = "none" => opsV1.rows = {}
  /\ IsFiniteSet(ops.rows) /\ IsFiniteSet(opsV1.rows)

\* What is already done where DbOpen is.
OpenInv ==
  /\ cpc \in {"copy", "drop", "column1", "column2", "stamp"} => items /\ ops.shape # "none"
  /\ cpc \in {"create", "copy", "drop", "schema", "column1", "column2", "stamp"} =>
       ops.shape # "old"
  /\ cpc \in {"column1", "column2", "stamp"} => stats # "none"
  /\ cpc \in {"column2", "stamp"} => stats = "new"
  /\ cpc = "stamp" => ops.acl
  /\ cpc = "drop" => opsV1.rows \subseteq ops.rows
  /\ cpc \notin {"down", "version", "up"} => cver = version \/ breaks > 0

SchemaInv == SchemaTypeOK /\ TablesInv /\ OpenInv /\ RowsKept

LEMMA NoTableType == NoTable \in Tables /\ NewOps \in Tables
  BY DEF NoTable, NewOps, Tables

LEMMA SchemaInvInit == SchemaInit => SchemaInv
<1> SUFFICES ASSUME SchemaInit PROVE SchemaInv
  OBVIOUS
<1>1. ops \in Tables /\ opsV1 \in Tables
  <2>1. CASE ops = NoTable
    BY <2>1, NoTableType DEF SchemaInit
  <2>2. CASE \E shape \in {"old", "new"}, acl \in BOOLEAN, rows \in SomeRow :
               ops = [shape |-> shape, acl |-> acl, rows |-> rows]
    BY <2>2, NoTableType DEF SchemaInit, SomeRow, Tables
  <2> QED
    BY <2>1, <2>2 DEF SchemaInit
<1>2. IsFiniteSet(ops.rows) /\ Cardinality(ops.rows) \in Nat
  <2>1. ops.rows = {} \/ \E c \in Cmds : ops.rows = {<<1, c>>}
    BY DEF SchemaInit, NoTable, SomeRow
  <2> QED
    <3>1. IsFiniteSet(ops.rows)
      <4>1. \A c \in Cmds : IsFiniteSet({<<1, c>>})
        BY FS_Singleton
      <4> QED
        BY <2>1, <4>1, FS_EmptySet
    <3> QED
      BY <3>1, FS_CardinalityType
<1>3. IsFiniteSet(opsV1.rows) /\ opsV1.rows = {} /\ opsV1.shape = "none"
  BY FS_EmptySet DEF SchemaInit, NoTable
<1>4. ops.shape = "none" => ops.rows = {} /\ ~ops.acl
  BY DEF SchemaInit, NoTable
<1>5. queued \subseteq Nat \X Cmds
  BY <1>1 DEF SchemaInit, Tables
<1>6. SchemaTypeOK
  BY <1>1, <1>2, <1>5 DEF SchemaInit, SchemaTypeOK
<1> QED
  BY <1>3, <1>2, <1>4, <1>6 DEF SchemaInit, SchemaInv, TablesInv, OpenInv, RowsKept

\* The statements of an open.
LEMMA SchemaInvOpen ==
  ASSUME SchemaInv, DbEnsureSchema
  PROVE  SchemaInv'
<1> USE SchemaAssumption
    DEF SchemaInv, SchemaTypeOK, TablesInv, OpenInv, RowsKept, ApiUnchanged, dbFileVars
<1>1. CASE DbOpen
  BY <1>1 DEF DbOpen
<1>2. CASE DbReadVersion
  BY <1>2 DEF DbReadVersion
<1>3. CASE MigrateProbe
  BY <1>3 DEF MigrateProbe, NeedsRebuild
<1>4. CASE MigrateRename
  <2>1. NoTable.rows = {} /\ ~NoTable.acl /\ NoTable.shape = "none" /\ IsFiniteSet(NoTable.rows)
    BY FS_EmptySet DEF NoTable
  <2>2. CASE ops' = NoTable /\ opsV1' = ops /\ opsV1.shape = "none" /\ cpc' = "create"
    BY <1>4, <2>1, <2>2, NoTableType DEF MigrateRename
  <2>3. CASE UNCHANGED <<ops, opsV1>> /\ cpc' = "down"
    BY <1>4, <2>3 DEF MigrateRename
  <2> QED
    BY <1>4, <2>2, <2>3 DEF MigrateRename
<1>5. CASE ApplySchema
  <2>1. NewOps.rows = {} /\ NewOps.shape = "new" /\ IsFiniteSet(NewOps.rows)
    BY FS_EmptySet DEF NewOps
  <2>2. CASE ops' = NewOps /\ ops.shape = "none"
    <3>1. /\ items /\ seq' = 0 /\ cpc \in {"create", "schema"}
          /\ UNCHANGED <<dbfile, version, items, stats, opsV1, queued, cpc, cver, breaks, gpc, tries>>
      BY <1>5, <2>1, <2>2 DEF ApplySchema
    <3>2. /\ ops' \in Tables /\ ops'.rows = ops.rows /\ ops'.shape = "new"
          /\ IsFiniteSet(ops'.rows)
      BY <2>1, <2>2, NoTableType
    <3> QED
      BY <3>1, <3>2
  <2>3. CASE ~items /\ items' = TRUE /\ UNCHANGED <<stats, ops, seq, cpc>>
    BY <1>5, <2>3 DEF ApplySchema
  <2>4. CASE items /\ stats = "none" /\ stats' = "new" /\ UNCHANGED <<items, ops, seq, cpc>>
    BY <1>5, <2>4 DEF ApplySchema
  <2>5. CASE /\ items /\ ops.shape # "none" /\ stats # "none"
             /\ cpc' = IF cpc = "create" THEN "copy" ELSE "column1"
             /\ UNCHANGED <<items, stats, ops, seq>>
    BY <1>5, <2>5 DEF ApplySchema
  <2> QED
    BY <1>5, <2>2, <2>3, <2>4, <2>5 DEF ApplySchema
<1>6. CASE MigrateCopy
  <2>1. ops.rows \cup opsV1.rows \subseteq Nat \X Cmds /\ IsFiniteSet(ops.rows \cup opsV1.rows)
    BY FS_Union DEF Tables
  <2>2. seq' \in Nat
    BY <1>6, FS_CardinalityType DEF MigrateCopy
  <2>3. CASE CopyWorks
    <3>1. /\ ops' \in Tables /\ ops'.rows = ops.rows \cup opsV1.rows
          /\ ops'.shape = ops.shape /\ ops'.acl = ops.acl
      BY <1>6, <2>1, <2>3 DEF MigrateCopy, Tables
    <3> QED
      BY <1>6, <2>1, <2>2, <2>3, <3>1 DEF MigrateCopy
  <2>4. CASE ~CopyWorks
    BY <1>6, <2>4 DEF MigrateCopy
  <2> QED
    BY <2>3, <2>4
<1>7. CASE MigrateDrop
  BY <1>7, NoTableType, FS_EmptySet DEF MigrateDrop, NoTable
<1>8. CASE EnsureColumns
  <2>1. CASE cpc = "column1"
    BY <1>8, <2>1 DEF EnsureColumns
  <2>2. CASE cpc = "column2"
    <3>1. /\ ops' \in Tables /\ ops'.rows = ops.rows
          /\ ops'.shape = ops.shape /\ ops'.acl
      BY <1>8, <2>2 DEF EnsureColumns, Tables
    <3> QED
      BY <1>8, <2>2, <3>1 DEF EnsureColumns
  <2> QED
    BY <1>8, <2>1, <2>2 DEF EnsureColumns
<1>9. CASE StampVersion
  BY <1>9 DEF StampVersion
<1> QED
  BY <1>1, <1>2, <1>3, <1>4, <1>5, <1>6, <1>7, <1>8, <1>9 DEF DbEnsureSchema

\* The other steps.
LEMMA SchemaInvRest ==
  ASSUME SchemaInv, Interrupted \/ StopUp \/ OpenWithRetry \/ \E c \in Cmds : EnqueueOp(c)
  PROVE  SchemaInv'
<1> USE SchemaAssumption
    DEF SchemaInv, SchemaTypeOK, TablesInv, OpenInv, RowsKept, ApiUnchanged, ServiceUnchanged,
        dbFileVars
<1>1. CASE Interrupted \/ StopUp
  BY <1>1 DEF Interrupted, StopUp
<1>2. CASE OpenWithRetry
  BY <1>2 DEF OpenWithRetry
<1>3. ASSUME NEW c \in Cmds, EnqueueOp(c) PROVE SchemaInv'
  <2> DEFINE row == <<seq + 1, c>>
  <2>1. /\ ops' \in Tables /\ ops'.rows = ops.rows \cup {row}
        /\ ops'.shape = ops.shape /\ ops'.acl = ops.acl
    <3>1. row \in Nat \X Cmds
      OBVIOUS
    <3>2. ops' = [ops EXCEPT !.rows = @ \cup {row}]
      BY <1>3 DEF EnqueueOp
    <3> QED
      BY <3>1, <3>2 DEF Tables
  <2>2. IsFiniteSet(ops'.rows)
    <3>1. IsFiniteSet(ops.rows)
      OBVIOUS
    <3> HIDE DEF row
    <3> QED
      BY <2>1, <3>1, FS_AddElement
  <2>3. queued' = queued \cup {row} /\ row \in Nat \X Cmds /\ seq' \in Nat
    BY <1>3 DEF EnqueueOp
  <2> QED
    BY <1>3, <2>1, <2>2, <2>3 DEF EnqueueOp
<1> QED
  BY <1>1, <1>2, <1>3

LEMMA SchemaInvStep == SchemaInv /\ [SchemaNext]_schemaVars => SchemaInv'
<1> SUFFICES ASSUME SchemaInv, [SchemaNext]_schemaVars PROVE SchemaInv'
  OBVIOUS
<1>1. CASE UNCHANGED schemaVars
  BY <1>1
  DEF schemaVars, dbFileVars, SchemaInv, SchemaTypeOK, TablesInv, OpenInv, RowsKept
<1> QED
  BY <1>1, SchemaInvOpen, SchemaInvRest DEF SchemaNext

\* Every variable keeps to its values.
THEOREM SchemaTypes == SchemaSpec => []SchemaTypeOK
  BY SchemaInvInit, SchemaInvStep, PTL DEF SchemaSpec, SchemaInv

\* No row of the ops table is lost, whichever statement of the migration is the
\* last before the process ends, and however often it is begun again.
THEOREM MigrationKeepsRows == SchemaSpec => []RowsKept
  BY SchemaInvInit, SchemaInvStep, PTL DEF SchemaSpec, SchemaInv

\* The version rbapi.exe trusts is written when all that it stands for is there.
THEOREM StampedLast == SchemaSpec => StampIsLast
<1> DEFINE Stamp == version' # version =>
                      /\ items /\ ops.shape = "new" /\ ops.acl /\ stats = "new"
                      /\ version = 0 \/ breaks > 0
<1>1. SchemaInv /\ [SchemaNext]_schemaVars => [Stamp]_schemaVars
  <2> SUFFICES ASSUME SchemaInv, SchemaNext, version' # version PROVE Stamp
    OBVIOUS
  <2>1. StampVersion
    BY DEF SchemaNext, DbEnsureSchema, DbOpen, DbReadVersion, MigrateProbe, MigrateRename,
           ApplySchema, MigrateCopy, MigrateDrop, EnsureColumns, Interrupted, StopUp,
           OpenWithRetry, EnqueueOp, dbFileVars
  <2>2. ops.shape \in {"none", "old", "new"}
    BY DEF SchemaInv, SchemaTypeOK, Tables
  <2> QED
    BY <2>1, <2>2 DEF StampVersion, SchemaInv, OpenInv
<1> QED
  BY <1>1, SchemaInvInit, SchemaInvStep, PTL DEF SchemaSpec, StampIsLast

-----------------------------------------------------------------------------
(* The renamed table.  Only the open that made ops_v1 can take it away, so  *)
(* what is left of it after that open has its reason for good: ids that     *)
(* clash once clash from then on, for rows only join ops.                   *)

Stranding ==
  opsV1.shape # "none" =>
    \/ breaks > 0 \/ ~opsV1.acl \/ Ids(ops) \cap Ids(opsV1) # {}
    \/ cpc \in {"create", "copy", "drop"}

\* A step that keeps ops_v1 and takes no row from ops keeps the reason.
LEMMA StrandingKept ==
  ASSUME Stranding, UNCHANGED opsV1, ops.rows \subseteq ops'.rows,
         breaks' = breaks, breaks \in Nat,
         cpc \in {"create", "copy", "drop"} => cpc' \in {"create", "copy", "drop"}
  PROVE  Stranding'
<1>1. Ids(ops) \subseteq Ids(ops)' /\ Ids(opsV1)' = Ids(opsV1)
  BY DEF Ids
<1>2. Ids(ops) \cap Ids(opsV1) # {} => Ids(ops)' \cap Ids(opsV1)' # {}
  BY <1>1
<1> HIDE DEF Ids
<1> QED
  BY <1>2 DEF Stranding

LEMMA StrandingStep == SchemaInv /\ Stranding /\ [SchemaNext]_schemaVars => Stranding'
<1> SUFFICES ASSUME SchemaInv, Stranding, [SchemaNext]_schemaVars PROVE Stranding'
  OBVIOUS
<1>0. breaks \in Nat /\ (ops.shape = "none" => ops.rows = {})
  BY DEF SchemaInv, SchemaTypeOK, TablesInv
<1>1. CASE DbOpen \/ MigrateProbe \/ StampVersion \/ StopUp
  BY <1>0, <1>1, StrandingKept DEF DbOpen, MigrateProbe, StampVersion, StopUp, dbFileVars
<1>2. CASE DbReadVersion
  <2>1. CASE breaks' = breaks
    BY <1>0, <1>2, <2>1, StrandingKept DEF DbReadVersion, dbFileVars
  <2>2. CASE breaks' = breaks + 1
    BY <1>0, <2>2 DEF Stranding
  <2> QED
    BY <1>2, <2>1, <2>2 DEF DbReadVersion
<1>3. CASE MigrateRename
  <2>1. CASE cpc' = "create"
    BY <2>1 DEF Stranding
  <2>2. CASE UNCHANGED <<ops, opsV1>>
    BY <1>0, <1>3, <2>2, StrandingKept DEF MigrateRename
  <2> QED
    BY <1>3, <2>1, <2>2 DEF MigrateRename
<1>4. CASE ApplySchema
  BY <1>0, <1>4, StrandingKept DEF ApplySchema
<1>5. CASE MigrateCopy
  <2>1. CASE CopyWorks
    BY <1>5, <2>1 DEF MigrateCopy, Stranding
  <2>2. CASE ~CopyWorks
    <3>1. UNCHANGED <<ops, opsV1>>
      BY <1>5, <2>2 DEF MigrateCopy
    <3>2. Ids(ops)' = Ids(ops) /\ Ids(opsV1)' = Ids(opsV1)
      BY <3>1 DEF Ids
    <3> HIDE DEF Ids
    <3> QED
      BY <2>2, <3>1, <3>2 DEF CopyWorks, Stranding
  <2> QED
    BY <2>1, <2>2
<1>6. CASE MigrateDrop
  BY <1>6 DEF MigrateDrop, NoTable, Stranding
<1>7. CASE EnsureColumns
  <2>1. ops \in [shape : {"none", "old", "new"}, acl : BOOLEAN, rows : SUBSET (Nat \X Cmds)]
    BY DEF SchemaInv, SchemaTypeOK, Tables
  <2>2. ops'.rows = ops.rows
    BY <1>7, <2>1 DEF EnsureColumns
  <2> QED
    BY <1>0, <1>7, <2>2, StrandingKept DEF EnsureColumns
<1>8. CASE Interrupted
  BY <1>0, <1>8 DEF Interrupted, Stranding
<1>9. CASE OpenWithRetry
  BY <1>0, <1>9, StrandingKept DEF OpenWithRetry, ServiceUnchanged, dbFileVars
<1>10. ASSUME NEW c \in Cmds, EnqueueOp(c) PROVE Stranding'
  <2>1. ops \in [shape : {"none", "old", "new"}, acl : BOOLEAN, rows : SUBSET (Nat \X Cmds)]
    BY DEF SchemaInv, SchemaTypeOK, Tables
  <2>2. ops.rows \subseteq ops'.rows
    BY <1>10, <2>1 DEF EnqueueOp
  <2> QED
    BY <1>0, <1>10, <2>2, StrandingKept DEF EnqueueOp, ServiceUnchanged
<1>11. CASE UNCHANGED schemaVars
  BY <1>0, <1>11, StrandingKept DEF schemaVars, dbFileVars
<1> QED
  BY <1>1, <1>2, <1>3, <1>4, <1>5, <1>6, <1>7, <1>8, <1>9, <1>10, <1>11
  DEF SchemaNext, DbEnsureSchema

\* The service runs beside an ops_v1 it never reads again only after an
\* interrupted open, from a table without preserve_acl, or when a command took
\* an id of an old one between the creation of the new table and the copy.
THEOREM StrandedOnlyForCause == SchemaSpec => []StrandedHasCause
<1>1. SchemaInit => Stranding
  BY DEF SchemaInit, NoTable, Stranding
<1>2. SchemaSpec => []Stranding
  BY <1>1, SchemaInvInit, SchemaInvStep, StrandingStep, PTL DEF SchemaSpec
<1>3. Stranding => StrandedHasCause
  BY DEF Stranding, StrandedHasCause
<1> QED
  BY <1>2, <1>3, PTL
=============================================================================
