------------------------------ MODULE RbSchema ------------------------------
(***************************************************************************)
(* Opening the database both services share.  rbservice.exe creates it,    *)
(* or brings an older one up to date (rbdb.c, DbOpen); rbapi.exe waits for *)
(* it and then queues commands in its ops table (main.go, db.go).          *)
(*                                                                         *)
(* SQLite makes a statement atomic, nothing makes two of them so: a step   *)
(* is one statement, and either process may run, or end, between any two.  *)
(* Only the tables that an open looks at or changes are kept.              *)
(***************************************************************************)
EXTENDS Integers, FiniteSets

CONSTANTS
  RB_SCHEMA_VERSION,
  OtherVersion,     \* the stamp of a build that is not this one
  Cmds,             \* commands clients queue
  MaxTries,         \* attempts of openWithRetry
  MaxBreaks         \* bound: ends of rbservice.exe and statements that fail

ASSUME SchemaAssumption ==
  /\ RB_SCHEMA_VERSION # 0 /\ OtherVersion \notin {0, RB_SCHEMA_VERSION}
  /\ MaxTries \in Nat \ {0} /\ MaxBreaks \in Nat

VARIABLES
  dbfile,    \* recycle.db exists
  version,   \* PRAGMA user_version
  items,     \* table items is there
  stats,     \* table driver_stats: "none", "old" without protected_count, or "new"
  ops,       \* table ops
  opsV1,     \* table ops_v1
  seq,       \* the last id AUTOINCREMENT gave out in ops
  queued,    \* history: the rows ever put into ops
  cpc,       \* where DbOpen of rbservice.exe is
  cver,      \* the version it read
  breaks,
  gpc,       \* rbapi.exe: waiting, up, or gone for good
  tries

dbFileVars == <<dbfile, version, items, stats, ops, opsV1, seq, queued>>
schemaVars == <<dbFileVars, cpc, cver, breaks, gpc, tries>>

\* A row is <<id, command>>.  The DDL of an "old" table has a CHECK that does
\* not know 'reconcile'; acl tells that it has the column preserve_acl.
NoTable == [shape |-> "none", acl |-> FALSE, rows |-> {}]
NewOps  == [shape |-> "new", acl |-> TRUE, rows |-> {}]
Ids(t)  == {r[1] : r \in t.rows}
SomeRow == {{}} \cup {{<<1, c>>} : c \in Cmds}

\* No database, one that an earlier build made, or one of another version.
SchemaInit ==
  /\ \/ /\ dbfile = FALSE /\ version = 0 /\ items = FALSE /\ stats = "none" /\ ops = NoTable
     \/ /\ dbfile = TRUE /\ items = TRUE
        /\ version \in {RB_SCHEMA_VERSION, OtherVersion}
        /\ stats \in {"none", "old", "new"}
        /\ \E shape \in {"old", "new"}, acl \in BOOLEAN, rows \in SomeRow :
             /\ shape = "new" => acl
             /\ ops = [shape |-> shape, acl |-> acl, rows |-> rows]
  /\ opsV1 = NoTable
  /\ seq = Cardinality(ops.rows)
  /\ queued = ops.rows
  /\ cpc = "down" /\ cver = 0 /\ breaks = 0
  /\ gpc = "wait" /\ tries = 0

-----------------------------------------------------------------------------
(* rbservice.exe: ServiceMain calls DbOpen.                                *)

ApiUnchanged == UNCHANGED <<gpc, tries>>

DbOpen ==
  /\ cpc = "down"
  /\ dbfile' = TRUE
  /\ cpc' = "version"
  /\ ApiUnchanged
  /\ UNCHANGED <<version, items, stats, ops, opsV1, seq, queued, cver, breaks>>

ReadAndStamp ==
  /\ cpc = "version"
  /\ cver' = version
  /\ version' = IF version = 0 THEN RB_SCHEMA_VERSION ELSE version
  /\ cpc' = IF cver' \in {0, RB_SCHEMA_VERSION} THEN "probe" ELSE "down"
  /\ ApiUnchanged
  /\ UNCHANGED <<dbfile, items, stats, ops, opsV1, seq, queued, breaks>>

\* A version that cannot be read counts as 0.
DbReadVersion ==
  /\ cpc = "version"
  /\ \/ cver' = version /\ UNCHANGED breaks
     \/ cver' = 0 /\ breaks < MaxBreaks /\ breaks' = breaks + 1
  /\ cpc' = IF cver' \in {0, RB_SCHEMA_VERSION} THEN "probe" ELSE "down"
  /\ ApiUnchanged
  /\ UNCHANGED dbFileVars

NeedsRebuildUnlessNew == ops.shape # "new"
\* DbTableSqlContains("ops", "reconcile") = 0: a missing table needs nothing.
NeedsRebuild == ops.shape = "old"

MigrateProbe ==
  /\ cpc = "probe"
  /\ cpc' = IF NeedsRebuild THEN "rename" ELSE "schema"
  /\ ApiUnchanged
  /\ UNCHANGED <<dbFileVars, cver, breaks>>

\* The new ops table will count its ids from 1 again.
MigrateRename ==
  /\ cpc = "rename"
  /\ IF ops.shape # "none" /\ opsV1.shape = "none"
       THEN opsV1' = ops /\ ops' = NoTable /\ cpc' = "create"
       ELSE UNCHANGED <<ops, opsV1>> /\ cpc' = "down"
  /\ ApiUnchanged
  /\ UNCHANGED <<dbfile, version, items, stats, seq, queued, cver, breaks>>

\* DbExec(kSchema): CREATE TABLE IF NOT EXISTS, one table after the other.
ApplySchema ==
  /\ cpc \in {"create", "schema"}
  /\ \/ ~items /\ items' = TRUE /\ UNCHANGED <<stats, ops, seq, cpc>>
     \/ /\ items /\ ops.shape = "none"
        /\ ops' = NewOps /\ seq' = 0
        /\ UNCHANGED <<items, stats, cpc>>
     \/ /\ items /\ ops.shape # "none" /\ stats = "none"
        /\ stats' = "new"
        /\ UNCHANGED <<items, ops, seq, cpc>>
     \/ /\ items /\ ops.shape # "none" /\ stats # "none"
        /\ cpc' = IF cpc = "create" THEN "copy" ELSE "column1"
        /\ UNCHANGED <<items, stats, ops, seq>>
  /\ ApiUnchanged
  /\ UNCHANGED <<dbfile, version, opsV1, queued, cver, breaks>>

\* INSERT INTO ops(.., preserve_acl, ..) SELECT .. FROM ops_v1, all rows or none.
CopyWorks == opsV1.acl /\ Ids(ops) \cap Ids(opsV1) = {}

CopyUnchecked ==
  /\ cpc = "copy"
  /\ ops' = [ops EXCEPT !.rows = IF CopyWorks THEN @ \cup opsV1.rows ELSE @]
  /\ cpc' = "drop"
  /\ ApiUnchanged
  /\ UNCHANGED <<dbfile, version, items, stats, opsV1, seq, queued, cver, breaks>>

MigrateCopy ==
  /\ cpc = "copy"
  /\ IF CopyWorks
       THEN /\ ops' = [ops EXCEPT !.rows = @ \cup opsV1.rows]
            /\ seq' = IF Cardinality(opsV1.rows) > seq THEN Cardinality(opsV1.rows) ELSE seq
            /\ cpc' = "drop"
       ELSE UNCHANGED <<ops, seq>> /\ cpc' = "down"
  /\ ApiUnchanged
  /\ UNCHANGED <<dbfile, version, items, stats, opsV1, queued, cver, breaks>>

MigrateKeep ==
  /\ cpc = "drop"
  /\ cpc' = "schema"
  /\ ApiUnchanged
  /\ UNCHANGED <<dbFileVars, cver, breaks>>

MigrateDrop ==
  /\ cpc = "drop"
  /\ opsV1' = NoTable
  /\ cpc' = "schema"
  /\ ApiUnchanged
  /\ UNCHANGED <<dbfile, version, items, stats, ops, seq, queued, cver, breaks>>

\* DbEnsureColumn, for driver_stats.protected_count and for ops.preserve_acl.
EnsureColumns ==
  /\ \/ cpc = "column1" /\ stats' = "new" /\ cpc' = "column2" /\ UNCHANGED ops
     \/ cpc = "column2" /\ ops' = [ops EXCEPT !.acl = TRUE] /\ cpc' = "stamp" /\ UNCHANGED stats
  /\ ApiUnchanged
  /\ UNCHANGED <<dbfile, version, items, opsV1, seq, queued, cver, breaks>>

StampVersion ==
  /\ cpc = "stamp"
  /\ version' = IF cver = 0 THEN RB_SCHEMA_VERSION ELSE version
  /\ cpc' = "up"
  /\ ApiUnchanged
  /\ UNCHANGED <<dbfile, items, stats, ops, opsV1, seq, queued, cver, breaks>>

\* The process ends, or a statement fails, DbOpen gives up and ServiceMain
\* returns: what the earlier statements did stays.
Interrupted ==
  /\ cpc # "down"
  /\ breaks < MaxBreaks
  /\ breaks' = breaks + 1
  /\ cpc' = "down"
  /\ ApiUnchanged
  /\ UNCHANGED <<dbFileVars, cver>>

\* The service is stopped and will be started again.
StopUp ==
  /\ cpc = "up"
  /\ cpc' = "down"
  /\ ApiUnchanged
  /\ UNCHANGED <<dbFileVars, cver, breaks>>

DbEnsureSchema ==
  \/ DbOpen \/ DbReadVersion \/ MigrateProbe \/ MigrateRename \/ ApplySchema
  \/ MigrateCopy \/ MigrateDrop \/ EnsureColumns \/ StampVersion

-----------------------------------------------------------------------------
(* rbapi.exe.                                                              *)

ServiceUnchanged == UNCHANGED <<cpc, cver, breaks>>

VerifySchema == version = RB_SCHEMA_VERSION /\ items

\* Every failure of verifySchema is an ErrSchemaFatal.  Other failures, as a
\* file that is not there, are tried again.
OpenWithRetry ==
  /\ gpc = "wait"
  /\ \/ dbfile /\ gpc' = (IF VerifySchema THEN "up" ELSE "gone") /\ UNCHANGED tries
     \/ tries' = tries + 1 /\ gpc' = IF tries' = MaxTries THEN "gone" ELSE "wait"
  /\ ServiceUnchanged
  /\ UNCHANGED dbFileVars

\* The statement names preserve_acl, and the client polls the id it got.
EnqueueOp(c) ==
  /\ gpc = "up"
  /\ ops.acl
  /\ c \notin {r[2] : r \in queued}
  /\ seq' = seq + 1
  /\ ops' = [ops EXCEPT !.rows = @ \cup {<<seq + 1, c>>}]
  /\ queued' = queued \cup {<<seq + 1, c>>}
  /\ ServiceUnchanged
  /\ UNCHANGED <<dbfile, version, items, stats, opsV1, gpc, tries>>

SchemaNext ==
  \/ DbEnsureSchema \/ Interrupted \/ StopUp
  \/ OpenWithRetry \/ \E c \in Cmds : EnqueueOp(c)

SchemaSpec == SchemaInit /\ [][SchemaNext]_schemaVars

\* The service is started again and its statements end.
SchemaFairness == WF_schemaVars(DbEnsureSchema)

-----------------------------------------------------------------------------
(* Properties.                                                             *)

Tables == [shape : {"none", "old", "new"}, acl : BOOLEAN, rows : SUBSET (Nat \X Cmds)]

SchemaTypeOK ==
  /\ dbfile \in BOOLEAN /\ items \in BOOLEAN
  /\ version \in {0, RB_SCHEMA_VERSION, OtherVersion}
  /\ stats \in {"none", "old", "new"}
  /\ ops \in Tables /\ opsV1 \in Tables
  /\ queued \subseteq Nat \X Cmds
  /\ cver \in {0, RB_SCHEMA_VERSION, OtherVersion}
  /\ seq \in Nat /\ breaks \in Nat /\ tries \in Nat
  /\ cpc \in {"down", "version", "probe", "rename", "create", "copy", "drop", "schema",
              "column1", "column2", "stamp", "up"}
  /\ gpc \in {"wait", "up", "gone"}

\* No command a client queued is ever lost to a migration, wherever it stops:
\* its row is in ops, or still in ops_v1, under the id the client polls.
RowsKept == queued = ops.rows \cup opsV1.rows

\* The service runs beside an ops_v1 it will never read again only when an
\* open was interrupted, the old table lacked preserve_acl, or a command was
\* queued between the new table and the copy and took an id of an old one.
StrandedHasCause ==
  cpc = "up" /\ opsV1.shape # "none" =>
    breaks > 0 \/ ~opsV1.acl \/ Ids(ops) \cap Ids(opsV1) # {}

\* rbapi.exe takes the version for the sign that the database is complete: it
\* is stamped when everything else is done, and never over that of another
\* build unless it could not be read.
StampIsLast ==
  [][version' # version =>
       /\ items /\ ops.shape = "new" /\ ops.acl /\ stats = "new"
       /\ version = 0 \/ breaks > 0]_schemaVars

\* Whatever an interrupted open left behind, the service opens the database
\* in the end, when it is started again and is not interrupted for good.
DbHeals == cpc = "down" /\ version # OtherVersion ~> cpc = "up"
=============================================================================
