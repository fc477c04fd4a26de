------------------------------ MODULE RbPolicy ------------------------------
(***************************************************************************)
(* Who loses recycled data to the space policies (rbpolicy.c), and what    *)
(* they read of a configuration that an administrator reloads meanwhile    *)
(* (rbconfig.c).  The maintenance thread runs the disk watermark and then  *)
(* the quota over lists of rows it read before; the ops thread gives items *)
(* back in between; the control handler exchanges g_Config under both,     *)
(* field by field and without a lock, and frees the old ProtectedPaths.    *)
(*                                                                         *)
(* Items are numbered by delete_time.  How their rows and files follow     *)
(* each other is in RbLifecycle; here an item is landed or it is not.      *)
(***************************************************************************)
EXTENDS Integers, Sequences, SequencesExt, FiniteSets

CONSTANTS
  Catalog,         \* the items there may be: a sequence of [sid, drive, size]
  StoreDrive,      \* the drive of StoreRoot
  PathLists,       \* what ProtectedPaths may be set to: sequences of drives
  Quotas,          \* what QuotaMB may be set to; 0 is no quota
  POLICY_QUOTA_MAX_PER_SID,
  POLICY_WATERMARK_MAX_PASS,
  MaxShort,        \* bound: how far below the watermark a volume is found
  MaxReloads       \* bound: reloads of the configuration

ItemIds == DOMAIN Catalog
Sids    == {Catalog[i].sid : i \in ItemIds}
Drives  == {Catalog[i].drive : i \in ItemIds} \cup {StoreDrive}
Allocs  == 1 .. MaxReloads + 1

ASSUME PolicyAssumption ==
  /\ Quotas \subseteq Nat /\ MaxShort \in Nat /\ MaxReloads \in Nat
  /\ {POLICY_QUOTA_MAX_PER_SID, POLICY_WATERMARK_MAX_PASS} \subseteq Nat \ {0}
  /\ Len(Catalog) \in Nat /\ ItemIds = 1 .. Len(Catalog)
  /\ \A i \in ItemIds : Catalog[i].size \in Nat
  /\ PathLists \subseteq Seq(Drives) \ {<<>>}

Readers == {"maint", "ops"}
Fields  == {"paths", "count"}
NoSid   == "nobody"

VARIABLES
  landed,     \* rows with status 'landed'
  waitingIn,  \* items that have not landed yet
  config,     \* g_Config: the allocation of ProtectedPaths, and ProtectedCount
  heap,       \* what an allocation holds; <<>> before it is made and once freed
  next,       \* ReloadConfig's scratch struct
  copied,     \* the fields of it already in g_Config
  reload,     \* where ReloadConfig is: "idle", "swap" or "free"
  old,        \* the allocation it frees
  reloads,
  look,       \* each reader's loop over the paths: index and the allocation it fetched
  wanted,     \* the item the ops thread checks a destination for; 0 when none
  job,        \* where the maintenance thread is
  watch,      \* the volumes the watermark still has to look at
  need,       \* what it still wants to free on the first of them
  quotaArg,   \* PolicyEnforceQuota's argument
  due,        \* DbQuotaTotals: the excess of each user still to be looked at
  sid, over,  \* the user in hand and the excess left
  list,       \* what is left of the listing
  cut,        \* history: users whose listing did not hold every landed row
  given,      \* history: users who got an item back since the totals were read
  crossed,    \* history: readers that a swap has crossed since their fetch
  wild        \* history: readers whose last read was of freed or foreign memory

configVars == <<config, heap, next, copied, reload, old, reloads>>
maintVars  == <<job, watch, need, quotaArg, due, sid, over, list, cut>>
lookVars   == <<look, crossed, wild>>
policyVars == <<landed, waitingIn, configVars, lookVars, wanted, maintVars, given>>

Rest == [at |-> "out", i |-> 0, alloc |-> 0]

PolicyInit ==
  /\ landed = {} /\ waitingIn = ItemIds
  /\ \E paths \in PathLists :
       /\ heap = [a \in Allocs |-> IF a = 1 THEN paths ELSE <<>>]
       /\ config = [paths |-> 1, count |-> Len(paths)]
  /\ next = config /\ copied = Fields /\ reload = "idle" /\ old = 0 /\ reloads = 0
  /\ look = [r \in Readers |-> Rest] /\ crossed = {} /\ wild = {}
  /\ wanted = 0
  /\ job = "rest" /\ watch = <<>> /\ need = 0 /\ quotaArg = 0
  /\ due = [s \in {} |-> 0] /\ sid = NoSid /\ over = 0 /\ list = <<>>
  /\ cut = {} /\ given = {}

\* SUM(size), item by item.
Sizes(set) ==
  LET sum[i \in 0 .. Len(Catalog)] ==
        IF i = 0 THEN 0 ELSE sum[i - 1] + (IF i \in set THEN Catalog[i].size ELSE 0)
  IN  sum[Len(Catalog)]
Used(s, set) == Sizes({i \in set : Catalog[i].sid = s})

-----------------------------------------------------------------------------
(* ReloadConfig, in the control handler.                                   *)

ReloadLoadFreesFirst ==
  /\ reload = "idle" /\ reloads < MaxReloads
  /\ reloads' = reloads + 1
  /\ \E paths \in PathLists :
       /\ heap' = [heap EXCEPT ![reloads + 2] = paths, ![config.paths] = <<>>]
       /\ next' = [paths |-> reloads + 2, count |-> Len(paths)]
  /\ old' = config.paths
  /\ copied' = {} /\ reload' = "swap"
  /\ UNCHANGED <<landed, waitingIn, config, lookVars, wanted, maintVars, given>>

\* ConfigLoad into the scratch struct; a value that is refused changes nothing.
ReloadLoad ==
  /\ reload = "idle" /\ reloads < MaxReloads
  /\ reloads' = reloads + 1
  /\ \E paths \in PathLists :
       /\ heap' = [heap EXCEPT ![reloads + 2] = paths]
       /\ next' = [paths |-> reloads + 2, count |-> Len(paths)]
  /\ old' = config.paths
  /\ copied' = {} /\ reload' = "swap"
  /\ UNCHANGED <<landed, waitingIn, config, lookVars, wanted, maintVars, given>>

\* g_Config = next, one field after the other in an order the compiler chooses.
ReloadSwap ==
  /\ reload = "swap"
  /\ \E f \in Fields \ copied :
       /\ config' = [config EXCEPT ![f] = next[f]]
       /\ copied' = copied \cup {f}
  /\ reload' = (IF copied' = Fields THEN "free" ELSE "swap")
  /\ crossed' = crossed \cup {r \in Readers : look[r].at = "use"}
  /\ UNCHANGED <<landed, waitingIn, heap, next, old, reloads, look, wild, wanted, maintVars, given>>

ReloadFree ==
  /\ reload = "free"
  /\ heap' = [heap EXCEPT ![old] = <<>>]
  /\ reload' = "idle" /\ old' = 0
  /\ UNCHANGED <<landed, waitingIn, config, next, copied, reloads, lookVars, wanted, maintVars,
                 given>>

-----------------------------------------------------------------------------
(* The loop over g_Config.ProtectedPaths, as PolicyDiskWatermark and       *)
(* DestIsAllowed have it: the count and the pointer are read again for     *)
(* each index, and then the string.                                        *)

LoopBegin(r) ==
  /\ look' = [look EXCEPT ![r] = [at |-> "test", i |-> 1, alloc |-> 0]]
  /\ crossed' = crossed \ {r} /\ wild' = wild \ {r}

LoopEnd(r) ==
  /\ look[r].at = "test" /\ look[r].i > config.count
  /\ look' = [look EXCEPT ![r] = Rest]
  /\ crossed' = crossed \ {r} /\ wild' = wild \ {r}

Fetch(r) ==
  /\ look[r].at = "test" /\ look[r].i <= config.count
  /\ look' = [look EXCEPT ![r].at = "use", ![r].alloc = config.paths]
  /\ crossed' = IF reload = "swap" /\ copied # {} THEN crossed \cup {r} ELSE crossed \ {r}
  /\ wild' = wild \ {r}

\* The string fetched, or whatever the memory holds once it is not there.
Readable(r) == look[r].i <= Len(heap[look[r].alloc])
Strings(r)  == IF Readable(r) THEN {heap[look[r].alloc][look[r].i]} ELSE Drives \cup {"junk"}

Read(r, then) ==
  /\ look' = [look EXCEPT ![r] = then]
  /\ wild' = IF Readable(r) THEN wild ELSE wild \cup {r}
  /\ UNCHANGED crossed

\* Or the access faults; the thread's handler ends the drain, or the pass.
Fault(r) == look[r].at = "use" /\ ~Readable(r) /\ Read(r, Rest)

NextIndex(r) == [at |-> "test", i |-> look[r].i + 1, alloc |-> 0]

-----------------------------------------------------------------------------
(* The ops thread: a restore to the item's own path.                       *)

OpsUnchanged == UNCHANGED <<waitingIn, configVars, maintVars>>

OpsBegin(i) ==
  /\ look["ops"].at = "out" /\ i \in landed
  /\ wanted' = i
  /\ LoopBegin("ops")
  /\ OpsUnchanged /\ UNCHANGED <<landed, given>>

OpsFetch == Fetch("ops") /\ OpsUnchanged /\ UNCHANGED <<landed, wanted, given>>

\* A prefix that matches allows the destination; the file then leaves the bin,
\* if it is still there.
OpsUse ==
  /\ look["ops"].at = "use"
  /\ \E drive \in Strings("ops") :
       IF drive = Catalog[wanted].drive
         THEN /\ Read("ops", Rest)
              /\ landed' = landed \ {wanted}
              /\ given' = IF job \in {"quota", "trim"}
                            THEN given \cup {Catalog[i].sid : i \in landed \cap {wanted}} ELSE given
              /\ wanted' = 0
         ELSE /\ Read("ops", NextIndex("ops"))
              /\ UNCHANGED <<landed, given, wanted>>
  /\ OpsUnchanged

OpsRefuse ==
  /\ LoopEnd("ops")
  /\ wanted' = 0
  /\ OpsUnchanged /\ UNCHANGED <<landed, given>>

OpsFault ==
  /\ Fault("ops") /\ wanted' = 0
  /\ OpsUnchanged /\ UNCHANGED <<landed, given>>

Ops == (\E i \in ItemIds : OpsBegin(i)) \/ OpsFetch \/ OpsUse \/ OpsFault \/ OpsRefuse

-----------------------------------------------------------------------------
(* PolicyDiskWatermark, after the pass has landed what was staged.         *)

MaintUnchanged == UNCHANGED <<waitingIn, configVars, wanted>>

Land(i) ==
  /\ job = "rest" /\ i \in waitingIn
  /\ landed' = landed \cup {i} /\ waitingIn' = waitingIn \ {i}
  /\ UNCHANGED <<configVars, lookVars, wanted, maintVars, given>>

WatchBegin ==
  /\ job = "rest"
  /\ job' = "watch" /\ watch' = <<StoreDrive>>
  /\ LoopBegin("maint")
  /\ MaintUnchanged
  /\ UNCHANGED <<landed, need, quotaArg, due, sid, over, list, cut, given>>

WatchFetch ==
  /\ Fetch("maint")
  /\ MaintUnchanged /\ UNCHANGED <<landed, maintVars, given>>

\* VolDriveOf; a volume is watched once.
WatchUse ==
  /\ look["maint"].at = "use"
  /\ \E drive \in Strings("maint") :
       watch' = IF drive \in Drives \ ToSet(watch) THEN Append(watch, drive) ELSE watch
  /\ Read("maint", NextIndex("maint"))
  /\ MaintUnchanged
  /\ UNCHANGED <<landed, job, need, quotaArg, due, sid, over, list, cut, given>>

WatchFault ==
  /\ Fault("maint") /\ job' = "rest" /\ watch' = <<>>
  /\ MaintUnchanged
  /\ UNCHANGED <<landed, need, quotaArg, due, sid, over, list, cut, given>>

WatchEnd ==
  /\ LoopEnd("maint")
  /\ job' = "measure"
  /\ MaintUnchanged
  /\ UNCHANGED <<landed, watch, need, quotaArg, due, sid, over, list, cut, given>>

\* The oldest rows of every user and every volume; none when the call fails.
DbListLandedOldest(limit) ==
  LET count == IF limit < Cardinality(landed) THEN limit ELSE Cardinality(landed)
  IN  {<<>>} \cup
      {found \in [1 .. count -> landed] :
         /\ \A i, j \in 1 .. count : i < j => found[i] < found[j]
         /\ \A i \in 1 .. count, left \in landed \ ToSet(found) : found[i] < left}

\* How much is free on a volume depends on what else users store there.
MeasureVolume ==
  /\ job = "measure" /\ watch # <<>>
  /\ \E short \in 0 .. MaxShort :
       /\ need' = short
       /\ list' \in IF short = 0 THEN {<<>>} ELSE DbListLandedOldest(POLICY_WATERMARK_MAX_PASS)
  /\ job' = "free"
  /\ MaintUnchanged
  /\ UNCHANGED <<landed, lookVars, watch, quotaArg, due, sid, over, cut, given>>

\* StoreDeleteEntry and DbSetStatus, whatever volume the item is on.
FreeItem ==
  /\ job = "free" /\ need > 0 /\ list # <<>>
  /\ landed' = landed \ {Head(list)}
  /\ list' = Tail(list)
  /\ LET size == Catalog[Head(list)].size
     IN  need' = IF size < need THEN need - size ELSE 0
  /\ MaintUnchanged
  /\ UNCHANGED <<lookVars, job, watch, quotaArg, due, sid, over, cut, given>>

FreeEnd ==
  /\ job = "free" /\ (need = 0 \/ list = <<>>)
  /\ job' = "measure" /\ watch' = Tail(watch)
  /\ need' = 0 /\ list' = <<>>
  /\ MaintUnchanged
  /\ UNCHANGED <<landed, lookVars, quotaArg, due, sid, over, cut, given>>

-----------------------------------------------------------------------------
(* PolicyEnforceQuota.                                                     *)

\* The users above the quota, from DbQuotaTotals.  QuotaMB is read once, for the
\* argument, and a reload may have set it to anything; with 0, and when the call
\* fails, nothing is enforced.
QuotaBegin ==
  /\ job = "measure" /\ watch = <<>>
  /\ quotaArg' \in Quotas \cup {0}
  /\ LET users == {s \in Sids : quotaArg' > 0 /\ Used(s, landed) > quotaArg'}
     IN  due' = [s \in users |-> Used(s, landed) - quotaArg']
  /\ job' = "quota"
  /\ MaintUnchanged
  /\ UNCHANGED <<landed, lookVars, watch, need, sid, over, list, cut, given>>

QuotaUser ==
  /\ job = "quota"
  /\ \E s \in DOMAIN due :
       /\ sid' = s /\ over' = due[s]
       /\ due' = [t \in DOMAIN due \ {s} |-> due[t]]
       /\ list' \in DbListLandedOldest(POLICY_QUOTA_MAX_PER_SID)
       /\ cut' = IF Len(list') < Cardinality(landed) THEN cut \cup {s} ELSE cut
  /\ job' = "trim"
  /\ MaintUnchanged
  /\ UNCHANGED <<landed, lookVars, watch, need, quotaArg, given>>

TrimAnyItem ==
  /\ job = "trim" /\ over > 0 /\ list # <<>>
  /\ list' = Tail(list)
  /\ landed' = landed \ {Head(list)} /\ over' = over - Catalog[Head(list)].size
  /\ MaintUnchanged
  /\ UNCHANGED <<lookVars, job, watch, need, quotaArg, due, sid, cut, given>>

\* An item of another user is passed over.
TrimItem ==
  /\ job = "trim" /\ over > 0 /\ list # <<>>
  /\ list' = Tail(list)
  /\ LET item == Catalog[Head(list)]
     IN  IF item.sid = sid
           THEN landed' = landed \ {Head(list)} /\ over' = over - item.size
           ELSE UNCHANGED <<landed, over>>
  /\ MaintUnchanged
  /\ UNCHANGED <<lookVars, job, watch, need, quotaArg, due, sid, cut, given>>

TrimEnd ==
  /\ job = "trim" /\ (over <= 0 \/ list = <<>>)
  /\ job' = "quota"
  /\ sid' = NoSid /\ over' = 0 /\ list' = <<>>
  /\ MaintUnchanged
  /\ UNCHANGED <<landed, lookVars, watch, need, quotaArg, due, cut, given>>

QuotaEnd ==
  /\ job = "quota" /\ DOMAIN due = {}
  /\ job' = "rest"
  /\ quotaArg' = 0 /\ cut' = {} /\ given' = {}
  /\ MaintUnchanged
  /\ UNCHANGED <<landed, lookVars, watch, need, due, sid, over, list>>

Watermark == WatchBegin \/ WatchFetch \/ WatchUse \/ WatchFault \/ WatchEnd
             \/ MeasureVolume \/ FreeItem \/ FreeEnd
Quota     == QuotaBegin \/ QuotaUser \/ TrimItem \/ TrimEnd \/ QuotaEnd

PolicyNext ==
  \/ ReloadLoad \/ ReloadSwap \/ ReloadFree
  \/ Ops
  \/ (\E i \in ItemIds : Land(i)) \/ Watermark \/ Quota

PolicySpec == PolicyInit /\ [][PolicyNext]_policyVars

-----------------------------------------------------------------------------
(* Properties.                                                             *)

PolicyTypeOK ==
  /\ landed \subseteq ItemIds /\ waitingIn \subseteq ItemIds /\ landed \cap waitingIn = {}
  /\ config.paths \in Allocs /\ config.count \in Nat
  /\ reload \in {"idle", "swap", "free"} /\ copied \subseteq Fields
  /\ \A r \in Readers : look[r].at \in {"out", "test", "use"}
  /\ wanted \in ItemIds \cup {0}
  /\ job \in {"rest", "watch", "measure", "free", "quota", "trim"}
  /\ need \in 0 .. MaxShort
  /\ sid \in Sids \cup {NoSid} /\ ToSet(list) \subseteq ItemIds
  /\ cut \subseteq Sids /\ given \subseteq Sids

\* The quota job leaves nobody above the quota it was called with, unless the
\* listing, which holds the oldest rows of all users, ended before that user's
\* excess did; and it takes an item only from a user who is above the quota at
\* that moment, unless the ops thread gave that user something back after the
\* totals were read.
QuotaExact ==
  [][/\ job = "quota" /\ job' = "rest" /\ quotaArg > 0 =>
          \A s \in Sids \ cut : Used(s, landed) <= quotaArg
     /\ job = "trim" /\ list' # list =>
          \A i \in landed \ landed' :
            Catalog[i].sid \in given \/ Used(Catalog[i].sid, landed) > quotaArg]_policyVars

\* "Swap first, then release the old path list": a reader touches freed memory,
\* or runs past the end of the list, only when the swap was under way as it
\* fetched the pointer or came between that and its use.
ReloadSafe == wild \subseteq crossed
=============================================================================
