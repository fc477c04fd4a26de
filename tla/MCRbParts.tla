----------------------------- MODULE MCRbParts -----------------------------
(* One instance of the five modules that share no state: an initial state  *)
(* says which of them runs, the others are at rest in it.                  *)
EXTENDS RbSchema, RbPort, RbService, RbPaths, RbPolicy

CONSTANTS a, b, w1, w2

TwoCmds    == {a, b}
TwoWorkers == {w1, w2}
ThreeHandles == 1 .. 3

\* HarddiskVolume1 is a prefix of HarddiskVolume10; C: and D:.
TwoVolumes == {[drive |-> "C:", dev |-> <<"Vol", "1">>],
               [drive |-> "D:", dev |-> <<"Vol", "1", "0">>]}
ShareS     == {<<"C:", Sep, "S">>, <<"D:", Sep, "S">>, <<"C:">>}
SomeFiles  == {<<"Vol", "1", "0", Sep, "S", Sep, "_">>,
               <<"Vol", "1", "0", Sep, "S", Sep, "_", Sep, "f">>,
               <<"Vol", "1", "0", Sep, "S", Sep, "a", Sep, "f">>,
               <<"Vol", "1", "0", Sep, "SS", Sep, "f">>,
               <<"Vol", "1", Sep, "S", Sep, "%", "a">>,
               <<"Vol", "1", Sep, "S", Sep, "%">>}
SomeTokens == {Sep, "%", "_", "..", "C:", "D:", "Vol", "1", "0", "S", "SS", "a", "f"}
SomeTrees  == {<<"D:", Sep, "S">>, <<"D:", Sep, "S", Sep, "_">>, <<"C:", Sep, "S", Sep, "%">>,
               <<"D:", Sep, "S", Sep, "..">>}

\* Two items of one user around one of another, on two drives.
SomeItems  == << [sid |-> "v", drive |-> "D:", size |-> 1], [sid |-> "u", drive |-> "C:", size |-> 1],
                 [sid |-> "u", drive |-> "D:", size |-> 1] >>
TwoLists   == {<<"D:">>, <<"C:", "D:">>}
OneQuota   == {1}

VARIABLE part
partsVars == <<part, schemaVars, portVars, svcVars, pathVars, policyVars>>

SchemaRests ==
  /\ dbfile = FALSE /\ version = 0 /\ items = FALSE /\ stats = "none"
  /\ ops = NoTable /\ opsV1 = NoTable /\ seq = 0 /\ queued = {}
  /\ cpc = "up" /\ cver = 0 /\ breaks = 0 /\ gpc = "gone" /\ tries = 0
PortRests ==
  /\ up = FALSE /\ unloads = 0
  /\ handles = [h \in Handles |-> "free"] /\ gPort = 0 /\ torn = FALSE
  /\ rpc = "done" /\ stop = TRUE /\ quiet = 0
  /\ buf = 0 /\ ov = "none" /\ event = FALSE /\ pend = 0
  /\ sent = 0 /\ handled = <<>> /\ inFlight = FALSE
  /\ ctx = [w \in Workers |-> Idle] /\ caller = w1 /\ leaked = {}
ServiceRests ==
  /\ state = "stopped" /\ mpc = "returned" /\ hpc = "done"
  /\ thread = [t \in Threads |-> "none"] /\ handle = [t \in Threads |-> "null"]
  /\ stopEvent = "null" /\ db = "null"
  /\ staged = 0 /\ failing = 0 /\ arrived = 0 /\ beside = {} /\ waiting = FALSE /\ timeouts = 0
PathsRest ==
  /\ vols = {} /\ share = <<"C:">> /\ rows = {} /\ tree = NoTree

PolicyRests ==
  /\ landed = {} /\ waitingIn = {} /\ heap = [n \in Allocs |-> <<>>]
  /\ config = [paths |-> 1, count |-> 0] /\ next = config
  /\ copied = Fields /\ reload = "idle" /\ old = 0 /\ reloads = 0
  /\ look = [r \in Readers |-> Rest] /\ crossed = {} /\ wild = {} /\ wanted = 0
  /\ job = "rest" /\ watch = <<>> /\ need = 0 /\ quotaArg = 0
  /\ due = [s \in {} |-> 0] /\ sid = NoSid /\ over = 0 /\ list = <<>>
  /\ cut = {} /\ given = {}

PartsInit ==
  \/ part = "schema"  /\ SchemaInit  /\ PortRests /\ ServiceRests /\ PathsRest /\ PolicyRests
  \/ part = "port"    /\ SchemaRests /\ PortInit  /\ ServiceRests /\ PathsRest /\ PolicyRests
  \/ part = "service" /\ SchemaRests /\ PortRests /\ ServiceInit  /\ PathsRest /\ PolicyRests
  \/ part = "paths"   /\ SchemaRests /\ PortRests /\ ServiceRests /\ PathsInit /\ PolicyRests
  \/ part = "policy"  /\ SchemaRests /\ PortRests /\ ServiceRests /\ PathsRest /\ PolicyInit

PartsNext ==
  /\ UNCHANGED part
  /\ \/ part = "schema"  /\ SchemaNext  /\ UNCHANGED <<portVars, svcVars, pathVars, policyVars>>
     \/ part = "port"    /\ PortNext    /\ UNCHANGED <<schemaVars, svcVars, pathVars, policyVars>>
     \/ part = "service" /\ ServiceNext /\ UNCHANGED <<schemaVars, portVars, pathVars, policyVars>>
     \/ part = "paths"   /\ PathsNext   /\ UNCHANGED <<schemaVars, portVars, svcVars, policyVars>>
     \/ part = "policy"  /\ PolicyNext  /\ UNCHANGED <<schemaVars, portVars, svcVars, pathVars>>

\* No fair action of a part at rest is enabled.
PartsSpec ==
  /\ PartsInit /\ [][PartsNext]_partsVars
  /\ SchemaFairness /\ PortFairness /\ ServiceFairness

\* The type invariants of the five.
PartsTypeOK == SchemaTypeOK /\ PortTypeOK /\ ServiceTypeOK /\ PathsTypeOK /\ PolicyTypeOK
=============================================================================
