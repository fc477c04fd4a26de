--------------------------- MODULE RbPolicyProofs ---------------------------
(***************************************************************************)
(* Theorems about RbPolicy, for any catalog of items, any lists of paths   *)
(* and any number of reloads: what a reader of the configuration touches,  *)
(* and what the quota takes.  The lemmas about functions defined by        *)
(* recursion are those of RbPathsProofs.                                   *)
(***************************************************************************)
EXTENDS RbPolicy, RbPathsProofs, FiniteSetTheorems, TLAPS

Configs == [paths : 1 .. reloads + 1, count : Nat]

\* What ReloadConfig has done so far, and what that means for g_Config: before
\* the swap it names the old list, after it the new one with its own length,
\* and what is freed is not the list it names.
HeapInv ==
  /\ reloads \in 0 .. MaxReloads
  /\ heap \in [Allocs -> Seq(Drives)]
  /\ config \in Configs /\ next \in Configs
  /\ reload \in {"idle", "swap", "free"} /\ copied \in SUBSET Fields
  /\ reload # "swap" => copied = Fields /\ config.count = Len(heap[config.paths])
  /\ reload = "free" => old \in 1 .. reloads /\ config.paths = reloads + 1
  /\ reload = "swap" =>
       /\ old \in 1 .. reloads /\ next.paths = reloads + 1
       /\ next.count = Len(heap[next.paths])
       /\ config.paths = (IF "paths" \in copied THEN next.paths ELSE old)
       /\ config.count = (IF "count" \in copied THEN next.count ELSE Len(heap[old]))

LookType ==
  /\ look \in [Readers -> [at : {"out", "test", "use"}, i : Nat, alloc : Nat]]
  /\ crossed \subseteq Readers /\ wild \subseteq Readers

\* A reader no swap has crossed since its fetch holds the list g_Config names,
\* at an index that list has.
Sound(r) ==
  /\ look[r].alloc = config.paths
  /\ look[r].i <= Len(heap[look[r].alloc])
  /\ reload = "swap" => copied = {}

ReadInv ==
  /\ LookType
  /\ \A r \in Readers : look[r].at = "use" /\ r \notin crossed => Sound(r)

IInv == HeapInv /\ ReadInv /\ ReloadSafe

LEMMA InitInv == PolicyInit => IInv
<1> SUFFICES ASSUME PolicyInit PROVE IInv
  OBVIOUS
<1> USE PolicyAssumption
<1>1. PICK paths \in PathLists :
        /\ heap = [a \in Allocs |-> IF a = 1 THEN paths ELSE <<>>]
        /\ config = [paths |-> 1, count |-> Len(paths)]
  BY DEF PolicyInit
<1>2. paths \in Seq(Drives) /\ Len(paths) \in Nat /\ 1 \in Allocs
  BY DEF Allocs
<1>3. reloads = 0 /\ next = config /\ reload = "idle" /\ copied = Fields
  BY DEF PolicyInit
<1>4. HeapInv
  <2>1. heap \in [Allocs -> Seq(Drives)]
    BY <1>1, <1>2
  <2>2. config \in Configs
    BY <1>1, <1>2, <1>3 DEF Configs
  <2> QED
    BY <1>1, <1>2, <1>3, <2>1, <2>2 DEF HeapInv
<1>5. ReadInv /\ ReloadSafe
  BY DEF PolicyInit, ReadInv, LookType, Rest, ReloadSafe
<1> QED
  BY <1>4, <1>5 DEF IInv

-----------------------------------------------------------------------------
(* The steps of ReloadConfig.                                              *)

LEMMA LoadKeeps == ASSUME IInv, ReloadLoad PROVE IInv'
<1> USE PolicyAssumption
<1>1. PICK paths \in PathLists :
        /\ heap' = [heap EXCEPT ![reloads + 2] = paths]
        /\ next' = [paths |-> reloads + 2, count |-> Len(paths)]
  BY DEF ReloadLoad
<1>2. /\ reload = "idle" /\ reloads < MaxReloads /\ reloads' = reloads + 1
      /\ old' = config.paths /\ copied' = {} /\ reload' = "swap" /\ config' = config
      /\ look' = look /\ crossed' = crossed /\ wild' = wild
  BY DEF ReloadLoad, lookVars
<1>3. /\ paths \in Seq(Drives) /\ Len(paths) \in Nat
      /\ reloads \in Nat /\ reloads + 2 \in Allocs
      /\ config \in Configs /\ config.paths \in Allocs /\ config.paths # reloads + 2
  BY <1>2 DEF IInv, HeapInv, Allocs, Configs
<1>4. heap' \in [Allocs -> Seq(Drives)]
      /\ \A a \in Allocs : a # reloads + 2 => heap'[a] = heap[a]
      /\ heap'[reloads + 2] = paths
  BY <1>1, <1>3 DEF IInv, HeapInv
<1>5. HeapInv'
  <2>1. config' \in Configs' /\ next' \in Configs'
    BY <1>1, <1>2, <1>3 DEF Configs
  <2>2. config.count = Len(heap[config.paths])
    BY <1>2 DEF IInv, HeapInv
  <2>3. old' \in 1 .. reloads' /\ next'.paths = reloads' + 1
        /\ next'.count = Len(heap'[next'.paths])
    BY <1>1, <1>2, <1>3, <1>4 DEF Configs
  <2> QED
    BY <1>2, <1>3, <1>4, <2>1, <2>2, <2>3 DEF IInv, HeapInv
<1>6. ReadInv'
  <2>1. LookType'
    BY <1>2 DEF IInv, ReadInv, LookType
  <2>2. ASSUME NEW r \in Readers, look'[r].at = "use", r \notin crossed' PROVE Sound(r)'
    BY <1>2, <1>3, <1>4, <2>2 DEF IInv, ReadInv, Sound
  <2> QED
    BY <2>1, <2>2 DEF ReadInv
<1> QED
  BY <1>2, <1>5, <1>6 DEF IInv, ReloadSafe

LEMMA SwapKeeps == ASSUME IInv, ReloadSwap PROVE IInv'
<1>1. PICK f \in Fields \ copied :
        config' = [config EXCEPT ![f] = next[f]] /\ copied' = copied \cup {f}
  BY DEF ReloadSwap
<1>2. /\ reload = "swap" /\ reload' = (IF copied' = Fields THEN "free" ELSE "swap")
      /\ heap' = heap /\ next' = next /\ old' = old /\ reloads' = reloads
      /\ look' = look /\ wild' = wild
      /\ crossed' = crossed \cup {r \in Readers : look[r].at = "use"}
  BY DEF ReloadSwap
<1>3. f \in {"paths", "count"} /\ copied \subseteq {"paths", "count"} /\ f \notin copied
  BY <1>1 DEF IInv, HeapInv, Fields
<1>4. HeapInv'
  <2>1. /\ config \in Configs /\ next \in Configs
        /\ old \in 1 .. reloads /\ next.paths = reloads + 1
        /\ next.count = Len(heap[next.paths])
        /\ config.paths = (IF "paths" \in copied THEN next.paths ELSE old)
        /\ config.count = (IF "count" \in copied THEN next.count ELSE Len(heap[old]))
    BY <1>2 DEF IInv, HeapInv
  <2>2. config' \in Configs' /\ next' \in Configs'
    BY <1>1, <1>2, <1>3, <2>1 DEF Configs
  <2>3. /\ config'.paths = (IF "paths" \in copied' THEN next.paths ELSE old)
        /\ config'.count = (IF "count" \in copied' THEN next.count ELSE Len(heap[old]))
    BY <1>1, <1>3, <2>1 DEF Configs
  <2>4. copied' \in SUBSET Fields /\ reload' \in {"idle", "swap", "free"}
    BY <1>1, <1>2 DEF IInv, HeapInv
  <2>5. reload' # "swap" => copied' = Fields /\ config'.paths = next.paths /\ config'.count = next.count
    BY <1>2, <2>3 DEF Fields
  <2> QED
    BY <1>2, <2>1, <2>2, <2>3, <2>4, <2>5 DEF IInv, HeapInv
<1>5. ReadInv'
  BY <1>2 DEF IInv, ReadInv, LookType
<1> QED
  BY <1>2, <1>4, <1>5 DEF IInv, ReloadSafe

LEMMA FreeKeeps == ASSUME IInv, ReloadFree PROVE IInv'
<1>1. /\ reload = "free" /\ reload' = "idle" /\ heap' = [heap EXCEPT ![old] = <<>>]
      /\ config' = config /\ next' = next /\ copied' = copied /\ reloads' = reloads
      /\ look' = look /\ crossed' = crossed /\ wild' = wild
  BY DEF ReloadFree, lookVars
<1>2. /\ old # config.paths /\ config.paths \in Allocs
      /\ config \in Configs /\ next \in Configs /\ reloads \in 0 .. MaxReloads
  BY <1>1, PolicyAssumption DEF IInv, HeapInv, Configs, Allocs
<1>3. heap' \in [Allocs -> Seq(Drives)] /\ heap'[config.paths] = heap[config.paths]
  <2>1. <<>> \in Seq(Drives) /\ heap \in [Allocs -> Seq(Drives)]
    BY DEF IInv, HeapInv
  <2> QED
    BY <1>1, <1>2, <2>1
<1>4. HeapInv'
  BY <1>1, <1>2, <1>3 DEF IInv, HeapInv, Configs
<1>5. ReadInv'
  <2>1. ASSUME NEW r \in Readers, look'[r].at = "use", r \notin crossed' PROVE Sound(r)'
    BY <1>1, <1>2, <1>3, <2>1 DEF IInv, ReadInv, Sound
  <2> QED
    BY <1>1, <2>1 DEF IInv, ReadInv, LookType
<1> QED
  BY <1>1, <1>4, <1>5 DEF IInv, ReloadSafe

-----------------------------------------------------------------------------
(* The steps of a reader.                                                  *)

LEMMA HeapUntouched == ASSUME IInv, UNCHANGED configVars PROVE HeapInv'
BY DEF IInv, HeapInv, configVars, Configs

LEMMA LoopKeeps ==
  ASSUME IInv, UNCHANGED configVars, NEW r \in Readers, LoopBegin(r) \/ LoopEnd(r)
  PROVE  IInv'
<1>1. HeapInv'
  BY HeapUntouched
<1>2. /\ look'[r].at # "use" /\ look' \in [Readers -> [at : {"out", "test", "use"}, i : Nat, alloc : Nat]]
      /\ \A q \in Readers : q # r => look'[q] = look[q]
      /\ crossed' = crossed \ {r} /\ wild' = wild \ {r}
  BY DEF IInv, ReadInv, LookType, LoopBegin, LoopEnd, Rest
<1>3. ASSUME NEW q \in Readers, look'[q].at = "use", q \notin crossed' PROVE Sound(q)'
  BY <1>2, <1>3 DEF IInv, ReadInv, Sound, configVars
<1> QED
  BY <1>1, <1>2, <1>3 DEF IInv, ReadInv, LookType, ReloadSafe

LEMMA FetchKeeps == ASSUME IInv, UNCHANGED configVars, NEW r \in Readers, Fetch(r) PROVE IInv'
<1>1. HeapInv'
  BY HeapUntouched
<1>2. config \in Configs /\ config.paths \in Nat /\ config.count \in Nat
  BY DEF IInv, HeapInv, Configs
<1>3. /\ look[r].i <= config.count
      /\ look' = [look EXCEPT ![r].at = "use", ![r].alloc = config.paths]
      /\ crossed' = (IF reload = "swap" /\ copied # {} THEN crossed \cup {r} ELSE crossed \ {r})
      /\ wild' = wild \ {r}
  BY DEF Fetch
<1>4. /\ look' \in [Readers -> [at : {"out", "test", "use"}, i : Nat, alloc : Nat]]
      /\ look'[r].alloc = config.paths /\ look'[r].i = look[r].i
      /\ \A q \in Readers : q # r => look'[q] = look[q]
  BY <1>2, <1>3 DEF IInv, ReadInv, LookType
<1>5. ASSUME NEW q \in Readers, look'[q].at = "use", q \notin crossed' PROVE Sound(q)'
  <2>1. CASE q # r
    BY <1>3, <1>4, <1>5, <2>1 DEF IInv, ReadInv, Sound, configVars
  <2>2. CASE q = r
    <3>1. reload = "swap" => copied = {}
      BY <1>3, <1>5, <2>2
    <3>2. config.count = Len(heap[config.paths])
      BY <3>1 DEF IInv, HeapInv
    <3> QED
      BY <1>3, <1>4, <2>2, <3>1, <3>2 DEF Sound, configVars
  <2> QED
    BY <2>1, <2>2
<1>6. LookType' /\ ReloadSafe'
  BY <1>3, <1>4 DEF IInv, ReadInv, LookType, ReloadSafe
<1> QED
  BY <1>1, <1>5, <1>6 DEF IInv, ReadInv

\* A reader that is not crossed finds its string, so only a crossed one goes wild.
LEMMA ReadKeeps ==
  ASSUME IInv, UNCHANGED configVars, NEW r \in Readers, look[r].at = "use",
         Read(r, Rest) \/ Read(r, NextIndex(r))
  PROVE  IInv'
<1>1. HeapInv'
  BY HeapUntouched
<1>2. /\ look'[r].at # "use" /\ look' \in [Readers -> [at : {"out", "test", "use"}, i : Nat, alloc : Nat]]
      /\ \A q \in Readers : q # r => look'[q] = look[q]
      /\ crossed' = crossed
  BY DEF IInv, ReadInv, LookType, Read, Rest, NextIndex
<1>3. r \notin crossed => Readable(r)
  BY DEF IInv, ReadInv, Sound, Readable
<1>4. wild' \subseteq crossed'
  BY <1>2, <1>3 DEF IInv, ReloadSafe, Read
<1>5. ASSUME NEW q \in Readers, look'[q].at = "use", q \notin crossed' PROVE Sound(q)'
  BY <1>2, <1>5 DEF IInv, ReadInv, Sound, configVars
<1> QED
  BY <1>1, <1>2, <1>4, <1>5 DEF IInv, ReadInv, LookType, ReloadSafe

LEMMA ReadsUntouched == ASSUME IInv, UNCHANGED <<configVars, lookVars>> PROVE IInv'
<1>1. HeapInv'
  BY HeapUntouched
<1> QED
  BY <1>1 DEF IInv, ReadInv, LookType, Sound, ReloadSafe, configVars, lookVars

LEMMA OpsKeeps == ASSUME IInv, Ops PROVE IInv'
<1> USE DEF OpsUnchanged
<1>1. "ops" \in Readers
  BY DEF Readers
<1>2. CASE \E i \in ItemIds : OpsBegin(i)
  BY <1>1, <1>2, LoopKeeps DEF OpsBegin
<1>3. CASE OpsFetch
  BY <1>1, <1>3, FetchKeeps DEF OpsFetch
<1>4. CASE OpsUse
  BY <1>1, <1>4, ReadKeeps DEF OpsUse
<1>5. CASE OpsFault
  BY <1>1, <1>5, ReadKeeps DEF OpsFault, Fault
<1>6. CASE OpsRefuse
  BY <1>1, <1>6, LoopKeeps DEF OpsRefuse
<1> QED
  BY <1>2, <1>3, <1>4, <1>5, <1>6 DEF Ops

LEMMA MaintKeeps == ASSUME IInv, (\E i \in ItemIds : Land(i)) \/ Watermark \/ Quota PROVE IInv'
<1> USE DEF MaintUnchanged
<1>1. "maint" \in Readers
  BY DEF Readers
<1>2. CASE \E i \in ItemIds : Land(i)
  BY <1>2, ReadsUntouched DEF Land
<1>3. CASE WatchBegin
  BY <1>1, <1>3, LoopKeeps DEF WatchBegin
<1>4. CASE WatchFetch
  BY <1>1, <1>4, FetchKeeps DEF WatchFetch
<1>5. CASE WatchUse
  BY <1>1, <1>5, ReadKeeps DEF WatchUse
<1>6. CASE WatchFault
  BY <1>1, <1>6, ReadKeeps DEF WatchFault, Fault
<1>7. CASE WatchEnd
  BY <1>1, <1>7, LoopKeeps DEF WatchEnd
<1>8. CASE MeasureVolume \/ FreeItem \/ FreeEnd
  BY <1>8, ReadsUntouched DEF MeasureVolume, FreeItem, FreeEnd
<1>9. CASE Quota
  BY <1>9, ReadsUntouched DEF Quota, QuotaBegin, QuotaUser, TrimItem, TrimEnd, QuotaEnd
<1> QED
  BY <1>2, <1>3, <1>4, <1>5, <1>6, <1>7, <1>8, <1>9 DEF Watermark

\* However often the configuration is reloaded, a loop over ProtectedPaths that
\* no swap comes between reads only what is there: swapping first and freeing
\* then confines the damage of the missing lock to the readers a swap crosses.
THEOREM ReadersKeepTheirList == PolicySpec => []ReloadSafe
<1>1. PolicyInit => IInv
  BY InitInv
<1>2. IInv /\ [PolicyNext]_policyVars => IInv'
  <2> SUFFICES ASSUME IInv, [PolicyNext]_policyVars PROVE IInv'
    OBVIOUS
  <2>1. CASE ReloadLoad
    BY <2>1, LoadKeeps
  <2>2. CASE ReloadSwap
    BY <2>2, SwapKeeps
  <2>3. CASE ReloadFree
    BY <2>3, FreeKeeps
  <2>4. CASE Ops
    BY <2>4, OpsKeeps
  <2>5. CASE (\E i \in ItemIds : Land(i)) \/ Watermark \/ Quota
    BY <2>5, MaintKeeps
  <2>6. CASE UNCHANGED policyVars
    BY <2>6, ReadsUntouched DEF policyVars
  <2> QED
    BY <2>1, <2>2, <2>3, <2>4, <2>5, <2>6 DEF PolicyNext
<1>3. IInv => ReloadSafe
  BY DEF IInv
<1> QED
  BY <1>1, <1>2, <1>3, PTL DEF PolicySpec

-----------------------------------------------------------------------------
(* Sums of sizes.  sum[i] is the size of the first i items as far as they  *)
(* are in the set; RbPathsProofs has the lemmas about such recursion.      *)

N == Len(Catalog)

Sums(sum, set) ==
  /\ sum[0] = 0 /\ Sizes(set) = sum[N]
  /\ \A i \in 0 .. N : sum[i] \in Nat
  /\ \A i \in ItemIds : sum[i] = sum[i - 1] + (IF i \in set THEN Catalog[i].size ELSE 0)

LEMMA SizesSum == ASSUME NEW set PROVE \E sum : Sums(sum, set)
<1> DEFINE size(i) == IF i \in set THEN Catalog[i].size ELSE 0
           Body(f) == [i \in 0 .. Len(Catalog) |-> IF i = 0 THEN 0 ELSE f[i - 1] + size(i)]
           sum == CHOOSE f : f = Body(f)
           step == [i \in 1 .. N |-> [n \in Nat |-> n + size(i)]]
<1>1. Sizes(set) = sum[Len(Catalog)]
  BY Zenon DEF Sizes
<1>2. N \in Nat /\ N = Len(Catalog) /\ ItemIds = 1 .. N /\ \A i \in 1 .. N : size(i) \in Nat
  BY PolicyAssumption DEF N
<1> HIDE DEF size
<1>3. step \in [1 .. N -> [Nat -> Nat]]
  BY <1>2
<1>4. \A f, i : i \in 1 .. N /\ f[i - 1] \in Nat => step[i][f[i - 1]] = f[i - 1] + size(i)
  OBVIOUS
<1>5. 0 \in Nat
  OBVIOUS
<1> HIDE DEF step, Body, sum, N
<1>6. PICK f \in [0 .. N -> Nat] : Unrolls(f, N, 0, step)
  BY <1>2, <1>3, <1>5, Unrolled
<1>7. f = Body(f)
  <2>1. ASSUME NEW i \in 0 .. N PROVE f[i] = IF i = 0 THEN 0 ELSE f[i - 1] + size(i)
    <3>1. CASE i = 0
      BY <3>1, <1>6 DEF Unrolls
    <3>2. CASE i # 0
      <4>1. i \in 1 .. N /\ i - 1 \in 0 .. N
        BY <3>2, <1>2
      <4>2. f[i - 1] \in Nat
        BY <4>1
      <4>3. f[i] = step[i][f[i - 1]]
        BY <4>1, <1>6 DEF Unrolls
      <4> QED
        BY <3>2, <4>1, <4>2, <4>3, <1>4
    <3> QED
      BY <3>1, <3>2
  <2> QED
    BY <2>1, <1>2 DEF Body
<1>8. sum = Body(sum)
  BY <1>7 DEF sum
<1>9. sum[0] = 0 /\ \A i \in 1 .. N : sum[i] = sum[i - 1] + size(i)
  <2>1. \A i \in 0 .. N : Body(sum)[i] = IF i = 0 THEN 0 ELSE sum[i - 1] + size(i)
    BY <1>2 DEF Body
  <2>2. \A i \in 0 .. N : sum[i] = IF i = 0 THEN 0 ELSE sum[i - 1] + size(i)
    BY <1>8, <2>1, Zenon
  <2>3. 0 \in 0 .. N /\ \A i \in 1 .. N : i \in 0 .. N /\ i # 0
    BY <1>2
  <2> QED
    BY <2>2, <2>3
<1>10. \A i \in 0 .. N : sum[i] \in Nat
  <2> DEFINE S == {i \in 0 .. N : sum[i] \in Nat}
  <2>1. 0 \in S
    BY <1>2, <1>9
  <2>2. ASSUME NEW i \in 0 .. N - 1, i \in S PROVE i + 1 \in S
    BY <1>2, <1>9, <2>2
  <2>3. \A i \in 0 .. N - 1 : i \in S => i + 1 \in S
    BY <2>2
  <2>4. \A i \in 0 .. N : i \in S
    <3> HIDE DEF S
    <3> QED
      BY <1>2, <2>1, <2>3, CountUp, Zenon
  <2> QED
    BY <2>4
<1> QED
  BY <1>1, <1>2, <1>9, <1>10 DEF Sums, size

LEMMA SizesType == ASSUME NEW set PROVE Sizes(set) \in Nat
<1>1. PICK sum : Sums(sum, set)
  BY SizesSum
<1> QED
  BY <1>1, PolicyAssumption DEF Sums, N

LEMMA SizesRemove ==
  ASSUME NEW set, NEW item \in set, item \in ItemIds
  PROVE  Sizes(set \ {item}) = Sizes(set) - Catalog[item].size
<1>1. PICK all : Sums(all, set)
  BY SizesSum
<1>2. PICK less : Sums(less, set \ {item})
  BY SizesSum
<1>3. N \in Nat /\ ItemIds = 1 .. N /\ \A i \in ItemIds : Catalog[i].size \in Nat
  BY PolicyAssumption DEF N
<1> DEFINE S == {i \in 0 .. N : less[i] = all[i] - (IF item <= i THEN Catalog[item].size ELSE 0)}
<1>4. 0 \in S
  BY <1>1, <1>2, <1>3 DEF Sums
<1>5. ASSUME NEW i \in 0 .. N - 1, i \in S PROVE i + 1 \in S
  <2>1. PICK j \in 1 .. N : j = i + 1 /\ j - 1 = i /\ j \in 0 .. N
    BY <1>3
  <2>2. /\ all[j] = all[i] + (IF j \in set THEN Catalog[j].size ELSE 0)
        /\ less[j] = less[i] + (IF j \in set \ {item} THEN Catalog[j].size ELSE 0)
    BY <1>1, <1>2, <1>3, <2>1 DEF Sums
  <2>3. all[i] \in Nat /\ less[i] \in Nat /\ Catalog[j].size \in Nat /\ Catalog[item].size \in Nat
    BY <1>1, <1>2, <1>3 DEF Sums
  <2>4. less[i] = all[i] - (IF item <= i THEN Catalog[item].size ELSE 0)
    BY <1>5
  <2>5. less[j] = all[j] - (IF item <= j THEN Catalog[item].size ELSE 0)
    <3>1. CASE j = item
      <4>1. ~(item <= i) /\ item <= j
        BY <3>1, <2>1, <1>3
      <4>2. less[i] = all[i] /\ less[j] = less[i] + 0
        BY <3>1, <4>1, <2>2, <2>4, <2>3
      <4>3. all[j] = all[i] + Catalog[item].size
        BY <3>1, <2>2
      <4> QED
        BY <4>1, <4>2, <4>3, <2>3
    <3>2. CASE j # item
      <4>1. item <= i <=> item <= j
        BY <3>2, <2>1, <1>3
      <4>2. j \in set \ {item} <=> j \in set
        BY <3>2
      <4> QED
        BY <4>1, <4>2, <2>2, <2>3, <2>4
    <3> QED
      BY <3>1, <3>2
  <2> QED
    BY <2>1, <2>5
<1>6. \A i \in 0 .. N - 1 : i \in S => i + 1 \in S
  BY <1>5
<1>7. \A i \in 0 .. N : i \in S
  <2> HIDE DEF S
  <2> QED
    BY <1>3, <1>4, <1>6, CountUp, Zenon
<1>8. N \in S /\ item <= N
  BY <1>3, <1>7
<1> QED
  BY <1>1, <1>2, <1>8 DEF Sums

LEMMA SizesMore ==
  ASSUME NEW less, NEW more, less \subseteq more
  PROVE  Sizes(less) <= Sizes(more)
<1>1. PICK few : Sums(few, less)
  BY SizesSum
<1>2. PICK many : Sums(many, more)
  BY SizesSum
<1>3. N \in Nat /\ ItemIds = 1 .. N /\ \A i \in ItemIds : Catalog[i].size \in Nat
  BY PolicyAssumption DEF N
<1> DEFINE S == {i \in 0 .. N : few[i] <= many[i]}
<1>4. 0 \in S
  BY <1>1, <1>2, <1>3 DEF Sums
<1>5. ASSUME NEW i \in 0 .. N - 1, i \in S PROVE i + 1 \in S
  <2>1. PICK j \in 1 .. N : j = i + 1 /\ j - 1 = i /\ j \in 0 .. N
    BY <1>3
  <2>2. /\ few[j] = few[i] + (IF j \in less THEN Catalog[j].size ELSE 0)
        /\ many[j] = many[i] + (IF j \in more THEN Catalog[j].size ELSE 0)
    BY <1>1, <1>2, <1>3, <2>1 DEF Sums
  <2>3. few[i] \in Nat /\ many[i] \in Nat /\ Catalog[j].size \in Nat /\ few[i] <= many[i]
    BY <1>1, <1>2, <1>3, <1>5 DEF Sums
  <2>4. few[j] <= many[j]
    BY <2>2, <2>3
  <2> QED
    BY <2>1, <2>4
<1>6. \A i \in 0 .. N - 1 : i \in S => i + 1 \in S
  BY <1>5
<1>7. \A i \in 0 .. N : i \in S
  <2> HIDE DEF S
  <2> QED
    BY <1>3, <1>4, <1>6, CountUp, Zenon
<1>8. N \in S
  BY <1>3, <1>7
<1> QED
  BY <1>1, <1>2, <1>8 DEF Sums

LEMMA UsedType == ASSUME NEW s, NEW set PROVE Used(s, set) \in Nat
BY SizesType DEF Used

LEMMA UsedMore ==
  ASSUME NEW s, NEW less, NEW more, less \subseteq more
  PROVE  Used(s, less) <= Used(s, more)
<1>1. {i \in less : Catalog[i].sid = s} \subseteq {i \in more : Catalog[i].sid = s}
  OBVIOUS
<1> QED
  BY <1>1, SizesMore DEF Used

\* What taking one item away means for what a user takes up.
LEMMA UsedRemove ==
  ASSUME NEW set, NEW item \in ItemIds, NEW s
  PROVE  /\ item \in set /\ Catalog[item].sid = s
              => Used(s, set \ {item}) = Used(s, set) - Catalog[item].size
         /\ Catalog[item].sid # s => Used(s, set \ {item}) = Used(s, set)
         /\ Catalog[item].sid = s
              => Used(s, set) - Catalog[item].size <= Used(s, set \ {item})
<1> DEFINE mine == {i \in set : Catalog[i].sid = s}
           left == {i \in set \ {item} : Catalog[i].sid = s}
<1>1. Used(s, set) = Sizes(mine) /\ Used(s, set \ {item}) = Sizes(left)
  BY DEF Used
<1>2. Sizes(mine) \in Nat /\ Sizes(left) \in Nat
  BY SizesType
<1>3. Catalog[item].size \in Nat
  BY PolicyAssumption
<1>4. CASE item \in set /\ Catalog[item].sid = s
  <2>1. item \in mine /\ left = mine \ {item}
    BY <1>4
  <2> HIDE DEF mine, left
  <2>2. Sizes(left) = Sizes(mine) - Catalog[item].size
    BY <2>1, SizesRemove
  <2> QED
    BY <2>2, <1>1, <1>2, <1>3, <1>4
<1>5. CASE item \notin set \/ Catalog[item].sid # s
  <2>1. left = mine
    BY <1>5
  <2> HIDE DEF mine, left
  <2> QED
    BY <2>1, <1>1, <1>2, <1>3, <1>5
<1> QED
  BY <1>4, <1>5

LEMMA UsedNone ==
  ASSUME NEW set, NEW s, \A i \in set : Catalog[i].sid # s
  PROVE  Used(s, set) = 0
<1>1. PICK sum : Sums(sum, {})
  BY SizesSum
<1>2. N \in Nat /\ ItemIds = 1 .. N
  BY PolicyAssumption DEF N
<1> DEFINE S == {i \in 0 .. N : sum[i] = 0}
<1>3. 0 \in S
  BY <1>1, <1>2 DEF Sums
<1>4. ASSUME NEW i \in 0 .. N - 1, i \in S PROVE i + 1 \in S
  <2>1. PICK j \in 1 .. N : j = i + 1 /\ j - 1 = i /\ j \in 0 .. N
    BY <1>2
  <2>2. sum[j] = sum[i] + 0
    BY <1>1, <1>2, <2>1 DEF Sums
  <2> QED
    BY <1>4, <2>1, <2>2
<1>5. \A i \in 0 .. N - 1 : i \in S => i + 1 \in S
  BY <1>4
<1>6. \A i \in 0 .. N : i \in S
  <2> HIDE DEF S
  <2> QED
    BY <1>2, <1>3, <1>5, CountUp, Zenon
<1>7. Sizes({}) = 0
  BY <1>1, <1>2, <1>6 DEF Sums
<1>8. {i \in set : Catalog[i].sid = s} = {}
  OBVIOUS
<1> QED
  BY <1>7, <1>8 DEF Used

-----------------------------------------------------------------------------
(* Listings of rows.                                                       *)

\* Every row is listed once.
Listing(q) == q \in Seq(ItemIds) /\ \A i, j \in 1 .. Len(q) : i # j => q[i] # q[j]

LEMMA ListTail ==
  ASSUME NEW q, Listing(q), q # <<>>
  PROVE  /\ Listing(Tail(q)) /\ Head(q) \in ItemIds /\ Head(q) \in ToSet(q)
         /\ ToSet(Tail(q)) = ToSet(q) \ {Head(q)}
<1>1. q \in Seq(ItemIds) /\ \A i, j \in 1 .. Len(q) : i # j => q[i] # q[j]
  BY DEF Listing
<1>2. PICK n \in Nat : n = Len(q) /\ n >= 1
  BY <1>1, EmptySeq
<1>3. PICK t \in Seq(ItemIds) : t = Tail(q) /\ Len(t) = n - 1 /\ \A i \in 1 .. n - 1 : t[i] = q[i + 1]
  <2>1. /\ Tail(q) \in Seq(ItemIds) /\ Len(Tail(q)) = Len(q) - 1
        /\ \A i \in 1 .. Len(Tail(q)) : Tail(q)[i] = q[i + 1]
    BY <1>1, HeadTailProperties
  <2>2. PICK t \in Seq(ItemIds) : t = Tail(q)
    BY <2>1
  <2>3. Len(t) = n - 1 /\ \A i \in 1 .. Len(t) : t[i] = q[i + 1]
    BY <1>2, <2>1, <2>2, Zenon
  <2> QED
    BY <2>2, <2>3
<1>4. Head(q) = q[1] /\ Head(q) \in ItemIds
  BY <1>1, HeadTailProperties
<1>5. ToSet(q) = {q[i] : i \in 1 .. n} /\ ToSet(t) = {t[i] : i \in 1 .. n - 1}
  BY <1>1, <1>2, <1>3, LenProperties DEF ToSet
<1>6. Listing(t)
  BY <1>1, <1>2, <1>3 DEF Listing
<1>7. \A i \in 1 .. n - 1 : t[i] \in ToSet(q) \ {q[1]}
  BY <1>1, <1>2, <1>3, <1>5
<1>8. \A i \in 1 .. n : q[i] # q[1] => \E j \in 1 .. n - 1 : q[i] = t[j]
  <2> SUFFICES ASSUME NEW i \in 1 .. n, q[i] # q[1] PROVE \E j \in 1 .. n - 1 : q[i] = t[j]
    OBVIOUS
  <2>1. PICK j \in 1 .. n - 1 : j + 1 = i
    BY <1>2
  <2> QED
    BY <2>1, <1>3
<1> QED
  BY <1>2, <1>3, <1>4, <1>5, <1>6, <1>7, <1>8

LEMMA ListItems == ASSUME NEW q, Listing(q) PROVE ToSet(q) \subseteq ItemIds
BY LenProperties DEF Listing, ToSet

LEMMA LandedFinite ==
  ASSUME landed \subseteq ItemIds
  PROVE  IsFiniteSet(landed) /\ Cardinality(landed) \in Nat
<1>1. IsFiniteSet(ItemIds)
  BY PolicyAssumption, FS_Interval
<1> QED
  BY <1>1, FS_Subset, FS_CardinalityType

\* What DbListLandedOldest returns are landed rows, each once; and all of them,
\* if it returns as many as there are.
LEMMA ListOldest ==
  ASSUME landed \subseteq ItemIds, NEW limit \in Nat, NEW q \in DbListLandedOldest(limit)
  PROVE  /\ Listing(q) /\ ToSet(q) \subseteq landed
         /\ ~(Len(q) < Cardinality(landed)) => landed \subseteq ToSet(q)
<1>1. IsFiniteSet(landed) /\ Cardinality(landed) \in Nat
  BY LandedFinite
<1> DEFINE count == IF limit < Cardinality(landed) THEN limit ELSE Cardinality(landed)
<1>2. count \in Nat /\ count <= Cardinality(landed)
  BY <1>1
<1>3. CASE q = <<>>
  <2>1. Len(q) = 0 /\ ToSet(q) = {}
    BY <1>3 DEF ToSet
  <2>2. Listing(q)
    BY <1>3, <2>1 DEF Listing
  <2>3. Cardinality(landed) = 0 => landed = {}
    BY <1>1, FS_EmptySet
  <2> QED
    BY <1>1, <2>1, <2>2, <2>3
<1>4. CASE q # <<>>
  <2>1. /\ q \in [1 .. count -> landed]
        /\ \A i, j \in 1 .. count : i < j => q[i] < q[j]
    BY <1>4 DEF DbListLandedOldest
  <2> HIDE DEF count
  <2>2. q \in Seq(ItemIds) /\ Len(q) = count
    BY <1>2, <2>1, SeqDef, LenProperties
  <2>3. landed \subseteq Int
    BY PolicyAssumption
  <2>4. \A i, j \in 1 .. count : i # j => q[i] # q[j]
    <3> SUFFICES ASSUME NEW i \in 1 .. count, NEW j \in 1 .. count, i # j PROVE q[i] # q[j]
      OBVIOUS
    <3>1. q[i] \in landed /\ q[j] \in landed
      BY <2>1
    <3>2. q[i] \in Int /\ q[j] \in Int
      BY <2>3, <3>1, Zenon
    <3>3. i < j \/ j < i
      OBVIOUS
    <3>4. q[i] < q[j] \/ q[j] < q[i]
      BY <2>1, <3>3
    <3> QED
      BY <3>2, <3>4
  <2>5. ToSet(q) = {q[i] : i \in 1 .. count}
    BY <2>1 DEF ToSet
  <2>6. ASSUME ~(Len(q) < Cardinality(landed)), NEW left \in landed, left \notin ToSet(q)
        PROVE  FALSE
    <3>1. count = Cardinality(landed)
      BY <1>1, <1>2, <2>2, <2>6
    <3>2. IsFiniteSet(landed \ {left}) /\ Cardinality(landed \ {left}) = Cardinality(landed) - 1
      BY <1>1, <2>6, FS_RemoveElement
    <3>3. IsFiniteSet(1 .. count) /\ Cardinality(1 .. count) = count
      BY <1>2, FS_Interval
    <3>4. q \in [1 .. count -> landed \ {left}]
      BY <2>1, <2>5, <2>6
    <3>5. Cardinality(landed \ {left}) < Cardinality(1 .. count)
      BY <1>1, <3>1, <3>2, <3>3
    <3>6. \E x, y \in 1 .. count : x # y /\ q[x] = q[y]
      <4> DEFINE S == 1 .. count
                 T == landed \ {left}
      <4>1. IsFiniteSet(S) /\ IsFiniteSet(T) /\ Cardinality(T) < Cardinality(S) /\ q \in [S -> T]
        BY <3>2, <3>3, <3>4, <3>5
      <4> HIDE DEF S, T
      <4>2. \E x, y \in S : x # y /\ q[x] = q[y]
        BY <4>1, FS_PigeonHole
      <4> QED
        BY <4>2 DEF S
    <3> QED
      BY <3>6, <2>4
  <2> QED
    BY <2>1, <2>2, <2>4, <2>5, <2>6 DEF Listing
<1> QED
  BY <1>3, <1>4

-----------------------------------------------------------------------------
(* The space policies: who is in hand, and with what excess.               *)

RowsType ==
  /\ landed \subseteq ItemIds /\ waitingIn \subseteq ItemIds /\ landed \cap waitingIn = {}
  /\ wanted \in ItemIds \cup {0}

JobType ==
  /\ job \in {"rest", "watch", "measure", "free", "quota", "trim"}
  /\ need \in 0 .. MaxShort /\ quotaArg \in Nat /\ over \in Int
  /\ Listing(list)
  /\ cut \subseteq Sids /\ given \subseteq Sids
  /\ DOMAIN due \subseteq Sids /\ \A s \in DOMAIN due : due[s] \in Int
  /\ sid \in Sids \cup {NoSid} /\ (job = "trim" => sid \in Sids \ DOMAIN due)

\* Outside of PolicyDiskWatermark the maintenance thread reads no paths.
WatchInv == job # "watch" => look["maint"].at = "out"

SpaceType == RowsType /\ JobType /\ WatchInv

Enforcing == job \in {"quota", "trim"}

\* The excess of a user still to come is what the user has above the quota; the
\* ops thread may have made it less.
DueInv ==
  Enforcing =>
    \A s \in DOMAIN due :
      /\ Used(s, landed) <= quotaArg + due[s]
      /\ s \notin given => quotaArg + due[s] <= Used(s, landed)

\* So it is for the user in hand, where a row of the listing that the ops thread
\* has taken still counts: it will be counted as freed.
TrimInv ==
  job = "trim" =>
    /\ Used(sid, landed \cup ToSet(list)) <= quotaArg + over
    /\ sid \notin given => quotaArg + over <= Used(sid, landed)
    /\ sid \notin cut => \A i \in landed : Catalog[i].sid = sid => i \in ToSet(list)

\* Everyone else is done with.
Open == DOMAIN due \cup cut \cup (IF job = "trim" THEN {sid} ELSE {})
SettledInv ==
  Enforcing /\ quotaArg > 0 => \A s \in Sids \ Open : Used(s, landed) <= quotaArg

QuotaInv == DueInv /\ TrimInv /\ SettledInv

SpaceInv == IInv /\ SpaceType /\ QuotaInv

LEMMA SpaceInit == PolicyInit => SpaceInv
<1> SUFFICES ASSUME PolicyInit PROVE SpaceInv
  OBVIOUS
<1>1. IInv
  BY InitInv
<1>2. RowsType
  BY DEF PolicyInit, RowsType
<1>3. JobType
  <2>1. Listing(<<>>)
    BY DEF Listing
  <2> QED
    BY <2>1, PolicyAssumption DEF PolicyInit, JobType
<1>4. WatchInv
  BY DEF PolicyInit, WatchInv, Readers, Rest
<1>5. QuotaInv
  BY DEF PolicyInit, QuotaInv, DueInv, TrimInv, SettledInv, Enforcing
<1> QED
  BY <1>1, <1>2, <1>3, <1>4, <1>5 DEF SpaceInv, SpaceType

\* A step that leaves alone what the quota job works on.
LEMMA QuotaUntouched ==
  ASSUME QuotaInv, UNCHANGED <<landed, job, quotaArg, due, sid, over, list, cut, given>>
  PROVE  QuotaInv'
BY DEF QuotaInv, DueInv, TrimInv, SettledInv, Enforcing, Open

LEMMA NotEnforcing == ASSUME ~Enforcing' PROVE QuotaInv'
BY DEF QuotaInv, DueInv, TrimInv, SettledInv, Enforcing

\* The ops thread takes items away from users it then counts among the given.
LEMMA GivenBack ==
  ASSUME SpaceInv, landed' \subseteq landed, given \subseteq given',
         UNCHANGED <<job, quotaArg, due, sid, over, list, cut>>,
         Enforcing => \A s : s \notin given' => Used(s, landed') = Used(s, landed)
  PROVE  QuotaInv'
<1> SUFFICES ASSUME Enforcing PROVE QuotaInv'
  BY NotEnforcing DEF Enforcing
<1>1. \A s : /\ Used(s, landed') <= Used(s, landed)
             /\ Used(s, landed') \in Nat /\ Used(s, landed) \in Nat
  BY UsedMore, UsedType
<1>2. quotaArg \in Nat /\ over \in Int /\ \A s \in DOMAIN due : due[s] \in Int
  BY DEF SpaceInv, SpaceType, JobType
<1>3. DueInv'
  BY <1>1, <1>2 DEF SpaceInv, QuotaInv, DueInv, Enforcing
<1>4. TrimInv'
  <2>1. Used(sid, landed' \cup ToSet(list)) <= Used(sid, landed \cup ToSet(list))
    BY UsedMore
  <2>2. Used(sid, landed' \cup ToSet(list)) \in Nat /\ Used(sid, landed \cup ToSet(list)) \in Nat
    BY UsedType
  <2> QED
    BY <1>1, <1>2, <2>1, <2>2 DEF SpaceInv, QuotaInv, TrimInv
<1>5. SettledInv'
  BY <1>1, <1>2 DEF SpaceInv, QuotaInv, SettledInv, Enforcing, Open
<1> QED
  BY <1>3, <1>4, <1>5 DEF QuotaInv

LEMMA OpsSpace == ASSUME SpaceInv, Ops PROVE SpaceInv'
<1>1. IInv'
  BY OpsKeeps DEF SpaceInv
<1>2. /\ waitingIn' = waitingIn /\ job' = job /\ need' = need /\ quotaArg' = quotaArg
      /\ due' = due /\ sid' = sid /\ over' = over /\ list' = list /\ cut' = cut
  BY DEF Ops, OpsBegin, OpsFetch, OpsUse, OpsFault, OpsRefuse, OpsUnchanged, maintVars
<1>3. /\ wanted' \in {wanted, 0} \cup landed
      /\ \/ landed' = landed /\ given' = given
         \/ /\ wanted \in landed /\ landed' = landed \ {wanted}
            /\ given' = IF Enforcing THEN given \cup {Catalog[wanted].sid} ELSE given
  <2>1. CASE OpsUse
    <3>1. CASE UNCHANGED <<landed, given, wanted>>
      BY <3>1
    <3>2. CASE /\ landed' = landed \ {wanted} /\ wanted' = 0
               /\ given' = IF job \in {"quota", "trim"}
                             THEN given \cup {Catalog[i].sid : i \in landed \cap {wanted}} ELSE given
      <4>1. CASE wanted \in landed
        <5>1. {Catalog[i].sid : i \in landed \cap {wanted}} = {Catalog[wanted].sid}
          BY <4>1
        <5> QED
          BY <3>2, <4>1, <5>1 DEF Enforcing
      <4>2. CASE wanted \notin landed
        <5>1. {Catalog[i].sid : i \in landed \cap {wanted}} = {} /\ landed \ {wanted} = landed
          BY <4>2
        <5> QED
          BY <3>2, <5>1
      <4> QED
        BY <4>1, <4>2
    <3> QED
      BY <2>1, <3>1, <3>2 DEF OpsUse
  <2>2. CASE (\E i \in ItemIds : OpsBegin(i)) \/ OpsFetch \/ OpsFault \/ OpsRefuse
    BY <2>2 DEF OpsBegin, OpsFetch, OpsFault, OpsRefuse
  <2> QED
    BY <2>1, <2>2 DEF Ops
<1>4. look'["maint"] = look["maint"]
  <2>1. look \in [Readers -> [at : {"out", "test", "use"}, i : Nat, alloc : Nat]]
    BY DEF SpaceInv, IInv, ReadInv, LookType
  <2>2. CASE \E i \in ItemIds : OpsBegin(i)
    BY <2>1, <2>2 DEF OpsBegin, LoopBegin, Readers
  <2>3. CASE OpsFetch
    BY <2>1, <2>3 DEF OpsFetch, Fetch, Readers
  <2>4. CASE OpsUse \/ OpsFault
    BY <2>1, <2>4 DEF OpsUse, OpsFault, Fault, Read, Readers
  <2>5. CASE OpsRefuse
    BY <2>1, <2>5 DEF OpsRefuse, LoopEnd, Readers
  <2> QED
    BY <2>2, <2>3, <2>4, <2>5 DEF Ops
<1>5. landed \subseteq ItemIds /\ \A i \in ItemIds : Catalog[i].sid \in Sids
  BY DEF SpaceInv, SpaceType, RowsType, Sids
<1>6. RowsType'
  BY <1>2, <1>3, <1>5 DEF SpaceInv, SpaceType, RowsType
<1>7. JobType'
  <2>1. given' \subseteq Sids
    BY <1>3, <1>5 DEF SpaceInv, SpaceType, JobType
  <2> QED
    BY <1>2, <2>1 DEF SpaceInv, SpaceType, JobType
<1>8. WatchInv'
  BY <1>2, <1>4 DEF SpaceInv, SpaceType, WatchInv
<1>9. QuotaInv'
  <2>1. Enforcing => \A s : s \notin given' => Used(s, landed') = Used(s, landed)
    <3> SUFFICES ASSUME Enforcing, NEW s, s \notin given' PROVE Used(s, landed') = Used(s, landed)
      OBVIOUS
    <3>1. CASE landed' = landed
      BY <3>1
    <3>2. CASE wanted \in landed /\ landed' = landed \ {wanted}
               /\ given' = given \cup {Catalog[wanted].sid}
      <4>1. wanted \in ItemIds /\ Catalog[wanted].sid # s
        BY <1>5, <3>2
      <4> QED
        BY <3>2, <4>1, UsedRemove
    <3> QED
      BY <1>3, <3>1, <3>2
  <2> QED
    BY <1>2, <1>3, <2>1, GivenBack
<1> QED
  BY <1>1, <1>6, <1>7, <1>8, <1>9 DEF SpaceInv, SpaceType

LEMMA ReloadSpace == ASSUME SpaceInv, ReloadLoad \/ ReloadSwap \/ ReloadFree PROVE SpaceInv'
<1>1. IInv'
  BY LoadKeeps, SwapKeeps, FreeKeeps DEF SpaceInv
<1>2. /\ landed' = landed /\ waitingIn' = waitingIn /\ wanted' = wanted /\ look' = look
      /\ given' = given /\ job' = job /\ need' = need /\ quotaArg' = quotaArg
      /\ due' = due /\ sid' = sid /\ over' = over /\ list' = list /\ cut' = cut
  BY DEF ReloadLoad, ReloadSwap, ReloadFree, maintVars, lookVars
<1>3. SpaceType'
  BY <1>2 DEF SpaceInv, SpaceType, RowsType, JobType, WatchInv
<1>4. QuotaInv'
  BY <1>2, QuotaUntouched DEF SpaceInv
<1> QED
  BY <1>1, <1>3, <1>4 DEF SpaceInv

\* The watermark, and what lands before it: the quota job is not running.
LEMMA WatermarkSpace ==
  ASSUME SpaceInv, (\E i \in ItemIds : Land(i)) \/ Watermark
  PROVE  SpaceInv'
<1>1. IInv'
  BY MaintKeeps DEF SpaceInv
<1>2. look \in [Readers -> [at : {"out", "test", "use"}, i : Nat, alloc : Nat]]
      /\ "maint" \in Readers
  BY DEF SpaceInv, IInv, ReadInv, LookType, Readers
<1>3. SpaceType /\ RowsType /\ JobType /\ WatchInv
  BY DEF SpaceInv, SpaceType
<1>4. CASE \E i \in ItemIds : Land(i)
  <2>1. RowsType'
    BY <1>3, <1>4 DEF Land, RowsType
  <2>2. JobType' /\ WatchInv' /\ ~Enforcing'
    BY <1>3, <1>4 DEF Land, maintVars, lookVars, JobType, WatchInv, Enforcing
  <2> QED
    BY <1>1, <2>1, <2>2, NotEnforcing DEF SpaceInv, SpaceType
<1>5. CASE WatchBegin \/ WatchFetch \/ WatchUse \/ WatchFault \/ WatchEnd
  <2>1. /\ landed' = landed /\ waitingIn' = waitingIn /\ wanted' = wanted /\ given' = given
        /\ need' = need /\ quotaArg' = quotaArg
        /\ due' = due /\ sid' = sid /\ over' = over /\ list' = list /\ cut' = cut
    BY <1>5 DEF WatchBegin, WatchFetch, WatchUse, WatchFault, WatchEnd, MaintUnchanged, maintVars
  <2>2. job' \in {"rest", "watch", "measure"} /\ (job' # "watch" => look'["maint"].at = "out")
    <3>1. CASE WatchBegin
      BY <3>1 DEF WatchBegin
    <3>2. CASE WatchFetch \/ WatchUse
      BY <1>3, <3>2 DEF WatchFetch, Fetch, WatchUse, maintVars, WatchInv
    <3>3. CASE WatchFault \/ WatchEnd
      BY <1>2, <3>3 DEF WatchFault, Fault, Read, WatchEnd, LoopEnd, Rest
    <3> QED
      BY <1>5, <3>1, <3>2, <3>3
  <2>3. RowsType'
    BY <1>3, <2>1 DEF RowsType
  <2>4. JobType'
    BY <1>3, <2>1, <2>2 DEF JobType
  <2>5. WatchInv' /\ ~Enforcing'
    BY <2>2 DEF WatchInv, Enforcing
  <2> QED
    BY <1>1, <2>3, <2>4, <2>5, NotEnforcing DEF SpaceInv, SpaceType
<1>6. CASE MeasureVolume
  <2>1. POLICY_WATERMARK_MAX_PASS \in Nat /\ landed \subseteq ItemIds /\ Listing(<<>>)
    BY <1>3, PolicyAssumption DEF RowsType, Listing
  <2>2. Listing(list') /\ need' \in 0 .. MaxShort
    BY <1>6, <2>1, ListOldest DEF MeasureVolume
  <2>3. RowsType'
    BY <1>3, <1>6 DEF MeasureVolume, MaintUnchanged, RowsType
  <2>4. JobType' /\ WatchInv' /\ ~Enforcing'
    BY <1>3, <1>6, <2>2
    DEF MeasureVolume, MaintUnchanged, lookVars, JobType, WatchInv, Enforcing
  <2> QED
    BY <1>1, <2>3, <2>4, NotEnforcing DEF SpaceInv, SpaceType
<1>7. CASE FreeItem
  <2>1. Listing(list') /\ Head(list) \in ItemIds
    BY <1>3, <1>7, ListTail DEF FreeItem, JobType
  <2>2. need' \in 0 .. MaxShort
    <3>1. Catalog[Head(list)].size \in Nat /\ need \in 0 .. MaxShort /\ MaxShort \in Nat
      BY <1>3, <2>1, PolicyAssumption DEF JobType
    <3>2. need' = IF Catalog[Head(list)].size < need THEN need - Catalog[Head(list)].size ELSE 0
      BY <1>7 DEF FreeItem
    <3> QED
      BY <3>1, <3>2
  <2>3. RowsType'
    BY <1>3, <1>7 DEF FreeItem, MaintUnchanged, RowsType
  <2>4. JobType' /\ WatchInv' /\ ~Enforcing'
    BY <1>3, <1>7, <2>1, <2>2
    DEF FreeItem, MaintUnchanged, lookVars, JobType, WatchInv, Enforcing
  <2> QED
    BY <1>1, <2>3, <2>4, NotEnforcing DEF SpaceInv, SpaceType
<1>8. CASE FreeEnd
  <2>1. Listing(<<>>) /\ 0 \in 0 .. MaxShort
    BY PolicyAssumption DEF Listing
  <2>2. RowsType'
    BY <1>3, <1>8 DEF FreeEnd, MaintUnchanged, RowsType
  <2>3. JobType' /\ WatchInv' /\ ~Enforcing'
    BY <1>3, <1>8, <2>1 DEF FreeEnd, MaintUnchanged, lookVars, JobType, WatchInv, Enforcing
  <2> QED
    BY <1>1, <2>2, <2>3, NotEnforcing DEF SpaceInv, SpaceType
<1> QED
  BY <1>4, <1>5, <1>6, <1>7, <1>8 DEF Watermark

\* The totals are read: each user above the quota is due its excess.
LEMMA QuotaBeginSpace == ASSUME SpaceInv, QuotaBegin PROVE SpaceType' /\ QuotaInv'
<1> DEFINE users == {s \in Sids : quotaArg' > 0 /\ Used(s, landed) > quotaArg'}
<1>1. /\ job' = "quota" /\ quotaArg' \in Quotas \cup {0}
      /\ due' = [s \in users |-> Used(s, landed) - quotaArg']
      /\ landed' = landed /\ given' = given /\ list' = list /\ cut' = cut
      /\ sid' = sid /\ over' = over /\ need' = need /\ look' = look
      /\ waitingIn' = waitingIn /\ wanted' = wanted /\ job = "measure"
  BY DEF QuotaBegin, MaintUnchanged, lookVars
<1>2. quotaArg' \in Nat /\ DOMAIN due' = users /\ users \subseteq Sids
  BY <1>1, PolicyAssumption
<1>3. \A s : Used(s, landed) \in Nat
  BY UsedType
<1>4. \A s \in DOMAIN due' : due'[s] = Used(s, landed) - quotaArg'
  BY <1>1
<1>5. SpaceType'
  <2>1. \A s \in DOMAIN due' : due'[s] \in Int
    BY <1>2, <1>3, <1>4
  <2>2. RowsType' /\ WatchInv'
    BY <1>1 DEF SpaceInv, SpaceType, RowsType, WatchInv
  <2>3. JobType'
    BY <1>1, <1>2, <2>1 DEF SpaceInv, SpaceType, JobType
  <2> QED
    BY <2>2, <2>3 DEF SpaceType
<1>6. DueInv'
  BY <1>1, <1>2, <1>3, <1>4 DEF DueInv
<1>7. SettledInv'
  <2> SUFFICES ASSUME quotaArg' > 0, NEW s \in Sids, s \notin DOMAIN due'
               PROVE  Used(s, landed') <= quotaArg'
    BY DEF SettledInv, Open
  <2>1. ~(Used(s, landed) > quotaArg')
    BY <1>2
  <2> QED
    BY <1>1, <1>2, <1>3, <2>1
<1> QED
  BY <1>1, <1>5, <1>6, <1>7 DEF QuotaInv, TrimInv

\* A user is taken in hand, with a listing of the oldest rows of everyone.
LEMMA QuotaUserSpace == ASSUME SpaceInv, QuotaUser PROVE SpaceType' /\ QuotaInv'
<1>1. PICK s \in DOMAIN due :
        /\ sid' = s /\ over' = due[s]
        /\ due' = [t \in DOMAIN due \ {s} |-> due[t]]
        /\ list' \in DbListLandedOldest(POLICY_QUOTA_MAX_PER_SID)
        /\ cut' = IF Len(list') < Cardinality(landed) THEN cut \cup {s} ELSE cut
  BY DEF QuotaUser
<1>2. /\ job = "quota" /\ job' = "trim" /\ landed' = landed /\ given' = given
      /\ quotaArg' = quotaArg /\ need' = need /\ look' = look
      /\ waitingIn' = waitingIn /\ wanted' = wanted
  BY DEF QuotaUser, MaintUnchanged, lookVars
<1>3. SpaceType /\ RowsType /\ JobType /\ landed \subseteq ItemIds /\ s \in Sids
  BY DEF SpaceInv, SpaceType, RowsType, JobType
<1>4. POLICY_QUOTA_MAX_PER_SID \in Nat
  BY PolicyAssumption
<1>5. /\ Listing(list') /\ ToSet(list') \subseteq landed
      /\ ~(Len(list') < Cardinality(landed)) => landed \subseteq ToSet(list')
  BY <1>1, <1>3, <1>4, ListOldest
<1>6. DOMAIN due' = DOMAIN due \ {s} /\ \A t \in DOMAIN due' : due'[t] = due[t]
  BY <1>1
<1>7. DueInv /\ SettledInv
  BY DEF SpaceInv, QuotaInv
<1>8. SpaceType'
  <2>1. RowsType' /\ WatchInv'
    BY <1>2, <1>3 DEF SpaceType, RowsType, WatchInv
  <2>2. JobType'
    BY <1>1, <1>2, <1>3, <1>5, <1>6 DEF JobType
  <2> QED
    BY <2>1, <2>2 DEF SpaceType
<1>9. DueInv'
  BY <1>2, <1>6, <1>7 DEF DueInv, Enforcing
<1>10. TrimInv'
  <2>1. landed' \cup ToSet(list') = landed
    BY <1>2, <1>5
  <2>2. Used(s, landed) <= quotaArg + due[s] /\ (s \notin given => quotaArg + due[s] <= Used(s, landed))
    BY <1>2, <1>7 DEF DueInv, Enforcing
  <2>3. s \notin cut' => landed \subseteq ToSet(list')
    BY <1>1, <1>5
  <2> QED
    BY <1>1, <1>2, <2>1, <2>2, <2>3 DEF TrimInv
<1>11. SettledInv'
  <2>1. Sids \ Open' \subseteq Sids \ Open
    BY <1>1, <1>2, <1>6 DEF Open
  <2> QED
    BY <1>2, <1>7, <2>1 DEF SettledInv, Enforcing
<1> QED
  BY <1>8, <1>9, <1>10, <1>11 DEF QuotaInv

\* One row of the listing: the user's own goes, and its size is counted; any
\* other is passed over.
LEMMA TrimItemSpace == ASSUME SpaceInv, TrimItem PROVE SpaceType' /\ QuotaInv'
<1> DEFINE item == Head(list)
<1>1. /\ job = "trim" /\ over > 0 /\ list # <<>> /\ list' = Tail(list)
      /\ IF Catalog[item].sid = sid
           THEN landed' = landed \ {item} /\ over' = over - Catalog[item].size
           ELSE landed' = landed /\ over' = over
      /\ job' = job /\ need' = need /\ quotaArg' = quotaArg /\ due' = due /\ sid' = sid
      /\ cut' = cut /\ given' = given /\ look' = look /\ waitingIn' = waitingIn /\ wanted' = wanted
  BY DEF TrimItem, MaintUnchanged, lookVars
<1>2. RowsType /\ JobType /\ WatchInv /\ DueInv /\ TrimInv /\ SettledInv
  BY DEF SpaceInv, SpaceType, QuotaInv
<1>3. /\ Listing(list') /\ item \in ItemIds /\ item \in ToSet(list)
      /\ ToSet(list') = ToSet(list) \ {item}
  BY <1>1, <1>2, ListTail DEF JobType
<1>4. /\ quotaArg \in Nat /\ over \in Int /\ Catalog[item].size \in Nat
      /\ \A s \in DOMAIN due : due[s] \in Int
      /\ sid \notin DOMAIN due
  BY <1>1, <1>2, <1>3, PolicyAssumption DEF JobType
<1> HIDE DEF item
<1>5. landed' \subseteq landed
  BY <1>1
<1>6. \A s : /\ Used(s, landed') <= Used(s, landed)
             /\ Used(s, landed') \in Nat /\ Used(s, landed) \in Nat
  BY <1>5, UsedMore, UsedType
<1>7. \A s : s # sid => Used(s, landed') = Used(s, landed)
  <2> SUFFICES ASSUME NEW s, s # sid PROVE Used(s, landed') = Used(s, landed)
    OBVIOUS
  <2> QED
    BY <1>1, <1>3, UsedRemove
<1>8. SpaceType'
  <2>1. RowsType' /\ WatchInv'
    BY <1>1, <1>2, <1>5 DEF RowsType, WatchInv
  <2>2. over' \in Int
    BY <1>1, <1>4
  <2>3. JobType'
    BY <1>1, <1>2, <1>3, <2>2 DEF JobType
  <2> QED
    BY <2>1, <2>3 DEF SpaceType
<1>9. DueInv'
  BY <1>1, <1>2, <1>4, <1>6, <1>7 DEF DueInv, Enforcing
<1>10. TrimInv'
  <2> DEFINE all == landed \cup ToSet(list)
             left == landed' \cup ToSet(list')
  <2>1. /\ Used(sid, all) <= quotaArg + over
        /\ sid \notin given => quotaArg + over <= Used(sid, landed)
        /\ sid \notin cut => \A i \in landed : Catalog[i].sid = sid => i \in ToSet(list)
    BY <1>1, <1>2 DEF TrimInv
  <2>2. Used(sid, all) \in Nat /\ Used(sid, left) \in Nat
    BY UsedType
  <2>3. /\ Used(sid, left) <= quotaArg + over'
        /\ sid \notin given => quotaArg + over' <= Used(sid, landed')
    <3>1. CASE Catalog[item].sid = sid
      <4>1. left = all \ {item} /\ item \in all
        BY <1>1, <1>3, <3>1
      <4> HIDE DEF all, left
      <4>2. Used(sid, left) = Used(sid, all) - Catalog[item].size
        BY <1>3, <3>1, <4>1, UsedRemove
      <4>3. Used(sid, landed) - Catalog[item].size <= Used(sid, landed')
        BY <1>1, <1>3, <3>1, UsedRemove
      <4>4. over' = over - Catalog[item].size
        BY <1>1, <3>1
      <4> QED
        BY <1>4, <1>6, <2>1, <2>2, <4>2, <4>3, <4>4
    <3>2. CASE Catalog[item].sid # sid
      <4>1. left \subseteq all /\ landed' = landed /\ over' = over
        BY <1>1, <1>3, <3>2
      <4> HIDE DEF all, left
      <4>2. Used(sid, left) <= Used(sid, all)
        BY <4>1, UsedMore
      <4> QED
        BY <1>4, <2>1, <2>2, <4>1, <4>2
    <3> QED
      BY <3>1, <3>2
  <2>4. sid \notin cut => \A i \in landed' : Catalog[i].sid = sid => i \in ToSet(list')
    BY <1>1, <1>3, <2>1
  <2> QED
    BY <1>1, <2>3, <2>4 DEF TrimInv
<1>11. SettledInv'
  BY <1>1, <1>2, <1>4, <1>6 DEF SettledInv, Enforcing, Open
<1> QED
  BY <1>8, <1>9, <1>10, <1>11 DEF QuotaInv

\* The user is done with: the excess is gone, or the listing is, and then, if it
\* held every row, so is all the user had.
LEMMA TrimEndSpace == ASSUME SpaceInv, TrimEnd PROVE SpaceType' /\ QuotaInv'
<1>1. /\ job = "trim" /\ (over <= 0 \/ list = <<>>) /\ job' = "quota"
      /\ sid' = NoSid /\ over' = 0 /\ list' = <<>> /\ landed' = landed
      /\ need' = need /\ quotaArg' = quotaArg /\ due' = due
      /\ cut' = cut /\ given' = given /\ look' = look /\ waitingIn' = waitingIn /\ wanted' = wanted
  BY DEF TrimEnd, MaintUnchanged, lookVars
<1>2. RowsType /\ JobType /\ WatchInv /\ DueInv /\ TrimInv /\ SettledInv
  BY DEF SpaceInv, SpaceType, QuotaInv
<1>3. quotaArg \in Nat /\ over \in Int
  BY <1>2 DEF JobType
<1>4. SpaceType'
  <2>1. Listing(<<>>)
    BY DEF Listing
  <2>2. RowsType' /\ WatchInv'
    BY <1>1, <1>2 DEF RowsType, WatchInv
  <2>3. JobType'
    BY <1>1, <1>2, <2>1 DEF JobType
  <2> QED
    BY <2>2, <2>3 DEF SpaceType
<1>5. sid \notin cut => Used(sid, landed) <= quotaArg
  <2>1. CASE over <= 0
    <3>1. /\ Used(sid, landed) <= Used(sid, landed \cup ToSet(list))
          /\ Used(sid, landed) \in Nat /\ Used(sid, landed \cup ToSet(list)) \in Nat
      BY UsedMore, UsedType
    <3>2. Used(sid, landed \cup ToSet(list)) <= quotaArg + over
      BY <1>1, <1>2 DEF TrimInv
    <3> QED
      BY <1>3, <2>1, <3>1, <3>2
  <2>2. CASE list = <<>> /\ sid \notin cut
    <3>1. ToSet(list) = {}
      BY <2>2 DEF ToSet
    <3>2. \A i \in landed : Catalog[i].sid # sid
      BY <1>1, <1>2, <2>2, <3>1 DEF TrimInv
    <3>3. Used(sid, landed) = 0
      BY <3>2, UsedNone
    <3> QED
      BY <1>3, <3>3
  <2> QED
    BY <1>1, <2>1, <2>2
<1>6. DueInv'
  BY <1>1, <1>2 DEF DueInv, Enforcing
<1>7. SettledInv'
  <2> SUFFICES ASSUME quotaArg > 0, NEW s \in Sids, s \notin DOMAIN due, s \notin cut
               PROVE  Used(s, landed) <= quotaArg
    BY <1>1 DEF SettledInv, Open
  <2>1. CASE s = sid
    BY <1>5, <2>1
  <2>2. CASE s # sid
    BY <1>1, <1>2, <2>2 DEF SettledInv, Enforcing, Open
  <2> QED
    BY <2>1, <2>2
<1> QED
  BY <1>1, <1>4, <1>6, <1>7 DEF QuotaInv, TrimInv

LEMMA QuotaEndSpace == ASSUME SpaceInv, QuotaEnd PROVE SpaceType' /\ QuotaInv'
<1>1. /\ job' = "rest" /\ quotaArg' = 0 /\ cut' = {} /\ given' = {} /\ landed' = landed
      /\ need' = need /\ due' = due /\ sid' = sid /\ over' = over /\ list' = list
      /\ look' = look /\ waitingIn' = waitingIn /\ wanted' = wanted /\ job = "quota"
  BY DEF QuotaEnd, MaintUnchanged, lookVars
<1>2. SpaceType'
  BY <1>1 DEF SpaceInv, SpaceType, RowsType, JobType, WatchInv
<1> QED
  BY <1>1, <1>2, NotEnforcing DEF Enforcing

LEMMA SpaceAlways == PolicySpec => []SpaceInv
<1>1. SpaceInv /\ [PolicyNext]_policyVars => SpaceInv'
  <2> SUFFICES ASSUME SpaceInv, [PolicyNext]_policyVars PROVE SpaceInv'
    OBVIOUS
  <2>1. CASE ReloadLoad \/ ReloadSwap \/ ReloadFree
    BY <2>1, ReloadSpace
  <2>2. CASE Ops
    BY <2>2, OpsSpace
  <2>3. CASE (\E i \in ItemIds : Land(i)) \/ Watermark
    BY <2>3, WatermarkSpace
  <2>4. CASE Quota
    <3>1. IInv'
      BY <2>4, MaintKeeps DEF SpaceInv
    <3>2. SpaceType' /\ QuotaInv'
      BY <2>4, QuotaBeginSpace, QuotaUserSpace, TrimItemSpace, TrimEndSpace, QuotaEndSpace DEF Quota
    <3> QED
      BY <3>1, <3>2 DEF SpaceInv
  <2>5. CASE UNCHANGED policyVars
    <3>1. IInv'
      BY <2>5, ReadsUntouched DEF SpaceInv, policyVars
    <3>2. SpaceType' /\ QuotaInv'
      BY <2>5, QuotaUntouched
      DEF SpaceInv, SpaceType, RowsType, JobType, WatchInv, policyVars, maintVars, lookVars
    <3> QED
      BY <3>1, <3>2 DEF SpaceInv
  <2> QED
    BY <2>1, <2>2, <2>3, <2>4, <2>5 DEF PolicyNext
<1> QED
  BY SpaceInit, <1>1, PTL DEF PolicySpec

\* Type correctness.
THEOREM PolicyTypes == PolicySpec => []PolicyTypeOK
<1>1. SpaceInv => PolicyTypeOK
  <2> SUFFICES ASSUME SpaceInv PROVE PolicyTypeOK
    OBVIOUS
  <2>1. RowsType /\ JobType /\ HeapInv /\ LookType
    BY DEF SpaceInv, SpaceType, IInv, ReadInv
  <2>2. config.paths \in Allocs /\ config.count \in Nat
    BY <2>1, PolicyAssumption DEF HeapInv, Configs, Allocs
  <2>3. ToSet(list) \subseteq ItemIds
    BY <2>1, ListItems DEF JobType
  <2> QED
    BY <2>1, <2>2, <2>3 DEF PolicyTypeOK, RowsType, JobType, HeapInv, LookType
<1> QED
  BY <1>1, SpaceAlways, PTL

\* The quota job ends with every user whose rows were all listed within the
\* quota, and takes items only from users who are above it, whatever the ops
\* thread gives back meanwhile and whatever the configuration becomes.
THEOREM QuotaKept == PolicySpec => QuotaExact
<1> DEFINE Ends == job = "quota" /\ job' = "rest" /\ quotaArg > 0 =>
                     \A s \in Sids \ cut : Used(s, landed) <= quotaArg
           Takes == job = "trim" /\ list' # list =>
                      \A i \in landed \ landed' :
                        Catalog[i].sid \in given \/ Used(Catalog[i].sid, landed) > quotaArg
<1>1. SpaceInv /\ [PolicyNext]_policyVars => [Ends /\ Takes]_policyVars
  <2> SUFFICES ASSUME SpaceInv, PolicyNext PROVE Ends /\ Takes
    OBVIOUS
  <2>1. CASE ReloadLoad \/ ReloadSwap \/ ReloadFree
    BY <2>1 DEF ReloadLoad, ReloadSwap, ReloadFree, maintVars
  <2>2. CASE Ops
    <3>1. job' = job /\ list' = list
      BY <2>2 DEF Ops, OpsBegin, OpsFetch, OpsUse, OpsFault, OpsRefuse, OpsUnchanged, maintVars
    <3> QED
      BY <3>1
  <2>3. CASE (\E i \in ItemIds : Land(i)) \/ Watermark
    <3>1. ~Enforcing
      BY <2>3 DEF SpaceInv, SpaceType, WatchInv, Enforcing, Land, Watermark, WatchBegin, WatchFetch,
                  Fetch, WatchUse, WatchFault, Fault, WatchEnd, LoopEnd, MeasureVolume, FreeItem, FreeEnd
    <3> QED
      BY <3>1 DEF Enforcing
  <2>4. CASE QuotaBegin \/ QuotaUser \/ TrimEnd
    BY <2>4 DEF QuotaBegin, QuotaUser, TrimEnd
  <2>5. CASE TrimItem
    <3>1. job = "trim" /\ job' = job
      BY <2>5 DEF TrimItem
    <3>2. ASSUME NEW i \in landed \ landed'
          PROVE  Catalog[i].sid \in given \/ Used(Catalog[i].sid, landed) > quotaArg
      <4>1. over > 0 /\ Catalog[i].sid = sid
        BY <2>5, <3>2 DEF TrimItem
      <4>2. sid \notin given => quotaArg + over <= Used(sid, landed)
        BY <3>1 DEF SpaceInv, QuotaInv, TrimInv
      <4>3. quotaArg \in Nat /\ over \in Int
        BY DEF SpaceInv, SpaceType, JobType
      <4>4. Used(sid, landed) \in Nat
        BY UsedType
      <4>5. sid \notin given => Used(sid, landed) > quotaArg
        BY <4>1, <4>2, <4>3, <4>4
      <4> QED
        BY <4>1, <4>5
    <3> QED
      BY <3>1, <3>2
  <2>6. CASE QuotaEnd
    <3>1. job = "quota" /\ DOMAIN due = {}
      BY <2>6 DEF QuotaEnd
    <3>2. quotaArg > 0 => \A s \in Sids \ cut : Used(s, landed) <= quotaArg
      BY <3>1 DEF SpaceInv, QuotaInv, SettledInv, Enforcing, Open
    <3> QED
      BY <3>1, <3>2
  <2> QED
    BY <2>1, <2>2, <2>3, <2>4, <2>5, <2>6 DEF PolicyNext, Quota
<1> QED
  BY <1>1, SpaceAlways, PTL DEF PolicySpec, QuotaExact
=============================================================================
