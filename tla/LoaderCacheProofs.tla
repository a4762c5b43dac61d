------------------------- MODULE LoaderCacheProofs -------------------------
(***************************************************************************)
(* What TLAPS proves of LoaderCache, for any number of lanes, modules and  *)
(* versions.                                                               *)
(***************************************************************************)
EXTENDS LoaderCache, TLAPS

\* Threads that have not outlived their VM hold entries that are in the list
\* and have loaded what the list still holds.
Held ==
  /\ \A t \in Threads : at[t] = "use" /\ t \notin ended =>
       \E e \in Entries : e.addr = ptr[t] /\ e.name = mod[t]
  /\ \A t \in Threads : at[t] = "done" /\ t \notin ended =>
       \E e \in Entries : e.name = mod[t] /\ e.data = loaded[t]

Fetched == \A t \in Threads : at[t] = "add" => data[t] \in Versions

CacheInv == TypeOK /\ OneEntryEach /\ OnlyVerified /\ Held /\ Fetched

Cells == [addr : Addresses, name : Modules, data : Versions]

\* A list with x in front has the entries of the list and x.
LEMMA ConsEntries ==
  ASSUME NEW s \in Seq(Cells), NEW x \in Cells
  PROVE  /\ <<x>> \o s \in Seq(Cells)
         /\ Len(<<x>> \o s) = Len(s) + 1
         /\ (<<x>> \o s)[1] = x
         /\ \A i \in 1..Len(s) : (<<x>> \o s)[i + 1] = s[i]
         /\ \A i \in 2..Len(<<x>> \o s) : (<<x>> \o s)[i] = s[i - 1]
  OBVIOUS

LEMMA EntriesAreCells ==
  ASSUME TypeOK
  PROVE  \A e \in Entries : e \in Cells
  <1>1. cache \in Seq(Cells)
    BY DEF TypeOK, Cells
  <1> QED
    BY <1>1 DEF Entries

LEMMA InitCache == Init => CacheInv
  BY VersionsAssumption, ModulesAssumption
  DEF Init, CacheInv, TypeOK, OneEntryEach, OnlyVerified, Held, Fetched, Entries,
      Bodies, Versions

\* Steps that leave the list, the pointers and the lanes' VMs alone.
LEMMA QuietCache ==
  ASSUME CacheInv, UNCHANGED <<cache, ptr, ended>>, TypeOK', Fetched',
         \A t \in Threads : at'[t] \in {"use", "done"} =>
           at'[t] = at[t] /\ mod'[t] = mod[t] /\ loaded'[t] = loaded[t]
  PROVE  CacheInv'
  BY DEF CacheInv, OneEntryEach, OnlyVerified, Held, Entries

LEMMA AddCache ==
  ASSUME CacheInv, NEW t \in Threads, CacheAdd(t)
  PROVE  CacheInv'
  <1>1. PICK a \in Free :
          cache' = IF Compiles(t) THEN CachePush(Entry(a, mod[t], data[t]))
                   ELSE cache
    BY DEF CacheAdd
  <1>2. /\ at[t] = "add" /\ at' = [at EXCEPT ![t] = "again"]
        /\ UNCHANGED <<mod, ptr, data, sig, loaded, ended, published>>
    BY DEF CacheAdd, Goto
  <1>3. CASE cache' = cache
    <2>1. TypeOK' /\ Fetched'
      BY <1>2, <1>3 DEF CacheInv, TypeOK, Fetched
    <2> QED
      BY <1>2, <1>3, <2>1, QuietCache DEF CacheInv, TypeOK
  <1>4. CASE cache' # cache
    <2> DEFINE x == Entry(a, mod[t], data[t])
    <2>1. /\ cache' = <<x>> \o cache /\ data[t] \notin Broken
          /\ \A e \in Entries : e.name # x.name
      BY <1>1, <1>4 DEF CachePush, Compiles
    <2>2. /\ x \in Cells /\ cache \in Seq(Cells)
          /\ x.addr = a /\ x.name = mod[t] /\ x.data = data[t]
          /\ data[t] \in Versions
      BY <1>1, <1>2 DEF Entry, Cells, CacheInv, TypeOK, Fetched, Free
    <2>3. \A e \in Entries : e.addr # x.addr
      BY <1>1, <2>2 DEF Free, Live
    <2> HIDE DEF x
    <2>4. /\ cache' \in Seq(Cells) /\ Len(cache') = Len(cache) + 1
          /\ Len(cache) \in Nat /\ cache'[1] = x
          /\ \A i \in 1..Len(cache) : cache'[i + 1] = cache[i]
          /\ \A i \in 2..Len(cache') : cache'[i] = cache[i - 1]
      BY <2>1, <2>2, ConsEntries
    <2>5. Entries' = Entries \cup {x}
      <3>1. ASSUME NEW i \in 1..Len(cache') PROVE cache'[i] \in Entries \cup {x}
        BY <2>4 DEF Entries
      <3>2. ASSUME NEW i \in 1..Len(cache) PROVE cache[i] \in Entries'
        <4>1. i + 1 \in 1..Len(cache') /\ cache'[i + 1] = cache[i]
          BY <2>4
        <4> QED
          BY <4>1 DEF Entries
      <3>3. x \in Entries'
        <4>1. 1 \in 1..Len(cache')
          BY <2>4
        <4> QED
          BY <2>4, <4>1 DEF Entries
      <3> QED
        BY <3>1, <3>2, <3>3 DEF Entries
    <2>6. OneEntryEach'
      <3> SUFFICES ASSUME NEW i \in 1..Len(cache'), NEW j \in 1..Len(cache'),
                          \/ cache'[i].name = cache'[j].name
                          \/ cache'[i].addr = cache'[j].addr
                   PROVE  i = j
        BY DEF OneEntryEach
      <3>1. CASE i = 1 \/ j = 1
        <4>1. ASSUME NEW k \in 2..Len(cache') PROVE cache'[k] \in Entries
          BY <2>4 DEF Entries
        <4> QED
          BY <3>1, <4>1, <2>1, <2>3, <2>4
      <3>2. CASE i # 1 /\ j # 1
        <4>1. /\ i - 1 \in 1..Len(cache) /\ j - 1 \in 1..Len(cache)
              /\ cache'[i] = cache[i - 1] /\ cache'[j] = cache[j - 1]
          BY <3>2, <2>4
        <4>2. i - 1 = j - 1
          BY <4>1 DEF CacheInv, OneEntryEach
        <4> QED
          BY <4>2
      <3> QED
        BY <3>1, <3>2
    <2>7. OnlyVerified'
      BY <2>1, <2>2, <2>5 DEF CacheInv, OnlyVerified
    <2>8. Held'
      BY <1>2, <2>5 DEF CacheInv, TypeOK, Held
    <2>9. TypeOK' /\ Fetched'
      BY <1>2, <2>4 DEF CacheInv, TypeOK, Fetched, Cells
    <2> QED
      BY <2>6, <2>7, <2>8, <2>9 DEF CacheInv
  <1> QED
    BY <1>3, <1>4

LEMMA StepCache == CacheInv /\ [Next]_vars => CacheInv'
  <1> SUFFICES ASSUME CacheInv, [Next]_vars PROVE CacheInv'
    OBVIOUS
  <1>1. CASE UNCHANGED vars
    BY <1>1 DEF vars, CacheInv, TypeOK, OneEntryEach, OnlyVerified, Held,
       Fetched, Entries
  <1>2. ASSUME NEW t \in Threads, Require(t) \/ Again(t) PROVE CacheInv'
    <2>1. TypeOK' /\ Fetched'
      BY <1>2 DEF Require, Again, Goto, CacheInv, TypeOK, Fetched, Bodies
    <2> QED
      BY <1>2, <2>1, QuietCache DEF Require, Again, Goto, CacheInv, TypeOK
  <1>3. ASSUME NEW t \in Threads,
               GetMiss(t) \/ GetAgainMiss(t) \/ VerifyFails(t)
        PROVE  CacheInv'
    <2>1. TypeOK' /\ Fetched'
      BY <1>3 DEF GetMiss, GetAgainMiss, FindMiss, VerifyFails, Goto, CacheInv,
         TypeOK, Fetched
    <2> QED
      BY <1>3, <2>1, QuietCache DEF GetMiss, GetAgainMiss, FindMiss,
         VerifyFails, Goto, CacheInv, TypeOK
  <1>4. ASSUME NEW t \in Threads, VerifyOk(t) PROVE CacheInv'
    <2>1. TypeOK' /\ Fetched'
      BY <1>4 DEF VerifyOk, Verified, Goto, CacheInv, TypeOK, Fetched
    <2> QED
      BY <1>4, <2>1, QuietCache DEF VerifyOk, Goto, CacheInv, TypeOK
  <1>5. ASSUME NEW t \in Threads, FetchData(t) \/ FetchSig(t) PROVE CacheInv'
    <2>1. Answers \subseteq Bodies
      BY DEF Answers, Bodies, CacheInv, TypeOK
    <2>2. TypeOK' /\ Fetched'
      BY <1>5, <2>1 DEF FetchData, FetchSig, Goto, CacheInv, TypeOK, Fetched
    <2> QED
      BY <1>5, <2>2, QuietCache DEF FetchData, FetchSig, Goto, CacheInv, TypeOK
  <1>6. ASSUME NEW t \in Threads, GetHit(t) \/ GetAgainHit(t) PROVE CacheInv'
    <2>1. PICK e \in Entries :
            e.name = mod[t] /\ ptr' = [ptr EXCEPT ![t] = e.addr]
      BY <1>6 DEF GetHit, GetAgainHit, FindHit
    <2>2. /\ at' = [at EXCEPT ![t] = "use"]
          /\ UNCHANGED <<cache, mod, data, sig, loaded, ended, published>>
      BY <1>6 DEF GetHit, GetAgainHit, FindHit, Goto
    <2>3. e \in Cells
      BY EntriesAreCells DEF CacheInv
    <2>4. TypeOK' /\ Fetched'
      BY <2>1, <2>2, <2>3 DEF CacheInv, TypeOK, Fetched, Cells
    <2>5. Entries' = Entries /\ OneEntryEach' /\ OnlyVerified'
      BY <2>2 DEF CacheInv, OneEntryEach, OnlyVerified, Entries
    <2>6. /\ at'[t] = "use" /\ ptr'[t] = e.addr
          /\ \A u \in Threads \ {t} : at'[u] = at[u] /\ ptr'[u] = ptr[u]
      BY <2>1, <2>2 DEF CacheInv, TypeOK
    <2>7. Held'
      BY <2>1, <2>2, <2>5, <2>6 DEF CacheInv, Held
    <2> QED
      BY <2>4, <2>5, <2>7 DEF CacheInv
  <1>7. ASSUME NEW t \in Threads, LoadBuffer(t) PROVE CacheInv'
    <2>1. /\ at[t] = "use" /\ at' = [at EXCEPT ![t] = "done"]
          /\ ptr' = [ptr EXCEPT ![t] = 0]
          /\ UNCHANGED <<cache, mod, data, sig, ended, published>>
      BY <1>7 DEF LoadBuffer, Goto
    <2>2. \/ \E e \in Entries : /\ e.addr = ptr[t]
                                /\ loaded' = [loaded EXCEPT ![t] = e.data]
          \/ ~Live(ptr[t]) /\ loaded' = [loaded EXCEPT ![t] = Junk]
      BY <1>7 DEF LoadBuffer
    <2>3. \A e \in Entries : e \in Cells
      BY EntriesAreCells DEF CacheInv
    <2>4. TypeOK' /\ Fetched'
      BY <2>1, <2>2, <2>3 DEF CacheInv, TypeOK, Fetched, Cells, Bodies
    <2>5. OneEntryEach' /\ OnlyVerified'
      BY <2>1 DEF CacheInv, OneEntryEach, OnlyVerified, Entries
    <2>6. t \notin ended =>
            \E e \in Entries : e.name = mod[t] /\ e.data = loaded'[t]
      <3> SUFFICES ASSUME t \notin ended
                   PROVE  \E e \in Entries : e.name = mod[t] /\ e.data = loaded'[t]
        OBVIOUS
      <3>1. PICK e \in Entries : e.addr = ptr[t] /\ e.name = mod[t]
        BY <2>1 DEF CacheInv, Held
      <3>2. PICK d \in Entries :
              d.addr = ptr[t] /\ loaded' = [loaded EXCEPT ![t] = d.data]
        BY <2>2, <3>1 DEF Live
      <3>3. d = e
        BY <3>1, <3>2 DEF CacheInv, OneEntryEach, Entries
      <3>4. loaded'[t] = d.data
        BY <3>2 DEF CacheInv, TypeOK
      <3> QED
        BY <3>1, <3>3, <3>4
    <2>7. \A u \in Threads \ {t} : loaded'[u] = loaded[u] /\ at'[u] = at[u]
                                     /\ ptr'[u] = ptr[u]
      BY <2>1, <2>2 DEF CacheInv, TypeOK
    <2>8. Entries' = Entries /\ at'[t] = "done"
      BY <2>1 DEF Entries, CacheInv, TypeOK
    <2>9. Held'
      BY <2>1, <2>6, <2>7, <2>8 DEF CacheInv, Held
    <2> QED
      BY <2>4, <2>5, <2>9 DEF CacheInv
  <1>8. ASSUME NEW t \in Threads, CacheAdd(t) PROVE CacheInv'
    BY <1>8, AddCache
  <1>9. CASE CacheClear
    <2>1. /\ cache' = <<>> /\ ended' = Lanes
          /\ at[Main] = "idle"
          /\ UNCHANGED <<at, mod, ptr, data, sig, loaded, published>>
      BY <1>9 DEF CacheClear
    <2>2. \A t \in Threads : t \notin ended' => at'[t] = "idle"
      BY <2>1 DEF Threads
    <2>3. TypeOK' /\ Fetched'
      BY <2>1 DEF CacheInv, TypeOK, Fetched
    <2>4. OneEntryEach' /\ OnlyVerified' /\ Held'
      BY <2>1, <2>2 DEF OneEntryEach, OnlyVerified, Held, Entries
    <2> QED
      BY <2>3, <2>4 DEF CacheInv
  <1>10. ASSUME NEW t \in Lanes, NewLane(t) PROVE CacheInv'
    BY <1>10 DEF NewLane, CacheInv, TypeOK, Fetched, OneEntryEach,
       OnlyVerified, Held, Entries
  <1>11. CASE Publish
    <2>1. published' \in Versions
      BY <1>11, VersionsAssumption DEF Publish, CacheInv, TypeOK, Versions
    <2>2. TypeOK' /\ Fetched'
      BY <1>11, <2>1 DEF Publish, CacheInv, TypeOK, Fetched
    <2> QED
      BY <1>11, <2>2, QuietCache DEF Publish
  <1> QED
    BY <1>1, <1>2, <1>3, <1>4, <1>5, <1>6, <1>7, <1>8, <1>9, <1>10, <1>11
    DEF Next, Load

\* The invariant behind the theorems below.
THEOREM CacheInvariant == Spec => []CacheInv
  BY InitCache, StepCache, PTL DEF Spec

\* Every thread of every VM is somewhere in equus_http_loader, and the list holds
\* entries of the cache and nothing else.
THEOREM LoaderTypes == Spec => []TypeOK
  BY CacheInvariant, PTL DEF CacheInv

\* equus_local_cache_push keeps the names in the list distinct, however many
\* threads fetch one module at a time.
THEOREM EntriesUnique == Spec => []OneEntryEach
  BY CacheInvariant, PTL DEF CacheInv

\* Nothing gets into the cache that was not verified and compiled.
THEOREM CacheVerified == Spec => []OnlyVerified
  BY CacheInvariant, PTL DEF CacheInv

\* The entry equus_local_cache_get uses after unlocking can be freed only under
\* a lane that has outlived its VM.
THEOREM UseIsLive == Spec => []FreedUnderOldLanes
  <1>1. CacheInv => FreedUnderOldLanes
    BY DEF CacheInv, Held, FreedUnderOldLanes, Live
  <1> QED
    BY <1>1, CacheInvariant, PTL

\* All threads of a VM run the same version of a module.
THEOREM SameVersion == Spec => []OneVersion
  <1>1. CacheInv => OneVersion
    <2> SUFFICES ASSUME CacheInv, NEW t \in Threads \ ended,
                        NEW u \in Threads \ ended, at[t] = "done",
                        at[u] = "done", mod[t] = mod[u]
                 PROVE  loaded[t] = loaded[u]
      BY DEF OneVersion
    <2>1. PICK d \in Entries : d.name = mod[t] /\ d.data = loaded[t]
      BY DEF CacheInv, Held
    <2>2. PICK e \in Entries : e.name = mod[u] /\ e.data = loaded[u]
      BY DEF CacheInv, Held
    <2>3. d = e
      BY <2>1, <2>2 DEF CacheInv, OneEntryEach, Entries
    <2> QED
      BY <2>1, <2>2, <2>3
  <1> QED
    BY <1>1, CacheInvariant, PTL
=============================================================================
