---------------------------- MODULE LoaderCache ----------------------------
(***************************************************************************)
(* The module cache of equus_loader.c and the loader of http_loader.lua    *)
(* that fills it. Every lane has a Lua VM of its own and requires modules  *)
(* as it goes; the cache is the process's. main_core clears it between two *)
(* VMs of the main thread, while lanes of the VM before may still load.    *)
(***************************************************************************)
EXTENDS Integers, Sequences, FiniteSets

CONSTANTS
  Main,        \* the main thread
  Lanes,       \* the lanes
  Modules,     \* module names
  Last,        \* bound: versions the server publishes, 1..Last
  Broken       \* versions that are signed and do not compile

ASSUME ThreadsAssumption == Main \notin Lanes
ASSUME ModulesAssumption == Modules # {}
ASSUME VersionsAssumption == Last \in Nat \ {0} /\ Broken \subseteq 1..Last

Threads == {Main} \cup Lanes
Versions == 1..Last
\* what a request may return besides a version: nothing, or some other page
NoAnswer == 0
Junk == -1
Bodies == Versions \cup {NoAnswer, Junk}

\* Addresses of cache entries; one more than there can be pointers to.
Addresses == 1..(Cardinality(Threads) + Cardinality(Modules) + 1)

VARIABLES
  cache,      \* cache_head: the list of entries
  at,         \* where each thread is in load()
  mod,        \* the module it loads
  ptr,        \* the entry it has found, 0 for none
  data, sig,  \* the answers to its two requests
  loaded,     \* what it got in the end: a version, Junk for freed memory
  ended,      \* the lanes whose VM of the main thread has ended
  published   \* the version the server has now

vars == <<cache, at, mod, ptr, data, sig, loaded, ended, published>>

Entry(a, m, v) == [addr |-> a, name |-> m, data |-> v]
Entries == {cache[i] : i \in 1..Len(cache)}
Live(a) == \E e \in Entries : e.addr = a

Init ==
  /\ cache = <<>>
  /\ at = [t \in Threads |-> "idle"]
  /\ mod = [t \in Threads |-> CHOOSE m \in Modules : TRUE]
  /\ ptr = [t \in Threads |-> 0]
  /\ data = [t \in Threads |-> NoAnswer]
  /\ sig = [t \in Threads |-> NoAnswer]
  /\ loaded = [t \in Threads |-> NoAnswer]
  /\ ended = {}
  /\ published = 1

Goto(t, from, to) == at[t] = from /\ at' = [at EXCEPT ![t] = to]

-----------------------------------------------------------------------------
\* require 'm', in any VM
Require(t) ==
  /\ Goto(t, "idle", "get")
  /\ mod' \in {[mod EXCEPT ![t] = m] : m \in Modules}
  /\ UNCHANGED <<cache, ptr, data, sig, loaded, ended, published>>

\* equus_local_cache_find: the list is walked under the mutex and a pointer
\* into it leaves the lock
FindHit(t, from) ==
  /\ Goto(t, from, "use")
  /\ \E e \in Entries : e.name = mod[t] /\ ptr' = [ptr EXCEPT ![t] = e.addr]
  /\ UNCHANGED <<cache, mod, data, sig, loaded, ended, published>>

FindMiss(t, from, to) ==
  /\ Goto(t, from, to)
  /\ \A e \in Entries : e.name # mod[t]
  /\ UNCHANGED <<cache, mod, ptr, data, sig, loaded, ended, published>>

\* the first equus_local_cache_get, whose error pcall catches
GetHit(t) == FindHit(t, "get")
GetMiss(t) == FindMiss(t, "get", "data")

\* the last one, whose error ends require
GetAgainHit(t) == FindHit(t, "again")
GetAgainMiss(t) == FindMiss(t, "again", "raised")

\* Slip: what was fetched is used and not what the cache holds.
LoadBufferOwn(t) ==
  /\ Goto(t, "use", "done")
  /\ \E e \in Entries :
       loaded' = [loaded EXCEPT ![t] = IF data[t] \in Versions THEN data[t]
                                       ELSE e.data]
  /\ ptr' = [ptr EXCEPT ![t] = 0]
  /\ UNCHANGED <<cache, mod, data, sig, ended, published>>

\* luaL_loadbuffer on the entry. Memory that was freed has any content.
LoadBuffer(t) ==
  /\ Goto(t, "use", "done")
  /\ \/ \E e \in Entries : e.addr = ptr[t] /\ loaded' = [loaded EXCEPT ![t] = e.data]
     \/ ~Live(ptr[t]) /\ loaded' = [loaded EXCEPT ![t] = Junk]
  /\ ptr' = [ptr EXCEPT ![t] = 0]
  /\ UNCHANGED <<cache, mod, data, sig, ended, published>>

\* the two requests, one after the other
Answers == {NoAnswer, Junk, published}
FetchData(t) ==
  /\ Goto(t, "data", "sig")
  /\ data' \in {[data EXCEPT ![t] = b] : b \in Answers}
  /\ UNCHANGED <<cache, mod, ptr, sig, loaded, ended, published>>
FetchSig(t) ==
  /\ Goto(t, "sig", "verify")
  /\ sig' \in {[sig EXCEPT ![t] = b] : b \in Answers}
  /\ UNCHANGED <<cache, mod, ptr, data, loaded, ended, published>>

\* Slip: there is an answer, so it is taken for the module.
VerifiedIfAnswered(t) == data[t] # NoAnswer /\ sig[t] # NoAnswer

\* The asserts: both answers are there (their status is compared with a string
\* and never equals it) and equus_verify finds the signature good.
Verified(t) ==
  /\ data[t] # NoAnswer /\ sig[t] # NoAnswer
  /\ data[t] \in Versions /\ sig[t] = data[t]

VerifyOk(t) ==
  /\ Goto(t, "verify", "add")
  /\ Verified(t)
  /\ UNCHANGED <<cache, mod, ptr, data, sig, loaded, ended, published>>

VerifyFails(t) ==
  /\ Goto(t, "verify", "raised")
  /\ ~Verified(t)
  /\ UNCHANGED <<cache, mod, ptr, data, sig, loaded, ended, published>>

\* Slips: the name is not looked for; an entry of that name is replaced.
PushTwice(x) == <<x>> \o cache
PushReplaces(x) == <<x>> \o SelectSeq(cache, LAMBDA e : e.name # x.name)

\* equus_local_cache_push, under the mutex: the first one wins, x is freed
CachePush(x) ==
  IF \E e \in Entries : e.name = x.name THEN cache ELSE <<x>> \o cache

\* malloc: an address nothing points to
Free == {a \in Addresses : ~Live(a) /\ \A t \in Threads : ptr[t] # a}

\* Slip: the result of compiling is not looked at.
CompilesAnyhow(t) == TRUE

Compiles(t) == data[t] \notin Broken

\* equus_local_cache_add; nothing is stored when it does not compile
CacheAdd(t) ==
  /\ Goto(t, "add", "again")
  /\ \E a \in Free :
       /\ \A b \in Free : a <= b
       /\ cache' = IF Compiles(t) THEN CachePush(Entry(a, mod[t], data[t]))
                   ELSE cache
  /\ UNCHANGED <<mod, ptr, data, sig, loaded, ended, published>>

\* the thread goes on to its next require
Again(t) ==
  /\ \E from \in {"done", "raised"} : Goto(t, from, "idle")
  /\ data' = [data EXCEPT ![t] = NoAnswer]
  /\ sig' = [sig EXCEPT ![t] = NoAnswer]
  /\ loaded' = [loaded EXCEPT ![t] = NoAnswer]
  /\ UNCHANGED <<cache, mod, ptr, ended, published>>

-----------------------------------------------------------------------------
\* main_core after lua_close: equus_local_cache_clear, under the mutex. The
\* lanes that exist now are those of a VM that has ended.
CacheClear ==
  /\ at[Main] = "idle"
  /\ cache' = <<>>
  /\ ended' = Lanes
  /\ UNCHANGED <<at, mod, ptr, data, sig, loaded, published>>

\* a check's lane is gone and the main thread starts another one
NewLane(t) ==
  /\ t \in ended /\ at[t] = "idle"
  /\ ended' = ended \ {t}
  /\ UNCHANGED <<cache, at, mod, ptr, data, sig, loaded, published>>

Publish ==
  /\ published < Last
  /\ published' = published + 1
  /\ UNCHANGED <<cache, at, mod, ptr, data, sig, loaded, ended>>

Load(t) ==
  \/ Require(t) \/ GetHit(t) \/ GetMiss(t) \/ LoadBuffer(t)
  \/ FetchData(t) \/ FetchSig(t) \/ VerifyOk(t) \/ VerifyFails(t)
  \/ CacheAdd(t) \/ GetAgainHit(t) \/ GetAgainMiss(t) \/ Again(t)

Next ==
  \/ \E t \in Threads : Load(t)
  \/ CacheClear \/ (\E t \in Lanes : NewLane(t)) \/ Publish

Spec == Init /\ [][Next]_vars

-----------------------------------------------------------------------------
(* The type invariant. *)
TypeOK ==
  /\ cache \in Seq([addr : Addresses, name : Modules, data : Versions])
  /\ at \in [Threads -> {"idle", "get", "use", "data", "sig", "verify", "add",
                         "again", "done", "raised"}]
  /\ mod \in [Threads -> Modules]
  /\ ptr \in [Threads -> Addresses \cup {0}]
  /\ \A f \in {data, sig, loaded} : f \in [Threads -> Bodies]
  /\ ended \subseteq Lanes
  /\ published \in Versions

\* Threads that miss the same module at the same time fetch it twice and store
\* it once: no two entries have one name, nor one address.
OneEntryEach ==
  \A i, j \in 1..Len(cache) :
    cache[i].name = cache[j].name \/ cache[i].addr = cache[j].addr => i = j

\* What the cache holds was verified and compiles, although its data and its
\* signature are two requests between which the server may publish.
OnlyVerified == \A e \in Entries : e.data \in Versions \ Broken

\* equus_local_cache_get uses its entry after it has given back the mutex. The
\* entry can only be freed under it by a restart, so that it happens to lanes
\* that have outlived their VM and to nobody else.
FreedUnderOldLanes ==
  \A t \in Threads : at[t] = "use" /\ ~Live(ptr[t]) => t \in ended

\* All threads of a VM run one version of a module, whatever the server
\* publishes meanwhile: load() returns what the cache holds and not what it
\* has fetched.
OneVersion ==
  \A t, u \in Threads \ ended :
    at[t] = "done" /\ at[u] = "done" /\ mod[t] = mod[u]
      => loaded[t] = loaded[u]
=============================================================================
