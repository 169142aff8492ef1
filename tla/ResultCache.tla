------------------------------ MODULE ResultCache ------------------------------
(***************************************************************************)
(* MemoryResultCache (result_cache.rs), shared by concurrent tasks.        *)
(*                                                                         *)
(* The cache has two mutexes, and `store` takes them one after the other:  *)
(* it draws an id from next_id, then inserts under that id into inner.     *)
(* Between the two sections any other task may run, so each section is an  *)
(* action.  page, len and release take inner once and are single steps.    *)
(*                                                                         *)
(* A task that panics while it holds `inner` poisons it for good.  Nothing *)
(* in the crate panics there today, but every operation has a branch for   *)
(* it, so the fault is an action of the environment, enabled by Faults.    *)
(* A poisoned next_id is recovered by fresh_handle and changes nothing.    *)
(***************************************************************************)
EXTENDS Paging, FiniteSets

CONSTANTS
    Tasks,      \* the tasks (threads) that share the cache
    Arrays,     \* the arrays that may be stored
    Names,      \* the handle texts callers send, known to the cache or not
    IdSpace,    \* 2^64 in the code: next_id is a u64
    MaxStores,  \* bound: at most this many calls of store
    Faults      \* whether a panic may poison inner

ASSUME CacheAssumption ==
    /\ Arrays \subseteq Seq(Item)
    /\ \A items \in Arrays : Len(items) \in Usize
    /\ Names \subseteq Text
    /\ IdSpace \in Nat \ {0}
    /\ MaxStores \in Nat
    /\ Faults \in BOOLEAN

(* No more stores than ids: "the wrapping arithmetic is unreachable in       *)
(* practice" (result_cache.rs:131-132).                                      *)
ASSUME NoWrapAssumption == MaxStores <= IdSpace

VARIABLES
    next_id,    \* Mutex<u64>
    inner,      \* Mutex<HashMap<String, Vec<Value>>>: handle -> items
    poisoned,   \* whether inner's mutex is poisoned
    storing,    \* storing[t]: {} or the {[handle, items]} t drew and must insert
    stores,     \* history: how many handles were drawn
    origin,     \* history: handle -> items, for each store that has returned
    released    \* history: the handles for which a release returned true

cacheVars == <<next_id, inner, poisoned, storing, stores, origin, released>>

-------------------------------------------------------------------------------
(* Mutants of WrappingAdd: no wrap, and a wrap one id too early. *)
PlainAdd(id) == id + 1
EarlyWrappingAdd(id) == IF id >= IdSpace - 2 THEN 0 ELSE id + 1

WrappingAdd(id) == IF id = IdSpace - 1 THEN 0 ELSE id + 1

(* What lock() gives access to: nothing once the mutex is poisoned. *)
Live == IF poisoned THEN {} ELSE DOMAIN inner

(* ResultCache::page and ResultCache::len: {} is None. *)
Page(handle, offset, limit) ==
    IF handle \in Live THEN {PageSlice(inner[handle], offset, limit)} ELSE {}

CachedLen(handle) ==
    IF handle \in Live THEN {Len(inner[handle])} ELSE {}

LiveHandles == Cardinality(Live)

-------------------------------------------------------------------------------
CacheInit ==
    /\ next_id = 0
    /\ inner = EmptyMap
    /\ poisoned = FALSE
    /\ storing = [t \in Tasks |-> {}]
    /\ stores = 0
    /\ origin = EmptyMap
    /\ released = {}

(* Mutant of FreshHandle: ids are the size of the map. *)
FreshHandleFromSize(t, items) ==
    /\ storing[t] = {}
    /\ stores < MaxStores
    /\ storing' = [storing EXCEPT ![t] =
                     {[handle |-> Handle(Cardinality(DOMAIN inner)), items |-> items]}]
    /\ stores' = stores + 1
    /\ UNCHANGED <<next_id, inner, poisoned, origin, released>>

(* The first section of store: draw a handle. *)
FreshHandle(t, items) ==
    /\ storing[t] = {}
    /\ stores < MaxStores
    /\ storing' = [storing EXCEPT ![t] =
                     {[handle |-> Handle(next_id), items |-> items]}]
    /\ next_id' = WrappingAdd(next_id)
    /\ stores' = stores + 1
    /\ UNCHANGED <<inner, poisoned, origin, released>>

(* Mutant of Insert: a try_lock that gives up while another store runs. *)
InsertIfAlone(t, entry) ==
    /\ inner' = IF poisoned \/ \E u \in Tasks \ {t} : storing[u] # {}
                  THEN inner ELSE Put(inner, entry.handle, entry.items)
    /\ origin' = Put(origin, entry.handle, entry.items)
    /\ storing' = [storing EXCEPT ![t] = {}]
    /\ UNCHANGED <<next_id, poisoned, stores, released>>

(* The second section: insert and return the handle; a poisoned map is left *)
(* alone and the handle returned all the same.                              *)
Insert(t, entry) ==
    /\ inner' = IF poisoned THEN inner ELSE Put(inner, entry.handle, entry.items)
    /\ origin' = Put(origin, entry.handle, entry.items)
    /\ storing' = [storing EXCEPT ![t] = {}]
    /\ UNCHANGED <<next_id, poisoned, stores, released>>

(* Mutant of Release: looks the handle up and does not remove it. *)
ReleaseKeeping(handle) ==
    /\ released' = IF handle \in Live THEN released \cup {handle} ELSE released
    /\ UNCHANGED <<next_id, inner, poisoned, storing, stores, origin>>

Release(handle) ==
    /\ inner' = IF poisoned THEN inner ELSE Drop(inner, handle)
    /\ released' = IF handle \in Live THEN released \cup {handle} ELSE released
    /\ UNCHANGED <<next_id, poisoned, storing, stores, origin>>

(* A task panics while it holds inner. *)
Poison ==
    /\ Faults
    /\ ~ poisoned
    /\ poisoned' = TRUE
    /\ UNCHANGED <<next_id, inner, storing, stores, origin, released>>

CacheNext ==
    \/ \E t \in Tasks :
          \/ \E items \in Arrays : FreshHandle(t, items)
          \/ \E entry \in storing[t] : Insert(t, entry)
          \* a task in the middle of store does not call release
          \/ storing[t] = {} /\ \E handle \in Names : Release(handle)
    \/ Poison

CacheSpec == CacheInit /\ [][CacheNext]_cacheVars

-------------------------------------------------------------------------------
IsEntry(f, handle) == handle \in Text /\ f[handle] \in Arrays

TypeOK ==
    /\ next_id \in 0 .. IdSpace - 1
    /\ inner = [h \in DOMAIN inner |-> inner[h]]
    /\ \A h \in DOMAIN inner : IsEntry(inner, h)
    /\ poisoned \in BOOLEAN
    /\ storing \in [Tasks -> SUBSET [handle : Text, items : Arrays]]
    /\ stores \in 0 .. MaxStores
    /\ origin = [h \in DOMAIN origin |-> origin[h]]
    /\ \A h \in DOMAIN origin : IsEntry(origin, h)
    /\ released \subseteq Text

(* A handle is given out once: no two tasks hold the same one between the two *)
(* sections of store, and none holds one that another store returned before,  *)
(* released or not.  So the insert never overwrites, and a handle is never    *)
(* bound again after its release ("opaque, unique handle",                    *)
(* result_cache.rs:47).                                                       *)
HandlesUnique ==
    \A t \in Tasks : \A entry \in storing[t] :
        /\ entry.handle \notin DOMAIN origin
        /\ \A u \in Tasks \ {t} : \A other \in storing[u] : other.handle # entry.handle

(* Every array a store has returned a handle for is in the map, whole and     *)
(* unchanged, until a release of that very handle succeeds, whatever other    *)
(* tasks store and release meanwhile; and nothing else is in the map: no      *)
(* entry outlives its release (result_cache.rs:47-48, 59-61).                 *)
NothingLost ==
    ~ poisoned =>
        /\ DOMAIN inner = DOMAIN origin \ released
        /\ \A h \in DOMAIN inner : inner[h] = origin[h]

(* The audit live_handles() is for (result_cache.rs:124): every handle drawn   *)
(* is live, released, or still being stored, and none is two of these.        *)
ReleaseAudit ==
    ~ poisoned =>
        stores = LiveHandles + Cardinality(released)
                   + Cardinality({t \in Tasks : storing[t] # {}})

(* The life of a handle is absent, live, gone: its items never change while   *)
(* it is live, and it never comes back once it is gone, not even by way of a  *)
(* store in flight (result_cache.rs:47-48, 103-104).                          *)
HandleLifecycle ==
    [][ /\ \A h \in Live \cap Live' : inner'[h] = inner[h]
        /\ \A h \in DOMAIN origin \ Live : h \notin Live' ]_cacheVars
===============================================================================
