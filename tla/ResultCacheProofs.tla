--------------------------- MODULE ResultCacheProofs ---------------------------
(***************************************************************************)
(* The invariants of ResultCache, for any set of tasks, any arrays and any *)
(* number of stores up to the number of ids.                               *)
(*                                                                         *)
(* HandlesUnique is not inductive by itself: the next id may be drawn only *)
(* because every handle in the cache's history is the handle of an id      *)
(* below the number of stores, and next_id is that number until it wraps.  *)
(***************************************************************************)
EXTENDS ResultCache, FiniteSetTheorems, TLAPS

-------------------------------------------------------------------------------
IsDrawn(handle) == \E id \in Nat : id < stores /\ handle = Handle(id)

(* next_id counts the stores, and every handle comes from an id drawn before. *)
DrawnInOrder ==
    /\ next_id = IF stores = IdSpace THEN 0 ELSE stores
    /\ \A h \in DOMAIN origin : IsDrawn(h)
    /\ \A t \in Tasks : \A entry \in storing[t] : IsDrawn(entry.handle)

(* The map against its history, poisoned or not. *)
MapIsHistory ==
    /\ DOMAIN inner \subseteq DOMAIN origin \ released
    /\ \A h \in DOMAIN inner : inner[h] = origin[h]
    /\ released \subseteq DOMAIN origin
    /\ ~ poisoned => DOMAIN origin \ released \subseteq DOMAIN inner

IndInv == TypeOK /\ DrawnInOrder /\ HandlesUnique /\ MapIsHistory

-------------------------------------------------------------------------------
(* The handle of an id is a text of one segment. *)
LEMMA HandleIsText ==
    ASSUME NEW id \in Nat
    PROVE  Handle(id) \in Text
<1>1. "mcp-cache-" \in Word
  BY WordAssumption, Zenon
<1>2. [word |-> "mcp-cache-", num |-> id] \in Segment
  BY <1>1 DEF Segment
<1>3. Handle(id) \in Seq(Segment) /\ Len(Handle(id)) = 1
  BY <1>2 DEF Handle
<1> QED
  BY <1>3 DEF Text

(* Different ids have different handles: format! of the id loses nothing. *)
LEMMA HandleInjective ==
    ASSUME NEW i \in Nat, NEW j \in Nat, Handle(i) = Handle(j)
    PROVE  i = j
<1>1. Handle(i)[1].num = i /\ Handle(j)[1].num = j
  BY DEF Handle
<1> QED
  BY <1>1

LEMMA InitInv == CacheInit => IndInv
<1> SUFFICES ASSUME CacheInit PROVE IndInv
  OBVIOUS
<1>1. TypeOK
  <2>1. next_id \in 0 .. IdSpace - 1 /\ stores \in 0 .. MaxStores
    BY CacheAssumption DEF CacheInit
  <2>2. /\ inner = [h \in DOMAIN inner |-> inner[h]] /\ DOMAIN inner = {}
        /\ origin = [h \in DOMAIN origin |-> origin[h]] /\ DOMAIN origin = {}
    BY DEF CacheInit, EmptyMap
  <2>3. storing \in [Tasks -> SUBSET [handle : Text, items : Arrays]]
    BY DEF CacheInit
  <2>4. poisoned \in BOOLEAN /\ released \subseteq Text
    BY DEF CacheInit
  <2> QED
    BY <2>1, <2>2, <2>3, <2>4 DEF TypeOK
<1>2. DrawnInOrder
  BY CacheAssumption DEF CacheInit, DrawnInOrder, EmptyMap
<1>3. HandlesUnique
  BY DEF CacheInit, HandlesUnique
<1>4. MapIsHistory
  BY DEF CacheInit, MapIsHistory, EmptyMap
<1> QED
  BY <1>1, <1>2, <1>3, <1>4 DEF IndInv

-------------------------------------------------------------------------------
LEMMA FreshHandleInv ==
    ASSUME NEW t \in Tasks, NEW items \in Arrays, IndInv, FreshHandle(t, items)
    PROVE  IndInv'
<1> USE DEF IndInv
<1> DEFINE fresh == [handle |-> Handle(next_id), items |-> items]
<1>1. next_id = stores /\ stores \in Nat /\ stores < IdSpace /\ stores' = stores + 1
  BY CacheAssumption, NoWrapAssumption DEF FreshHandle, TypeOK, DrawnInOrder
<1>2. /\ storing' = [storing EXCEPT ![t] = {fresh}]
      /\ storing \in [Tasks -> SUBSET [handle : Text, items : Arrays]]
  BY DEF FreshHandle, TypeOK
<1>3. ~ IsDrawn(fresh.handle)
  BY <1>1, HandleInjective DEF IsDrawn
<1>4. \A h : IsDrawn(h) => IsDrawn(h)'
  BY <1>1 DEF IsDrawn
<1>5. \A h : h = fresh.handle => IsDrawn(h)'
  BY <1>1 DEF IsDrawn
<1>6. TypeOK'
  <2>1. next_id' \in 0 .. IdSpace - 1
    BY <1>1, CacheAssumption DEF FreshHandle, WrappingAdd, TypeOK
  <2>2. fresh \in [handle : Text, items : Arrays]
    BY <1>1, HandleIsText
  <2>3. storing' \in [Tasks -> SUBSET [handle : Text, items : Arrays]]
    BY <1>2, <2>2
  <2>4. stores' \in 0 .. MaxStores
    BY <1>1, CacheAssumption DEF FreshHandle
  <2> QED
    BY <2>1, <2>3, <2>4 DEF FreshHandle, TypeOK, IsEntry
<1>7. DrawnInOrder'
  <2>1. next_id' = IF stores' = IdSpace THEN 0 ELSE stores'
    BY <1>1, CacheAssumption DEF FreshHandle, WrappingAdd
  <2>2. \A h \in DOMAIN origin' : IsDrawn(h)'
    BY <1>4 DEF FreshHandle, DrawnInOrder
  <2>3. \A u \in Tasks : \A entry \in storing'[u] : IsDrawn(entry.handle)'
    <3> SUFFICES ASSUME NEW u \in Tasks, NEW entry \in storing'[u]
                 PROVE  IsDrawn(entry.handle)'
      OBVIOUS
    <3>1. CASE u = t
      <4>1. entry.handle = fresh.handle
        BY <1>2, <3>1
      <4> QED
        BY <1>5, <4>1
    <3>2. CASE u # t
      <4>1. entry \in storing[u]
        BY <1>2, <3>2
      <4> QED
        BY <1>4, <4>1 DEF DrawnInOrder
    <3> QED
      BY <3>1, <3>2
  <2> QED
    BY <2>1, <2>2, <2>3 DEF DrawnInOrder
<1>8. HandlesUnique'
  BY <1>2, <1>3 DEF HandlesUnique, DrawnInOrder, FreshHandle
<1>9. MapIsHistory'
  BY DEF MapIsHistory, FreshHandle
<1> QED
  BY <1>6, <1>7, <1>8, <1>9

LEMMA InsertInv ==
    ASSUME NEW t \in Tasks, NEW entry \in storing[t], IndInv, Insert(t, entry)
    PROVE  IndInv'
<1> USE DEF IndInv
<1>1. /\ inner' = IF poisoned THEN inner ELSE Put(inner, entry.handle, entry.items)
      /\ origin' = Put(origin, entry.handle, entry.items)
      /\ storing' = [storing EXCEPT ![t] = {}]
      /\ UNCHANGED <<next_id, poisoned, stores, released>>
  BY DEF Insert
<1>2. storing \in [Tasks -> SUBSET [handle : Text, items : Arrays]]
  BY DEF TypeOK
<1>3. entry.handle \in Text /\ entry.items \in Arrays
  BY <1>2
<1>4. entry.handle \notin DOMAIN origin
  BY DEF HandlesUnique
<1>5. /\ DOMAIN origin' = DOMAIN origin \cup {entry.handle}
      /\ origin'[entry.handle] = entry.items
      /\ \A h \in DOMAIN origin : origin'[h] = origin[h]
      /\ origin' = [h \in DOMAIN origin' |-> origin'[h]]
  BY <1>1, <1>4 DEF Put
<1>6. CASE poisoned
  <2>1. inner' = inner
    BY <1>1, <1>6
  <2>2. TypeOK'
    BY <1>1, <1>2, <1>3, <1>5, <2>1 DEF TypeOK, IsEntry
  <2>3. MapIsHistory'
    BY <1>1, <1>5, <1>6, <2>1 DEF MapIsHistory
  <2> QED
    BY <1>1, <1>2, <1>5, <2>2, <2>3 DEF DrawnInOrder, HandlesUnique, IsDrawn
<1>7. CASE ~ poisoned
  <2>1. /\ DOMAIN inner' = DOMAIN inner \cup {entry.handle}
        /\ inner'[entry.handle] = entry.items
        /\ \A h \in DOMAIN inner : h # entry.handle => inner'[h] = inner[h]
        /\ inner' = [h \in DOMAIN inner' |-> inner'[h]]
    BY <1>1, <1>7 DEF Put
  <2>2. TypeOK'
    BY <1>1, <1>2, <1>3, <1>5, <2>1 DEF TypeOK, IsEntry
  <2>3. MapIsHistory'
    BY <1>1, <1>4, <1>5, <1>7, <2>1 DEF MapIsHistory
  <2> QED
    BY <1>1, <1>2, <1>5, <2>2, <2>3 DEF DrawnInOrder, HandlesUnique, IsDrawn
<1> QED
  BY <1>6, <1>7

LEMMA ReleaseInv ==
    ASSUME NEW handle, IndInv, Release(handle)
    PROVE  IndInv'
<1> USE DEF IndInv
<1>1. /\ DOMAIN Drop(inner, handle) = DOMAIN inner \ {handle}
      /\ \A h \in DOMAIN inner \ {handle} : Drop(inner, handle)[h] = inner[h]
      /\ Drop(inner, handle) = [h \in DOMAIN Drop(inner, handle) |-> Drop(inner, handle)[h]]
  BY DEF Drop
<1>2. /\ inner' = IF poisoned THEN inner ELSE Drop(inner, handle)
      /\ released' = IF handle \in Live THEN released \cup {handle} ELSE released
      /\ UNCHANGED <<next_id, poisoned, storing, stores, origin>>
  BY DEF Release
<1>3. released' \subseteq Text
  BY <1>2 DEF Live, TypeOK, IsEntry
<1>4. TypeOK'
  BY <1>1, <1>2, <1>3 DEF TypeOK, IsEntry
<1>5. MapIsHistory'
  BY <1>1, <1>2 DEF MapIsHistory, Live
<1> QED
  BY <1>2, <1>4, <1>5 DEF DrawnInOrder, HandlesUnique, IsDrawn

LEMMA PoisonInv ==
    ASSUME IndInv, Poison
    PROVE  IndInv'
  BY DEF IndInv, Poison, TypeOK, IsEntry, DrawnInOrder, IsDrawn, HandlesUnique, MapIsHistory

LEMMA StutterInv ==
    ASSUME IndInv, UNCHANGED cacheVars
    PROVE  IndInv'
  BY DEF IndInv, cacheVars, TypeOK, IsEntry, DrawnInOrder, IsDrawn, HandlesUnique, MapIsHistory

-------------------------------------------------------------------------------
LEMMA StepInv ==
    ASSUME IndInv, [CacheNext]_cacheVars
    PROVE  IndInv'
<1>1. ASSUME NEW t \in Tasks, NEW items \in Arrays, FreshHandle(t, items) PROVE IndInv'
  BY <1>1, FreshHandleInv
<1>2. ASSUME NEW t \in Tasks, NEW entry \in storing[t], Insert(t, entry) PROVE IndInv'
  BY <1>2, InsertInv
<1>3. ASSUME NEW handle \in Names, Release(handle) PROVE IndInv'
  BY <1>3, ReleaseInv
<1>4. CASE Poison
  BY <1>4, PoisonInv
<1>5. CASE UNCHANGED cacheVars
  BY <1>5, StutterInv
<1> QED
  BY <1>1, <1>2, <1>3, <1>4, <1>5 DEF CacheNext

(* The strengthened invariant holds in every reachable state. *)
THEOREM Inductive == CacheSpec => []IndInv
<1>1. IndInv /\ [CacheNext]_cacheVars => IndInv'
  BY StepInv
<1> QED
  BY InitInv, <1>1, PTL DEF CacheSpec

(* The variables keep their types. *)
THEOREM CacheTypeCorrect == CacheSpec => []TypeOK
<1>1. IndInv => TypeOK
  BY DEF IndInv
<1> QED
  BY Inductive, <1>1, PTL

(* A handle is given out once, whatever the overlap of stores and releases *)
(* (result_cache.rs:129-153).                                              *)
THEOREM HandleUniqueness == CacheSpec => []HandlesUnique
<1>1. IndInv => HandlesUnique
  BY DEF IndInv
<1> QED
  BY Inductive, <1>1, PTL

(* Stored arrays stay whole until they are released (result_cache.rs:146-179). *)
THEOREM Conservation == CacheSpec => []NothingLost
<1>1. IndInv => NothingLost
  BY DEF IndInv, MapIsHistory, NothingLost
<1> QED
  BY Inductive, <1>1, PTL

(* A handle is live for one unbroken stretch and names one array all along. *)
THEOREM Lifecycle == CacheSpec => HandleLifecycle
<1> DEFINE Kept == /\ \A h \in Live \cap Live' : inner'[h] = inner[h]
                   /\ \A h \in DOMAIN origin \ Live : h \notin Live'
<1>1. IndInv /\ [CacheNext]_cacheVars => [Kept]_cacheVars
  <2> SUFFICES ASSUME IndInv, CacheNext PROVE Kept
    OBVIOUS
  <2>1. ASSUME NEW t \in Tasks, NEW items \in Arrays, FreshHandle(t, items) PROVE Kept
    BY <2>1 DEF FreshHandle, Live
  <2>2. ASSUME NEW t \in Tasks, NEW entry \in storing[t], Insert(t, entry) PROVE Kept
    <3>1. /\ inner' = IF poisoned THEN inner ELSE Put(inner, entry.handle, entry.items)
          /\ poisoned' = poisoned
      BY <2>2 DEF Insert
    <3>2. entry.handle \notin DOMAIN origin
      BY <2>2 DEF IndInv, HandlesUnique
    <3>3. entry.handle \notin DOMAIN inner
      BY <3>2 DEF IndInv, MapIsHistory
    <3> QED
      BY <3>1, <3>2, <3>3 DEF Live, Put
  <2>3. ASSUME NEW handle \in Names, Release(handle) PROVE Kept
    BY <2>3 DEF Release, Live, Drop
  <2>4. CASE Poison
    BY <2>4 DEF Poison, Live
  <2> QED
    BY <2>1, <2>2, <2>3, <2>4 DEF CacheNext
<1> QED
  BY Inductive, <1>1, PTL DEF CacheSpec, HandleLifecycle

-------------------------------------------------------------------------------
Busy == {t \in Tasks : storing[t] # {}}

(* Every handle that was drawn was returned or is on its way. *)
Counted ==
    /\ IsFiniteSet(DOMAIN origin) /\ IsFiniteSet(Busy)
    /\ stores = Cardinality(DOMAIN origin) + Cardinality(Busy)

LEMMA CountedKeeps ==
    ASSUME IndInv, Counted, [CacheNext]_cacheVars
    PROVE  Counted'
<1>1. storing \in [Tasks -> SUBSET [handle : Text, items : Arrays]] /\ stores \in Nat
  BY CacheAssumption DEF IndInv, TypeOK
<1>2. Cardinality(DOMAIN origin) \in Nat /\ Cardinality(Busy) \in Nat
  BY FS_CardinalityType DEF Counted
<1>3. ASSUME NEW t \in Tasks, NEW items \in Arrays, FreshHandle(t, items) PROVE Counted'
  <2>1. /\ t \notin Busy /\ Busy' = Busy \cup {t}
        /\ stores' = stores + 1 /\ origin' = origin
    BY <1>1, <1>3 DEF FreshHandle, Busy
  <2>2. IsFiniteSet(Busy') /\ Cardinality(Busy') = Cardinality(Busy) + 1
    BY <2>1, FS_AddElement DEF Counted
  <2> QED
    BY <1>1, <1>2, <2>1, <2>2 DEF Counted
<1>4. ASSUME NEW t \in Tasks, NEW entry \in storing[t], Insert(t, entry) PROVE Counted'
  <2>1. /\ t \in Busy /\ Busy' = Busy \ {t}
        /\ stores' = stores /\ origin' = Put(origin, entry.handle, entry.items)
    BY <1>1, <1>4 DEF Insert, Busy
  <2>2. IsFiniteSet(Busy') /\ Cardinality(Busy') = Cardinality(Busy) - 1
    BY <2>1, FS_RemoveElement DEF Counted
  <2>3. entry.handle \notin DOMAIN origin /\ DOMAIN origin' = DOMAIN origin \cup {entry.handle}
    BY <2>1 DEF IndInv, HandlesUnique, Put
  <2>4. /\ IsFiniteSet(DOMAIN origin')
        /\ Cardinality(DOMAIN origin') = Cardinality(DOMAIN origin) + 1
    BY <2>3, FS_AddElement DEF Counted
  <2> QED
    BY <1>1, <1>2, <2>1, <2>2, <2>4 DEF Counted
<1>5. ASSUME NEW handle \in Names, Release(handle) PROVE Counted'
  BY <1>5 DEF Release, Counted, Busy
<1>6. CASE Poison
  BY <1>6 DEF Poison, Counted, Busy
<1>7. CASE UNCHANGED cacheVars
  BY <1>7 DEF cacheVars, Counted, Busy
<1> QED
  BY <1>3, <1>4, <1>5, <1>6, <1>7 DEF CacheNext

(* The books balance: every handle drawn is live, released or being stored, *)
(* and none is two of these (result_cache.rs:124-127).                      *)
THEOREM AuditBalances == CacheSpec => []ReleaseAudit
<1>1. CacheInit => Counted
  BY FS_EmptySet DEF CacheInit, Counted, Busy, EmptyMap
<1>2. IndInv /\ Counted /\ [CacheNext]_cacheVars => Counted'
  BY CountedKeeps
<1>3. IndInv /\ Counted => ReleaseAudit
  <2> SUFFICES ASSUME IndInv, Counted, ~ poisoned PROVE
         stores = LiveHandles + Cardinality(released) + Cardinality(Busy)
    BY DEF ReleaseAudit, Busy
  <2> DEFINE live == DOMAIN inner
             all  == DOMAIN origin
  <2>1. all = live \cup released /\ live \cap released = {} /\ Live = live
    BY DEF IndInv, MapIsHistory, Live
  <2>2. live \in SUBSET all /\ released \in SUBSET all
    BY <2>1
  <2>3. IsFiniteSet(all) /\ stores = Cardinality(all) + Cardinality(Busy)
    BY DEF Counted
  <2> HIDE DEF live, all
  <2>4. IsFiniteSet(live) /\ IsFiniteSet(released)
    BY <2>2, <2>3, FS_Subset
  <2>5. Cardinality(all) = Cardinality(live) + Cardinality(released) - Cardinality(live \cap released)
    BY <2>1, <2>4, FS_Union
  <2>6. Cardinality(live \cap released) = 0
    BY <2>1, FS_EmptySet
  <2>7. Cardinality(live) \in Nat /\ Cardinality(released) \in Nat
    BY <2>4, FS_CardinalityType
  <2> QED
    BY <2>1, <2>3, <2>5, <2>6, <2>7 DEF LiveHandles
<1> QED
  BY Inductive, <1>1, <1>2, <1>3, PTL DEF CacheSpec
===============================================================================
