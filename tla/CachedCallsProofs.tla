--------------------------- MODULE CachedCallsProofs ---------------------------
(***************************************************************************)
(* The clients over a remote transport, for any number of them, any remote *)
(* results and any order in which calls return, fail or are given up: what *)
(* a client reads is the result of its own call, and a call has at most    *)
(* one entry in the cache, none if it had no result.                       *)
(*                                                                         *)
(* Neither is inductive: a handle is bound to its call when it is drawn,   *)
(* before its array is in the map, and that it is bound to nothing else    *)
(* holds because ids of calls, as ids of handles, are never used again.    *)
(***************************************************************************)
EXTENDS CachedCalls, PagingClientProofs

-------------------------------------------------------------------------------
(* A call in flight has an id of its own and no entry; its caller waits. *)
Waiting(t, c) ==
    /\ c.id \in (0 .. calls - 1) \ abandoned
    /\ c.ask \in Asks
    /\ ~ Reading(t) /\ Idle(t)
    /\ \A h \in DOMAIN kept : kept[h].id # c.id

Calling ==
    /\ calls \in Nat /\ abandoned \subseteq 0 .. calls - 1
    /\ call = [t \in Tasks |-> call[t]] /\ outcome = [t \in Tasks |-> outcome[t]]
    /\ \A t \in Tasks : \A c \in call[t] : Waiting(t, c)
    /\ \A t, u \in Tasks : \A c \in call[t], d \in call[u] :
          (t = u => c = d) /\ (c.id = d.id => t = u)

(* These items are the result of the call the handle was drawn for. *)
KeptFor(h, items) ==
    h \in DOMAIN kept /\ Result[kept[h].ask] = [kind |-> "array", items |-> items]

Keeping ==
    /\ source = [t \in Tasks |-> source[t]]
    /\ \A h \in DOMAIN kept :
          /\ IsDrawn(h)
          /\ kept[h].id \in (invoked \ abandoned) \cap (0 .. calls - 1)
          /\ \A g \in DOMAIN kept : kept[g].id = kept[h].id => g = h
    /\ \A h \in DOMAIN origin : KeptFor(h, origin[h])
    /\ \A t \in Tasks : \A entry \in storing[t] :
          KeptFor(entry.handle, entry.items) /\ source[t] = {kept[entry.handle]}
    /\ \A t \in Tasks : Reading(t) => source[t] = {kept[reply[t].handle]}

CallsInv == ClientInv /\ Calling /\ Keeping

-------------------------------------------------------------------------------
(* A step that draws no handle and starts nobody reading keeps the entries. *)
LEMMA KeepingKept ==
    ASSUME Keeping, calls \in Nat, calls' \in Nat, calls <= calls', invoked \subseteq invoked',
           UNCHANGED <<kept, origin, storing, stores>>,
           \A h \in DOMAIN kept : kept[h].id \notin abandoned',
           source' = [t \in Tasks |-> source'[t]],
           \A t \in Tasks : storing[t] # {} => source'[t] = source[t],
           \A t \in Tasks : Reading(t)' =>
              Reading(t) /\ reply'[t].handle = reply[t].handle /\ source'[t] = source[t]
    PROVE  Keeping'
<1>1. \A h, items : KeptFor(h, items)' = KeptFor(h, items)
  BY DEF KeptFor
<1>2. \A h : IsDrawn(h)' = IsDrawn(h)
  BY DEF IsDrawn
<1>3. \A h \in DOMAIN kept : kept[h].id \in (invoked' \ abandoned') \cap (0 .. calls' - 1)
  <2> SUFFICES ASSUME NEW h \in DOMAIN kept
               PROVE  kept[h].id \in invoked' /\ kept[h].id \in 0 .. calls' - 1
    OBVIOUS
  <2>1. kept[h].id \in invoked /\ kept[h].id \in 0 .. calls - 1
    BY DEF Keeping
  <2> QED
    BY <2>1
<1>4. \A h \in DOMAIN kept' :
        /\ IsDrawn(h)'
        /\ kept'[h].id \in (invoked' \ abandoned') \cap (0 .. calls' - 1)
        /\ \A g \in DOMAIN kept' : kept'[g].id = kept'[h].id => g = h
  BY <1>2, <1>3 DEF Keeping
<1>5. \A t \in Tasks : \A entry \in storing'[t] :
        KeptFor(entry.handle, entry.items)' /\ source'[t] = {kept'[entry.handle]}
  BY <1>1 DEF Keeping
<1>6. \A t \in Tasks : Reading(t)' => source'[t] = {kept'[reply'[t].handle]}
  BY DEF Keeping
<1>7. \A h \in DOMAIN origin' : KeptFor(h, origin[h])'
  BY <1>1 DEF Keeping
<1> QED
  BY <1>4, <1>5, <1>6, <1>7 DEF Keeping

(* A step of the cache or of a client leaves the calls of the others waiting. *)
LEMMA CallingKept ==
    ASSUME Calling, UNCHANGED <<transportVars, abandoned, kept>>,
           \A t \in Tasks : call[t] # {} => ~ Reading(t)' /\ Idle(t)'
    PROVE  Calling'
<1>1. \A t \in Tasks : \A c \in call'[t] : Waiting(t, c)'
  BY DEF Calling, Waiting, transportVars
<1> QED
  BY <1>1 DEF Calling, transportVars

(* Waiting calls after a call is over: nothing else has changed for them. *)
LEMMA CallingEnds ==
    ASSUME Calling, NEW t \in Tasks, UNCHANGED <<calls, kept, storing, paging, forgotten>>,
           call' = [u \in Tasks |-> IF u = t THEN {} ELSE call[u]],
           outcome' = [u \in Tasks |-> outcome'[u]],
           abandoned' = abandoned \cup {c.id : c \in call[t]},
           \A u \in Tasks \ {t} : reply'[u] = reply[u]
    PROVE  Calling'
<1>1. \A u \in Tasks : \A c \in call'[u] : u # t /\ c \in call[u]
  OBVIOUS
<1>2. abandoned' \subseteq 0 .. calls - 1
  BY DEF Calling, Waiting
<1>3. \A u \in Tasks : \A c \in call'[u] : Waiting(u, c)'
  <2> SUFFICES ASSUME NEW u \in Tasks, NEW c \in call'[u] PROVE Waiting(u, c)'
    OBVIOUS
  <2>1. u # t /\ c \in call[u] /\ Waiting(u, c)
    BY <1>1 DEF Calling
  <2>2. \A d \in call[t] : d.id # c.id
    BY <2>1 DEF Calling
  <2>3. c.id \notin abandoned'
    BY <2>1, <2>2 DEF Waiting
  <2>4. ~ Reading(u)' /\ Idle(u)'
    BY <2>1 DEF Waiting, Reading, Idle
  <2> QED
    BY <2>1, <2>3, <2>4 DEF Waiting
<1>4. \A u, v \in Tasks : \A c \in call'[u], d \in call'[v] :
        (u = v => c = d) /\ (c.id = d.id => u = v)
  BY <1>1 DEF Calling
<1>5. call' = [u \in Tasks |-> call'[u]]
  OBVIOUS
<1> QED
  BY <1>2, <1>3, <1>4, <1>5 DEF Calling

-------------------------------------------------------------------------------
LEMMA AskKeepsCalls ==
    ASSUME CallsInv, NEW t \in Tasks, NEW ask \in Asks, Ask(t, ask)
    PROVE  CallsInv'
<1> PICK c : c = [id |-> calls, ask |-> ask]
  OBVIOUS
<1>1. /\ UNCHANGED clientVars /\ UNCHANGED <<source, kept, abandoned>>
      /\ call' = [call EXCEPT ![t] = {c}] /\ call[t] = {}
      /\ calls' = calls + 1 /\ UNCHANGED <<invoked, outcome>>
      /\ ~ Reading(t) /\ Idle(t)
  BY DEF Ask, Transport!Begin
<1>2. ClientInv'
  BY <1>1, ClientStepInv DEF CallsInv
<1>3. calls \in Nat /\ calls' \in Nat /\ calls <= calls' /\ calls \in 0 .. calls' - 1
  BY <1>1 DEF CallsInv, Calling
<1>4. Keeping'
  <2>1. \A h \in DOMAIN kept : kept[h].id \notin abandoned'
    BY <1>1 DEF CallsInv, Keeping
  <2>2. UNCHANGED <<kept, origin, storing, stores, source, reply, forgotten>>
    BY <1>1 DEF clientVars, vars, cacheVars
  <2>3. \A u \in Tasks : Reading(u)' = Reading(u)
    BY <2>2 DEF Reading
  <2> QED
    BY <1>1, <1>3, <2>1, <2>2, <2>3, KeepingKept DEF CallsInv, Keeping
<1>5. Calling'
  <2>1. /\ call' = [u \in Tasks |-> call'[u]] /\ call'[t] = {c}
        /\ \A u \in Tasks \ {t} : call'[u] = call[u]
    BY <1>1 DEF CallsInv, Calling
  <2>2. UNCHANGED <<reply, storing, paging, kept, abandoned, forgotten>>
    BY <1>1 DEF clientVars, vars, cacheVars
  <2>3. \A u \in Tasks : \A d \in call[u] : d.id # calls
    BY <1>3 DEF CallsInv, Calling, Waiting
  <2>4. /\ \A h \in DOMAIN kept : kept[h].id # calls
        /\ calls \notin abandoned
    BY <1>3 DEF CallsInv, Calling, Keeping
  <2>5. c.id = calls /\ c.ask = ask
    OBVIOUS
  <2>6. Waiting(t, c)'
    BY <1>1, <1>3, <2>2, <2>4, <2>5 DEF Waiting, Reading, Idle
  <2>7. \A u \in Tasks \ {t} : \A d \in call'[u] : Waiting(u, d)'
    <3> SUFFICES ASSUME NEW u \in Tasks \ {t}, NEW d \in call'[u] PROVE Waiting(u, d)'
      OBVIOUS
    <3>1. Waiting(u, d)
      BY <2>1 DEF CallsInv, Calling
    <3> QED
      BY <1>1, <1>3, <2>2, <3>1 DEF Waiting, Reading, Idle
  <2>8. \A u, v \in Tasks : \A d \in call'[u], e \in call'[v] :
          (u = v => d = e) /\ (d.id = e.id => u = v)
    BY <2>1, <2>3, <2>5 DEF CallsInv, Calling
  <2>9. abandoned' \subseteq 0 .. calls' - 1
    BY <1>1, <1>3, <2>2 DEF CallsInv, Calling
  <2> QED
    BY <1>1, <1>3, <2>1, <2>6, <2>7, <2>8, <2>9 DEF CallsInv, Calling
<1> QED
  BY <1>2, <1>4, <1>5 DEF CallsInv

LEMMA FarEndKeepsCalls ==
    ASSUME CallsInv, FarEnd
    PROVE  CallsInv'
<1>1. /\ UNCHANGED clientVars /\ UNCHANGED historyVars /\ UNCHANGED <<call, calls, outcome>>
      /\ invoked \subseteq invoked'
  BY DEF FarEnd, Transport!Open, Transport!Close, Transport!Invoke
<1>2. ClientInv'
  BY <1>1, ClientStepInv DEF CallsInv
<1>3. UNCHANGED <<kept, origin, storing, stores, source, reply, paging, abandoned, forgotten>>
  BY <1>1 DEF clientVars, vars, cacheVars, historyVars
<1>4. \A u \in Tasks : Reading(u)' = Reading(u) /\ Idle(u)' = Idle(u)
  BY <1>3 DEF Reading, Idle
<1>5. Keeping'
  BY <1>1, <1>3, <1>4, KeepingKept DEF CallsInv, Keeping, Calling
<1>6. \A t \in Tasks : \A c : Waiting(t, c)' = Waiting(t, c)
  BY <1>1, <1>3, <1>4 DEF Waiting
<1>7. Calling'
  BY <1>1, <1>3, <1>6 DEF CallsInv, Calling
<1> QED
  BY <1>2, <1>5, <1>7 DEF CallsInv

LEMMA GiveUpKeepsCalls ==
    ASSUME CallsInv, NEW t \in Tasks, GiveUp(t)
    PROVE  CallsInv'
<1>1. /\ UNCHANGED clientVars /\ UNCHANGED <<source, kept, calls, invoked>>
      /\ call' = [call EXCEPT ![t] = {}]
      /\ outcome' = [outcome EXCEPT ![t] = [kind |-> "timed out"]]
      /\ abandoned' = abandoned \cup {c.id : c \in call[t]}
  BY DEF GiveUp, Transport!GiveUp
<1>2. ClientInv'
  BY <1>1, ClientStepInv DEF CallsInv
<1>3. UNCHANGED <<origin, storing, stores, reply, paging, forgotten>>
  BY <1>1 DEF clientVars, vars, cacheVars
<1>4. \A u \in Tasks : Reading(u)' = Reading(u)
  BY <1>3 DEF Reading
<1>5. \A h \in DOMAIN kept : kept[h].id \notin abandoned'
  <2>1. \A c \in call[t] : \A h \in DOMAIN kept : kept[h].id # c.id
    BY DEF CallsInv, Calling, Waiting
  <2>2. \A h \in DOMAIN kept : kept[h].id \notin abandoned
    BY DEF CallsInv, Keeping
  <2> QED
    BY <1>1, <2>1, <2>2
<1>6. Keeping'
  <2>1. calls \in Nat /\ calls' = calls /\ calls <= calls
    <3>1. calls \in Nat
      BY DEF CallsInv, Calling
    <3>2. calls' = calls
      BY <1>1, Zenon
    <3> QED
      BY <3>1, <3>2
  <2>2. Keeping /\ source = [u \in Tasks |-> source[u]]
    BY DEF CallsInv, Keeping
  <2> QED
    BY <1>1, <1>3, <1>4, <1>5, <2>1, <2>2, KeepingKept
<1>7. Calling'
  <2>1. /\ call' = [u \in Tasks |-> IF u = t THEN {} ELSE call[u]]
        /\ outcome' = [u \in Tasks |-> outcome'[u]]
    BY <1>1 DEF CallsInv, Calling
  <2> QED
    BY <1>1, <1>3, <2>1, CallingEnds DEF CallsInv
<1> QED
  BY <1>2, <1>6, <1>7 DEF CallsInv

-------------------------------------------------------------------------------
LEMMA ResultShapes ==
    ASSUME NEW result \in Results
    PROVE  /\ result.kind \notin {"envelope", "page"}
           /\ result.kind = "array" =>
                \E items \in Arrays : result = [kind |-> "array", items |-> items]
<1>1. \/ result = Error("wrapped tool")
      \/ result = [kind |-> "other"]
      \/ \E items \in Arrays : result = [kind |-> "array", items |-> items]
  BY Zenon DEF Results
<1>2. CASE result = Error("wrapped tool")
  <2>1. result.kind = "error"
    BY <1>2 DEF Error
  <2> QED
    BY <2>1
<1>3. CASE result = [kind |-> "other"]
  <2>1. result.kind = "other"
    BY <1>3
  <2> QED
    BY <2>1
<1>4. CASE \E items \in Arrays : result = [kind |-> "array", items |-> items]
  <2>1. result.kind = "array"
    BY <1>4
  <2> QED
    BY <1>4, <2>1
<1> QED
  BY <1>1, <1>2, <1>3, <1>4

(* t is told a result that is small enough, or an error. *)
LEMMA TellIsClientStep ==
    ASSUME NEW t \in Tasks, NEW result \in Results, ~ IsLarge(result),
           ~ Reading(t), Idle(t), Tell(t, result)
    PROVE  ClientNext
<1>1. result \in SmallResults(Arrays, threshold_bytes)
  <2>1. CASE result \in {Error("wrapped tool"), [kind |-> "other"]}
    BY <2>1, Zenon DEF SmallResults
  <2>2. CASE \E items \in Arrays : result = [kind |-> "array", items |-> items]
    <3>1. PICK items \in Arrays : result = [kind |-> "array", items |-> items]
      BY <2>2
    <3>2. result.kind = "array" /\ result.items = items
      BY <3>1
    <3>3. ~ Oversized(items, threshold_bytes)
      BY <3>2 DEF IsLarge
    <3> QED
      BY <3>1, <3>3, Zenon DEF SmallResults
  <2> QED
    BY <2>1, <2>2 DEF Results
<1>2. Call(t)
  BY <1>1 DEF Tell, PassThrough, Call, cacheVars
<1> QED
  BY <1>2 DEF ClientNext

LEMMA LargeIsClientStep ==
    ASSUME NEW t \in Tasks, NEW result \in Results, IsLarge(result),
           ~ Reading(t), Idle(t), FreshHandle(t, result.items),
           UNCHANGED <<paging, reply, got, forgotten, rereads>>
    PROVE  ClientNext
<1>1. result.kind = "array" /\ Oversized(result.items, threshold_bytes)
  BY DEF IsLarge
<1>2. PICK items \in Arrays : result = [kind |-> "array", items |-> items]
  BY <1>1, ResultShapes
<1>3. result.items \in OversizedArrays(Arrays, threshold_bytes)
  BY <1>1, <1>2 DEF OversizedArrays
<1>4. Call(t)
  BY <1>3 DEF CacheLarge, Call
<1> QED
  BY <1>4 DEF ClientNext

LEMMA FailKeepsCalls ==
    ASSUME CallsInv, NEW t \in Tasks, Fail(t)
    PROVE  CallsInv'
<1> DEFINE failure == Error("wrapped tool")
<1>1. /\ ~ Reading(t) /\ Idle(t) /\ Tell(t, failure)
      /\ source' = [source EXCEPT ![t] = {}] /\ kept' = kept
      /\ abandoned' = abandoned \cup {c.id : c \in call[t]}
      /\ Transport!Fail({t}) \/ Transport!Refuse(t)
  BY DEF Fail
<1>2. failure.kind = "error" /\ failure \in Results
  BY DEF Error, Results
<1> HIDE DEF failure
<1>3. /\ UNCHANGED <<calls, invoked>>
      /\ call' = [u \in Tasks |-> IF u = t THEN {} ELSE call[u]]
      /\ outcome' = [u \in Tasks |-> outcome'[u]]
  <2>1. call = [u \in Tasks |-> call[u]] /\ outcome = [u \in Tasks |-> outcome[u]]
    BY DEF CallsInv, Calling
  <2>2. CASE Transport!Fail({t})
    BY <2>1, <2>2 DEF Transport!Fail
  <2>3. CASE Transport!Refuse(t)
    BY <2>1, <2>3 DEF Transport!Refuse
  <2> QED
    BY <1>1, <2>2, <2>3
<1>4. /\ UNCHANGED <<origin, storing, stores, paging, forgotten>>
      /\ reply' = [reply EXCEPT ![t] = failure]
  BY <1>1 DEF Tell, Answer, cacheVars
<1>5. /\ reply'[t] = failure /\ \A u \in Tasks \ {t} : reply'[u] = reply[u]
  BY <1>4, Shapes DEF CallsInv, ClientInv
<1>6. ClientInv'
  <2>1. ~ IsLarge(failure)
    BY <1>2 DEF IsLarge
  <2>2. ClientNext
    BY <1>1, <1>2, <2>1, TellIsClientStep
  <2> QED
    BY <2>2, ClientStepInv DEF CallsInv
<1>7. Keeping'
  <2>1. calls \in Nat /\ calls' = calls /\ calls <= calls
    BY <1>3 DEF CallsInv, Calling
  <2>2. Keeping /\ source = [u \in Tasks |-> source[u]]
    BY DEF CallsInv, Keeping
  <2>3. \A h \in DOMAIN kept : kept[h].id \notin abandoned'
    <3>1. \A c \in call[t] : \A h \in DOMAIN kept : kept[h].id # c.id
      BY DEF CallsInv, Calling, Waiting
    <3>2. \A h \in DOMAIN kept : kept[h].id \notin abandoned
      BY DEF CallsInv, Keeping
    <3> QED
      BY <1>1, <3>1, <3>2
  <2>4. /\ source' = [u \in Tasks |-> source'[u]]
        /\ \A u \in Tasks \ {t} : source'[u] = source[u]
    BY <1>1, <2>2
  <2>5. storing[t] = {} /\ ~ Reading(t)'
    BY <1>1, <1>2, <1>5 DEF Idle, Reading
  <2>6. \A u \in Tasks \ {t} : Reading(u)' = Reading(u)
    BY <1>4, <1>5 DEF Reading
  <2> QED
    BY <1>1, <1>3, <1>4, <1>5, <2>1, <2>2, <2>3, <2>4, <2>5, <2>6, KeepingKept
<1>8. Calling'
  BY <1>1, <1>3, <1>4, <1>5, CallingEnds DEF CallsInv
<1> QED
  BY <1>6, <1>7, <1>8 DEF CallsInv

(* The call that returns is the one t waits for, and its result is told or *)
(* kept.                                                                   *)
LEMMA ReturnedResult ==
    ASSUME CallsInv, NEW t \in Tasks, Return(t)
    PROVE  \E c \in call[t] :
             /\ call[t] = {c} /\ Waiting(t, c) /\ c.id \in invoked
             /\ Result[c.ask] \in Results /\ ~ Reading(t) /\ Idle(t)
             /\ CacheIfLarge(t, Result[c.ask], c)
             /\ source' = [source EXCEPT ![t] = {c}]
             /\ call' = [call EXCEPT ![t] = {}]
             /\ UNCHANGED <<open, calls, invoked, abandoned>>
<1>1. PICK c \in call[t] :
        /\ CacheIfLarge(t, outcome'[t], c)
        /\ source' = [source EXCEPT ![t] = {c}]
        /\ abandoned' = abandoned
        /\ Transport!Return(t)
  BY DEF Return
<1>2. Waiting(t, c) /\ call[t] = {c}
  BY DEF CallsInv, Calling
<1>3. PICK result : result = Result[c.ask]
  OBVIOUS
<1>4. /\ outcome' = [outcome EXCEPT ![t] = result] /\ c.id \in invoked
      /\ call' = [call EXCEPT ![t] = {}] /\ UNCHANGED <<open, calls, invoked>>
  BY <1>1, <1>2, <1>3 DEF Transport!Return
<1>5. outcome'[t] = result
  BY <1>4 DEF CallsInv, Calling
<1>6. result \in Results /\ ~ Reading(t) /\ Idle(t)
  BY <1>2, <1>3, CallsAssumption DEF Waiting
<1> QED
  BY <1>1, <1>2, <1>3, <1>4, <1>5, <1>6

(* The handle that is drawn next is bound to no call yet. *)
LEMMA NextHandle ==
    ASSUME IndInv, Keeping, NEW t \in Tasks, NEW items \in Arrays, FreshHandle(t, items)
    PROVE  /\ Handle(next_id) \notin DOMAIN kept
           /\ Handle(next_id) \notin DOMAIN origin
           /\ \A h : IsDrawn(h) => IsDrawn(h)'
           /\ \A h : h = Handle(next_id) => IsDrawn(h)'
<1>1. next_id = stores /\ stores \in Nat /\ stores < IdSpace /\ stores' = stores + 1
  BY CacheAssumption, NoWrapAssumption DEF FreshHandle, IndInv, TypeOK, DrawnInOrder
<1>2. ~ IsDrawn(Handle(next_id))
  BY <1>1, HandleInjective DEF IsDrawn
<1>3. \A h : IsDrawn(h) => IsDrawn(h)'
  BY <1>1 DEF IsDrawn
<1>4. \A h : h = Handle(next_id) => IsDrawn(h)'
  BY <1>1 DEF IsDrawn
<1> QED
  BY <1>2, <1>3, <1>4 DEF Keeping, IndInv, DrawnInOrder

LEMMA ReturnKeepsCalls ==
    ASSUME CallsInv, NEW t \in Tasks, Return(t)
    PROVE  CallsInv'
<1>1. PICK c \in call[t] :
        /\ CacheIfLarge(t, outcome'[t], c)
        /\ source' = [source EXCEPT ![t] = {c}]
        /\ abandoned' = abandoned
        /\ Transport!Return(t)
  BY DEF Return
<1>2. PICK result : result = Result[c.ask]
  OBVIOUS
<1>3. Waiting(t, c) /\ \A d \in call[t] : d = c
  BY DEF CallsInv, Calling
<1>4. /\ outcome' = [outcome EXCEPT ![t] = result] /\ c.id \in invoked
      /\ call' = [call EXCEPT ![t] = {}] /\ UNCHANGED <<calls, invoked>>
  BY <1>1, <1>2, <1>3 DEF Transport!Return
<1>5. /\ outcome'[t] = result /\ outcome' = [u \in Tasks |-> outcome'[u]]
      /\ call' = [u \in Tasks |-> IF u = t THEN {} ELSE call[u]]
  BY <1>4 DEF CallsInv, Calling
<1>6. /\ result \in Results /\ ~ Reading(t) /\ Idle(t) /\ c.id \in 0 .. calls - 1
      /\ c.id \notin abandoned /\ \A h \in DOMAIN kept : kept[h].id # c.id
  BY <1>2, <1>3, CallsAssumption DEF Waiting
<1>7. CacheIfLarge(t, result, c)
  BY <1>1, <1>5
<1>8. \A u \in Tasks \ {t} : \A d \in call[u] : Waiting(u, d) /\ d.id # c.id
  BY DEF CallsInv, Calling
<1>9. /\ Keeping /\ Calling /\ ClientInv /\ IndInv
      /\ calls \in Nat /\ calls <= calls
      /\ source' = [u \in Tasks |-> source'[u]] /\ source'[t] = {c}
      /\ \A u \in Tasks \ {t} : source'[u] = source[u]
  <2>1. Keeping /\ Calling /\ ClientInv /\ IndInv
    BY DEF CallsInv, ClientInv, BoundaryInv
  <2>2. calls \in Nat
    BY <2>1 DEF Calling
  <2>3. source = [u \in Tasks |-> source[u]]
    BY <2>1 DEF Keeping
  <2> QED
    BY <1>1, <2>1, <2>2, <2>3
<1>10. \A u, v \in Tasks : \A d \in call'[u], e \in call'[v] :
         (u = v => d = e) /\ (d.id = e.id => u = v)
  BY <1>5, <1>9 DEF Calling
<1>11. ASSUME \A u \in Tasks \ {t} : Reading(u)' = Reading(u) /\ Idle(u)' = Idle(u),
              \A h \in DOMAIN kept' : (h \in DOMAIN kept /\ kept'[h] = kept[h]) \/ kept'[h] = c
       PROVE  Calling'
  <2>1. \A u \in Tasks : \A d \in call'[u] : u # t /\ d \in call[u]
    BY <1>5
  <2>2. \A u \in Tasks : \A d \in call'[u] : Waiting(u, d)'
    <3> SUFFICES ASSUME NEW u \in Tasks, NEW d \in call'[u] PROVE Waiting(u, d)'
      OBVIOUS
    <3>1. u # t /\ Waiting(u, d) /\ d.id # c.id
      BY <1>8, <2>1
    <3>2. \A h \in DOMAIN kept' : kept'[h].id # d.id
      BY <1>11, <3>1 DEF Waiting
    <3> QED
      BY <1>1, <1>4, <1>11, <3>1, <3>2 DEF Waiting
  <2>3. call' = [u \in Tasks |-> call'[u]]
    BY <1>5
  <2> QED
    BY <1>1, <1>4, <1>5, <1>9, <1>10, <2>2, <2>3 DEF Calling
<1>12. CASE ~ IsLarge(result)
  <2>1. Tell(t, result) /\ kept' = kept
    BY <1>7, <1>12 DEF CacheIfLarge
  <2>2. ClientInv'
    BY <1>6, <1>9, <1>12, <2>1, TellIsClientStep, ClientStepInv
  <2>3. /\ UNCHANGED <<origin, storing, stores, paging, forgotten>>
        /\ reply' = [reply EXCEPT ![t] = result]
    BY <2>1 DEF Tell, Answer, cacheVars
  <2>4. /\ reply'[t] = result /\ \A u \in Tasks \ {t} : reply'[u] = reply[u]
    BY <1>9, <2>3, Shapes DEF ClientInv
  <2>5. ~ Reading(t)'
    <3>1. result.kind \notin {"envelope", "page"}
      BY <1>6, ResultShapes
    <3> QED
      BY <2>4, <3>1 DEF Reading
  <2>6. \A u \in Tasks \ {t} : Reading(u)' = Reading(u) /\ Idle(u)' = Idle(u)
    BY <2>3, <2>4 DEF Reading, Idle
  <2>7. Calling'
    BY <1>11, <2>1, <2>6
  <2>8. \A h \in DOMAIN kept : kept[h].id \notin abandoned'
    BY <1>1, <1>9 DEF Keeping
  <2>9. storing[t] = {}
    BY <1>6 DEF Idle
  <2>10. Keeping'
    BY <1>4, <1>9, <2>1, <2>3, <2>4, <2>5, <2>6, <2>8, <2>9, KeepingKept
  <2> QED
    BY <2>2, <2>7, <2>10 DEF CallsInv
<1>13. CASE IsLarge(result)
  <2>1. /\ FreshHandle(t, result.items) /\ kept' = Put(kept, Handle(next_id), c)
        /\ UNCHANGED <<paging, reply, got, forgotten, rereads>>
    BY <1>7, <1>13 DEF CacheIfLarge
  <2>2. ClientInv'
    BY <1>6, <1>9, <1>13, <2>1, LargeIsClientStep, ClientStepInv
  <2>3. PICK items \in Arrays : result = [kind |-> "array", items |-> items] /\ result.items = items
    <3>1. result.kind = "array"
      BY <1>13 DEF IsLarge
    <3> QED
      BY <1>6, <3>1, ResultShapes
  <2>4. PICK fresh : fresh = Handle(next_id)
    OBVIOUS
  <2>5. /\ fresh \notin DOMAIN kept /\ fresh \notin DOMAIN origin
        /\ \A h : IsDrawn(h) => IsDrawn(h)'
        /\ IsDrawn(fresh)'
    <3>1. FreshHandle(t, items)
      BY <2>1, <2>3
    <3>2. /\ Handle(next_id) \notin DOMAIN kept /\ Handle(next_id) \notin DOMAIN origin
          /\ \A h : IsDrawn(h) => IsDrawn(h)'
          /\ \A h : h = Handle(next_id) => IsDrawn(h)'
      BY <1>9, <3>1, NextHandle
    <3> QED
      BY <2>4, <3>2
  <2>6. /\ storing' = [storing EXCEPT ![t] = {[handle |-> fresh, items |-> items]}]
        /\ UNCHANGED origin
    BY <2>1, <2>3, <2>4 DEF FreshHandle
  <2>7. /\ storing'[t] = {[handle |-> fresh, items |-> items]}
        /\ \A u \in Tasks \ {t} : storing'[u] = storing[u]
    BY <1>9, <2>6, Shapes DEF ClientInv
  <2>8. /\ DOMAIN kept' = DOMAIN kept \cup {fresh} /\ kept'[fresh] = c
        /\ \A h \in DOMAIN kept : kept'[h] = kept[h]
    BY <2>1, <2>4, <2>5 DEF Put
  <2>9. \A u \in Tasks : Reading(u)' = Reading(u)
    BY <2>1 DEF Reading
  <2>10. Calling'
    <3>1. \A u \in Tasks \ {t} : Idle(u)' = Idle(u)
      BY <2>1, <2>7 DEF Idle
    <3>2. \A h \in DOMAIN kept' : (h \in DOMAIN kept /\ kept'[h] = kept[h]) \/ kept'[h] = c
      BY <2>8
    <3> QED
      BY <1>11, <2>9, <3>1, <3>2
  <2>11. \A h, a : KeptFor(h, a) => KeptFor(h, a)'
    BY <2>8 DEF KeptFor
  <2>12. KeptFor(fresh, items)'
    BY <1>2, <2>3, <2>8 DEF KeptFor
  <2>13. \A h \in DOMAIN kept' :
           /\ IsDrawn(h)'
           /\ kept'[h].id \in (invoked' \ abandoned') \cap (0 .. calls' - 1)
           /\ \A g \in DOMAIN kept' : kept'[g].id = kept'[h].id => g = h
    BY <1>1, <1>4, <1>6, <1>9, <2>5, <2>8 DEF Keeping
  <2>14. \A u \in Tasks : \A entry \in storing'[u] :
           KeptFor(entry.handle, entry.items)' /\ source'[u] = {kept'[entry.handle]}
    <3> SUFFICES ASSUME NEW u \in Tasks, NEW entry \in storing'[u]
                 PROVE  KeptFor(entry.handle, entry.items)' /\ source'[u] = {kept'[entry.handle]}
      OBVIOUS
    <3>1. CASE u = t
      <4>1. entry.handle = fresh /\ entry.items = items
        BY <2>7, <3>1
      <4> QED
        BY <1>9, <2>8, <2>12, <3>1, <4>1
    <3>2. CASE u # t
      <4>1. KeptFor(entry.handle, entry.items) /\ source[u] = {kept[entry.handle]}
        BY <1>9, <2>7, <3>2 DEF Keeping
      <4>2. entry.handle \in DOMAIN kept
        BY <4>1 DEF KeptFor
      <4> QED
        BY <1>9, <2>8, <2>11, <3>2, <4>1, <4>2
    <3> QED
      BY <3>1, <3>2
  <2>15. \A u \in Tasks : Reading(u)' => source'[u] = {kept'[reply'[u].handle]}
    <3> SUFFICES ASSUME NEW u \in Tasks, Reading(u)
                 PROVE  source'[u] = {kept'[reply[u].handle]}
      BY <2>1, <2>9
    <3>1. u # t /\ source[u] = {kept[reply[u].handle]}
      BY <1>6, <1>9 DEF Keeping
    <3>2. reply[u].handle \in DOMAIN kept
      <4>1. reply[u].handle \in DOMAIN origin
        BY <1>9, OwnIsLive DEF Owns
      <4> QED
        BY <1>9, <4>1 DEF Keeping, KeptFor
    <3> QED
      BY <1>9, <2>8, <3>1, <3>2
  <2>16. \A h \in DOMAIN origin' : KeptFor(h, origin[h])'
    BY <1>9, <2>6, <2>11 DEF Keeping
  <2>17. Keeping'
    BY <1>9, <2>6, <2>13, <2>14, <2>15, <2>16 DEF Keeping
  <2> QED
    BY <2>2, <2>10, <2>17 DEF CallsInv
<1> QED
  BY <1>12, <1>13

-------------------------------------------------------------------------------
(* A client that goes on reading stays with its handle, until it ends. *)
LEMMA SameHandle ==
    ASSUME ClientInv, NEW t \in Tasks,
           FollowToken(t) \/ ReadPage(t) \/ ReleaseWhenRead(t) \/ StartAgain(t) \/ Forget(t)
    PROVE  /\ Reading(t) /\ storing[t] = {}
           /\ UNCHANGED <<origin, storing, stores>>
           /\ \A u \in Tasks \ {t} : /\ reply'[u] = reply[u] /\ paging'[u] = paging[u]
                                     /\ Reading(u)' <=> Reading(u)
           /\ Reading(t)' => reply'[t].handle = reply[t].handle
<1>1. Reading(t)
  BY DEF FollowToken, ReadPage, PageItems, ReleaseWhenRead, StartAgain, Forget, ClientInv, Fine
<1>2. storing[t] = {}
  BY <1>1, OwnIsLive DEF Owns
<1>3. /\ paging \in [Tasks -> SUBSET [request : GoodRequests, total : Nat]]
      /\ reply = [u \in Tasks |-> reply[u]]
  BY Shapes DEF ClientInv
<1>4. ASSUME \A u \in Tasks \ {t} : reply'[u] = reply[u]
      PROVE  \A u \in Tasks \ {t} : Reading(u)' <=> Reading(u)
  <2>1. forgotten \subseteq forgotten' /\ forgotten' \subseteq forgotten \cup {reply[t].handle}
    BY DEF FollowToken, ReadPage, ReleaseWhenRead, StartAgain, Forget
  <2>2. \A u \in Tasks \ {t} : Reading(u) => reply[u].handle # reply[t].handle
    BY <1>1, OwnIsLive DEF Owns
  <2> QED
    BY <1>4, <2>1, <2>2 DEF Reading
<1>5. ASSUME NEW args, PageLen(t, args)
      PROVE  /\ UNCHANGED <<origin, storing, stores>>
             /\ \A u \in Tasks \ {t} : reply'[u] = reply[u] /\ paging'[u] = paging[u]
             /\ Reading(t)' => reply'[t].handle = reply[t].handle
  <2> DEFINE calling == {[request |-> PageRequest(args), total |-> n] :
                            n \in CachedLen(PageRequest(args).handle)}
  <2>1. /\ paging' = [paging EXCEPT ![t] = calling]
        /\ reply' = [reply EXCEPT ![t] = Error("unknown handle")] \/ reply' = reply
        /\ UNCHANGED cacheVars
    BY <1>5 DEF PageLen, Answer
  <2> HIDE DEF calling
  <2>2. \A u \in Tasks \ {t} : reply'[u] = reply[u] /\ paging'[u] = paging[u]
    BY <1>3, <2>1
  <2>3. Error("unknown handle").kind = "error"
    BY DEF Error
  <2>4. Reading(t)' => reply'[t].handle = reply[t].handle
    BY <1>3, <2>1, <2>3 DEF Reading
  <2> QED
    BY <2>1, <2>2, <2>4 DEF cacheVars
<1>6. CASE FollowToken(t) \/ StartAgain(t)
  <2>1. \E args : PageLen(t, args)
    BY <1>6, TokenAccepted, NullTokenAccepted
  <2> QED
    BY <1>1, <1>2, <1>4, <1>5, <2>1
<1>7. CASE ReadPage(t)
  <2>1. PICK c \in paging[t] :
          /\ IF Page(c.request.handle, c.request.offset, c.request.limit) = {}
               THEN Answer(t, Error("unknown handle"))
               ELSE \E page \in Page(c.request.handle, c.request.offset, c.request.limit) :
                      Answer(t, PageReply(c.request, c.total, page))
          /\ paging' = [paging EXCEPT ![t] = {}]
          /\ UNCHANGED cacheVars
    BY <1>7 DEF ReadPage, PageItems
  <2>2. c.request.handle = reply[t].handle
    BY <1>1, <2>1, OwnIsLive DEF Asking
  <2>3. Error("unknown handle").kind = "error"
    BY DEF Error
  <2>4. \A page : PageReply(c.request, c.total, page).handle = reply[t].handle
    BY <2>2 DEF PageReply
  <2>5. PICK value : Answer(t, value) /\ (value.kind = "error" \/ value.handle = reply[t].handle)
    BY <2>1, <2>3, <2>4
  <2>6. reply'[t] = value /\ \A u \in Tasks \ {t} : reply'[u] = reply[u]
    BY <1>3, <2>5 DEF Answer
  <2>7. Reading(t)' => reply'[t].handle = reply[t].handle
    BY <2>5, <2>6 DEF Reading
  <2>8. \A u \in Tasks \ {t} : paging'[u] = paging[u]
    BY <1>3, <2>1
  <2> QED
    BY <1>1, <1>2, <1>4, <2>1, <2>6, <2>7, <2>8 DEF cacheVars
<1>8. CASE ReleaseWhenRead(t)
  <2>1. PICK value : Answer(t, value) /\ value.kind = "release"
    BY <1>8 DEF ReleaseWhenRead, ReleaseTool
  <2>2. UNCHANGED <<paging, origin, storing, stores>>
    BY <1>8 DEF ReleaseWhenRead, ReleaseTool, Release
  <2>3. reply'[t] = value /\ \A u \in Tasks \ {t} : reply'[u] = reply[u]
    BY <1>3, <2>1 DEF Answer
  <2>4. ~ Reading(t)'
    BY <2>1, <2>3 DEF Reading
  <2> QED
    BY <1>1, <1>2, <1>4, <2>2, <2>3, <2>4
<1>9. CASE Forget(t)
  <2>1. UNCHANGED <<reply, paging, origin, storing, stores>>
    BY <1>9 DEF Forget, vars, cacheVars
  <2> QED
    BY <1>1, <1>2, <1>4, <2>1
<1> QED
  BY <1>6, <1>7, <1>8, <1>9

LEMMA ProceedKeepsCalls ==
    ASSUME CallsInv, NEW t \in Tasks, Proceed(t)
    PROVE  CallsInv'
<1>1. UNCHANGED <<transportVars, kept, source, abandoned>>
  BY DEF Proceed, historyVars
<1>2. ClientInv'
  BY ClientStepInv DEF CallsInv, Proceed, Continue, ClientNext
<1>3. ClientInv /\ Calling /\ Keeping
  BY DEF CallsInv
<1>4. CASE ReadEnvelope(t)
  <2>1. PICK entry \in storing[t] :
          Insert(t, entry) /\ Answer(t, Envelope(entry.handle, entry.items, page_size))
    BY <1>4 DEF ReadEnvelope, ReturnEnvelope
  <2>2. /\ origin' = Put(origin, entry.handle, entry.items)
        /\ storing' = [storing EXCEPT ![t] = {}]
        /\ UNCHANGED <<stores, paging, forgotten>>
    BY <1>4, <2>1 DEF Insert, ReadEnvelope, ReturnEnvelope
  <2>3. Envelope(entry.handle, entry.items, page_size).handle = entry.handle
    BY DEF Envelope
  <2>4. /\ reply'[t].handle = entry.handle /\ storing'[t] = {}
        /\ \A u \in Tasks \ {t} : reply'[u] = reply[u] /\ storing'[u] = storing[u]
    BY <1>3, <2>1, <2>2, <2>3, Shapes DEF ClientInv, Answer
  <2>5. Calling'
    <3>1. call[t] = {}
      BY <1>3, <2>1 DEF Calling, Waiting, Idle
    <3>2. \A u \in Tasks : call[u] # {} => ~ Reading(u)' /\ Idle(u)'
      BY <1>3, <2>2, <2>4, <3>1 DEF Calling, Waiting, Reading, Idle
    <3> QED
      BY <1>1, <1>3, <3>2, CallingKept
  <2>6. \A h, a : KeptFor(h, a)' = KeptFor(h, a)
    BY <1>1 DEF KeptFor
  <2>7. KeptFor(entry.handle, entry.items) /\ source[t] = {kept[entry.handle]}
    BY <1>3 DEF Keeping
  <2>8. \A h \in DOMAIN origin' : KeptFor(h, origin'[h])
    BY <1>3, <2>2, <2>7 DEF Keeping, Put
  <2>9. \A u \in Tasks : \A e \in storing'[u] :
          KeptFor(e.handle, e.items)' /\ source'[u] = {kept'[e.handle]}
    BY <1>1, <1>3, <2>4, <2>6 DEF Keeping
  <2>10. \A u \in Tasks : Reading(u)' => source'[u] = {kept'[reply'[u].handle]}
    <3> SUFFICES ASSUME NEW u \in Tasks, Reading(u)' PROVE source[u] = {kept[reply'[u].handle]}
      BY <1>1
    <3>1. CASE u = t
      BY <2>4, <2>7, <3>1
    <3>2. CASE u # t
      BY <1>3, <2>2, <2>4, <3>2 DEF Keeping, Reading
    <3> QED
      BY <3>1, <3>2
  <2>11. \A h : IsDrawn(h)' = IsDrawn(h)
    BY <2>2 DEF IsDrawn
  <2>12. Keeping'
    BY <1>1, <1>3, <2>6, <2>8, <2>9, <2>10, <2>11 DEF Keeping, transportVars
  <2> QED
    BY <1>2, <2>5, <2>12 DEF CallsInv
<1>5. CASE FollowToken(t) \/ ReadPage(t) \/ ReleaseWhenRead(t) \/ StartAgain(t) \/ Forget(t)
  <2>1. /\ Reading(t) /\ storing[t] = {}
        /\ UNCHANGED <<origin, storing, stores>>
        /\ \A u \in Tasks \ {t} : /\ reply'[u] = reply[u] /\ paging'[u] = paging[u]
                                  /\ Reading(u)' <=> Reading(u)
        /\ Reading(t)' => reply'[t].handle = reply[t].handle
    BY <1>3, <1>5, SameHandle
  <2>2. Calling'
    <3>1. call[t] = {}
      BY <1>3, <2>1 DEF Calling, Waiting
    <3>2. \A u \in Tasks : call[u] # {} => ~ Reading(u)' /\ Idle(u)'
      BY <1>3, <2>1, <3>1 DEF Calling, Waiting, Idle
    <3> QED
      BY <1>1, <1>3, <3>2, CallingKept
  <2>3. calls \in Nat /\ calls <= calls /\ calls' = calls /\ invoked' = invoked
    <3>1. calls \in Nat
      BY <1>3 DEF Calling
    <3> QED
      BY <1>1, <3>1 DEF transportVars
  <2>4. /\ source' = [u \in Tasks |-> source'[u]]
        /\ \A h \in DOMAIN kept : kept[h].id \notin abandoned'
    BY <1>1, <1>3 DEF Keeping
  <2>5. \A u \in Tasks : Reading(u)' => Reading(u) /\ reply'[u].handle = reply[u].handle
    BY <2>1
  <2>6. Keeping'
    BY <1>1, <1>3, <2>1, <2>3, <2>4, <2>5, KeepingKept
  <2> QED
    BY <1>2, <2>2, <2>6 DEF CallsInv
<1> QED
  BY <1>4, <1>5 DEF Proceed, Continue

LEMMA PanicKeepsCalls ==
    ASSUME CallsInv,
           \/ Panic /\ UNCHANGED <<got, forgotten, rereads, transportVars, historyVars>>
           \/ UNCHANGED callVars
    PROVE  CallsInv'
<1>1. /\ UNCHANGED <<transportVars, kept, source, abandoned>>
      /\ UNCHANGED <<origin, storing, stores, reply, paging, got, forgotten>>
      /\ Panic \/ UNCHANGED vars
  BY DEF Panic, Poison, callVars, clientVars, vars, cacheVars, historyVars
<1>2. ClientInv'
  BY <1>1, PanicKeeps DEF CallsInv
<1>3. \A u \in Tasks : Reading(u)' = Reading(u) /\ Idle(u)' = Idle(u)
  BY <1>1 DEF Reading, Idle
<1>4. Calling'
  BY <1>1, <1>3, CallingKept DEF CallsInv, Calling, Waiting
<1>5. calls \in Nat /\ calls <= calls /\ calls' = calls /\ invoked' = invoked
  <2>1. calls \in Nat
    BY DEF CallsInv, Calling
  <2> QED
    BY <1>1, <2>1 DEF transportVars
<1>6. Keeping'
  BY <1>1, <1>3, <1>5, KeepingKept DEF CallsInv, Keeping
<1> QED
  BY <1>2, <1>4, <1>6 DEF CallsInv

-------------------------------------------------------------------------------
LEMMA CallsInitInv == CallsInit => CallsInv
<1> SUFFICES ASSUME CallsInit PROVE CallsInv
  OBVIOUS
<1>1. ClientInv
  BY ClientInitInv DEF CallsInit
<1>2. /\ source = [t \in Tasks |-> {}] /\ kept = EmptyMap /\ abandoned = {}
      /\ call = [t \in Tasks |-> {}] /\ calls = 0
      /\ outcome = [t \in Tasks |-> [kind |-> "none"]]
      /\ origin = EmptyMap /\ storing = [t \in Tasks |-> {}]
      /\ reply = [t \in Tasks |-> [kind |-> "none"]]
  BY DEF CallsInit, Transport!Init, ClientInit, Init, CacheInit
<1>3. DOMAIN kept = {} /\ DOMAIN origin = {}
  BY <1>2 DEF EmptyMap
<1>4. Calling
  BY <1>2, <1>3 DEF Calling
<1>5. Keeping
  BY <1>2, <1>3 DEF Keeping, Reading
<1> QED
  BY <1>1, <1>4, <1>5 DEF CallsInv

LEMMA CallsKeepInv == CallsSpec => []CallsInv
<1>1. CallsInv /\ [CallsNext]_callVars => CallsInv'
  BY AskKeepsCalls, ReturnKeepsCalls, FailKeepsCalls, GiveUpKeepsCalls, ProceedKeepsCalls,
     FarEndKeepsCalls, PanicKeepsCalls DEF CallsNext
<1> QED
  BY CallsInitInv, <1>1, PTL DEF CallsSpec

LEMMA OwnAlone == CallsInv => OwnResult
<1> SUFFICES ASSUME CallsInv, NEW t \in Tasks, Reading(t), Idle(t)
             PROVE  \E c \in source[t] :
                       /\ kept[reply[t].handle] = c
                       /\ Result[c.ask].kind = "array"
                       /\ got[t] = SubSeq(Result[c.ask].items, 1, Len(got[t]))
                       /\ NextToken(reply[t]) = {} => got[t] = Result[c.ask].items
  BY DEF OwnResult
<1> DEFINE items == origin[reply[t].handle]
           c     == kept[reply[t].handle]
<1>1. ClientInv /\ Keeping
  BY DEF CallsInv
<1>2. reply[t].handle \in DOMAIN origin /\ source[t] = {c}
  BY <1>1, OwnIsLive DEF Owns, Keeping
<1>3. Result[c.ask] = [kind |-> "array", items |-> items]
  BY <1>1, <1>2 DEF Keeping, KeptFor
<1>4. Result[c.ask].kind = "array" /\ Result[c.ask].items = items
  BY <1>3
<1>5. got[t] = SubSeq(items, 1, Len(got[t])) /\ (NextToken(reply[t]) = {} => got[t] = items)
  BY <1>1, WholePrefix DEF ReadsEverythingOnce
<1> QED
  BY <1>2, <1>4, <1>5

(* Whatever calls return, fail or are given up, and in whatever order, a     *)
(* client reads the result of its own last call and nothing else, and all of *)
(* it when it is told there is no more, for any clients, remote results and  *)
(* limits (cache_tools.rs:111-119, transport.rs:35).                         *)
THEOREM ResultsAreOwn == CallsSpec => []OwnResult
  BY OwnAlone, CallsKeepInv, PTL

(* Every handle belongs to one call that was invoked and returned, and what  *)
(* is kept under it is that call's result: a call that fails or is given up  *)
(* leaves nothing in the cache (cache_tools.rs:111-119).                     *)
THEOREM EntriesHaveCalls == CallsSpec => []OneEntryPerCall
<1>1. CallsInv => OneEntryPerCall
  BY DEF CallsInv, Keeping, KeptFor, OneEntryPerCall
<1> QED
  BY <1>1, CallsKeepInv, PTL

-------------------------------------------------------------------------------
(* The stack uses what it is built from as it is meant to be used. *)
LEMMA CallsAreClientSteps ==
    ASSUME CallsInv, [CallsNext]_callVars
    PROVE  [ClientNext]_clientVars
<1>1. ASSUME NEW t \in Tasks, (\E ask \in Asks : Ask(t, ask)) \/ GiveUp(t)
      PROVE  UNCHANGED clientVars
  BY <1>1 DEF Ask, GiveUp
<1>2. ASSUME NEW t \in Tasks, Proceed(t) PROVE ClientNext
  BY <1>2 DEF Proceed, Continue, ClientNext
<1>3. ASSUME NEW t \in Tasks, Fail(t) PROVE ClientNext
  <2> DEFINE failure == Error("wrapped tool")
  <2>1. ~ Reading(t) /\ Idle(t) /\ Tell(t, failure)
    BY <1>3 DEF Fail
  <2>2. failure.kind = "error" /\ failure \in Results
    BY DEF Error, Results
  <2> HIDE DEF failure
  <2> QED
    BY <2>1, <2>2, TellIsClientStep DEF IsLarge
<1>4. ASSUME NEW t \in Tasks, Return(t) PROVE ClientNext
  BY <1>4, ReturnedResult, TellIsClientStep, LargeIsClientStep DEF CacheIfLarge
<1>5. FarEnd \/ UNCHANGED callVars => UNCHANGED clientVars
  BY DEF FarEnd, callVars
<1>6. Panic /\ UNCHANGED <<got, forgotten, rereads>> => ClientNext
  BY DEF ClientNext
<1> QED
  BY <1>1, <1>2, <1>3, <1>4, <1>5, <1>6 DEF CallsNext

(* What clients do over a remote transport is a behaviour of the boundary, so *)
(* all that is proved of it, and of the cache, holds there too.               *)
THEOREM StackUsesBoundary == CallsSpec => Spec
<1>1. CallsInit => Init
  BY DEF CallsInit, ClientInit
<1>2. CallsInv /\ [CallsNext]_callVars => [Next]_vars
  <2> SUFFICES ASSUME CallsInv, [CallsNext]_callVars PROVE [Next]_vars
    OBVIOUS
  <2>1. [ClientNext]_clientVars /\ ClientInv
    BY CallsAreClientSteps DEF CallsInv
  <2> QED
    BY <2>1, ClientStepInv
<1> QED
  BY <1>1, <1>2, CallsKeepInv, PTL DEF CallsSpec, Spec

(* In particular its clients cannot tell the cache from the atomic store.     *)
THEOREM StackImplementsPagedResults == CallsSpec => ImplementsPagedResults
  BY StackUsesBoundary, Refinement, PTL

(* And they read every array once and in order, whichever calls failed.       *)
THEOREM StackReadsEverythingOnce == CallsSpec => []ReadsEverythingOnce
<1>1. CallsInv => ReadsEverythingOnce
  BY WholePrefix DEF CallsInv
<1> QED
  BY <1>1, CallsKeepInv, PTL

-------------------------------------------------------------------------------
(* The refinement of RemoteCalls by the whole stack.  What is due to a client *)
(* is the call it waits for, or the one whose array it has in its hands, and  *)
(* nothing is due to a client that has it all, also when it starts again.     *)
DueTo(t) ==
    /\ call[t] # {} => due[t] = call[t]
    /\ storing[t] # {} => due[t] = source[t]
    /\ Reading(t) => due[t] = {} \/ due[t] = source[t]
    /\ HasAll(t) => due[t] = {}
    /\ due[t] # {} => call[t] # {} \/ storing[t] # {} \/ Reading(t)
    /\ \A c \in due[t] : c.ask \in Asks /\ c.id \in 0 .. calls - 1

Accounting ==
    /\ due = [t \in Tasks |-> due[t]]
    /\ whole = [t \in Tasks |-> whole[t]]
    /\ \A t \in Tasks : DueTo(t)

(* The transport can be called from the first call on. *)
reachable == open \/ calls > 0

stackVars == <<reachable, due, calls, invoked, whole>>

LEMMA DueKept ==
    ASSUME NEW t \in Tasks, DueTo(t), calls \in Nat, calls' \in Nat, calls <= calls',
           call'[t] = call[t], storing'[t] = storing[t], source'[t] = source[t],
           due'[t] = due[t], reply'[t] = reply[t], paging'[t] = paging[t],
           Reading(t)' <=> Reading(t)
    PROVE  DueTo(t)'
<1>1. HasAll(t)' <=> HasAll(t)
  BY DEF HasAll, Idle
<1>2. \A c \in due[t] : c.ask \in Asks /\ c.id \in 0 .. calls' - 1
  BY DEF DueTo
<1> QED
  BY <1>1, <1>2 DEF DueTo

LEMMA Settled ==
    ASSUME Accounting, NEW t \in Tasks, NEW value, Settle(t, value)
    PROVE  /\ due'[t] = {} /\ whole' = [whole EXCEPT ![t] = value]
           /\ due' = [due EXCEPT ![t] = {}]
           /\ due' = [u \in Tasks |-> due'[u]] /\ whole' = [u \in Tasks |-> whole'[u]]
           /\ \A u \in Tasks \ {t} : due'[u] = due[u]
  BY DEF Settle, Accounting

(* Nothing is due to a client that is about to call. *)
LEMMA NothingDue ==
    ASSUME Accounting, NEW t \in Tasks, call[t] = {}, ~ Reading(t), Idle(t)
    PROVE  due[t] = {}
  BY DEF Accounting, DueTo, Idle

LEMMA AskAccounts ==
    ASSUME CallsInv, Accounting, NEW t \in Tasks, NEW ask \in Asks, Ask(t, ask)
    PROVE  Accounting' /\ Stack!Begin(t, ask)
<1> PICK c : c = [id |-> calls, ask |-> ask]
  OBVIOUS
<1>1. /\ UNCHANGED clientVars /\ UNCHANGED <<source, whole, open, invoked>>
      /\ call' = [call EXCEPT ![t] = {c}] /\ call[t] = {}
      /\ due' = [due EXCEPT ![t] = call'[t]]
      /\ calls' = calls + 1 /\ open /\ calls < MaxCalls
      /\ ~ Reading(t) /\ Idle(t)
  BY DEF Ask, Transport!Begin
<1>2. /\ call'[t] = {c} /\ due' = [due EXCEPT ![t] = {c}]
      /\ due' = [u \in Tasks |-> due'[u]] /\ due'[t] = {c}
      /\ \A u \in Tasks \ {t} : due'[u] = due[u] /\ call'[u] = call[u]
  BY <1>1 DEF CallsInv, Calling, Accounting
<1>3. UNCHANGED <<storing, paging, reply, forgotten>>
  BY <1>1 DEF clientVars, vars, cacheVars
<1>4. \A u \in Tasks : Reading(u)' <=> Reading(u)
  BY <1>3 DEF Reading
<1>5. calls \in Nat /\ calls' \in Nat /\ calls <= calls' /\ calls \in 0 .. calls' - 1
  BY <1>1 DEF CallsInv, Calling
<1>6. DueTo(t)'
  <2>1. \A d \in due'[t] : d.ask \in Asks /\ d.id \in 0 .. calls' - 1
    BY <1>2, <1>5
  <2>2. storing'[t] = {} /\ ~ Reading(t)'
    BY <1>1, <1>3, <1>4 DEF Idle
  <2> QED
    BY <1>2, <2>1, <2>2 DEF DueTo, HasAll
<1>7. \A u \in Tasks \ {t} : DueTo(u)'
  BY <1>1, <1>2, <1>3, <1>4, <1>5, DueKept DEF Accounting
<1>8. Accounting'
  BY <1>1, <1>2, <1>6, <1>7 DEF Accounting
<1>9. due[t] = {}
  BY <1>1, NothingDue
<1>10. reachable' = reachable
  BY <1>1, <1>5 DEF reachable
<1> QED
  BY <1>1, <1>2, <1>8, <1>9, <1>10 DEF Stack!Begin, reachable

LEMMA FarEndAccounts ==
    ASSUME CallsInv, Accounting, FarEnd
    PROVE  Accounting' /\ [Stack!Next]_stackVars
<1>1. /\ UNCHANGED clientVars /\ UNCHANGED <<source, due, whole, call, calls>>
      /\ Transport!Open \/ Transport!Close \/ Transport!Invoke
  BY DEF FarEnd, historyVars, accountVars, Transport!Open, Transport!Close, Transport!Invoke
<1>2. UNCHANGED <<storing, paging, reply, forgotten>>
  BY <1>1 DEF clientVars, vars, cacheVars
<1>3. \A t \in Tasks : (Reading(t)' <=> Reading(t)) /\ (HasAll(t)' <=> HasAll(t))
  BY <1>2 DEF Reading, HasAll, Idle
<1>4. Accounting'
  BY <1>1, <1>2, <1>3 DEF Accounting, DueTo
<1>5. calls \in Nat
  BY DEF CallsInv, Calling
<1>6. CASE Transport!Open
  <2>1. ~ open /\ open' = TRUE /\ invoked' = invoked
    BY <1>6 DEF Transport!Open
  <2>2. CASE calls = 0
    <3>1. ~ reachable /\ reachable' = TRUE
      BY <2>1, <2>2, <1>1 DEF reachable
    <3>2. Stack!Open
      BY <1>1, <2>1, <3>1 DEF Stack!Open, reachable
    <3> QED
      BY <1>4, <3>2 DEF Stack!Next
  <2>3. CASE calls # 0
    <3>1. reachable' = reachable
      BY <1>1, <1>5, <2>3 DEF reachable
    <3>2. UNCHANGED stackVars
      BY <1>1, <2>1, <3>1 DEF stackVars
    <3> QED
      BY <1>4, <3>2
  <2> QED
    BY <2>2, <2>3
<1>7. CASE Transport!Close
  <2>1. open /\ open' = FALSE /\ invoked' = invoked
    BY <1>7 DEF Transport!Close
  <2>2. CASE calls = 0
    <3>1. \A t \in Tasks : due[t] = {}
      BY <1>5, <2>2 DEF Accounting, DueTo
    <3>2. reachable /\ reachable' = FALSE
      BY <2>1, <2>2, <1>1 DEF reachable
    <3>3. Stack!Close
      BY <1>1, <2>1, <3>1, <3>2 DEF Stack!Close, reachable
    <3> QED
      BY <1>4, <3>3 DEF Stack!Next
  <2>3. CASE calls # 0
    <3>1. reachable' = reachable
      BY <1>1, <1>5, <2>3 DEF reachable
    <3>2. UNCHANGED stackVars
      BY <1>1, <2>1, <3>1 DEF stackVars
    <3> QED
      BY <1>4, <3>2
  <2> QED
    BY <2>2, <2>3
<1>8. CASE Transport!Invoke
  <2>1. open' = open
    BY <1>8 DEF Transport!Invoke
  <2>2. Stack!Invoke
    BY <1>1, <1>8, <2>1 DEF Transport!Invoke, Stack!Invoke
  <2> QED
    BY <1>4, <2>2 DEF Stack!Next
<1> QED
  BY <1>1, <1>4, <1>6, <1>7, <1>8

LEMMA GiveUpAccounts ==
    ASSUME CallsInv, Accounting, NEW t \in Tasks, GiveUp(t)
    PROVE  Accounting' /\ Stack!GiveUp(t)
<1>1. /\ UNCHANGED clientVars /\ UNCHANGED <<source, open, calls, invoked>>
      /\ call[t] # {} /\ call' = [call EXCEPT ![t] = {}] /\ Settle(t, TimedOut)
  BY DEF GiveUp, Transport!GiveUp
<1>2. /\ call'[t] = {} /\ \A u \in Tasks \ {t} : call'[u] = call[u]
  BY <1>1 DEF CallsInv, Calling
<1>3. UNCHANGED <<storing, paging, reply, forgotten>>
  BY <1>1 DEF clientVars, vars, cacheVars
<1>4. \A u \in Tasks : Reading(u)' <=> Reading(u)
  BY <1>3 DEF Reading
<1>5. calls \in Nat /\ calls' = calls /\ calls <= calls
  BY <1>1 DEF CallsInv, Calling
<1>6. DueTo(t)'
  <2>1. ~ Reading(t)' /\ storing'[t] = {}
    BY <1>1, <1>3, <1>4 DEF CallsInv, Calling, Waiting, Idle
  <2> QED
    BY <1>1, <1>2, <2>1, Settled DEF DueTo
<1>7. Accounting'
  BY <1>1, <1>2, <1>3, <1>4, <1>5, <1>6, Settled, DueKept DEF Accounting
<1>8. due[t] # {}
  BY <1>1 DEF Accounting, DueTo
<1> QED
  BY <1>1, <1>7, <1>8, Settled DEF Stack!GiveUp, TimedOut

LEMMA FailAccounts ==
    ASSUME CallsInv, Accounting, NEW t \in Tasks, Fail(t)
    PROVE  Accounting' /\ Stack!Fail({t})
<1>1. /\ ~ Reading(t) /\ Idle(t) /\ Tell(t, Error("wrapped tool")) /\ Settle(t, Failure)
      /\ source' = [source EXCEPT ![t] = {}]
      /\ Transport!Fail({t}) \/ Transport!Refuse(t)
  BY DEF Fail
<1>2. /\ open /\ UNCHANGED <<open, calls, invoked>>
      /\ call'[t] = {} /\ \A u \in Tasks \ {t} : call'[u] = call[u]
  BY <1>1 DEF Transport!Fail, Transport!Refuse
<1>3. /\ UNCHANGED <<storing, paging, forgotten>>
      /\ \A u \in Tasks \ {t} : reply'[u] = reply[u] /\ source'[u] = source[u]
  <2>1. UNCHANGED <<storing, paging, forgotten>>
    BY <1>1 DEF Tell, cacheVars
  <2>2. \A u \in Tasks \ {t} : reply'[u] = reply[u]
    BY <1>1, Shapes DEF Tell, Answer, CallsInv, ClientInv
  <2>3. \A u \in Tasks \ {t} : source'[u] = source[u]
    BY <1>1 DEF CallsInv, Keeping
  <2> QED
    BY <2>1, <2>2, <2>3
<1>4. \A u \in Tasks \ {t} : Reading(u)' <=> Reading(u)
  BY <1>3 DEF Reading
<1>5. calls \in Nat /\ calls' = calls /\ calls <= calls
  BY <1>2 DEF CallsInv, Calling
<1>6. DueTo(t)'
  <2>1. storing'[t] = {}
    BY <1>1, <1>3 DEF Idle
  <2> QED
    BY <1>1, <1>2, <2>1, Settled DEF DueTo
<1>7. \A u \in Tasks \ {t} : DueTo(u)'
  BY <1>1, <1>2, <1>3, <1>4, <1>5, Settled, DueKept DEF Accounting
<1>8. Accounting'
  BY <1>1, <1>6, <1>7, Settled DEF Accounting
<1>9. /\ due' = [u \in Tasks |-> IF u \in {t} THEN {} ELSE due[u]]
      /\ whole' = [u \in Tasks |-> IF u \in {t} THEN Failure ELSE whole[u]]
  BY <1>1 DEF Settle, Accounting
<1> QED
  BY <1>2, <1>8, <1>9 DEF Stack!Fail

(* A small result is settled as it is told; an array that is kept stays due. *)
LEMMA ReturnAccounts ==
    ASSUME CallsInv, Accounting, NEW t \in Tasks, Return(t)
    PROVE  Accounting' /\ (Stack!Return(t) \/ UNCHANGED stackVars)
<1>1. PICK c \in call[t] :
        /\ call[t] = {c} /\ c.id \in invoked
        /\ Result[c.ask] \in Results /\ ~ Reading(t) /\ Idle(t)
        /\ CacheIfLarge(t, Result[c.ask], c)
        /\ source' = [source EXCEPT ![t] = {c}]
        /\ call' = [call EXCEPT ![t] = {}]
        /\ UNCHANGED <<open, calls, invoked>>
  BY ReturnedResult
<1>2. PICK result : result = Result[c.ask]
  OBVIOUS
<1>3. /\ call'[t] = {} /\ source'[t] = {c}
      /\ \A u \in Tasks \ {t} : call'[u] = call[u] /\ source'[u] = source[u]
  BY <1>1 DEF CallsInv, Calling, Keeping
<1>4. due[t] = {c} /\ c.ask \in Asks /\ c.id \in 0 .. calls - 1
  BY <1>1 DEF Accounting, DueTo
<1>5. calls \in Nat /\ calls' = calls /\ calls <= calls
  BY <1>1 DEF CallsInv, Calling
<1>6. ClientInv
  BY DEF CallsInv
<1>7. reachable' = reachable
  BY <1>1 DEF reachable
<1>8. CASE ~ IsLarge(result)
  <2>1. Tell(t, result) /\ Settle(t, InFull(result))
    BY <1>1, <1>2, <1>8 DEF CacheIfLarge
  <2>2. /\ UNCHANGED <<storing, paging, forgotten>> /\ reply'[t] = result
        /\ \A u \in Tasks \ {t} : reply'[u] = reply[u]
    BY <1>6, <2>1, Shapes DEF Tell, Answer, ClientInv, cacheVars
  <2>3. storing'[t] = {} /\ ~ Reading(t)'
    <3>1. result.kind \notin {"envelope", "page"}
      BY <1>1, <1>2, ResultShapes
    <3> QED
      BY <1>1, <2>2, <3>1 DEF Reading, Idle
  <2>4. DueTo(t)'
    BY <1>3, <2>1, <2>3, Settled DEF DueTo, HasAll
  <2>5. \A u \in Tasks \ {t} : Reading(u)' <=> Reading(u)
    BY <2>2 DEF Reading
  <2>6. \A u \in Tasks \ {t} : DueTo(u)'
    BY <1>3, <1>5, <2>1, <2>2, <2>5, Settled, DueKept DEF Accounting
  <2>7. Accounting'
    BY <2>1, <2>4, <2>6, Settled DEF Accounting
  <2>8. Stack!Return(t)
    <3>1. [ask \in Asks |-> InFull(Result[ask])][c.ask] = InFull(result)
      BY <1>2, <1>4
    <3>2. whole' = [whole EXCEPT ![t] = InFull(result)] /\ due' = [due EXCEPT ![t] = {}]
      BY <2>1 DEF Settle
    <3>3. c \in due[t] /\ c.id \in invoked /\ UNCHANGED <<open, calls, invoked>>
      BY <1>1, <1>4
    <3> HIDE DEF InFull
    <3> QED
      BY <3>1, <3>2, <3>3 DEF Stack!Return
  <2> QED
    BY <2>7, <2>8
<1>9. CASE IsLarge(result)
  <2> PICK h : h = Handle(next_id)
    OBVIOUS
  <2>1. /\ FreshHandle(t, result.items) /\ UNCHANGED <<paging, reply, forgotten, accountVars>>
    BY <1>1, <1>2, <1>9 DEF CacheIfLarge
  <2>2. UNCHANGED <<due, whole>>
    BY <2>1 DEF accountVars
  <2>3. storing' = [storing EXCEPT ![t] = {[handle |-> h, items |-> result.items]}]
    BY <2>1 DEF FreshHandle
  <2>4. storing'[t] # {} /\ \A u \in Tasks \ {t} : storing'[u] = storing[u]
    BY <1>6, <2>3, Shapes DEF ClientInv
  <2>5. \A u \in Tasks : Reading(u)' <=> Reading(u)
    BY <2>1 DEF Reading
  <2>6. DueTo(t)'
    BY <1>1, <1>3, <1>4, <1>5, <2>2, <2>4, <2>5 DEF DueTo, HasAll
  <2>7. \A u \in Tasks \ {t} : DueTo(u)'
    BY <1>3, <1>5, <2>1, <2>2, <2>4, <2>5, DueKept DEF Accounting
  <2>8. Accounting'
    BY <2>2, <2>6, <2>7 DEF Accounting
  <2>9. UNCHANGED stackVars
    BY <1>1, <1>7, <2>2 DEF stackVars
  <2> QED
    BY <2>8, <2>9
<1> QED
  BY <1>8, <1>9

-------------------------------------------------------------------------------
(* A client that goes on keeps to itself, has no array in its hands that is *)
(* not in the cache, and reads on unless it is told of an error.            *)
LEMMA GoesOn ==
    ASSUME ClientInv, NEW t \in Tasks, Continue(t) \/ StartAgain(t) \/ Forget(t)
    PROVE  /\ storing[t] # {} \/ Reading(t)
           /\ storing'[t] = {}
           /\ \A u \in Tasks \ {t} : /\ reply'[u] = reply[u] /\ paging'[u] = paging[u]
                                     /\ storing'[u] = storing[u]
                                     /\ Reading(u)' <=> Reading(u)
           /\ reply'[t].kind # "error" =>
                Reading(t)' \/ ReleaseWhenRead(t) \/ StartAgain(t) \/ Forget(t)
<1>1. CASE ReadEnvelope(t)
  <2>1. PICK entry \in storing[t] :
          Insert(t, entry) /\ Answer(t, Envelope(entry.handle, entry.items, page_size))
    BY <1>1 DEF ReadEnvelope, ReturnEnvelope
  <2>2. /\ storing' = [storing EXCEPT ![t] = {}] /\ UNCHANGED <<paging, forgotten>>
    BY <1>1, <2>1 DEF Insert, ReadEnvelope, ReturnEnvelope
  <2>3. /\ Envelope(entry.handle, entry.items, page_size).handle = entry.handle
        /\ Envelope(entry.handle, entry.items, page_size).kind = "envelope"
    BY DEF Envelope
  <2>4. /\ reply'[t].handle = entry.handle /\ reply'[t].kind = "envelope"
        /\ storing'[t] = {}
        /\ \A u \in Tasks \ {t} : reply'[u] = reply[u] /\ storing'[u] = storing[u]
    BY <2>1, <2>2, <2>3, Shapes DEF ClientInv, Answer
  <2>5. entry.handle \notin DOMAIN origin
    BY DEF ClientInv, BoundaryInv, IndInv, HandlesUnique
  <2>6. Reading(t)'
    BY <2>2, <2>4, <2>5 DEF Reading, ClientInv
  <2>7. \A u \in Tasks \ {t} : Reading(u)' <=> Reading(u)
    BY <2>2, <2>4 DEF Reading
  <2> QED
    BY <2>2, <2>4, <2>6, <2>7
<1>2. ASSUME FollowToken(t) \/ ReadPage(t) \/ ReleaseWhenRead(t) \/ StartAgain(t) \/ Forget(t)
      PROVE  /\ storing[t] # {} \/ Reading(t)
             /\ storing'[t] = {}
             /\ \A u \in Tasks \ {t} : /\ reply'[u] = reply[u] /\ paging'[u] = paging[u]
                                       /\ storing'[u] = storing[u]
                                       /\ Reading(u)' <=> Reading(u)
             /\ Reading(t)
  <2>1. storing' = storing
    BY <1>2, SameHandle
  <2> QED
    BY <1>2, <2>1, SameHandle
<1>3. CASE FollowToken(t)
  <2>1. PICK args : PageLen(t, args)
    BY <1>3, TokenAccepted
  <2>2. reply' = [reply EXCEPT ![t] = Error("unknown handle")] \/ reply' = reply
    BY <2>1 DEF PageLen, Answer
  <2>3. Error("unknown handle").kind = "error"
    BY DEF Error
  <2>4. reply'[t].kind = "error" \/ reply' = reply
    BY <2>2, <2>3, Shapes DEF ClientInv
  <2>5. forgotten' = forgotten
    BY <1>3 DEF FollowToken
  <2>6. reply'[t].kind # "error" => Reading(t)'
    BY <1>2, <1>3, <2>4, <2>5 DEF Reading
  <2> QED
    BY <1>2, <1>3, <2>6
<1>4. CASE ReadPage(t)
  <2>1. PICK c \in paging[t] :
          IF Page(c.request.handle, c.request.offset, c.request.limit) = {}
            THEN Answer(t, Error("unknown handle"))
            ELSE \E page \in Page(c.request.handle, c.request.offset, c.request.limit) :
                   Answer(t, PageReply(c.request, c.total, page))
    BY <1>4 DEF ReadPage, PageItems
  <2>2. c.request.handle = reply[t].handle
    BY <1>2, <1>4, <2>1, OwnIsLive DEF Asking
  <2>3. Error("unknown handle").kind = "error"
    BY DEF Error
  <2>4. \A page : /\ PageReply(c.request, c.total, page).handle = reply[t].handle
                  /\ PageReply(c.request, c.total, page).kind = "page"
    BY <2>2 DEF PageReply
  <2>5. PICK value : /\ Answer(t, value)
                     /\ \/ value.kind = "error"
                        \/ value.kind = "page" /\ value.handle = reply[t].handle
    BY <2>1, <2>3, <2>4
  <2>6. reply'[t] = value /\ forgotten' = forgotten
    BY <1>4, <2>5, Shapes DEF Answer, ReadPage, ClientInv
  <2>7. reply'[t].kind # "error" => Reading(t)'
    BY <1>2, <1>4, <2>5, <2>6 DEF Reading
  <2> QED
    BY <1>2, <1>4, <2>7
<1>5. CASE ReleaseWhenRead(t) \/ StartAgain(t) \/ Forget(t)
  BY <1>2, <1>5
<1> QED
  BY <1>1, <1>3, <1>4, <1>5 DEF Continue

(* What is due to a client that goes on is one call, invoked, whose result is *)
(* an array.                                                                  *)
LEMMA DueArray ==
    ASSUME CallsInv, Accounting, NEW t \in Tasks, due[t] # {}, call[t] = {}
    PROVE  /\ due[t] = source[t]
           /\ \E c \in due[t] : /\ due[t] = {c} /\ c.id \in invoked
                                /\ c.ask \in Asks /\ c.id \in 0 .. calls - 1
<1>1. /\ due[t] = source[t]
      /\ storing[t] # {} \/ Reading(t)
      /\ \A c \in due[t] : c.ask \in Asks /\ c.id \in 0 .. calls - 1
  BY DEF Accounting, DueTo
<1>2. \E h \in DOMAIN kept : source[t] = {kept[h]}
  <2>1. CASE storing[t] # {}
    <3>1. PICK entry \in storing[t] : TRUE
      BY <2>1
    <3>2. KeptFor(entry.handle, entry.items) /\ source[t] = {kept[entry.handle]}
      BY <3>1 DEF CallsInv, Keeping
    <3> QED
      BY <3>2 DEF KeptFor
  <2>2. CASE Reading(t)
    <3>1. reply[t].handle \in DOMAIN origin
      BY <2>2, OwnIsLive DEF Owns, CallsInv
    <3>2. reply[t].handle \in DOMAIN kept /\ source[t] = {kept[reply[t].handle]}
      BY <2>2, <3>1 DEF CallsInv, Keeping, KeptFor
    <3> QED
      BY <3>2
  <2> QED
    BY <1>1, <2>1, <2>2
<1>3. \A h \in DOMAIN kept : kept[h].id \in invoked
  BY DEF CallsInv, Keeping
<1> QED
  BY <1>1, <1>2, <1>3

(* A client that goes on is brought all of what was due, or an error, or gives *)
(* up, or only comes nearer to it.                                             *)
LEMMA ProceedAccounts ==
    ASSUME CallsInv, Accounting, NEW t \in Tasks, Proceed(t)
    PROVE  /\ Accounting'
           /\ \/ Stack!Return(t) \/ Stack!Fail({t}) \/ Stack!GiveUp(t)
              \/ UNCHANGED stackVars
<1>1. /\ Continue(t) \/ StartAgain(t) \/ Forget(t)
      /\ Observe(t) /\ UNCHANGED <<open, call, calls, invoked, source>>
  BY DEF Proceed, transportVars
<1>2. /\ storing[t] # {} \/ Reading(t)
      /\ storing'[t] = {}
      /\ \A u \in Tasks \ {t} : /\ reply'[u] = reply[u] /\ paging'[u] = paging[u]
                                /\ storing'[u] = storing[u]
                                /\ Reading(u)' <=> Reading(u)
      /\ reply'[t].kind # "error" =>
           Reading(t)' \/ ReleaseWhenRead(t) \/ StartAgain(t) \/ Forget(t)
  BY <1>1, GoesOn DEF CallsInv
<1>3. call[t] = {} /\ call'[t] = {}
  <2>1. \A c \in call[t] : ~ Reading(t) /\ storing[t] = {}
    BY DEF CallsInv, Calling, Waiting, Idle
  <2> QED
    BY <1>1, <1>2, <2>1
<1>4. calls \in Nat /\ calls' = calls /\ calls <= calls
  BY <1>1 DEF CallsInv, Calling
<1>5. reachable' = reachable
  BY <1>1 DEF reachable
<1>6. ASSUME DueTo(t)', due' = [u \in Tasks |-> due'[u]], whole' = [u \in Tasks |-> whole'[u]],
             \A u \in Tasks \ {t} : due'[u] = due[u]
      PROVE  Accounting'
  <2>1. \A u \in Tasks \ {t} : DueTo(u)'
    BY <1>1, <1>2, <1>4, <1>6, DueKept DEF Accounting
  <2> QED
    BY <1>6, <2>1 DEF Accounting
<1>7. ASSUME NEW value, Settle(t, value) PROVE Accounting'
  <2>1. DueTo(t)'
    BY <1>2, <1>3, <1>7, Settled DEF DueTo
  <2> QED
    BY <1>6, <1>7, <2>1, Settled
<1>8. ASSUME UNCHANGED accountVars, due[t] = {} PROVE Accounting' /\ UNCHANGED stackVars
  <2>1. UNCHANGED <<due, whole>>
    BY <1>8 DEF accountVars
  <2>2. DueTo(t)'
    BY <1>2, <1>3, <1>8, <2>1 DEF DueTo
  <2> QED
    BY <1>1, <1>5, <1>6, <2>1, <2>2 DEF Accounting, stackVars
<1>9. CASE due[t] = {}
  BY <1>1, <1>8, <1>9 DEF Observe
<1>10. CASE due[t] # {}
  <2>1. PICK c \in due[t] : /\ due[t] = source[t] /\ due[t] = {c} /\ c.id \in invoked
                            /\ c.ask \in Asks /\ c.id \in 0 .. calls - 1
    BY <1>3, <1>10, DueArray
  <2>2. ~ ReleaseWhenRead(t) /\ ~ StartAgain(t)
    <3>1. ~ HasAll(t)
      BY <1>10 DEF Accounting, DueTo
    <3> QED
      BY <3>1 DEF HasAll, ReleaseWhenRead, ReleaseTool, StartAgain, CallPage, PageLen,
                  RefuseArgs
  <2>3. CASE HasAll(t)' /\ Settle(t, [kind |-> "array", items |-> got'[t]])
    <3>1. OwnResult'
      <4>1. CallsInv'
        BY ProceedKeepsCalls
      <4>2. CallsInv' => OwnResult'
        BY OwnAlone, PTL
      <4> QED
        BY <4>1, <4>2
    <3>2. Reading(t)' /\ Idle(t)' /\ NextToken(reply'[t]) = {}
      BY <2>3 DEF HasAll
    <3>3. /\ Result[c.ask].kind = "array" /\ got'[t] = Result[c.ask].items
      BY <1>1, <2>1, <3>1, <3>2 DEF OwnResult
    <3>4. Result[c.ask] \in Results
      BY <2>1, CallsAssumption
    <3>5. PICK result \in Results : result = Result[c.ask]
      BY <3>4
    <3>6. result = [kind |-> "array", items |-> got'[t]]
      <4>1. result.kind = "array"
        BY <3>3, <3>5
      <4>2. PICK items \in Arrays : result = [kind |-> "array", items |-> items]
        BY <4>1, ResultShapes
      <4>3. items = got'[t]
        BY <3>3, <3>5, <4>2
      <4> QED
        BY <4>2, <4>3
    <3>7. [ask \in Asks |-> InFull(Result[ask])][c.ask] = [kind |-> "array", items |-> got'[t]]
      <4>1. result.kind # "error"
        BY <3>3, <3>5
      <4>2. InFull(result) = result
        BY <4>1 DEF InFull
      <4> QED
        BY <2>1, <3>5, <3>6, <4>2
    <3>8. Stack!Return(t)
      <4>1. /\ whole' = [whole EXCEPT ![t] = [kind |-> "array", items |-> got'[t]]]
            /\ due' = [due EXCEPT ![t] = {}]
        BY <2>3 DEF Settle
      <4> QED
        BY <1>1, <2>1, <3>7, <4>1 DEF Stack!Return
    <3> QED
      BY <1>7, <2>3, <3>8
  <2>4. CASE Settle(t, Failure)
    <3>1. /\ due' = [u \in Tasks |-> IF u \in {t} THEN {} ELSE due[u]]
          /\ whole' = [u \in Tasks |-> IF u \in {t} THEN Failure ELSE whole[u]]
      BY <2>4 DEF Settle, Accounting
    <3>2. open \/ calls > 0
      BY <1>4, <2>1
    <3>3. Stack!Fail({t})
      BY <1>1, <3>1, <3>2 DEF Stack!Fail
    <3> QED
      BY <1>7, <2>4, <3>3
  <2>5. CASE Settle(t, TimedOut)
    <3>1. Stack!GiveUp(t)
      BY <1>1, <1>10, <2>5, Settled DEF Stack!GiveUp, TimedOut
    <3> QED
      BY <1>7, <2>5, <3>1
  <2>6. CASE ~ HasAll(t)' /\ reply'[t].kind # "error" /\ ~ Forget(t) /\ UNCHANGED accountVars
    <3>1. UNCHANGED <<due, whole>>
      BY <2>6 DEF accountVars
    <3>2. Reading(t)'
      BY <1>2, <2>2, <2>6
    <3>3. DueTo(t)'
      BY <1>1, <1>2, <1>3, <2>1, <2>6, <3>1, <3>2 DEF DueTo
    <3> QED
      BY <1>1, <1>5, <1>6, <3>1, <3>3 DEF Accounting, stackVars
  <2> QED
    BY <1>1, <1>10, <2>3, <2>4, <2>5, <2>6 DEF Observe
<1> QED
  BY <1>9, <1>10

LEMMA RestAccounts ==
    ASSUME CallsInv, Accounting,
           \/ Panic /\ UNCHANGED <<got, forgotten, rereads, transportVars, historyVars>>
           \/ UNCHANGED callVars
    PROVE  Accounting' /\ UNCHANGED stackVars
<1>1. /\ UNCHANGED <<open, call, calls, invoked, source, due, whole>>
      /\ UNCHANGED <<storing, reply, paging, forgotten>>
  BY DEF Panic, Poison, callVars, clientVars, vars, cacheVars, historyVars, transportVars,
         accountVars
<1>2. \A t \in Tasks : (Reading(t)' <=> Reading(t)) /\ (HasAll(t)' <=> HasAll(t))
  BY <1>1 DEF Reading, HasAll, Idle
<1>3. Accounting'
  BY <1>1, <1>2 DEF Accounting, DueTo
<1> QED
  BY <1>1, <1>3 DEF stackVars, reachable

LEMMA AccountsInit == CallsInit => Accounting /\ Stack!Init
<1> SUFFICES ASSUME CallsInit PROVE Accounting /\ Stack!Init
  OBVIOUS
<1>1. /\ due = [t \in Tasks |-> {}] /\ whole = [t \in Tasks |-> [kind |-> "none"]]
      /\ open = FALSE /\ calls = 0 /\ invoked = {} /\ call = [t \in Tasks |-> {}]
      /\ storing = [t \in Tasks |-> {}] /\ reply = [t \in Tasks |-> [kind |-> "none"]]
  BY DEF CallsInit, Transport!Init, ClientInit, Init, CacheInit
<1>2. \A t \in Tasks : ~ Reading(t)
  BY <1>1 DEF Reading
<1>3. Accounting
  BY <1>1, <1>2 DEF Accounting, DueTo, HasAll
<1> QED
  BY <1>1, <1>3 DEF Stack!Init

(* Through the cache a client is promised what the wrapped transport promises: *)
(* seen from its client, who puts the pages together, each call has at most    *)
(* one outcome, which is the result of its own request, a failure, or nothing  *)
(* if the client gives up, for any number of clients, calls and results        *)
(* (cache_tools.rs:111-119, transport.rs:35).                                  *)
THEOREM StackKeepsPromise == CallsSpec => ImplementsRemoteCalls
<1>1. CallsInit => Accounting /\ Stack!Init
  BY AccountsInit
<1>2. CallsInv /\ Accounting /\ [CallsNext]_callVars => Accounting' /\ [Stack!Next]_stackVars
  <2> SUFFICES ASSUME CallsInv, Accounting, [CallsNext]_callVars
               PROVE  Accounting' /\ [Stack!Next]_stackVars
    OBVIOUS
  <2>1. ASSUME NEW t \in Tasks, NEW ask \in Asks, Ask(t, ask)
        PROVE  Accounting' /\ [Stack!Next]_stackVars
    BY <2>1, AskAccounts DEF Stack!Next
  <2>2. ASSUME NEW t \in Tasks, Return(t) PROVE Accounting' /\ [Stack!Next]_stackVars
    BY <2>2, ReturnAccounts DEF Stack!Next
  <2>3. ASSUME NEW t \in Tasks, Fail(t) PROVE Accounting' /\ [Stack!Next]_stackVars
    <3>1. Accounting' /\ Stack!Fail({t}) /\ {t} \in SUBSET Tasks
      BY <2>3, FailAccounts
    <3> QED
      BY <3>1 DEF Stack!Next
  <2>4. ASSUME NEW t \in Tasks, GiveUp(t) PROVE Accounting' /\ [Stack!Next]_stackVars
    BY <2>4, GiveUpAccounts DEF Stack!Next
  <2>5. ASSUME NEW t \in Tasks, Proceed(t) PROVE Accounting' /\ [Stack!Next]_stackVars
    <3>1. /\ Accounting' /\ {t} \in SUBSET Tasks
          /\ \/ Stack!Return(t) \/ Stack!Fail({t}) \/ Stack!GiveUp(t)
             \/ UNCHANGED stackVars
      BY <2>5, ProceedAccounts
    <3> QED
      BY <3>1 DEF Stack!Next
  <2> QED
    BY <2>1, <2>2, <2>3, <2>4, <2>5, FarEndAccounts, RestAccounts DEF CallsNext
<1>3. CallsInv /\ Accounting /\ [CallsNext]_callVars => Accounting' /\ [Stack!Next]_(Stack!vars)
  BY <1>2 DEF stackVars, reachable, Stack!vars
<1> QED
  BY <1>1, <1>3, CallsKeepInv, PTL DEF CallsSpec, ImplementsRemoteCalls, Stack!Spec
===============================================================================
