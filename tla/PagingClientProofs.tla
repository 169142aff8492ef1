--------------------------- MODULE PagingClientProofs ---------------------------
(***************************************************************************)
(* The clients, for any number of them, any arrays, limits, threshold and  *)
(* page size, with or without poisoning: they use the boundary as it is    *)
(* meant to be used, so its invariant holds; with it, a client that reads  *)
(* is alone with its handle, has read a prefix of its array, and its next  *)
(* request or its next token starts right after that prefix.               *)
(***************************************************************************)
EXTENDS PagingClient, CachedResultsProofs

-------------------------------------------------------------------------------
(* The inductive invariant, one client at a time. *)
Owns(t) ==
    /\ reply[t].handle \in CacheHandles
    /\ reply[t].handle \in DOMAIN origin
    /\ reply[t].handle \notin released
    /\ storing[t] = {}
    /\ \A u \in Tasks \ {t} : Reading(u) => reply[u].handle # reply[t].handle

HasRead(t, n) ==
    /\ n \in 0 .. Len(origin[reply[t].handle])
    /\ got[t] = SubSeq(origin[reply[t].handle], 1, n)

(* A page call asks for what comes next. *)
Asking(t) ==
    \A c \in paging[t] : c.request.handle = reply[t].handle /\ HasRead(t, c.request.offset)

(* So does the next one. *)
Resting(t) ==
    paging[t] = {} =>
        \E n \in Nat :
            /\ HasRead(t, n)
            /\ NextToken(reply[t]) = TokenIfMore(reply[t].handle, n, Len(origin[reply[t].handle]))

Progress(t) == Reading(t) => Owns(t) /\ Asking(t) /\ Resting(t)

Undisturbed(t) ==
    ~ poisoned =>
        /\ reply[t].kind = "release" => reply[t].released
        /\ reply[t].kind = "error" => reply[t].error = "wrapped tool"

Fine(t) ==
    /\ Progress(t)
    /\ ~ Reading(t) => paging[t] = {}
    /\ Undisturbed(t)

ClientInv ==
    /\ BoundaryInv
    /\ got = [t \in Tasks |-> got[t]]
    /\ forgotten \subseteq DOMAIN origin
    /\ \A t \in Tasks : Fine(t)

-------------------------------------------------------------------------------
(* What t's step leaves alone. *)
OnlyBy(t) ==
    /\ \A u \in Tasks \ {t} : /\ reply'[u] = reply[u] /\ paging'[u] = paging[u]
                              /\ got'[u] = got[u] /\ storing'[u] = storing[u]
    /\ \A h \in (released' \ released) \cup (forgotten' \ forgotten) :
          Reading(t) /\ h = reply[t].handle
    /\ forgotten \subseteq forgotten'
    /\ Reading(t)' => \/ Reading(t) /\ reply'[t].handle = reply[t].handle
                      \/ reply'[t].handle \notin DOMAIN origin
    /\ poisoned => poisoned'

(* It does not disturb the other clients. *)
LEMMA OthersFine ==
    ASSUME ClientInv, Grows, NEW t \in Tasks, OnlyBy(t), NEW u \in Tasks \ {t}
    PROVE  Fine(u)'
<1>1. /\ reply'[u] = reply[u] /\ paging'[u] = paging[u]
      /\ got'[u] = got[u] /\ storing'[u] = storing[u]
      /\ Fine(u)
  BY DEF OnlyBy, ClientInv
<1>2. Reading(u)' <=> Reading(u)
  <2>1. Reading(u)' => Reading(u)
    BY <1>1 DEF Reading, OnlyBy
  <2>2. Reading(u) /\ Reading(t) => reply[t].handle # reply[u].handle
    BY <1>1 DEF Fine, Progress, Owns
  <2>3. Reading(u) => Reading(u)'
    BY <1>1, <2>2 DEF Reading, OnlyBy
  <2> QED
    BY <2>1, <2>3
<1>3. Undisturbed(u)'
  BY <1>1 DEF Fine, Undisturbed, OnlyBy
<1>4. ASSUME Reading(u) PROVE Owns(u)' /\ Asking(u)' /\ Resting(u)'
  <2>1. Owns(u) /\ Asking(u) /\ Resting(u)
    BY <1>1, <1>4 DEF Fine, Progress
  <2>2. origin'[reply[u].handle] = origin[reply[u].handle] /\ reply[u].handle \in DOMAIN origin'
    BY <2>1 DEF Owns, Grows
  <2>3. \A n : HasRead(u, n) => HasRead(u, n)'
    BY <1>1, <2>2 DEF HasRead
  <2>4. Asking(u)' /\ Resting(u)'
    BY <1>1, <2>1, <2>2, <2>3 DEF Asking, Resting, NextToken
  <2>5. reply[u].handle \notin released'
    <3>1. Reading(t) => reply[t].handle # reply[u].handle
      BY <2>1 DEF Owns
    <3> QED
      BY <2>1, <3>1 DEF Owns, OnlyBy
  <2>6. \A v \in Tasks \ {u} : Reading(v)' => reply'[v].handle # reply'[u].handle
    <3> SUFFICES ASSUME NEW v \in Tasks \ {u}, Reading(v)'
                 PROVE  reply'[v].handle # reply[u].handle
      BY <1>1
    <3>1. CASE v = t
      BY <2>1, <3>1 DEF Owns, OnlyBy
    <3>2. CASE v # t
      <4>1. reply'[v] = reply[v] /\ Reading(v)
        BY <3>2 DEF OnlyBy, Reading
      <4> QED
        BY <2>1, <4>1 DEF Owns
    <3> QED
      BY <3>1, <3>2
  <2> QED
    BY <1>1, <2>1, <2>2, <2>4, <2>5, <2>6 DEF Owns
<1> QED
  BY <1>1, <1>2, <1>3, <1>4 DEF Fine, Progress

LEMMA OneStep ==
    ASSUME ClientInv, NEW t \in Tasks, [Next]_vars, OnlyBy(t), Fine(t)',
           got' = [u \in Tasks |-> got'[u]]
    PROVE  ClientInv'
<1>1. BoundaryInv' /\ Grows
  BY BoundaryStepInv DEF ClientInv
<1>2. forgotten' \subseteq DOMAIN origin'
  <2>1. Reading(t) => reply[t].handle \in DOMAIN origin
    BY DEF ClientInv, Fine, Progress, Owns
  <2>2. forgotten' \subseteq DOMAIN origin
    BY <2>1 DEF ClientInv, OnlyBy
  <2> QED
    BY <1>1, <2>2 DEF Grows
<1> QED
  BY <1>1, <1>2, OthersFine DEF ClientInv

(* A client that is no longer reading has nothing left to promise. *)
LEMMA DoneIsFine ==
    ASSUME NEW t \in Tasks, paging'[t] = {},
           ~ Reading(t)', Undisturbed(t)'
    PROVE  Fine(t)'
  BY DEF Fine, Progress

LEMMA Shapes ==
    ASSUME BoundaryInv
    PROVE  /\ storing \in [Tasks -> SUBSET [handle : Text, items : Arrays]]
           /\ paging \in [Tasks -> SUBSET [request : GoodRequests, total : Nat]]
           /\ reply = [t \in Tasks |-> reply[t]]
  BY DEF BoundaryInv, BoundaryTypeOK, TypeOK

(* Until the map is poisoned, a client can page and release what it reads. *)
LEMMA OwnIsLive ==
    ASSUME ClientInv, NEW t \in Tasks, Reading(t)
    PROVE  /\ Owns(t) /\ Asking(t) /\ Resting(t)
           /\ reply[t].handle \in Text /\ origin[reply[t].handle] \in Seq(Item)
           /\ Len(origin[reply[t].handle]) \in Usize
           /\ ~ poisoned => /\ reply[t].handle \in Live
                            /\ inner[reply[t].handle] = origin[reply[t].handle]
<1>1. Owns(t) /\ Asking(t) /\ Resting(t)
  BY DEF ClientInv, Fine, Progress
<1>2. IndInv
  BY DEF ClientInv, BoundaryInv
<1>3. reply[t].handle \in DOMAIN origin /\ reply[t].handle \notin released
  BY <1>1 DEF Owns
<1>4. /\ reply[t].handle \in Text /\ origin[reply[t].handle] \in Seq(Item)
      /\ Len(origin[reply[t].handle]) \in Usize
  BY <1>2, <1>3, ArrayFacts
<1>5. ~ poisoned => /\ reply[t].handle \in Live
                    /\ inner[reply[t].handle] = origin[reply[t].handle]
  BY <1>2, <1>3 DEF IndInv, MapIsHistory, Live
<1> QED
  BY <1>1, <1>4, <1>5

(* An answer that is no page and no envelope ends the reading. *)
LEMMA LastAnswer ==
    ASSUME ClientInv, NEW t \in Tasks, NEW value, Answer(t, value), [Next]_vars,
           paging' = paging \/ paging' = [paging EXCEPT ![t] = {}], paging'[t] = {},
           storing' = storing, poisoned' = poisoned, got' = got, forgotten' = forgotten,
           \A h \in released' \ released : Reading(t) /\ h = reply[t].handle,
           value.kind \notin {"envelope", "page"},
           ~ poisoned => /\ value.kind = "release" => value.released
                         /\ value.kind = "error" => value.error = "wrapped tool"
    PROVE  ClientInv'
<1>1. /\ reply'[t] = value /\ \A u \in Tasks \ {t} : reply'[u] = reply[u]
      /\ \A u \in Tasks \ {t} : paging'[u] = paging[u]
  BY Shapes DEF Answer, ClientInv
<1>2. OnlyBy(t)
  BY <1>1 DEF OnlyBy, Reading
<1>3. Fine(t)'
  BY <1>1, DoneIsFine DEF Undisturbed, Reading
<1>4. got' = [u \in Tasks |-> got'[u]]
  BY DEF ClientInv
<1> QED
  BY <1>2, <1>3, <1>4, OneStep

LEMMA CallKeeps ==
    ASSUME ClientInv, NEW t \in Tasks, Call(t)
    PROVE  ClientInv' /\ [Next]_vars
<1>1. [Next]_vars
  BY DEF Call, Next
<1>2. UNCHANGED <<got, forgotten>> /\ ~ Reading(t) /\ Idle(t)
  BY DEF Call, PassThrough, CacheLarge
<1>3. CASE PassThrough(t)
  <2>1. PICK result \in SmallResults(Arrays, threshold_bytes) : Answer(t, result)
    BY <1>3 DEF PassThrough
  <2>2. UNCHANGED <<paging, storing, poisoned, released>>
    BY <1>3 DEF PassThrough, cacheVars
  <2> QED
    BY <1>1, <1>2, <2>1, <2>2, SmallResultKinds, LastAnswer DEF Idle
<1>4. CASE CacheLarge(t)
  <2>1. /\ UNCHANGED <<paging, reply, poisoned, released>>
        /\ \A u \in Tasks \ {t} : storing'[u] = storing[u]
    BY <1>4, Shapes DEF CacheLarge, FreshHandle, ClientInv
  <2>2. ~ Reading(t)'
    BY <1>2, <2>1 DEF Reading
  <2>3. OnlyBy(t)
    BY <1>2, <2>1, <2>2 DEF OnlyBy
  <2>4. Undisturbed(t)'
    BY <2>1 DEF ClientInv, Fine, Undisturbed
  <2>5. Fine(t)'
    BY <1>2, <2>1, <2>2, <2>4 DEF Fine, Progress, Idle
  <2> QED
    BY <1>1, <1>2, <2>3, <2>5, OneStep DEF ClientInv
<1> QED
  BY <1>1, <1>3, <1>4 DEF Call

(* The envelope's token starts after its first page. *)
LEMMA ReadEnvelopeKeeps ==
    ASSUME ClientInv, NEW t \in Tasks, ReadEnvelope(t)
    PROVE  ClientInv' /\ [Next]_vars
<1>1. [Next]_vars /\ BoundaryInv /\ IndInv
  BY DEF ReadEnvelope, Next, ClientInv, BoundaryInv
<1>2. PICK entry \in storing[t] :
        Insert(t, entry) /\ Answer(t, Envelope(entry.handle, entry.items, page_size))
  BY DEF ReadEnvelope, ReturnEnvelope
<1> DEFINE envelope == Envelope(entry.handle, entry.items, page_size)
           n        == Len(entry.items)
           first    == Lesser(page_size, n)
<1>3. /\ entry.handle \in Text /\ entry.items \in Arrays
      /\ entry.handle \notin DOMAIN origin /\ entry.handle \notin released
  BY <1>1, Shapes DEF IndInv, HandlesUnique, MapIsHistory
<1>4. entry.handle \in CacheHandles
  <2>1. PICK id \in Nat : id < stores /\ entry.handle = Handle(id)
    BY <1>1 DEF IndInv, DrawnInOrder, IsDrawn
  <2>2. id \in 0 .. IdSpace - 1
    BY <1>1, <2>1, CacheAssumption, NoWrapAssumption DEF IndInv, TypeOK
  <2> QED
    BY <2>1, <2>2 DEF CacheHandles
<1>5. /\ origin' = Put(origin, entry.handle, entry.items)
      /\ storing' = [storing EXCEPT ![t] = {}]
      /\ reply' = [reply EXCEPT ![t] = envelope]
      /\ got' = [got EXCEPT ![t] = reply'[t].first_page]
      /\ UNCHANGED <<poisoned, released, paging, forgotten>>
  BY <1>2 DEF Insert, Answer, ReadEnvelope, ReturnEnvelope
<1>6. /\ envelope.kind = "envelope" /\ envelope.handle = entry.handle
      /\ envelope.first_page = SubSeq(entry.items, 1, first)
      /\ envelope.page_token = IF SaturatingSub(n, first) > 0
                                 THEN {PageToken(entry.handle, first)} ELSE {}
  BY DEF Envelope
<1> HIDE DEF envelope
<1>7. /\ reply'[t] = envelope /\ storing'[t] = {}
      /\ got'[t] = SubSeq(entry.items, 1, first)
      /\ got' = [u \in Tasks |-> got'[u]]
      /\ \A u \in Tasks \ {t} : /\ reply'[u] = reply[u] /\ storing'[u] = storing[u]
                                /\ got'[u] = got[u] /\ paging'[u] = paging[u]
      /\ entry.handle \in DOMAIN origin' /\ origin'[entry.handle] = entry.items
  BY <1>1, <1>5, <1>6, Shapes DEF ClientInv, Put
<1>8. n \in Nat /\ first \in 0 .. n /\ SaturatingSub(n, first) = n - first
  <2>1. n \in Nat /\ page_size \in Nat
    BY <1>3, CacheAssumption, BoundaryAssumption, PagingAssumption DEF Usize
  <2> HIDE DEF n
  <2> QED
    BY <2>1, FirstPageLen
<1>9. OnlyBy(t)
  BY <1>3, <1>5, <1>6, <1>7 DEF OnlyBy
<1>10. paging'[t] = {}
  BY <1>1, <1>5, <1>2 DEF BoundaryInv, BoundaryTypeOK
<1> HIDE DEF n, first
<1>11. Owns(t)'
  <2>1. \A u \in Tasks \ {t} : Reading(u)' => reply'[u].handle # entry.handle
    <3> SUFFICES ASSUME NEW u \in Tasks \ {t}, Reading(u)'
                 PROVE  reply'[u].handle # entry.handle
      OBVIOUS
    <3>1. reply'[u] = reply[u] /\ Reading(u)
      BY <1>5, <1>7 DEF Reading
    <3>2. reply[u].handle \in DOMAIN origin
      BY <3>1, OwnIsLive DEF Owns
    <3> QED
      BY <1>3, <3>1, <3>2
  <2> QED
    BY <1>3, <1>4, <1>5, <1>6, <1>7, <2>1 DEF Owns
<1>12. HasRead(t, first)'
  BY <1>6, <1>7, <1>8 DEF HasRead, n
<1>13. NextToken(reply'[t]) = TokenIfMore(entry.handle, first, n)
  BY <1>6, <1>7, <1>8 DEF NextToken, TokenIfMore
<1>14. Resting(t)'
  <2>1. \E m \in Nat : HasRead(t, m)' /\ NextToken(reply'[t]) = TokenIfMore(entry.handle, m, n)
    BY <1>8, <1>12, <1>13
  <2> QED
    BY <1>6, <1>7, <2>1 DEF Resting, n
<1>15. Undisturbed(t)' /\ Reading(t)'
  <2>1. entry.handle \notin forgotten'
    BY <1>3, <1>5 DEF ClientInv
  <2> QED
    BY <1>6, <1>7, <2>1 DEF Undisturbed, Reading
<1>16. Asking(t)'
  BY <1>10 DEF Asking
<1>17. Fine(t)'
  BY <1>11, <1>14, <1>15, <1>16 DEF Fine, Progress
<1> QED
  BY <1>1, <1>7, <1>9, <1>17, OneStep

LEMMA TokenAsks ==
    ASSUME NEW handle \in Text, NEW offset \in Usize, NEW limit \in SUBSET Usize
    PROVE  LET args == ByToken(PageToken(handle, offset), limit)
           IN  /\ ~ BadArgs(args)
               /\ PageRequest(args).handle = handle /\ PageRequest(args).offset = offset
  BY TokenRequest DEF ByToken

LEMMA NullTokenAsks ==
    ASSUME NEW handle \in Text, NEW limit \in SUBSET Usize
    PROVE  LET args == ByNullToken(handle, limit)
           IN  /\ ~ BadArgs(args)
               /\ PageRequest(args).handle = handle /\ PageRequest(args).offset = 0
<1>1. /\ AsStr({NotAString}) = {} /\ AsStr({handle}) = {handle}
      /\ UnwrapOr({handle}, << >>) = handle /\ UnwrapOr({}, 0) = 0
  BY TextsOnly DEF UnwrapOr
<1> QED
  BY <1>1 DEF ByNullToken, BadArgs, PageRequest

(* From inside the array the next token is the place where the slice ends. *)
LEMMA NextPlace ==
    ASSUME NEW items \in Seq(Item), Len(items) \in Usize, NEW handle \in Text,
           NEW offset \in 0 .. Len(items), NEW limit \in Usize
    PROVE  LET slice == PageSlice(items, offset, limit)
               next  == offset + Len(slice)
           IN  /\ next \in 0 .. Len(items)
               /\ TokenIfMore(handle, SaturatingAdd(offset, Len(slice)), Len(items))
                    = TokenIfMore(handle, next, Len(items))
<1> DEFINE slice  == PageSlice(items, offset, limit)
           next   == offset + Len(slice)
           tokens == TokenIfMore(handle, SaturatingAdd(offset, Len(slice)), Len(items))
<1>1. offset \in Usize /\ Lesser(offset, Len(items)) = offset /\ Len(items) \in Nat
  BY PagingAssumption DEF Usize, Lesser
<1>2. /\ tokens = {} <=> next = Len(items)
      /\ tokens # {} => tokens = {PageToken(handle, next)}
      /\ next \in 0 .. Len(items)
  <2> DEFINE place == Lesser(offset, Len(items)) + Len(slice)
  <2>1. /\ tokens = {} <=> place = Len(items)
        /\ tokens # {} => tokens = {PageToken(handle, place)}
        /\ place \in 0 .. Len(items)
    BY <1>1, NextTokenIsExact, ZenonT(30)
  <2>2. place = next
    BY <1>1
  <2> QED
    BY <2>1, <2>2
<1> HIDE DEF tokens, next
<1>3. tokens = TokenIfMore(handle, next, Len(items))
  BY <1>1, <1>2 DEF TokenIfMore
<1> QED
  BY <1>2, <1>3 DEF tokens, next

(* The first half of cache.page, from the place the client has reached. *)
LEMMA AskKeeps ==
    ASSUME ClientInv, NEW t \in Tasks, Reading(t), [Next]_vars,
           NEW args \in Requests, PageLen(t, args),
           NEW n \in 0 .. Len(origin[reply[t].handle]),
           PageRequest(args).handle = reply[t].handle, PageRequest(args).offset = n,
           got' = [u \in Tasks |-> got'[u]], \A u \in Tasks \ {t} : got'[u] = got[u],
           got'[t] = SubSeq(origin[reply[t].handle], 1, n), forgotten' = forgotten
    PROVE  ClientInv'
<1> DEFINE request == PageRequest(args)
           total   == CachedLen(request.handle)
           calls   == {[request |-> request, total |-> k] : k \in total}
<1>1. /\ paging' = [paging EXCEPT ![t] = calls]
      /\ IF total = {} THEN Answer(t, Error("unknown handle")) ELSE UNCHANGED reply
      /\ UNCHANGED <<origin, storing, poisoned, released>>
  BY DEF PageLen, cacheVars
<1>2. /\ paging'[t] = calls /\ \A u \in Tasks \ {t} : paging'[u] = paging[u]
  BY <1>1, Shapes DEF ClientInv
<1>3. Owns(t) /\ Fine(t)
  BY OwnIsLive DEF ClientInv
<1> HIDE DEF request
<1>4. CASE total = {}
  <2>1. poisoned
    BY <1>4, OwnIsLive DEF CachedLen, request
  <2>2. /\ reply'[t] = Error("unknown handle")
        /\ \A u \in Tasks \ {t} : reply'[u] = reply[u]
    BY <1>1, <1>4, Shapes DEF Answer, ClientInv
  <2>3. reply'[t].kind = "error"
    <3>1. Error("unknown handle").kind = "error"
      BY DEF Error
    <3> QED
      BY <2>2, <3>1
  <2>4. Fine(t)'
    BY <1>1, <1>2, <1>4, <2>1, <2>3, DoneIsFine DEF Undisturbed, Reading
  <2>5. OnlyBy(t)
    BY <1>1, <1>2, <2>2, <2>3 DEF OnlyBy, Reading
  <2> QED
    BY <2>4, <2>5, OneStep
<1>5. CASE total # {}
  <2>1. reply' = reply /\ paging'[t] # {}
    BY <1>1, <1>2, <1>5
  <2>2. Reading(t)' /\ OnlyBy(t)
    BY <1>1, <1>2, <2>1 DEF OnlyBy, Reading
  <2>3. Owns(t)'
    BY <1>1, <1>3, <2>1 DEF Owns, Reading
  <2>4. HasRead(t, n)'
    BY <1>1, <2>1 DEF HasRead
  <2>5. \A c \in calls : c.request = request
    OBVIOUS
  <2>6. Asking(t)'
    BY <1>2, <2>1, <2>4, <2>5 DEF Asking, request
  <2>7. Resting(t)' /\ Undisturbed(t)'
    BY <1>1, <1>3, <2>1 DEF Resting, Fine, Undisturbed
  <2> QED
    BY <2>2, <2>3, <2>6, <2>7, OneStep DEF Fine, Progress
<1> QED
  BY <1>4, <1>5

(* No token that a client was given is refused: it says the client's own      *)
(* handle and the place where the client is.                                  *)
LEMMA TokenAccepted ==
    ASSUME ClientInv, NEW t \in Tasks, FollowToken(t)
    PROVE  \E token \in NextToken(reply[t]), limit \in ClientLimits :
              /\ PageLen(t, ByToken(token, limit))
              /\ ByToken(token, limit) \in Requests
              /\ \E n \in Nat : /\ HasRead(t, n)
                                /\ n \in 0 .. Len(origin[reply[t].handle])
                                /\ got[t] = SubSeq(origin[reply[t].handle], 1, n)
                                /\ PageRequest(ByToken(token, limit)).handle = reply[t].handle
                                /\ PageRequest(ByToken(token, limit)).offset = n
<1>1. PICK token \in NextToken(reply[t]), limit \in ClientLimits :
        CallPage(t, ByToken(token, limit))
  BY DEF FollowToken
<1>2. Reading(t) /\ paging[t] = {}
  BY <1>1 DEF FollowToken, CallPage, PageLen, RefuseArgs, Idle
<1> DEFINE items == origin[reply[t].handle]
<1>3. /\ Owns(t) /\ Resting(t) /\ reply[t].handle \in Text
      /\ Len(items) \in Usize
  BY <1>2, OwnIsLive
<1>4. PICK n \in Nat :
        HasRead(t, n) /\ NextToken(reply[t]) = TokenIfMore(reply[t].handle, n, Len(items))
  BY <1>2, <1>3 DEF Resting
<1>5. token = PageToken(reply[t].handle, n)
  BY <1>1, <1>4 DEF TokenIfMore
<1>6. /\ n \in 0 .. Len(items) /\ got[t] = SubSeq(items, 1, n)
      /\ n \in Usize /\ limit \in SUBSET Usize
  BY <1>3, <1>4, ClientAssumption, PagingAssumption DEF HasRead, Usize
<1> DEFINE args == ByToken(token, limit)
<1>7. args \in Requests
  BY <1>3, <1>5, <1>6, ClientAssumption DEF ClientRequests, Owns
<1>8. /\ PageRequest(args).handle = reply[t].handle /\ PageRequest(args).offset = n
      /\ ~ BadArgs(args)
  <2>1. reply[t].handle \in Text /\ n \in Usize /\ limit \in SUBSET Usize
    BY <1>3, <1>6
  <2>2. args = ByToken(PageToken(reply[t].handle, n), limit)
    BY <1>5
  <2>3. LET asked == ByToken(PageToken(reply[t].handle, n), limit)
        IN  /\ ~ BadArgs(asked)
            /\ PageRequest(asked).handle = reply[t].handle /\ PageRequest(asked).offset = n
    <3> HIDE DEF args, items
    <3> QED
      BY <2>1, TokenAsks, Zenon
  <2> HIDE DEF args
  <2> QED
    BY <2>2, <2>3
<1>9. PageLen(t, args)
  BY <1>1, <1>8 DEF CallPage
<1> QED
  BY <1>4, <1>6, <1>7, <1>8, <1>9

LEMMA FollowTokenKeeps ==
    ASSUME ClientInv, NEW t \in Tasks, FollowToken(t)
    PROVE  ClientInv' /\ [Next]_vars
<1>1. PICK token \in NextToken(reply[t]), limit \in ClientLimits, n \in Nat :
        /\ PageLen(t, ByToken(token, limit))
        /\ ByToken(token, limit) \in Requests
        /\ n \in 0 .. Len(origin[reply[t].handle])
        /\ got[t] = SubSeq(origin[reply[t].handle], 1, n)
        /\ PageRequest(ByToken(token, limit)).handle = reply[t].handle
        /\ PageRequest(ByToken(token, limit)).offset = n
  BY TokenAccepted
<1> DEFINE args == ByToken(token, limit)
<1>2. Reading(t) /\ UNCHANGED <<got, forgotten>>
  BY DEF FollowToken
<1>3. [Next]_vars
  BY <1>1 DEF Next
<1> HIDE DEF args
<1> QED
  BY <1>1, <1>2, <1>3, AskKeeps DEF ClientInv, args

(* Nor is the null token. *)
LEMMA NullTokenAccepted ==
    ASSUME ClientInv, NEW t \in Tasks, StartAgain(t)
    PROVE  \E limit \in ClientLimits :
              /\ PageLen(t, ByNullToken(reply[t].handle, limit))
              /\ ByNullToken(reply[t].handle, limit) \in Requests
              /\ PageRequest(ByNullToken(reply[t].handle, limit)).handle = reply[t].handle
              /\ PageRequest(ByNullToken(reply[t].handle, limit)).offset = 0
<1>1. PICK limit \in ClientLimits : CallPage(t, ByNullToken(reply[t].handle, limit))
  BY DEF StartAgain
<1>2. Reading(t) /\ paging[t] = {}
  BY <1>1 DEF StartAgain, CallPage, PageLen, RefuseArgs, Idle
<1>3. Owns(t) /\ reply[t].handle \in Text /\ limit \in SUBSET Usize
  BY <1>2, OwnIsLive, ClientAssumption
<1>4. ByNullToken(reply[t].handle, limit) \in Requests
  BY <1>3, ClientAssumption DEF ClientRequests, Owns
<1> QED
  BY <1>1, <1>3, <1>4, NullTokenAsks DEF CallPage

(* Without a token the array is read again from its first item. *)
LEMMA StartAgainKeeps ==
    ASSUME ClientInv, NEW t \in Tasks, StartAgain(t)
    PROVE  ClientInv' /\ [Next]_vars
<1>1. PICK limit \in ClientLimits :
        /\ PageLen(t, ByNullToken(reply[t].handle, limit))
        /\ ByNullToken(reply[t].handle, limit) \in Requests
        /\ PageRequest(ByNullToken(reply[t].handle, limit)).handle = reply[t].handle
        /\ PageRequest(ByNullToken(reply[t].handle, limit)).offset = 0
  BY NullTokenAccepted
<1> DEFINE items == origin[reply[t].handle]
           args  == ByNullToken(reply[t].handle, limit)
<1>2. Reading(t) /\ got' = [got EXCEPT ![t] = << >>] /\ forgotten' = forgotten
  BY DEF StartAgain
<1>3. Owns(t) /\ items \in Seq(Item)
  BY <1>2, OwnIsLive
<1>4. args \in Requests
  BY <1>1
<1>5. PageRequest(args).handle = reply[t].handle /\ PageRequest(args).offset = 0
  BY <1>1
<1>6. [Next]_vars
  BY <1>1, <1>4 DEF Next
<1>7. /\ got' = [u \in Tasks |-> got'[u]] /\ \A u \in Tasks \ {t} : got'[u] = got[u]
      /\ got'[t] = << >>
  BY <1>2 DEF ClientInv
<1>8. 0 \in 0 .. Len(items) /\ SubSeq(items, 1, 0) = << >>
  BY <1>3
<1> HIDE DEF args, items
<1> QED
  BY <1>1, <1>2, <1>4, <1>5, <1>6, <1>7, <1>8, AskKeeps DEF args, items

(* The next page extends what was read, and its token what is left. *)
LEMMA ReadPageKeeps ==
    ASSUME ClientInv, NEW t \in Tasks, ReadPage(t)
    PROVE  ClientInv' /\ [Next]_vars
<1>1. [Next]_vars /\ BoundaryInv /\ IndInv
  BY DEF ReadPage, Next, ClientInv, BoundaryInv
<1>2. PICK c \in paging[t] :
        /\ IF Page(c.request.handle, c.request.offset, c.request.limit) = {}
             THEN Answer(t, Error("unknown handle"))
             ELSE \E page \in Page(c.request.handle, c.request.offset, c.request.limit) :
                    Answer(t, PageReply(c.request, c.total, page))
        /\ paging' = [paging EXCEPT ![t] = {}]
        /\ UNCHANGED cacheVars
  BY DEF ReadPage, PageItems
<1>3. got' = IF reply'[t].kind = "page" THEN [got EXCEPT ![t] = @ \o reply'[t].items] ELSE got
  BY DEF ReadPage
<1>4. UNCHANGED <<origin, storing, poisoned, released, forgotten>>
  BY <1>2 DEF cacheVars, ReadPage
<1>5. Reading(t)
  BY <1>2 DEF ClientInv, Fine
<1> DEFINE h     == reply[t].handle
           items == origin[h]
           n     == c.request.offset
           limit == c.request.limit
           slice == PageSlice(items, n, limit)
           next  == n + Len(slice)
<1>6. /\ h \in Text /\ items \in Seq(Item) /\ Len(items) \in Usize
      /\ c.request.handle = h /\ HasRead(t, n)
      /\ ~ poisoned => h \in Live
      /\ h \in Live => inner[h] = items
  BY <1>1, <1>2, <1>5, OwnIsLive, LiveFacts DEF Asking
<1>7. c.request \in [handle : Text, offset : Usize, limit : Usize] /\ c.total = Len(items)
  <2>1. c.request \in GoodRequests
    <3>1. paging \in [Tasks -> SUBSET [request : GoodRequests, total : Nat]]
      BY <1>1, Shapes
    <3>2. c \in [request : GoodRequests, total : Nat]
      BY <1>2, <3>1
    <3> QED
      BY <3>2
  <2>2. c.total = Len(origin[c.request.handle])
    BY <1>1, <1>2 DEF BoundaryInv, CallsInformed
  <2> QED
    BY <1>6, <2>1, <2>2, GoodRequestType
<1>8. Page(h, n, limit) = IF h \in Live THEN {slice} ELSE {}
  BY <1>6 DEF Page
<1>9. paging'[t] = {} /\ \A u \in Tasks \ {t} : paging'[u] = paging[u]
  BY <1>1, <1>2, Shapes
<1>10. CASE h \notin Live
  <2>1. Answer(t, Error("unknown handle")) /\ poisoned
    BY <1>2, <1>6, <1>8, <1>10
  <2>2. Error("unknown handle").kind = "error"
    BY DEF Error
  <2>3. reply'[t] = Error("unknown handle")
    BY <1>1, <2>1, Shapes DEF Answer
  <2>4. got' = got
    BY <1>3, <2>2, <2>3
  <2> QED
    BY <1>1, <1>2, <1>4, <1>9, <2>1, <2>2, <2>4, LastAnswer
<1>11. CASE h \in Live
  <2> DEFINE page == PageReply(c.request, Len(items), slice)
  <2>1. Answer(t, page)
    BY <1>2, <1>6, <1>7, <1>8, <1>11
  <2>2. /\ page.kind = "page" /\ page.handle = h /\ page.items = slice
        /\ page.next_page_token = TokenIfMore(h, SaturatingAdd(n, Len(slice)), Len(items))
    BY <1>6 DEF PageReply
  <2> HIDE DEF page
  <2>3. reply'[t] = page /\ \A u \in Tasks \ {t} : reply'[u] = reply[u]
    BY <1>1, <2>1, Shapes DEF Answer
  <2>4. got' = [got EXCEPT ![t] = @ \o slice]
    BY <1>3, <2>2, <2>3
  <2>5. /\ got'[t] = got[t] \o slice /\ got' = [u \in Tasks |-> got'[u]]
        /\ \A u \in Tasks \ {t} : got'[u] = got[u]
    BY <2>4 DEF ClientInv
  <2>6. /\ n \in 0 .. Len(items) /\ got[t] = SubSeq(items, 1, n)
        /\ n \in Usize /\ limit \in Usize
    BY <1>6, <1>7 DEF HasRead
  <2>7. /\ next \in 0 .. Len(items)
        /\ TokenIfMore(h, SaturatingAdd(n, Len(slice)), Len(items))
             = TokenIfMore(h, next, Len(items))
    BY <1>6, <2>6, NextPlace
  <2>8. got'[t] = SubSeq(items, 1, next)
    BY <1>6, <2>5, <2>6, PageExtendsPrefix
  <2> HIDE DEF next, slice
  <2>9. /\ reply'[t].handle = h /\ origin'[h] = items /\ next \in Nat
        /\ NextToken(reply'[t]) = TokenIfMore(h, next, Len(items))
    BY <1>4, <2>2, <2>3, <2>7 DEF NextToken
  <2> PICK m \in Nat : m = next
    BY <2>9
  <2>10. HasRead(t, m)'
    BY <2>7, <2>8, <2>9 DEF HasRead
  <2>11. Resting(t)' /\ Asking(t)'
    <3>1. /\ HasRead(t, m)'
          /\ NextToken(reply'[t])
               = TokenIfMore(reply'[t].handle, m, Len(origin'[reply'[t].handle]))
      BY <2>9, <2>10
    <3> QED
      BY <1>9, <3>1 DEF Resting, Asking
  <2>12. Reading(t)' /\ Undisturbed(t)'
    BY <1>4, <1>5, <2>2, <2>3 DEF Reading, Undisturbed
  <2>13. OnlyBy(t)
    BY <1>4, <1>5, <1>9, <2>2, <2>3, <2>5 DEF OnlyBy
  <2>14. Owns(t)'
    BY <1>4, <1>5, <2>2, <2>3, OwnIsLive DEF Owns, Reading
  <2> QED
    BY <1>1, <2>5, <2>11, <2>12, <2>13, <2>14, OneStep DEF Fine, Progress
<1> QED
  BY <1>1, <1>10, <1>11

LEMMA ReleaseKeeps ==
    ASSUME ClientInv, NEW t \in Tasks, ReleaseWhenRead(t)
    PROVE  ClientInv' /\ [Next]_vars
<1> DEFINE h     == reply[t].handle
           value == [kind |-> "release", handle |-> h, released |-> h \in Live]
<1>1. /\ Reading(t) /\ Idle(t) /\ Release(h) /\ Answer(t, value)
      /\ ReleaseTool(t, h) /\ UNCHANGED <<paging, got, forgotten>>
  BY DEF ReleaseWhenRead, ReleaseTool
<1>2. h \in Names /\ (~ poisoned => h \in Live)
  BY <1>1, OwnIsLive, ClientAssumption DEF Owns
<1>3. [Next]_vars
  BY <1>1, <1>2 DEF Next
<1>4. /\ UNCHANGED <<storing, poisoned>>
      /\ \A g \in released' \ released : g = h
  BY <1>1 DEF Release
<1>5. /\ value.kind = "release"
      /\ value.released <=> h \in Live
  OBVIOUS
<1> HIDE DEF value
<1>6. paging'[t] = {} /\ UNCHANGED <<paging, got, forgotten>>
  BY <1>1 DEF Idle
<1>7. /\ value.kind \notin {"envelope", "page"} /\ value.kind # "error"
      /\ ~ poisoned => value.released
  BY <1>2, <1>5
<1> QED
  BY <1>1, <1>3, <1>4, <1>6, <1>7, LastAnswer

(* Giving up is no step of the boundary: the cache is not told. *)
LEMMA ForgetKeeps ==
    ASSUME ClientInv, NEW t \in Tasks, Forget(t)
    PROVE  ClientInv' /\ [Next]_vars
<1>1. /\ Reading(t) /\ Idle(t) /\ UNCHANGED <<vars, got>>
      /\ forgotten' = forgotten \cup {reply[t].handle}
  BY DEF Forget
<1>2. UNCHANGED <<reply, paging, storing, released, poisoned>>
  BY <1>1 DEF vars, cacheVars
<1>3. ~ Reading(t)' /\ Undisturbed(t)' /\ paging'[t] = {}
  BY <1>1, <1>2 DEF Reading, Undisturbed, ClientInv, Fine, Idle
<1>4. OnlyBy(t)
  BY <1>1, <1>2, <1>3 DEF OnlyBy
<1>5. Fine(t)'
  BY <1>3, DoneIsFine
<1> QED
  BY <1>1, <1>4, <1>5, OneStep DEF ClientInv

(* A panic takes the entries away, so nobody is promised anything any more. *)
LEMMA PanicKeeps ==
    ASSUME ClientInv, Panic \/ UNCHANGED vars, UNCHANGED <<got, forgotten>>
    PROVE  ClientInv'
<1>1. [Next]_vars
  BY DEF Next
<1>2. BoundaryInv' /\ Grows
  BY <1>1, BoundaryStepInv DEF ClientInv
<1>3. /\ UNCHANGED <<reply, paging, got, forgotten, storing, origin, released>>
      /\ ~ poisoned' => ~ poisoned
  BY DEF Panic, Poison, vars, cacheVars
<1>4. ASSUME NEW t \in Tasks PROVE Fine(t)'
  <2>1. Fine(t)
    BY DEF ClientInv
  <2>2. Undisturbed(t)'
    BY <1>3, <2>1 DEF Fine, Undisturbed
  <2>3. \A u \in Tasks : Reading(u)' = Reading(u)
    BY <1>3 DEF Reading
  <2>4. \A n : HasRead(t, n)' = HasRead(t, n)
    BY <1>3 DEF HasRead
  <2>5. Reading(t) => Owns(t)' /\ Asking(t)' /\ Resting(t)'
    BY <1>3, <2>1, <2>3, <2>4 DEF Fine, Progress, Owns, Asking, Resting
  <2> QED
    BY <1>3, <2>1, <2>2, <2>3, <2>5 DEF Fine, Progress
<1> QED
  BY <1>2, <1>3, <1>4 DEF ClientInv

-------------------------------------------------------------------------------
LEMMA ClientInitInv == ClientInit => ClientInv
<1> SUFFICES ASSUME ClientInit PROVE ClientInv
  OBVIOUS
<1>1. BoundaryInv
  BY BoundaryInitInv DEF ClientInit
<1>2. ASSUME NEW t \in Tasks PROVE Fine(t)
  <2>1. paging[t] = {} /\ reply[t].kind = "none"
    BY DEF ClientInit, Init
  <2> QED
    BY <2>1 DEF Fine, Progress, Reading, Undisturbed
<1> QED
  BY <1>1, <1>2 DEF ClientInv, ClientInit, Init, CacheInit

LEMMA ClientStepInv ==
    ASSUME ClientInv, [ClientNext]_clientVars
    PROVE  ClientInv' /\ [Next]_vars
<1>1. CASE \E t \in Tasks :
             \/ Call(t) \/ ReadEnvelope(t) \/ FollowToken(t) \/ StartAgain(t)
             \/ ReadPage(t) \/ ReleaseWhenRead(t) \/ Forget(t)
  BY <1>1, CallKeeps, ReadEnvelopeKeeps, FollowTokenKeeps, StartAgainKeeps,
     ReadPageKeeps, ReleaseKeeps, ForgetKeeps
<1>2. CASE Panic /\ UNCHANGED <<got, forgotten, rereads>>
  BY <1>2, PanicKeeps DEF Next
<1>3. CASE UNCHANGED clientVars
  BY <1>3, PanicKeeps DEF clientVars
<1> QED
  BY <1>1, <1>2, <1>3 DEF ClientNext

LEMMA ClientsKeepInv == ClientSpec => []ClientInv
<1>1. ClientInv /\ [ClientNext]_clientVars => ClientInv'
  BY ClientStepInv
<1> QED
  BY ClientInitInv, <1>1, PTL DEF ClientSpec

(* The clients keep to the boundary: what they do is a behaviour of it, and  *)
(* so all that is proved of it and of the cache holds of them.               *)
THEOREM ClientsUseBoundary == ClientSpec => Spec
<1>1. ClientInit => Init
  BY DEF ClientInit
<1>2. ClientInv /\ [ClientNext]_clientVars => [Next]_vars
  BY ClientStepInv
<1> QED
  BY <1>1, <1>2, ClientsKeepInv, PTL DEF ClientSpec, Spec

(* Clients that page, start again, give up and release at once cannot tell   *)
(* the boundary from the atomic store (cache_tools.rs:111-119, 200-233).     *)
THEOREM ClientsImplementPagedResults == ClientSpec => ImplementsPagedResults
  BY ClientsUseBoundary, Refinement, PTL

(* As long as nothing panics, no client loses its handle to another one, for *)
(* any number of clients and any arrays: cache.page never fails it and its   *)
(* release is the one that succeeds (cache_tools.rs:200-238).                *)
THEOREM OwnHandle == ClientSpec => []OwnHandleOnly
<1>1. ClientInv => OwnHandleOnly
  BY DEF ClientInv, Fine, Undisturbed, OwnHandleOnly
<1> QED
  BY <1>1, ClientsKeepInv, PTL

(* What the invariant says of a client between two steps. *)
LEMMA WholePrefix ==
    ASSUME ClientInv
    PROVE  ReadsEverythingOnce
<1> SUFFICES ASSUME NEW t \in Tasks, Reading(t), Idle(t)
             PROVE  LET items == origin[reply[t].handle]
                    IN  /\ got[t] = SubSeq(items, 1, Len(got[t]))
                        /\ NextToken(reply[t]) = {} => got[t] = items
                        /\ \A token \in NextToken(reply[t]) :
                             TokenOffset(token) = Len(got[t])
  BY DEF ReadsEverythingOnce
<1> DEFINE items == origin[reply[t].handle]
<1>1. /\ Resting(t) /\ paging[t] = {} /\ reply[t].handle \in Text
      /\ items \in Seq(Item) /\ Len(items) \in Usize
  BY OwnIsLive DEF Idle
<1>2. PICK n \in Nat :
        HasRead(t, n) /\ NextToken(reply[t]) = TokenIfMore(reply[t].handle, n, Len(items))
  BY <1>1 DEF Resting
<1>3. /\ n \in 0 .. Len(items) /\ got[t] = SubSeq(items, 1, n)
      /\ n \in Usize
  BY <1>1, <1>2, PagingAssumption DEF HasRead, Usize
<1> HIDE DEF items
<1>4. Len(got[t]) = n
  BY <1>1, <1>3
<1>5. NextToken(reply[t]) = {} => got[t] = items
  <2>1. Len(items) \in Nat
    BY <1>1, PagingAssumption DEF Usize
  <2>2. n < Len(items) => NextToken(reply[t]) # {}
    BY <1>2 DEF TokenIfMore
  <2> QED
    BY <1>1, <1>3, <2>1, <2>2
<1>6. \A token \in NextToken(reply[t]) : TokenOffset(token) = n
  BY <1>1, <1>2, <1>3, TokenRoundTrip DEF TokenIfMore
<1> QED
  BY <1>3, <1>4, <1>5, <1>6 DEF items

(* A client that follows the tokens reads its whole array, each item once    *)
(* and in order, for every array, limit and page size, whatever the other    *)
(* clients do and also when it starts again (cache_tools.rs:200-224,         *)
(* 285-288).                                                                 *)
THEOREM EveryItemOnce == ClientSpec => []ReadsEverythingOnce
<1>1. ClientInv => ReadsEverythingOnce
  BY WholePrefix
<1> QED
  BY <1>1, ClientsKeepInv, PTL

-------------------------------------------------------------------------------
(* Only the second half of its own page call ends a page call of t. *)
LEMMA PageCallEnds ==
    ASSUME ClientInv, [ClientNext]_clientVars,
           NEW t \in Tasks, paging[t] # {}, paging'[t] = {}
    PROVE  ReadPage(t)
<1>1. paging \in [Tasks -> SUBSET [request : GoodRequests, total : Nat]]
  BY Shapes DEF ClientInv
<1>2. ASSUME NEW u \in Tasks, NEW args, PageLen(u, args) PROVE FALSE
  <2>1. PICK calling : paging' = [paging EXCEPT ![u] = calling]
    BY <1>2 DEF PageLen
  <2>2. paging[u] = {}
    BY <1>2 DEF PageLen, Idle
  <2> QED
    BY <1>1, <2>1, <2>2
<1>3. ASSUME NEW u \in Tasks, ReadPage(u) PROVE u = t
  <2>1. paging' = [paging EXCEPT ![u] = {}]
    BY <1>3 DEF ReadPage, PageItems
  <2> QED
    BY <1>1, <2>1
<1>4. ASSUME NEW u \in Tasks,
             Call(u) \/ ReadEnvelope(u) \/ ReleaseWhenRead(u) \/ Forget(u)
      PROVE  FALSE
  <2>1. paging' = paging
    BY <1>4 DEF Call, PassThrough, CacheLarge, ReadEnvelope, ReturnEnvelope,
       ReleaseWhenRead, ReleaseTool, Forget, vars
  <2> QED
    BY <2>1
<1>5. ASSUME NEW u \in Tasks, FollowToken(u) \/ StartAgain(u) PROVE FALSE
  <2>1. \E args : PageLen(u, args)
    BY <1>5, TokenAccepted, NullTokenAccepted
  <2> QED
    BY <1>2, <2>1
<1>6. ~ Panic /\ ~ UNCHANGED clientVars
  BY DEF Panic, clientVars, vars
<1> QED
  BY <1>3, <1>4, <1>5, <1>6 DEF ClientNext

LEMMA PageBringsOn ==
    ASSUME ClientInv, NEW t \in Tasks, ReadPage(t),
           reply'[t].kind = "page", reply'[t].limit > 0, NextToken(reply'[t]) # {}
    PROVE  Len(got'[t]) > Len(got[t])
<1>1. PICK c \in paging[t] :
        \E page \in Page(c.request.handle, c.request.offset, c.request.limit) :
           Answer(t, PageReply(c.request, c.total, page))
  <2>1. PICK c \in paging[t] :
          IF Page(c.request.handle, c.request.offset, c.request.limit) = {}
            THEN Answer(t, Error("unknown handle"))
            ELSE \E page \in Page(c.request.handle, c.request.offset, c.request.limit) :
                   Answer(t, PageReply(c.request, c.total, page))
    BY DEF ReadPage, PageItems
  <2>2. Error("unknown handle").kind # "page"
    BY DEF Error
  <2>3. ~ Answer(t, Error("unknown handle"))
    BY <2>2, Shapes DEF Answer, ClientInv
  <2> QED
    BY <2>1, <2>3
<1> DEFINE h     == c.request.handle
           n     == c.request.offset
           limit == c.request.limit
           items == origin[h]
           slice == PageSlice(items, n, limit)
<1>2. /\ h = reply[t].handle /\ HasRead(t, n) /\ h \in Text
      /\ items \in Seq(Item) /\ Len(items) \in Usize
  BY OwnIsLive DEF Asking, ClientInv, Fine
<1>3. c.request \in [handle : Text, offset : Usize, limit : Usize] /\ c.total = Len(items)
  <2>1. paging \in [Tasks -> SUBSET [request : GoodRequests, total : Nat]] /\ BoundaryInv
    BY Shapes DEF ClientInv
  <2>2. c.request \in GoodRequests
    BY <2>1
  <2> QED
    BY <2>1, <2>2, GoodRequestType DEF BoundaryInv, CallsInformed
<1>4. Answer(t, PageReply(c.request, Len(items), slice))
  <2>1. Page(h, n, limit) = {PageSlice(inner[h], n, limit)} /\ h \in Live
    BY <1>1 DEF Page
  <2>2. inner[h] = items
    BY <2>1, LiveFacts DEF ClientInv, BoundaryInv
  <2> QED
    BY <1>1, <1>3, <2>1, <2>2
<1>5. /\ PageReply(c.request, Len(items), slice).items = slice
      /\ PageReply(c.request, Len(items), slice).limit = limit
      /\ PageReply(c.request, Len(items), slice).kind = "page"
      /\ PageReply(c.request, Len(items), slice).next_page_token
           = TokenIfMore(h, SaturatingAdd(n, Len(slice)), Len(items))
  BY DEF PageReply
<1>6. /\ limit > 0 /\ got' = [got EXCEPT ![t] = @ \o slice]
      /\ TokenIfMore(h, SaturatingAdd(n, Len(slice)), Len(items)) # {}
  <2>1. reply'[t] = PageReply(c.request, Len(items), slice)
    BY <1>4, Shapes DEF Answer, ClientInv
  <2> QED
    BY <1>5, <2>1 DEF ReadPage, NextToken
<1>7. /\ n \in 0 .. Len(items) /\ got[t] = SubSeq(items, 1, n)
      /\ n \in Usize /\ limit \in Usize
  BY <1>2, <1>3 DEF HasRead
<1> HIDE DEF items, n, limit, h
<1>8. n + Len(slice) # Len(items)
  <2>1. Lesser(n, Len(items)) = n
    BY <1>2, <1>7, PagingAssumption DEF Lesser, Usize
  <2>2. Lesser(n, Len(items)) + Len(slice) # Len(items)
    BY <1>2, <1>6, <1>7, NextTokenIsExact, ZenonT(30)
  <2> QED
    BY <2>1, <2>2
<1>9. slice \in Seq(Item) /\ Len(slice) = Lesser(limit, SaturatingSub(Len(items), n))
  BY <1>2, <1>7, SliceIsWindow
<1>10. Len(slice) > 0
  BY <1>2, <1>6, <1>7, <1>8, <1>9, PagingAssumption DEF Usize, Lesser, SaturatingSub
<1>11. got'[t] = got[t] \o slice /\ got[t] \in Seq(Item)
  <2>1. got'[t] = got[t] \o slice
    BY <1>6 DEF ClientInv
  <2>2. Len(items) \in Nat /\ SubSeq(items, 1, n) \in Seq(Item)
    BY <1>2, <1>7, PagingAssumption DEF Usize
  <2> QED
    BY <1>7, <2>1, <2>2
<1> HIDE DEF slice
<1> QED
  BY <1>9, <1>10, <1>11

(* No page is in vain: for a limit of at least one item it is the last or it *)
(* brings its client further, for any arrays, limits and interleaving        *)
(* (cache_tools.rs:212-214).                                                 *)
THEOREM EveryPageAdvances == ClientSpec => PagesAdvance
<1>1. ClientInv /\ [ClientNext]_clientVars
        => \A t \in Tasks :
             paging[t] # {} /\ paging'[t] = {} /\ reply'[t].kind = "page" /\ reply'[t].limit > 0
               => Len(got'[t]) > Len(got[t]) \/ NextToken(reply'[t]) = {}
  BY PageCallEnds, PageBringsOn
<1> QED
  BY <1>1, ClientsKeepInv, PTL DEF ClientSpec, PagesAdvance

-------------------------------------------------------------------------------
(* A page holds no more than its caller asked for, and page_size does not     *)
(* come into it: the limit is the one the client passed, or the default.      *)
AskedLimits == {UnwrapOr(limit, DefaultLimit) : limit \in ClientLimits}

LimitsAsked ==
    \A t \in Tasks :
        /\ \A c \in paging[t] : c.request.limit \in AskedLimits
        /\ reply[t].kind = "page" =>
             reply[t].limit \in AskedLimits /\ Len(reply[t].items) <= reply[t].limit

WithinLimit(page, request) ==
    page.limit = request.limit /\ Len(page.items) <= request.limit

(* A page reply of t that it did not have before answers its own page call. *)
LEMMA NewPage ==
    ASSUME ClientInv, [ClientNext]_clientVars, NEW t \in Tasks, reply'[t].kind = "page"
    PROVE  \/ reply'[t] = reply[t]
           \/ \E c \in paging[t] : WithinLimit(reply'[t], c.request)
<1>1. reply = [u \in Tasks |-> reply[u]]
  BY Shapes DEF ClientInv
<1>2. ASSUME NEW u \in Tasks, NEW value, Answer(u, value), u = t => value.kind # "page"
      PROVE  reply'[t] = reply[t]
  BY <1>1, <1>2 DEF Answer
<1>3. \A what : Error(what).kind = "error"
  BY DEF Error
<1>4. ASSUME NEW u \in Tasks, PassThrough(u) PROVE reply'[t] = reply[t]
  BY <1>2, <1>4, SmallResultKinds DEF PassThrough
<1>5. ASSUME NEW u \in Tasks, ReturnEnvelope(u) PROVE reply'[t] = reply[t]
  <2>1. \A h, items : Envelope(h, items, page_size).kind = "envelope"
    BY DEF Envelope
  <2> QED
    BY <1>2, <1>5, <2>1 DEF ReturnEnvelope
<1>6. ASSUME NEW u \in Tasks, NEW args, PageLen(u, args) PROVE reply'[t] = reply[t]
  BY <1>2, <1>3, <1>6 DEF PageLen
<1>7. ASSUME NEW u \in Tasks, NEW handle, ReleaseTool(u, handle) PROVE reply'[t] = reply[t]
  BY <1>2, <1>7 DEF ReleaseTool
<1>8. ASSUME NEW u \in Tasks, PageItems(u)
      PROVE  reply'[t] = reply[t] \/ \E c \in paging[t] : WithinLimit(reply'[t], c.request)
  <2>1. PICK c \in paging[u] :
          IF Page(c.request.handle, c.request.offset, c.request.limit) = {}
            THEN Answer(u, Error("unknown handle"))
            ELSE \E page \in Page(c.request.handle, c.request.offset, c.request.limit) :
                   Answer(u, PageReply(c.request, c.total, page))
    BY <1>8 DEF PageItems
  <2>2. ASSUME NEW page \in Page(c.request.handle, c.request.offset, c.request.limit)
        PROVE  WithinLimit(PageReply(c.request, c.total, page), c.request)
    <3> DEFINE items == inner[c.request.handle]
    <3>1. c.request.handle \in Live /\ page = PageSlice(items, c.request.offset, c.request.limit)
      BY DEF Page
    <3>2. items \in Seq(Item) /\ Len(items) \in Usize
      BY <3>1, LiveFacts, ArrayFacts DEF ClientInv, BoundaryInv
    <3>3. c.request \in [handle : Text, offset : Usize, limit : Usize]
      <4>1. paging \in [Tasks -> SUBSET [request : GoodRequests, total : Nat]]
        BY Shapes DEF ClientInv
      <4> QED
        BY <4>1, GoodRequestType
    <3>4. Len(page) = Lesser(c.request.limit, SaturatingSub(Len(items), c.request.offset))
      <4> HIDE DEF items
      <4> QED
        BY <3>1, <3>2, <3>3, SliceIsWindow
    <3>5. Len(page) <= c.request.limit
      BY <3>2, <3>3, <3>4, PagingAssumption DEF Usize, Lesser, SaturatingSub
    <3> QED
      BY <3>5 DEF WithinLimit, PageReply
  <2>3. PICK value : Answer(u, value) /\ (value.kind = "error" \/ WithinLimit(value, c.request))
    BY <1>3, <2>1, <2>2
  <2>4. CASE u = t
    <3>1. reply'[t] = value
      BY <1>1, <2>3, <2>4 DEF Answer
    <3>2. value.kind # "error"
      BY <3>1
    <3> QED
      BY <2>3, <2>4, <3>1, <3>2
  <2> QED
    BY <1>2, <2>3, <2>4
<1>9. (\E u \in Tasks : CacheLarge(u) \/ Forget(u)) \/ Panic \/ UNCHANGED clientVars
        => reply' = reply
  BY DEF CacheLarge, Forget, Panic, clientVars, vars
<1>10. ASSUME NEW u \in Tasks, FollowToken(u) \/ StartAgain(u)
       PROVE  reply'[t] = reply[t]
  BY <1>6, <1>10, TokenAccepted, NullTokenAccepted
<1> QED
  BY <1>4, <1>5, <1>7, <1>8, <1>9, <1>10
     DEF ClientNext, Call, ReadEnvelope, ReadPage, ReleaseWhenRead

(* And a page call that it did not have before asks for one of the limits. *)
LEMMA NewPageCall ==
    ASSUME ClientInv, [ClientNext]_clientVars, NEW t \in Tasks, NEW c \in paging'[t]
    PROVE  c \in paging[t] \/ c.request.limit \in AskedLimits
<1>1. paging = [u \in Tasks |-> paging[u]]
  BY Shapes DEF ClientInv
<1>2. ASSUME NEW u \in Tasks, NEW args, PageLen(u, args),
             PageRequest(args).limit \in AskedLimits
      PROVE  c \in paging[t] \/ c.request.limit \in AskedLimits
  <2> DEFINE calling == {[request |-> PageRequest(args), total |-> n] :
                            n \in CachedLen(PageRequest(args).handle)}
  <2>1. paging' = [paging EXCEPT ![u] = calling]
    BY <1>2 DEF PageLen
  <2>2. \A d \in calling : d.request = PageRequest(args)
    OBVIOUS
  <2> HIDE DEF calling
  <2>3. paging'[t] = paging[t] \/ paging'[t] = calling
    BY <1>1, <2>1
  <2> QED
    BY <1>2, <2>2, <2>3
<1>3. ASSUME NEW u \in Tasks, FollowToken(u) \/ StartAgain(u)
      PROVE  c \in paging[t] \/ c.request.limit \in AskedLimits
  <2>1. \A limit, token : /\ PageRequest(ByToken(token, limit)).limit = UnwrapOr(limit, DefaultLimit)
                          /\ PageRequest(ByNullToken(token, limit)).limit = UnwrapOr(limit, DefaultLimit)
    BY DEF PageRequest, ByToken, ByNullToken
  <2>2. \E args : PageLen(u, args) /\ PageRequest(args).limit \in AskedLimits
    BY <1>3, <2>1, TokenAccepted, NullTokenAccepted DEF AskedLimits
  <2> QED
    BY <1>2, <2>2
<1>4. ASSUME NEW u \in Tasks, ReadPage(u) PROVE c \in paging[t]
  <2>1. paging' = [paging EXCEPT ![u] = {}]
    BY <1>4 DEF ReadPage, PageItems
  <2> QED
    BY <1>1, <2>1
<1>5. ASSUME NEW u \in Tasks,
             Call(u) \/ ReadEnvelope(u) \/ ReleaseWhenRead(u) \/ Forget(u)
      PROVE  paging' = paging
  BY <1>5 DEF Call, PassThrough, CacheLarge, ReadEnvelope, ReturnEnvelope,
     ReleaseWhenRead, ReleaseTool, Forget, vars
<1>6. Panic \/ UNCHANGED clientVars => paging' = paging
  BY DEF Panic, clientVars, vars
<1> QED
  BY <1>3, <1>4, <1>5, <1>6 DEF ClientNext

(* What is documented of page_size holds where every limit that clients pass, *)
(* the default of 64 included, is at most page_size (result_cache.rs:67,      *)
(* cache_tools.rs:25, 285-290).                                               *)
THEOREM SmallLimitsHonoured ==
    ASSUME \A limit \in AskedLimits : limit <= page_size
    PROVE  ClientSpec => []PageSizeHonoured
<1>1. ClientInit => LimitsAsked
  BY DEF ClientInit, Init, LimitsAsked
<1>2. ClientInv /\ LimitsAsked /\ [ClientNext]_clientVars => LimitsAsked'
  BY NewPage, NewPageCall DEF LimitsAsked, WithinLimit
<1>3. ClientInv /\ LimitsAsked => PageSizeHonoured
  <2> SUFFICES ASSUME ClientInv, LimitsAsked, NEW t \in Tasks, reply[t].kind = "page"
               PROVE  Len(reply[t].items) <= page_size
    BY DEF PageSizeHonoured
  <2>1. /\ reply[t].limit \in AskedLimits /\ reply[t].limit <= page_size
        /\ Len(reply[t].items) <= reply[t].limit
    BY DEF LimitsAsked
  <2>2. reply[t].limit \in Nat /\ page_size \in Nat
    <3>1. PICK given \in ClientLimits : reply[t].limit = UnwrapOr(given, DefaultLimit)
      BY <2>1 DEF AskedLimits
    <3>2. given \subseteq Usize /\ Usize \subseteq Nat /\ page_size \in Nat /\ DefaultLimit \in Nat
      BY <3>1, ClientAssumption, BoundaryAssumption, PagingAssumption DEF DefaultLimit, Usize
    <3> QED
      BY <3>1, <3>2 DEF UnwrapOr
  <2> QED
    BY <2>1, <2>2
<1> QED
  BY <1>1, <1>2, <1>3, ClientsKeepInv, PTL DEF ClientSpec
===============================================================================
