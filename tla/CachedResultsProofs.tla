-------------------------- MODULE CachedResultsProofs --------------------------
(***************************************************************************)
(* The boundary, for any tasks, arrays, requests, threshold and page size: *)
(* it drives the cache as ResultCache allows, so the cache's invariant     *)
(* holds; with it, what a page call learnt from len is still true when it  *)
(* reads the page, so replies are faithful; and with both, every step of   *)
(* the boundary is a step of PagedResults or leaves it unchanged.          *)
(***************************************************************************)
EXTENDS CachedResults, ResultCacheProofs, PagingTheorems

-------------------------------------------------------------------------------
(* Every step does to the cache what some step of the cache does, or nothing. *)
LEMMA StepOfCache == [Next]_vars => [CacheNext]_cacheVars
<1> SUFFICES ASSUME [Next]_vars PROVE [CacheNext]_cacheVars
  OBVIOUS
<1>1. ASSUME NEW t \in Tasks, PassThrough(t) PROVE UNCHANGED cacheVars
  BY <1>1 DEF PassThrough
<1>2. ASSUME NEW t \in Tasks, CacheLarge(t) PROVE CacheNext
  BY <1>2 DEF CacheLarge, OversizedArrays, CacheNext
<1>3. ASSUME NEW t \in Tasks, ReturnEnvelope(t) PROVE CacheNext
  BY <1>3 DEF ReturnEnvelope, CacheNext
<1>4. ASSUME NEW t \in Tasks, RefuseArgs(t) PROVE UNCHANGED cacheVars
  BY <1>4 DEF RefuseArgs
<1>5. ASSUME NEW t \in Tasks, NEW args \in Requests, PageLen(t, args)
      PROVE  UNCHANGED cacheVars
  BY <1>5 DEF PageLen
<1>6. ASSUME NEW t \in Tasks, PageItems(t) PROVE UNCHANGED cacheVars
  BY <1>6 DEF PageItems
<1>7. ASSUME NEW t \in Tasks, NEW handle \in Names, ReleaseTool(t, handle)
      PROVE  CacheNext
  BY <1>7 DEF ReleaseTool, Idle, CacheNext
<1>8. CASE Panic
  BY <1>8 DEF Panic, CacheNext
<1>9. CASE UNCHANGED vars
  BY <1>9 DEF vars
<1> QED
  BY <1>1, <1>2, <1>3, <1>4, <1>5, <1>6, <1>7, <1>8, <1>9 DEF Next

(* The boundary is a use of the cache, so all that is proved of the cache *)
(* holds at the boundary.                                                 *)
THEOREM UsesCache == Spec => CacheSpec
<1>1. Init => CacheInit
  BY DEF Init
<1> QED
  BY <1>1, StepOfCache, PTL DEF Spec, CacheSpec

(* Handles stay unique at the boundary. *)
THEOREM BoundaryHandles == Spec => []HandlesUnique
  BY UsesCache, HandleUniqueness, PTL

(* Nothing is lost at the boundary either. *)
THEOREM BoundaryConservation == Spec => []NothingLost
  BY UsesCache, Conservation, PTL

(* History is only added to. *)
LEMMA OriginGrows ==
    ASSUME IndInv, [CacheNext]_cacheVars
    PROVE  \A h \in DOMAIN origin : h \in DOMAIN origin' /\ origin'[h] = origin[h]
<1>1. ASSUME NEW t \in Tasks, NEW items \in Arrays, FreshHandle(t, items)
      PROVE  origin' = origin
  BY <1>1 DEF FreshHandle
<1>2. ASSUME NEW t \in Tasks, NEW entry \in storing[t], Insert(t, entry)
      PROVE  \A h \in DOMAIN origin : h \in DOMAIN origin' /\ origin'[h] = origin[h]
  <2>1. origin' = Put(origin, entry.handle, entry.items)
    BY <1>2 DEF Insert
  <2>2. entry.handle \notin DOMAIN origin
    BY DEF IndInv, HandlesUnique
  <2> QED
    BY <2>1, <2>2 DEF Put
<1>3. ASSUME NEW handle \in Names, Release(handle) PROVE origin' = origin
  BY <1>3 DEF Release
<1>4. CASE Poison
  BY <1>4 DEF Poison
<1>5. CASE UNCHANGED cacheVars
  BY <1>5 DEF cacheVars
<1> QED
  BY <1>1, <1>2, <1>3, <1>4, <1>5 DEF CacheNext

-------------------------------------------------------------------------------
(* What page_cached_result answers is faithful if it was told the right total. *)
LEMMA PageReplyFaithful ==
    ASSUME NEW items \in Seq(Item), Len(items) \in Usize, NEW request,
           NEW handle \in Text, NEW offset \in Usize, NEW limit \in Usize,
           request = [handle |-> handle, offset |-> offset, limit |-> limit]
    PROVE  PageFaithful(PageReply(request, Len(items),
                                  PageSlice(items, offset, limit)), items)
<1> DEFINE slice == PageSlice(items, offset, limit)
           next  == Lesser(offset, Len(items)) + Len(slice)
           tokens == TokenIfMore(handle, SaturatingAdd(offset, Len(slice)), Len(items))
           page   == PageReply(request, Len(items), slice)
<1>1. /\ tokens = {} <=> next = Len(items)
      /\ tokens # {} => tokens = {PageToken(handle, next)}
      /\ next \in 0 .. Len(items)
  BY NextTokenIsExact, ZenonT(30)
<1>2. next \in Usize
  BY <1>1, PagingAssumption DEF Usize
<1>3. \A token \in tokens : /\ IsPageToken(token)
                            /\ TokenHandle(token) = handle
                            /\ TokenOffset(token) = next
  <2> HIDE DEF tokens, next
  <2> QED
    BY <1>1, <1>2, TokenRoundTrip
<1>4. /\ page.handle = handle /\ page.offset = offset
      /\ page.limit = limit /\ page.total_items = Len(items)
      /\ page.items = slice /\ page.next_page_token = tokens
  BY DEF PageReply
<1> HIDE DEF page, tokens
<1> QED
  BY <1>1, <1>3, <1>4 DEF PageFaithful, page

(* The envelope of cache_if_large shows and leads to all of its array. *)
LEMMA EnvelopeIsFaithful ==
    ASSUME NEW items \in Seq(Item), Len(items) \in Usize, NEW handle \in Text
    PROVE  EnvelopeFaithful(Envelope(handle, items, page_size), items)
<1> DEFINE n       == Len(items)
           first   == Lesser(page_size, n)
           omitted == SaturatingSub(n, first)
           tokens  == IF omitted > 0 THEN {PageToken(handle, first)} ELSE {}
           shown   == SubSeq(items, 1, first)
<1>0. n \in Nat /\ n <= MaxUsize /\ page_size \in Nat /\ MaxUsize \in Nat
  BY PagingAssumption, BoundaryAssumption DEF Usize
<1>1. first \in 0 .. n /\ omitted \in Nat /\ omitted = n - first
  BY <1>0, FirstPageLen
<1>2. first \in Usize /\ MaxUsize \in Usize
  BY <1>0, <1>1 DEF Usize
<1>3. shown \in Seq(Item) /\ Len(shown) = first
  <2> HIDE DEF first
  <2> QED
    BY <1>0, <1>1
<1>4. omitted = 0 => shown = items
  <2> HIDE DEF first, omitted
  <2> QED
    BY <1>0, <1>1
<1>5. items = shown \o PageSlice(items, first, MaxUsize)
  <2> DEFINE rest == PageSlice(items, first, MaxUsize)
  <2>1. shown \o rest = SubSeq(items, 1, first + Len(rest))
    BY <1>1, <1>2, PageExtendsPrefix
  <2>2. Len(rest) = Lesser(MaxUsize, SaturatingSub(n, first))
    BY <1>2, SliceIsWindow
  <2>3. first + Len(rest) = n
    BY <1>0, <1>1, <2>2, RestLen
  <2>4. SubSeq(items, 1, n) = items
    OBVIOUS
  <2> QED
    BY <2>1, <2>3, <2>4
<1>6. /\ IsPageToken(PageToken(handle, first))
      /\ TokenHandle(PageToken(handle, first)) = handle
      /\ TokenOffset(PageToken(handle, first)) = first
  BY <1>2, TokenRoundTrip
<1> DEFINE envelope == Envelope(handle, items, page_size)
<1>7. /\ envelope.handle = handle /\ envelope.total_items = n
      /\ envelope.first_page = shown /\ envelope.truncated = (omitted > 0)
      /\ envelope.omitted_items = omitted /\ envelope.page_token = tokens
  BY DEF Envelope
<1>8. n = Len(shown) + omitted
  BY <1>0, <1>1, <1>3
<1>9. (omitted > 0) <=> tokens # {}
  BY <1>1
<1>10. tokens = {} => items = shown
  BY <1>1, <1>4
<1>11. \A token \in tokens :
         /\ IsPageToken(token)
         /\ TokenHandle(token) = handle
         /\ items = shown \o PageSlice(items, TokenOffset(token), MaxUsize)
  BY <1>5, <1>6
<1> HIDE DEF envelope, shown, omitted, n, tokens
<1> QED
  BY <1>7, <1>8, <1>9, <1>10, <1>11 DEF EnvelopeFaithful, envelope

-------------------------------------------------------------------------------
(* What a page call learnt from len stays true until it reads the page: a   *)
(* handle keeps its array for ever, though it may be released meanwhile.    *)
CallsInformed ==
    \A t \in Tasks : \A call \in paging[t] :
        /\ call.request.handle \in DOMAIN origin
        /\ call.total = Len(origin[call.request.handle])

BoundaryInv ==
    /\ IndInv
    /\ BoundaryTypeOK
    /\ CallsInformed
    /\ PagesFaithful
    /\ EnvelopesFaithful

Grows == \A h \in DOMAIN origin : h \in DOMAIN origin' /\ origin'[h] = origin[h]

(* A new reply keeps the replies faithful if it is so itself. *)
LEMMA AnswerFaithful ==
    ASSUME BoundaryInv, Grows, NEW t \in Tasks, NEW value, Answer(t, value),
           value.kind = "page" =>
             /\ value.handle \in DOMAIN origin'
             /\ PageFaithful(value, origin'[value.handle]),
           value.kind = "envelope" =>
             /\ value.handle \in DOMAIN origin' \ DOMAIN origin
             /\ EnvelopeFaithful(value, origin'[value.handle])
    PROVE  PagesFaithful' /\ EnvelopesFaithful' /\ reply' = [u \in Tasks |-> reply'[u]]
<1>1. /\ reply = [u \in Tasks |-> reply[u]]
      /\ reply' = [reply EXCEPT ![t] = value]
  BY DEF BoundaryInv, BoundaryTypeOK, Answer
<1>2. reply'[t] = value /\ \A u \in Tasks \ {t} : reply'[u] = reply[u]
  BY <1>1
<1>3. PagesFaithful'
  BY <1>2 DEF BoundaryInv, PagesFaithful, Grows
<1>4. EnvelopesFaithful'
  <2> SUFFICES ASSUME NEW v \in Tasks, reply'[v].kind = "envelope"
               PROVE  /\ reply'[v].handle \in DOMAIN origin'
                      /\ EnvelopeFaithful(reply'[v], origin'[reply'[v].handle])
                      /\ \A u \in Tasks \ {v} : reply'[u].kind = "envelope"
                            => reply'[u].handle # reply'[v].handle
    BY DEF EnvelopesFaithful
  <2>1. \A u \in Tasks : reply[u].kind = "envelope" => reply[u].handle \in DOMAIN origin
    BY DEF BoundaryInv, EnvelopesFaithful
  <2>2. CASE v = t
    BY <1>2, <2>1, <2>2
  <2>3. CASE v # t
    BY <1>2, <2>1, <2>3 DEF BoundaryInv, EnvelopesFaithful, Grows
  <2> QED
    BY <2>2, <2>3
<1> QED
  BY <1>1, <1>3, <1>4

(* Without a new reply the old ones stay faithful. *)
LEMMA SilenceFaithful ==
    ASSUME BoundaryInv, Grows, UNCHANGED reply
    PROVE  PagesFaithful' /\ EnvelopesFaithful' /\ reply' = [u \in Tasks |-> reply'[u]]
  BY DEF BoundaryInv, BoundaryTypeOK, PagesFaithful, EnvelopesFaithful, Grows

(* Calls in progress stay informed and well typed while paging is unchanged. *)
LEMMA CallsKept ==
    ASSUME BoundaryInv, Grows, UNCHANGED paging
    PROVE  /\ CallsInformed'
           /\ paging' \in [Tasks -> SUBSET [request : GoodRequests, total : Nat]]
  BY DEF BoundaryInv, BoundaryTypeOK, CallsInformed, Grows

(* An array in the history is one of Arrays, and a live handle has one. *)
LEMMA ArrayFacts ==
    ASSUME IndInv, NEW h \in DOMAIN origin
    PROVE  /\ h \in Text
           /\ origin[h] \in Seq(Item)
           /\ Len(origin[h]) \in Usize
           /\ Len(origin[h]) \in Nat
  BY CacheAssumption DEF IndInv, TypeOK, IsEntry

LEMMA LiveFacts ==
    ASSUME IndInv, NEW h \in Live
    PROVE  h \in DOMAIN inner /\ h \in DOMAIN origin /\ inner[h] = origin[h]
  BY DEF IndInv, MapIsHistory, Live

LEMMA GoodRequestType ==
    ASSUME NEW request \in GoodRequests
    PROVE  request \in [handle : Text, offset : Usize, limit : Usize]
<1>1. PICK args \in Requests : ~ BadArgs(args) /\ request = PageRequest(args)
  BY DEF GoodRequests
<1>2. args \in PageArgs
  BY BoundaryAssumption
<1> QED
  BY <1>1, <1>2, RequestType

-------------------------------------------------------------------------------
LEMMA PageLenInv ==
    ASSUME BoundaryInv, IndInv', Grows,
           NEW t \in Tasks, NEW args \in Requests, PageLen(t, args)
    PROVE  BoundaryInv'
<1> DEFINE request == PageRequest(args)
           total   == CachedLen(request.handle)
           calls   == {[request |-> request, total |-> n] : n \in total}
<1>1. /\ Idle(t) /\ ~ BadArgs(args)
      /\ paging' = [paging EXCEPT ![t] = calls]
      /\ IF total = {} THEN Answer(t, Error("unknown handle")) ELSE UNCHANGED reply
      /\ UNCHANGED cacheVars
  BY DEF PageLen
<1>2. /\ paging \in [Tasks -> SUBSET [request : GoodRequests, total : Nat]]
      /\ IndInv
  BY DEF BoundaryInv, BoundaryTypeOK
<1>3. \A n \in total : /\ request.handle \in DOMAIN origin
                       /\ n = Len(origin[request.handle])
                       /\ n \in Nat
  BY <1>2, LiveFacts, ArrayFacts DEF CachedLen
<1>4. request \in GoodRequests
  BY <1>1 DEF GoodRequests
<1> HIDE DEF request, total
<1>5. calls \subseteq [request : GoodRequests, total : Nat]
  BY <1>3, <1>4
<1>6. paging' \in [Tasks -> SUBSET [request : GoodRequests, total : Nat]]
  BY <1>1, <1>2, <1>5
<1>7. origin' = origin /\ storing' = storing
  BY <1>1 DEF cacheVars
<1>8. CallsInformed'
  <2> SUFFICES ASSUME NEW u \in Tasks, NEW call \in paging'[u]
               PROVE  /\ call.request.handle \in DOMAIN origin
                      /\ call.total = Len(origin[call.request.handle])
    BY <1>7 DEF CallsInformed
  <2>1. CASE u = t
    <3>1. call \in calls
      BY <1>1, <1>2, <2>1
    <3> QED
      BY <1>3, <3>1
  <2>2. CASE u # t
    BY <1>1, <1>2, <2>2 DEF BoundaryInv, CallsInformed
  <2> QED
    BY <2>1, <2>2
<1>9. \A u \in Tasks : storing'[u] = {} \/ paging'[u] = {}
  BY <1>1, <1>2, <1>7 DEF BoundaryInv, BoundaryTypeOK, Idle
<1>10. PagesFaithful' /\ EnvelopesFaithful' /\ reply' = [u \in Tasks |-> reply'[u]]
  <2>1. CASE total = {}
    BY <1>1, <2>1, AnswerFaithful DEF Error
  <2>2. CASE total # {}
    BY <1>1, <2>2, SilenceFaithful
  <2> QED
    BY <2>1, <2>2
<1> QED
  BY <1>6, <1>8, <1>9, <1>10 DEF BoundaryInv, BoundaryTypeOK, IndInv

LEMMA PageItemsInv ==
    ASSUME BoundaryInv, IndInv', Grows, NEW t \in Tasks, PageItems(t)
    PROVE  BoundaryInv'
<1>1. PICK call \in paging[t] :
        /\ IF Page(call.request.handle, call.request.offset, call.request.limit) = {}
             THEN Answer(t, Error("unknown handle"))
             ELSE \E page \in Page(call.request.handle, call.request.offset,
                                   call.request.limit) :
                    Answer(t, PageReply(call.request, call.total, page))
        /\ paging' = [paging EXCEPT ![t] = {}]
        /\ UNCHANGED cacheVars
  BY DEF PageItems
<1>2. /\ paging \in [Tasks -> SUBSET [request : GoodRequests, total : Nat]]
      /\ IndInv
      /\ call.request \in GoodRequests
  BY DEF BoundaryInv, BoundaryTypeOK
<1>3. origin' = origin /\ storing' = storing
  BY <1>1 DEF cacheVars
<1>4. /\ paging' \in [Tasks -> SUBSET [request : GoodRequests, total : Nat]]
      /\ \A u \in Tasks : paging'[u] \subseteq paging[u]
  BY <1>1, <1>2
<1>5. CallsInformed'
  BY <1>3, <1>4 DEF BoundaryInv, CallsInformed
<1>6. \A u \in Tasks : storing'[u] = {} \/ paging'[u] = {}
  BY <1>3, <1>4 DEF BoundaryInv, BoundaryTypeOK
<1> DEFINE items == origin[call.request.handle]
           slice == PageSlice(items, call.request.offset, call.request.limit)
           page  == PageReply(call.request, call.total, slice)
<1>7. /\ call.request.handle \in DOMAIN origin
      /\ call.total = Len(items)
  BY DEF BoundaryInv, CallsInformed
<1>8. PagesFaithful' /\ EnvelopesFaithful' /\ reply' = [u \in Tasks |-> reply'[u]]
  <2>1. CASE Answer(t, Error("unknown handle"))
    BY <2>1, AnswerFaithful DEF Error
  <2>2. CASE Answer(t, page)
    <3>1. /\ call.request \in [handle : Text, offset : Usize, limit : Usize]
          /\ items \in Seq(Item) /\ Len(items) \in Usize
      BY <1>2, <1>7, GoodRequestType, ArrayFacts
    <3>2. /\ call.request.handle \in Text /\ call.request.offset \in Usize
          /\ call.request.limit \in Usize
          /\ call.request = [handle |-> call.request.handle, offset |-> call.request.offset,
                             limit |-> call.request.limit]
      BY <3>1
    <3>3. PageFaithful(page, items)
      BY <1>7, <3>1, <3>2, PageReplyFaithful
    <3>4. page.kind = "page" /\ page.handle = call.request.handle
      BY DEF PageReply
    <3> HIDE DEF page
    <3> QED
      BY <1>3, <1>7, <2>2, <3>3, <3>4, AnswerFaithful
  <2>3. Page(call.request.handle, call.request.offset, call.request.limit) # {}
          => Page(call.request.handle, call.request.offset, call.request.limit) = {slice}
    BY <1>2, LiveFacts DEF Page
  <2> QED
    BY <1>1, <2>1, <2>2, <2>3
<1> QED
  BY <1>4, <1>5, <1>6, <1>8 DEF BoundaryInv, BoundaryTypeOK, IndInv

LEMMA ReturnEnvelopeInv ==
    ASSUME BoundaryInv, IndInv', Grows, NEW t \in Tasks, ReturnEnvelope(t)
    PROVE  BoundaryInv'
<1>1. PICK entry \in storing[t] :
        /\ origin' = Put(origin, entry.handle, entry.items)
        /\ storing' = [storing EXCEPT ![t] = {}]
        /\ Answer(t, Envelope(entry.handle, entry.items, page_size))
  BY DEF ReturnEnvelope, Insert
<1>2. paging' = paging
  BY DEF ReturnEnvelope
<1>3. /\ storing \in [Tasks -> SUBSET [handle : Text, items : Arrays]]
      /\ entry.handle \in Text /\ entry.items \in Arrays
      /\ entry.handle \notin DOMAIN origin
  BY DEF BoundaryInv, IndInv, TypeOK, HandlesUnique
<1>4. entry.items \in Seq(Item) /\ Len(entry.items) \in Usize
  BY <1>3, CacheAssumption
<1> DEFINE envelope == Envelope(entry.handle, entry.items, page_size)
<1>5. EnvelopeFaithful(envelope, entry.items)
  BY <1>3, <1>4, EnvelopeIsFaithful
<1>6. envelope.kind = "envelope" /\ envelope.handle = entry.handle
  BY DEF Envelope
<1>7. entry.handle \in DOMAIN origin' /\ origin'[entry.handle] = entry.items
  BY <1>1 DEF Put
<1> HIDE DEF envelope
<1>8. PagesFaithful' /\ EnvelopesFaithful' /\ reply' = [u \in Tasks |-> reply'[u]]
  BY <1>1, <1>3, <1>5, <1>6, <1>7, AnswerFaithful DEF envelope
<1>9. \A u \in Tasks : storing'[u] = {} \/ paging'[u] = {}
  BY <1>1, <1>2, <1>3 DEF BoundaryInv, BoundaryTypeOK
<1> QED
  BY <1>2, <1>8, <1>9, CallsKept DEF BoundaryInv, BoundaryTypeOK, IndInv

(* The steps that answer with an error, a value that is no page and no       *)
(* envelope, or not at all, and leave paging alone.                          *)
LEMMA OtherStepsInv ==
    ASSUME BoundaryInv, IndInv', Grows,
           \/ \E t \in Tasks :
                 \/ PassThrough(t) \/ CacheLarge(t) \/ RefuseArgs(t)
                 \/ \E handle \in Names : ReleaseTool(t, handle)
           \/ Panic
           \/ UNCHANGED vars
    PROVE  BoundaryInv'
<1>1. paging' = paging
  BY DEF PassThrough, CacheLarge, RefuseArgs, ReleaseTool, Panic, vars
<1>2. CallsInformed' /\ paging' \in [Tasks -> SUBSET [request : GoodRequests, total : Nat]]
  BY <1>1, CallsKept
<1>3. \A u \in Tasks : storing'[u] = {} \/ paging'[u] = {}
  <2>1. \A u \in Tasks : storing[u] = {} \/ paging[u] = {}
    BY DEF BoundaryInv, BoundaryTypeOK
  <2>2. ASSUME NEW t \in Tasks, CacheLarge(t)
        PROVE  \A u \in Tasks : storing'[u] = {} \/ paging'[u] = {}
    <3>1. storing \in [Tasks -> SUBSET [handle : Text, items : Arrays]]
      BY DEF BoundaryInv, IndInv, TypeOK
    <3>2. paging[t] = {} /\ \A u \in Tasks \ {t} : storing'[u] = storing[u]
      BY <2>2, <3>1 DEF CacheLarge, Idle, FreshHandle
    <3> QED
      BY <1>1, <2>1, <3>2
  <2>3. ASSUME NEW t \in Tasks, PassThrough(t) \/ RefuseArgs(t)
        PROVE  storing' = storing
    BY <2>3 DEF PassThrough, RefuseArgs, cacheVars
  <2>4. ASSUME NEW t \in Tasks, NEW handle \in Names, ReleaseTool(t, handle)
        PROVE  storing' = storing
    BY <2>4 DEF ReleaseTool, Release
  <2>5. Panic \/ UNCHANGED vars => storing' = storing
    BY DEF Panic, Poison, vars, cacheVars
  <2> QED
    BY <1>1, <2>1, <2>2, <2>3, <2>4, <2>5
<1>4. PagesFaithful' /\ EnvelopesFaithful' /\ reply' = [u \in Tasks |-> reply'[u]]
  <2>1. ASSUME NEW t \in Tasks, PassThrough(t)
        PROVE  PagesFaithful' /\ EnvelopesFaithful' /\ reply' = [u \in Tasks |-> reply'[u]]
    <3>1. PICK result \in SmallResults(Arrays, threshold_bytes) : Answer(t, result)
      BY <2>1 DEF PassThrough
    <3>2. \/ result = Error("wrapped tool")
          \/ result = [kind |-> "other"]
          \/ \E items \in Arrays : result = [kind |-> "array", items |-> items]
      BY Zenon DEF SmallResults
    <3>3. result.kind # "page" /\ result.kind # "envelope"
      <4>1. CASE result = Error("wrapped tool")
        BY <4>1 DEF Error
      <4>2. CASE result = [kind |-> "other"]
        BY <4>2
      <4>3. CASE \E items \in Arrays : result = [kind |-> "array", items |-> items]
        <5>1. PICK items \in Arrays : result = [kind |-> "array", items |-> items]
          BY <4>3
        <5> QED
          BY <5>1
      <4> QED
        BY <3>2, <4>1, <4>2, <4>3
    <3> QED
      BY <3>1, <3>3, AnswerFaithful
  <2>2. ASSUME NEW t \in Tasks, RefuseArgs(t)
        PROVE  PagesFaithful' /\ EnvelopesFaithful' /\ reply' = [u \in Tasks |-> reply'[u]]
    BY <2>2, AnswerFaithful DEF RefuseArgs, Error
  <2>3. ASSUME NEW t \in Tasks, NEW handle \in Names, ReleaseTool(t, handle)
        PROVE  PagesFaithful' /\ EnvelopesFaithful' /\ reply' = [u \in Tasks |-> reply'[u]]
    BY <2>3, AnswerFaithful DEF ReleaseTool
  <2>4. (\E t \in Tasks : CacheLarge(t)) \/ Panic \/ UNCHANGED vars => reply' = reply
    BY DEF CacheLarge, Panic, vars
  <2> QED
    BY <2>1, <2>2, <2>3, <2>4, SilenceFaithful
<1> QED
  BY <1>2, <1>3, <1>4 DEF BoundaryInv, BoundaryTypeOK, IndInv

LEMMA BoundaryInitInv == Init => BoundaryInv
<1> SUFFICES ASSUME Init PROVE BoundaryInv
  OBVIOUS
<1>1. IndInv
  BY InitInv DEF Init
<1>2. /\ paging = [t \in Tasks |-> {}]
      /\ reply = [t \in Tasks |-> [kind |-> "none"]]
      /\ storing = [t \in Tasks |-> {}]
  BY DEF Init, CacheInit
<1>3. BoundaryTypeOK
  BY <1>1, <1>2 DEF BoundaryTypeOK, IndInv
<1>4. CallsInformed
  BY <1>2 DEF CallsInformed
<1>5. PagesFaithful /\ EnvelopesFaithful
  BY <1>2 DEF PagesFaithful, EnvelopesFaithful
<1> QED
  BY <1>1, <1>3, <1>4, <1>5 DEF BoundaryInv

LEMMA BoundaryStepInv ==
    ASSUME BoundaryInv, [Next]_vars
    PROVE  BoundaryInv' /\ Grows
<1>1. IndInv' /\ Grows
  BY StepOfCache, StepInv, OriginGrows DEF BoundaryInv, Grows
<1>2. ASSUME NEW t \in Tasks, NEW args \in Requests, PageLen(t, args) PROVE BoundaryInv'
  BY <1>1, <1>2, PageLenInv
<1>3. ASSUME NEW t \in Tasks, PageItems(t) PROVE BoundaryInv'
  BY <1>1, <1>3, PageItemsInv
<1>4. ASSUME NEW t \in Tasks, ReturnEnvelope(t) PROVE BoundaryInv'
  BY <1>1, <1>4, ReturnEnvelopeInv
<1> QED
  BY <1>1, <1>2, <1>3, <1>4, OtherStepsInv DEF Next

(* The boundary's invariant, the cache's included. *)
THEOREM BoundaryInductive == Spec => []BoundaryInv
<1>1. BoundaryInv /\ [Next]_vars => BoundaryInv'
  BY BoundaryStepInv
<1> QED
  BY BoundaryInitInv, <1>1, PTL DEF Spec

(* The types of the boundary's state. *)
THEOREM BoundaryTypeCorrect == Spec => []BoundaryTypeOK
<1>1. BoundaryInv => BoundaryTypeOK
  BY DEF BoundaryInv
<1> QED
  BY BoundaryInductive, <1>1, PTL

(* Pages are slices of the right array with the right total and token, for *)
(* every interleaving (cache_tools.rs:200-224).                            *)
THEOREM PagesAreFaithful == Spec => []PagesFaithful
<1>1. BoundaryInv => PagesFaithful
  BY DEF BoundaryInv
<1> QED
  BY BoundaryInductive, <1>1, PTL

(* Envelopes belong to one call and lead to all of its result *)
(* (result_cache.rs:190-227).                                 *)
THEOREM EnvelopesAreFaithful == Spec => []EnvelopesFaithful
<1>1. BoundaryInv => EnvelopesFaithful
  BY DEF BoundaryInv
<1> QED
  BY BoundaryInductive, <1>1, PTL

-------------------------------------------------------------------------------
(* Only oversized arrays are on their way into the cache. *)
StoringLarge ==
    \A t \in Tasks : \A entry \in storing[t] :
        entry.items \in OversizedArrays(Arrays, threshold_bytes)

LEMMA LargeOnly == Spec => []StoringLarge
<1>1. Init => StoringLarge
  BY DEF Init, CacheInit, StoringLarge
<1>2. IndInv /\ StoringLarge /\ [Next]_vars => StoringLarge'
  <2> SUFFICES ASSUME IndInv, StoringLarge, [Next]_vars PROVE StoringLarge'
    OBVIOUS
  <2>1. storing \in [Tasks -> SUBSET [handle : Text, items : Arrays]]
    BY DEF IndInv, TypeOK
  <2>2. ASSUME NEW t \in Tasks, CacheLarge(t) PROVE StoringLarge'
    <3>1. PICK items \in OversizedArrays(Arrays, threshold_bytes) : FreshHandle(t, items)
      BY <2>2 DEF CacheLarge
    <3>2. /\ storing'[t] = {[handle |-> Handle(next_id), items |-> items]}
          /\ \A u \in Tasks \ {t} : storing'[u] = storing[u]
      BY <2>1, <3>1 DEF FreshHandle
    <3> QED
      BY <3>2 DEF StoringLarge
  <2>3. ASSUME NEW t \in Tasks, ReturnEnvelope(t) PROVE StoringLarge'
    BY <2>1, <2>3 DEF ReturnEnvelope, Insert, StoringLarge
  <2>4. ASSUME NEW t \in Tasks, NEW handle \in Names, ReleaseTool(t, handle)
        PROVE  storing' = storing
    BY <2>4 DEF ReleaseTool, Release
  <2>5. ASSUME NEW t \in Tasks,
               PassThrough(t) \/ RefuseArgs(t) \/ PageItems(t)
                 \/ \E args \in Requests : PageLen(t, args)
        PROVE  storing' = storing
    BY <2>5 DEF PassThrough, RefuseArgs, PageItems, PageLen, cacheVars
  <2>6. Panic \/ UNCHANGED vars => storing' = storing
    BY DEF Panic, Poison, vars, cacheVars
  <2>7. storing' = storing => StoringLarge'
    BY DEF StoringLarge
  <2> QED
    BY <2>2, <2>3, <2>4, <2>5, <2>6, <2>7 DEF Next
<1>3. Spec => []IndInv
  BY UsesCache, Inductive, PTL
<1> QED
  BY <1>1, <1>2, <1>3, PTL DEF Spec

-------------------------------------------------------------------------------
(* What an envelope shows of its oversized array: the first page_size items. *)
EnvelopesShowFirst ==
    \A t \in Tasks : reply[t].kind = "envelope" =>
        LET items == origin[reply[t].handle]
        IN  /\ items \in OversizedArrays(Arrays, threshold_bytes)
            /\ reply[t].first_page = SubSeq(items, 1, Lesser(page_size, Len(items)))

LEMMA SmallResultKinds ==
    ASSUME NEW result \in SmallResults(Arrays, threshold_bytes)
    PROVE  /\ result.kind \notin {"envelope", "page", "release"}
           /\ result.kind = "error" => result.error = "wrapped tool"
<1>1. \/ result = Error("wrapped tool")
      \/ result = [kind |-> "other"]
      \/ \E items \in Arrays : result = [kind |-> "array", items |-> items]
  BY Zenon DEF SmallResults
<1>2. CASE result = Error("wrapped tool")
  BY <1>2 DEF Error
<1>3. CASE result = [kind |-> "other"]
  BY <1>3
<1>4. CASE \E items \in Arrays : result = [kind |-> "array", items |-> items]
  <2>1. PICK items \in Arrays : result = [kind |-> "array", items |-> items]
    BY <1>4
  <2> QED
    BY <2>1
<1> QED
  BY <1>1, <1>2, <1>3, <1>4

(* A task has an envelope that it did not have before from the second half of *)
(* its own store.                                                             *)
LEMMA NewEnvelope ==
    ASSUME BoundaryInv, [Next]_vars, NEW t \in Tasks, reply'[t].kind = "envelope"
    PROVE  reply'[t] = reply[t] \/ ReturnEnvelope(t)
<1>1. reply = [u \in Tasks |-> reply[u]]
  BY DEF BoundaryInv, BoundaryTypeOK
<1>2. ASSUME NEW u \in Tasks, NEW value, Answer(u, value), u = t => value.kind # "envelope"
      PROVE  reply'[t] = reply[t]
  BY <1>1, <1>2 DEF Answer
<1>3. ASSUME NEW u \in Tasks, ReturnEnvelope(u), u # t PROVE reply'[t] = reply[t]
  BY <1>2, <1>3 DEF ReturnEnvelope
<1>4. ASSUME NEW u \in Tasks, PassThrough(u) PROVE reply'[t] = reply[t]
  BY <1>2, <1>4, SmallResultKinds DEF PassThrough
<1>5. \A what : Error(what).kind = "error"
  BY DEF Error
<1>6. ASSUME NEW u \in Tasks, RefuseArgs(u) PROVE reply'[t] = reply[t]
  BY <1>2, <1>5, <1>6 DEF RefuseArgs
<1>7. ASSUME NEW u \in Tasks, NEW args, PageLen(u, args) PROVE reply'[t] = reply[t]
  BY <1>2, <1>5, <1>7 DEF PageLen
<1>8. ASSUME NEW u \in Tasks, PageItems(u) PROVE reply'[t] = reply[t]
  <2>1. \A request, total, page : PageReply(request, total, page).kind = "page"
    BY DEF PageReply
  <2>2. \E value : Answer(u, value) /\ value.kind # "envelope"
    BY <1>5, <1>8, <2>1 DEF PageItems
  <2> QED
    BY <1>2, <2>2
<1>9. ASSUME NEW u \in Tasks, NEW handle, ReleaseTool(u, handle) PROVE reply'[t] = reply[t]
  BY <1>2, <1>9 DEF ReleaseTool
<1>10. (\E u \in Tasks : CacheLarge(u)) \/ Panic \/ UNCHANGED vars => reply' = reply
  BY DEF CacheLarge, Panic, vars
<1> QED
  BY <1>3, <1>4, <1>6, <1>7, <1>8, <1>9, <1>10 DEF Next

LEMMA FirstPages == Spec => []EnvelopesShowFirst
<1>1. Init => EnvelopesShowFirst
  BY DEF Init, EnvelopesShowFirst
<1>2. BoundaryInv /\ StoringLarge /\ EnvelopesShowFirst /\ [Next]_vars => EnvelopesShowFirst'
  <2> SUFFICES ASSUME BoundaryInv, StoringLarge, EnvelopesShowFirst, [Next]_vars,
                      NEW t \in Tasks, reply'[t].kind = "envelope"
               PROVE  LET items == origin'[reply'[t].handle]
                      IN  /\ items \in OversizedArrays(Arrays, threshold_bytes)
                          /\ reply'[t].first_page = SubSeq(items, 1, Lesser(page_size, Len(items)))
    BY DEF EnvelopesShowFirst
  <2>1. Grows
    BY BoundaryStepInv
  <2>2. CASE reply'[t] = reply[t]
    <3>1. reply[t].handle \in DOMAIN origin
      BY <2>2 DEF BoundaryInv, EnvelopesFaithful
    <3>2. origin'[reply[t].handle] = origin[reply[t].handle]
      BY <2>1, <3>1 DEF Grows
    <3> QED
      BY <2>2, <3>2 DEF EnvelopesShowFirst
  <2>3. CASE ReturnEnvelope(t)
    <3>1. PICK entry \in storing[t] :
            Insert(t, entry) /\ Answer(t, Envelope(entry.handle, entry.items, page_size))
      BY <2>3 DEF ReturnEnvelope
    <3>2. entry.items \in OversizedArrays(Arrays, threshold_bytes)
      BY DEF StoringLarge
    <3>3. origin'[entry.handle] = entry.items
      BY <3>1 DEF Insert, Put
    <3>4. reply'[t] = Envelope(entry.handle, entry.items, page_size)
      BY <3>1 DEF Answer, BoundaryInv, BoundaryTypeOK
    <3>5. /\ Envelope(entry.handle, entry.items, page_size).handle = entry.handle
          /\ Envelope(entry.handle, entry.items, page_size).first_page
               = SubSeq(entry.items, 1, Lesser(page_size, Len(entry.items)))
      BY DEF Envelope
    <3> QED
      BY <3>2, <3>3, <3>4, <3>5
  <2> QED
    BY <2>2, <2>3, NewEnvelope
<1> QED
  BY <1>1, <1>2, BoundaryInductive, LargeOnly, PTL DEF Spec

(* The bound on what reaches the model is page_size and not the threshold: an *)
(* oversized array is shown whole exactly when it has no more than page_size  *)
(* items, however large these are (result_cache.rs:208-225).                  *)
WholeExactlyWhenShort ==
    \A t \in Tasks : reply[t].kind = "envelope" =>
        LET items == origin[reply[t].handle]
        IN  reply[t].first_page = items <=> Len(items) <= page_size

(* So it is for every behaviour of the boundary. *)
THEOREM OnlyShortArraysWhole == Spec => []WholeExactlyWhenShort
<1>1. BoundaryInv /\ EnvelopesShowFirst => WholeExactlyWhenShort
  <2> SUFFICES ASSUME BoundaryInv, EnvelopesShowFirst,
                      NEW t \in Tasks, reply[t].kind = "envelope"
               PROVE  reply[t].first_page = origin[reply[t].handle]
                        <=> Len(origin[reply[t].handle]) <= page_size
    BY DEF WholeExactlyWhenShort
  <2> DEFINE items == origin[reply[t].handle]
  <2>1. /\ items \in Seq(Item) /\ Len(items) \in Nat /\ page_size \in Nat
        /\ reply[t].first_page = SubSeq(items, 1, Lesser(page_size, Len(items)))
    <3>1. IndInv /\ reply[t].handle \in DOMAIN origin
      BY DEF BoundaryInv, EnvelopesFaithful
    <3>2. items \in Seq(Item) /\ Len(items) \in Usize
      BY <3>1, ArrayFacts
    <3> QED
      BY <3>2, BoundaryAssumption, PagingAssumption DEF EnvelopesShowFirst, Usize
  <2> HIDE DEF items
  <2>2. CASE Len(items) <= page_size
    BY <2>1, <2>2 DEF Lesser, items
  <2>3. CASE ~ (Len(items) <= page_size)
    <3>1. Len(SubSeq(items, 1, page_size)) = page_size
      BY <2>1, <2>3
    <3>2. Lesser(page_size, Len(items)) = page_size
      BY <2>1, <2>3 DEF Lesser
    <3> QED
      BY <2>1, <2>3, <3>1, <3>2 DEF items
  <2> QED
    BY <2>2, <2>3
<1> QED
  BY <1>1, BoundaryInductive, FirstPages, PTL

-------------------------------------------------------------------------------
(* The refinement.  A handle is live from its insert to its release or the   *)
(* poisoning of the map; the steps that only draw a handle or only read the  *)
(* length change nothing of that.                                            *)
liveMap == IF poisoned THEN EmptyMap ELSE inner

goneSet == DOMAIN origin \ Live

(* The operators PagedResults builds answers with are those of the boundary. *)
LEMMA SameAnswers ==
    ASSUME NEW x, NEW y, NEW z
    PROVE  /\ Promise!Envelope(x, y, z) = Envelope(x, y, z)
           /\ Promise!PageReply(x, y, z) = PageReply(x, y, z)
           /\ Promise!PageSlice(x, y, z) = PageSlice(x, y, z)
           /\ Promise!Put(x, y, z) = Put(x, y, z)
<1>1. Promise!Envelope(x, y, z) = Envelope(x, y, z)
  BY DEF Promise!Envelope, Envelope, Promise!Lesser, Lesser, Promise!SaturatingSub,
     SaturatingSub, Promise!PageToken, PageToken, Promise!Bare, Bare
<1>2. Promise!PageReply(x, y, z) = PageReply(x, y, z)
  BY DEF Promise!PageReply, PageReply, Promise!Lesser, Lesser, Promise!SaturatingAdd,
     SaturatingAdd, Promise!TokenIfMore, TokenIfMore, Promise!PageToken, PageToken,
     Promise!Bare, Bare
<1>3. Promise!PageSlice(x, y, z) = PageSlice(x, y, z)
  BY DEF Promise!PageSlice, PageSlice, Promise!Lesser, Lesser, Promise!SaturatingAdd,
     SaturatingAdd
<1>4. Promise!Put(x, y, z) = Put(x, y, z)
  BY DEF Promise!Put, Put
<1> QED
  BY <1>1, <1>2, <1>3, <1>4

LEMMA SameRequests ==
    ASSUME NEW args
    PROVE  /\ Promise!BadArgs(args) <=> BadArgs(args)
           /\ Promise!PageRequest(args) = PageRequest(args)
           /\ Promise!Handle(args) = Handle(args)
           /\ Promise!Error(args) = Error(args)
           /\ Promise!EmptyMap = EmptyMap
<1>1. Promise!BadArgs(args) <=> BadArgs(args)
  BY DEF Promise!BadArgs, BadArgs, Promise!IsPageToken, IsPageToken, Promise!Usize, Usize,
     Promise!Bare, Bare, Promise!Last, Last, Promise!AsStr, AsStr,
     Promise!NotAString, NotAString
<1>2. Promise!PageRequest(args) = PageRequest(args)
  BY DEF Promise!PageRequest, PageRequest, Promise!UnwrapOr, UnwrapOr,
     Promise!TokenHandle, TokenHandle, Promise!TokenOffset, TokenOffset,
     Promise!Front, Front, Promise!Last, Last, Promise!DefaultLimit, DefaultLimit,
     Promise!AsStr, AsStr, Promise!NotAString, NotAString
<1>3. Promise!Handle(args) = Handle(args) /\ Promise!Error(args) = Error(args)
  BY DEF Promise!Handle, Handle, Promise!Error, Error
<1>4. Promise!EmptyMap = EmptyMap
  BY DEF Promise!EmptyMap, EmptyMap
<1> QED
  BY <1>1, <1>2, <1>3, <1>4

LEMMA LiveMapFacts ==
    ASSUME IndInv
    PROVE  DOMAIN liveMap = Live /\ Live \subseteq DOMAIN origin
  BY LiveFacts DEF liveMap, Live, EmptyMap

LEMMA RefineKeep ==
    ASSUME IndInv, StoringLarge, NEW t \in Tasks, ReturnEnvelope(t)
    PROVE  Promise!Keep(t)
<1>1. PICK entry \in storing[t] :
        /\ Insert(t, entry)
        /\ Answer(t, Envelope(entry.handle, entry.items, page_size))
  BY DEF ReturnEnvelope
<1>2. /\ inner' = IF poisoned THEN inner ELSE Put(inner, entry.handle, entry.items)
      /\ origin' = Put(origin, entry.handle, entry.items)
      /\ poisoned' = poisoned
  BY <1>1 DEF Insert
<1>3. entry.items \in OversizedArrays(Arrays, threshold_bytes)
  BY DEF StoringLarge
<1>4. PICK id \in 0 .. IdSpace - 1 : entry.handle = Handle(id)
  <2>1. PICK id \in Nat : id < stores /\ entry.handle = Handle(id)
    BY DEF IndInv, DrawnInOrder, IsDrawn
  <2>2. stores \in Nat /\ stores <= IdSpace /\ IdSpace \in Nat
    BY CacheAssumption, NoWrapAssumption DEF IndInv, TypeOK
  <2> QED
    BY <2>1, <2>2
<1>5. Handle(id) \notin DOMAIN origin
  BY <1>4 DEF IndInv, HandlesUnique
<1>6. DOMAIN liveMap = Live /\ Live \subseteq DOMAIN origin
  BY LiveMapFacts
<1>7. Handle(id) \notin DOMAIN liveMap \cup goneSet
  BY <1>5, <1>6 DEF goneSet
<1>8. liveMap' = IF poisoned THEN liveMap ELSE Put(liveMap, Handle(id), entry.items)
  BY <1>2, <1>4 DEF liveMap
<1>9. goneSet' = IF poisoned THEN goneSet \cup {Handle(id)} ELSE goneSet
  BY <1>2, <1>4, <1>5, <1>6 DEF goneSet, Live, Put
<1>10. /\ Promise!Handle(id) = Handle(id)
       /\ Promise!Put(liveMap, Handle(id), entry.items) = Put(liveMap, Handle(id), entry.items)
       /\ Promise!Envelope(Handle(id), entry.items, page_size)
            = Envelope(Handle(id), entry.items, page_size)
  BY SameAnswers, SameRequests
<1>11. reply' = [reply EXCEPT ![t] = Envelope(Handle(id), entry.items, page_size)]
  BY <1>1, <1>4 DEF Answer
<1> QED
  BY <1>2, <1>3, <1>7, <1>8, <1>9, <1>10, <1>11
     DEF Promise!Keep, Promise!Answer, liveMap, goneSet

LEMMA RefineRelease ==
    ASSUME IndInv, NEW t \in Tasks, NEW handle \in Names, ReleaseTool(t, handle)
    PROVE  Promise!End(t)
<1>1. /\ inner' = IF poisoned THEN inner ELSE Drop(inner, handle)
      /\ UNCHANGED <<poisoned, origin>>
      /\ Answer(t, [kind |-> "release", handle |-> handle, released |-> handle \in Live])
  BY DEF ReleaseTool, Release
<1>2. DOMAIN liveMap = Live /\ Live \subseteq DOMAIN origin
  BY LiveMapFacts
<1>3. liveMap' = Promise!Drop(liveMap, handle)
  BY <1>1 DEF liveMap, Drop, Promise!Drop, EmptyMap
<1>4. goneSet' = goneSet \cup (DOMAIN liveMap \cap {handle})
  BY <1>1, <1>2 DEF goneSet, Live, Drop
<1> QED
  BY <1>1, <1>2, <1>3, <1>4 DEF Promise!End, Promise!Answer, Answer, liveMap, goneSet

LEMMA RefinePageItems ==
    ASSUME BoundaryInv, NEW t \in Tasks, PageItems(t)
    PROVE  Promise!ServePage(t)
<1>1. PICK call \in paging[t] :
        /\ IF Page(call.request.handle, call.request.offset, call.request.limit) = {}
             THEN Answer(t, Error("unknown handle"))
             ELSE \E page \in Page(call.request.handle, call.request.offset,
                                   call.request.limit) :
                    Answer(t, PageReply(call.request, call.total, page))
        /\ UNCHANGED cacheVars
  BY DEF PageItems
<1>2. PICK args \in Requests : ~ BadArgs(args) /\ call.request = PageRequest(args)
  BY DEF BoundaryInv, BoundaryTypeOK, GoodRequests
<1> DEFINE request == call.request
           slice   == PageSlice(liveMap[request.handle], request.offset, request.limit)
<1>3. DOMAIN liveMap = Live
  BY LiveMapFacts DEF BoundaryInv
<1>4. request.handle \in Live =>
        /\ Answer(t, PageReply(request, call.total, slice))
        /\ call.total = Len(liveMap[request.handle])
  <2> SUFFICES ASSUME request.handle \in Live
               PROVE  /\ Answer(t, PageReply(request, call.total, slice))
                      /\ call.total = Len(liveMap[request.handle])
    OBVIOUS
  <2>1. liveMap = inner
    BY DEF liveMap, Live
  <2>2. Page(request.handle, request.offset, request.limit) = {slice}
    BY <2>1 DEF Page
  <2>3. call.total = Len(origin[request.handle])
    BY DEF BoundaryInv, CallsInformed
  <2>4. inner[request.handle] = origin[request.handle]
    BY LiveFacts DEF BoundaryInv
  <2> QED
    BY <1>1, <2>1, <2>2, <2>3, <2>4
<1>5. request.handle \notin Live => Answer(t, Error("unknown handle"))
  BY <1>1 DEF Page
<1>6. Answer(t, IF request.handle \in DOMAIN liveMap
                  THEN PageReply(request, Len(liveMap[request.handle]), slice)
                  ELSE Error("unknown handle"))
  BY <1>3, <1>4, <1>5
<1>7. UNCHANGED <<liveMap, goneSet, poisoned>>
  BY <1>1 DEF cacheVars, liveMap, goneSet, Live
<1>8. Promise!Answer(t, IF Promise!PageRequest(args).handle \in DOMAIN liveMap
                  THEN Promise!PageReply(Promise!PageRequest(args),
                         Len(liveMap[Promise!PageRequest(args).handle]),
                         Promise!PageSlice(liveMap[Promise!PageRequest(args).handle],
                           Promise!PageRequest(args).offset, Promise!PageRequest(args).limit))
                  ELSE Promise!Error("unknown handle"))
  <2>1. Promise!PageRequest(args) = request /\ Promise!Error("unknown handle") = Error("unknown handle")
    BY <1>2, SameRequests
  <2>2. Promise!PageSlice(liveMap[request.handle], request.offset, request.limit) = slice
    BY SameAnswers
  <2>3. Promise!PageReply(request, Len(liveMap[request.handle]), slice)
          = PageReply(request, Len(liveMap[request.handle]), slice)
    BY SameAnswers
  <2> HIDE DEF slice, request
  <2> QED
    BY <1>6, <2>1, <2>2, <2>3 DEF Promise!Answer, Answer
<1>9. ~ Promise!BadArgs(args)
  BY <1>2, SameRequests
<1> QED
  BY <1>7, <1>8, <1>9, Zenon DEF Promise!ServePage, liveMap, goneSet

LEMMA RefinePageLen ==
    ASSUME BoundaryInv, NEW t \in Tasks, NEW args \in Requests, PageLen(t, args)
    PROVE  Promise!ServePage(t) \/ UNCHANGED <<liveMap, goneSet, poisoned, reply>>
<1> DEFINE request == PageRequest(args)
<1>1. /\ ~ BadArgs(args)
      /\ IF CachedLen(request.handle) = {}
           THEN Answer(t, Error("unknown handle")) ELSE UNCHANGED reply
      /\ UNCHANGED cacheVars
  BY DEF PageLen
<1>2. DOMAIN liveMap = Live
  BY LiveMapFacts DEF BoundaryInv
<1>3. UNCHANGED <<liveMap, goneSet, poisoned>>
  BY <1>1 DEF cacheVars, liveMap, goneSet, Live
<1>4. CASE CachedLen(request.handle) = {}
  <2>1. request.handle \notin DOMAIN liveMap
    BY <1>2, <1>4 DEF CachedLen
  <2>2. Answer(t, Error("unknown handle"))
    BY <1>1, <1>4
  <2> QED
    BY <1>1, <1>3, <2>1, <2>2, SameRequests
       DEF Promise!ServePage, Promise!Answer, Answer, liveMap, goneSet
<1>5. CASE CachedLen(request.handle) # {}
  BY <1>1, <1>3, <1>5
<1> QED
  BY <1>4, <1>5

LEMMA RefinePanic ==
    ASSUME IndInv, Panic
    PROVE  Promise!Break
<1>1. poisoned' = TRUE /\ origin' = origin /\ reply' = reply
  BY DEF Panic, Poison
<1>2. DOMAIN liveMap = Live /\ Live \subseteq DOMAIN origin
  BY LiveMapFacts
<1>3. liveMap' = EmptyMap
  BY <1>1 DEF liveMap
<1>4. goneSet' = goneSet \cup DOMAIN liveMap
  BY <1>1, <1>2 DEF goneSet, Live
<1> QED
  BY <1>1, <1>3, <1>4, SameRequests DEF Promise!Break, liveMap, goneSet

LEMMA RefineStep ==
    BoundaryInv /\ StoringLarge /\ [Next]_vars
      => [Promise!Next]_<<liveMap, goneSet, poisoned, reply>>
<1> SUFFICES ASSUME BoundaryInv, StoringLarge, [Next]_vars
             PROVE  [Promise!Next]_<<liveMap, goneSet, poisoned, reply>>
  OBVIOUS
<1>0. IndInv
  BY DEF BoundaryInv
<1>1. ASSUME NEW t \in Tasks, PassThrough(t) PROVE Promise!Pass(t)
  BY <1>1 DEF PassThrough, Promise!Pass, Answer, Promise!Answer, cacheVars, Live
<1>2. ASSUME NEW t \in Tasks, CacheLarge(t)
      PROVE  UNCHANGED <<liveMap, goneSet, poisoned, reply>>
  BY <1>2 DEF CacheLarge, FreshHandle, liveMap, goneSet, Live
<1>3. ASSUME NEW t \in Tasks, RefuseArgs(t) PROVE Promise!Reject(t)
  BY <1>3, SameRequests
     DEF RefuseArgs, Promise!Reject, Answer, Promise!Answer, cacheVars, Live
<1>4. CASE UNCHANGED vars
  BY <1>4 DEF vars, cacheVars, liveMap, goneSet, Live
<1>5. ASSUME NEW t \in Tasks,
             \/ PassThrough(t) \/ ReturnEnvelope(t) \/ RefuseArgs(t) \/ PageItems(t)
             \/ \E handle \in Names : ReleaseTool(t, handle)
      PROVE  Promise!Next
  <2>1. CASE PassThrough(t) \/ RefuseArgs(t)
    BY <1>1, <1>3, <2>1 DEF Promise!Next
  <2>2. CASE ReturnEnvelope(t)
    BY <1>0, <2>2, RefineKeep DEF Promise!Next
  <2>3. CASE PageItems(t)
    BY <2>3, RefinePageItems DEF Promise!Next
  <2>4. CASE \E handle \in Names : ReleaseTool(t, handle)
    BY <1>0, <2>4, RefineRelease DEF Promise!Next
  <2> QED
    BY <1>5, <2>1, <2>2, <2>3, <2>4
<1>6. ASSUME NEW t \in Tasks, NEW args \in Requests, PageLen(t, args)
      PROVE  Promise!Next \/ UNCHANGED <<liveMap, goneSet, poisoned, reply>>
  BY <1>6, RefinePageLen DEF Promise!Next
<1>7. CASE Panic
  BY <1>0, <1>7, RefinePanic DEF Promise!Next
<1> QED
  BY <1>2, <1>4, <1>5, <1>6, <1>7 DEF Next

(* Every behaviour of the boundary is one of the atomic store, for all       *)
(* constants: the two critical sections of a store and of a page call, in    *)
(* any interleaving, cannot be told from single steps by any caller          *)
(* (cache_tools.rs:111-119, 200-233; result_cache.rs:146-179).               *)
THEOREM Refinement == Spec => ImplementsPagedResults
<1>1. Init => Promise!Init
  BY SameRequests DEF Init, CacheInit, Promise!Init, Promise!EmptyMap, EmptyMap, Live
<1>2. BoundaryInv /\ StoringLarge /\ [Next]_vars => [Promise!Next]_Promise!absVars
  BY RefineStep DEF Promise!absVars, liveMap, goneSet
<1> QED
  BY <1>1, <1>2, BoundaryInductive, LargeOnly, PTL
     DEF Spec, ImplementsPagedResults, Promise!Spec
===============================================================================
