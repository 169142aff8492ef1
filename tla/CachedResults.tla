---------------------------- MODULE CachedResults ----------------------------
(***************************************************************************)
(* The model boundary of cache_tools.rs over one shared MemoryResultCache: *)
(* CachedResultsTransport::call_tool, which replaces an oversized array by *)
(* an envelope, and the tools cache.page and cache.release, called by      *)
(* concurrent tasks in any order, with any handle (handles are guessable). *)
(*                                                                         *)
(* call_tool awaits the wrapped transport and is synchronous after it, so  *)
(* the call itself does not touch the cache and is one action at the point *)
(* where the wrapped call returns.  From there on only the mutexes divide  *)
(* a tool call into steps: cache_if_large has the two sections of store,   *)
(* and page_cached_result one for len and one for page.                    *)
(***************************************************************************)
EXTENDS ResultCache

CONSTANTS
    Requests,           \* the arguments callers send to cache.page
    threshold_bytes,    \* CachedResultsConfig
    page_size

ASSUME BoundaryAssumption ==
    /\ Requests \subseteq PageArgs
    /\ threshold_bytes \in Usize
    /\ page_size \in Usize

VARIABLES
    paging,     \* paging[t]: {} or the {[request, total]} of a page call past len
    reply       \* reply[t]: the answer to t's last tool call

vars == <<cacheVars, paging, reply>>

-------------------------------------------------------------------------------
Idle(t) == storing[t] = {} /\ paging[t] = {}

Answer(t, value) == reply' = [reply EXCEPT ![t] = value]

Init ==
    /\ CacheInit
    /\ paging = [t \in Tasks |-> {}]
    /\ reply = [t \in Tasks |-> [kind |-> "none"]]

(* The wrapped call returns something that goes to the caller unchanged. *)
PassThrough(t) ==
    /\ Idle(t)
    /\ \E result \in SmallResults(Arrays, threshold_bytes) : Answer(t, result)
    /\ UNCHANGED <<cacheVars, paging>>

(* It returns an oversized array: cache_if_large up to the end of the first *)
(* section of store.                                                        *)
CacheLarge(t) ==
    /\ Idle(t)
    /\ \E items \in OversizedArrays(Arrays, threshold_bytes) : FreshHandle(t, items)
    /\ UNCHANGED <<paging, reply>>

(* The second section, and the envelope. *)
ReturnEnvelope(t) ==
    /\ \E entry \in storing[t] :
          /\ Insert(t, entry)
          /\ Answer(t, Envelope(entry.handle, entry.items, page_size))
    /\ UNCHANGED paging

(* cache.page with arguments that from_args refuses, or cache.release without *)
(* a handle.                                                                  *)
RefuseArgs(t) ==
    /\ Idle(t)
    /\ Answer(t, Error("bad arguments"))
    /\ UNCHANGED <<cacheVars, paging>>

(* page_cached_result up to cache.len, which fails or yields the total. *)
PageLen(t, args) ==
    LET request == PageRequest(args)
        total   == CachedLen(request.handle)
    IN  /\ Idle(t)
        /\ ~ BadArgs(args)
        /\ paging' = [paging EXCEPT ![t] =
                        {[request |-> request, total |-> n] : n \in total}]
        /\ IF total = {} THEN Answer(t, Error("unknown handle")) ELSE UNCHANGED reply
        /\ UNCHANGED cacheVars

(* Mutant of PageItems: serves the array len saw, released since or not. *)
PageItemsFromCopy(t) ==
    \E call \in paging[t] :
        LET request == call.request
            items   == PageSlice(origin[request.handle], request.offset, request.limit)
        IN  /\ Answer(t, PageReply(request, call.total, items))
            /\ paging' = [paging EXCEPT ![t] = {}]
            /\ UNCHANGED cacheVars

(* The rest of it: cache.page, which fails if the handle went away since. *)
PageItems(t) ==
    \E call \in paging[t] :
        LET request == call.request
            items   == Page(request.handle, request.offset, request.limit)
        IN  /\ IF items = {}
                 THEN Answer(t, Error("unknown handle"))
                 ELSE \E page \in items : Answer(t, PageReply(request, call.total, page))
            /\ paging' = [paging EXCEPT ![t] = {}]
            /\ UNCHANGED cacheVars

(* release_cached_result. *)
ReleaseTool(t, handle) ==
    /\ Idle(t)
    /\ Release(handle)
    /\ Answer(t, [kind |-> "release", handle |-> handle, released |-> handle \in Live])
    /\ UNCHANGED paging

Panic == Poison /\ UNCHANGED <<paging, reply>>

Next ==
    \/ \E t \in Tasks :
          \/ PassThrough(t)
          \/ CacheLarge(t)
          \/ ReturnEnvelope(t)
          \/ RefuseArgs(t)
          \/ \E args \in Requests : PageLen(t, args)
          \/ PageItems(t)
          \/ \E handle \in Names : ReleaseTool(t, handle)
    \/ Panic

Spec == Init /\ [][Next]_vars

-------------------------------------------------------------------------------
(* What a paging task holds between its two sections: a good request, and the *)
(* length len reported.                                                       *)
GoodRequests == {PageRequest(args) : args \in {a \in Requests : ~ BadArgs(a)}}

BoundaryTypeOK ==
    /\ TypeOK
    /\ paging \in [Tasks -> SUBSET [request : GoodRequests, total : Nat]]
    /\ reply = [t \in Tasks |-> reply[t]]
    /\ \A t \in Tasks : storing[t] = {} \/ paging[t] = {}

(* A page reply against the array its handle was given out for. *)
PageFaithful(page, items) ==
    LET next == Lesser(page.offset, Len(items)) + Len(page.items)
    IN  /\ page.total_items = Len(items)
        /\ page.items = PageSlice(items, page.offset, page.limit)
        /\ page.next_page_token = {} <=> next = Len(items)
        /\ \A token \in page.next_page_token :
             IsPageToken(token) /\ TokenHandle(token) = page.handle
                                /\ TokenOffset(token) = next

(* Every page served is a slice of the array its handle was given out for and *)
(* says so truthfully, although total_items and items are read under two      *)
(* acquisitions of the mutex with anything in between; its token, if any,     *)
(* names the same handle and the first item not served yet, and there is a    *)
(* token exactly when an item is left (cache_tools.rs:200-224).               *)
PagesFaithful ==
    \A t \in Tasks : reply[t].kind = "page" =>
        /\ reply[t].handle \in DOMAIN origin
        /\ PageFaithful(reply[t], origin[reply[t].handle])

EnvelopeFaithful(envelope, items) ==
    /\ envelope.total_items = Len(envelope.first_page) + envelope.omitted_items
    /\ envelope.truncated <=> envelope.page_token # {}
    /\ envelope.page_token = {} => items = envelope.first_page
    /\ \A token \in envelope.page_token :
         /\ IsPageToken(token)
         /\ TokenHandle(token) = envelope.handle
         /\ items = envelope.first_page \o PageSlice(items, TokenOffset(token), MaxUsize)

(* An envelope belongs to one call alone, also when calls overlap between the *)
(* sections of store, and what it shows and what its token leads to make up   *)
(* the whole result (result_cache.rs:52-79, 208-225).                         *)
EnvelopesFaithful ==
    \A t \in Tasks : reply[t].kind = "envelope" =>
        /\ reply[t].handle \in DOMAIN origin
        /\ EnvelopeFaithful(reply[t], origin[reply[t].handle])
        /\ \A u \in Tasks \ {t} :
             reply[u].kind = "envelope" => reply[u].handle # reply[t].handle

(* An array over the threshold never reaches the model whole: "large tool     *)
(* results don't belong in the model window" (result_cache.rs:3-4), and "large *)
(* tool outputs never enter a model window unbounded" (ROADMAP.md:76).        *)
OversizedNeverWhole ==
    \A t \in Tasks : reply[t].kind = "envelope" =>
        reply[t].first_page # origin[reply[t].handle]

-------------------------------------------------------------------------------
(* The detailed boundary implements the atomic one: a handle is live from the *)
(* insert on, and a call takes effect at its last step.                       *)
Promise == INSTANCE PagedResults WITH
    SmallReplies <- SmallResults(Arrays, threshold_bytes),
    LargeArrays <- OversizedArrays(Arrays, threshold_bytes),
    live   <- IF poisoned THEN EmptyMap ELSE inner,
    gone   <- DOMAIN origin \ Live,
    broken <- poisoned

(* Whatever the interleaving of the two sections of store and of the page     *)
(* tool with releases, every answer is one the atomic boundary could give:    *)
(* never a page of a handle released before the answer, never a handle twice, *)
(* never two successful releases.                                             *)
ImplementsPagedResults == Promise!Spec
===============================================================================
