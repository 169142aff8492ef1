----------------------------- MODULE PagingClient -----------------------------
(***************************************************************************)
(* The callers the boundary is made for: each calls a tool, follows the    *)
(* page tokens of the answer to the end and releases the handle, as the    *)
(* test cache_tools_page_and_release_handles does with one page            *)
(* (cache_tools.rs:387-422).  Several do so at once over one cache.  A     *)
(* caller may also send the null token of the last answer back together    *)
(* with the handle, which starts at the first item again, or give up half  *)
(* way and forget its handle: the cache has no eviction, so the entry      *)
(* stays.                                                                  *)
(***************************************************************************)
EXTENDS CachedResults

CONSTANTS
    ClientLimits,   \* what clients pass as limit: {} for none, or {n}
    MaxRereads      \* bound: at most this many times a client starts again

CacheHandles == {Handle(id) : id \in 0 .. IdSpace - 1}

ByToken(token, limit) ==
    [page_token |-> {token}, handle |-> {}, offset |-> {}, limit |-> limit]

(* The null token of a last page, sent back with the handle next to it. *)
ByNullToken(handle, limit) ==
    [page_token |-> {NotAString}, handle |-> {handle}, offset |-> {}, limit |-> limit]

ClientRequests ==
    {ByToken(PageToken(handle, offset), limit) :
        handle \in CacheHandles, offset \in Usize, limit \in ClientLimits}
      \cup {ByNullToken(handle, limit) : handle \in CacheHandles, limit \in ClientLimits}

(* What clients send is among what is sent at the boundary. *)
ASSUME ClientAssumption ==
    /\ ClientLimits \subseteq SUBSET Usize
    /\ MaxRereads \in Nat
    /\ ClientRequests \subseteq Requests
    /\ CacheHandles \subseteq Names

VARIABLES
    got,        \* got[t]: the items t has read of its current result
    forgotten,  \* the handles given up by their client
    rereads     \* how many times a client started again

clientVars == <<vars, got, forgotten, rereads>>

-------------------------------------------------------------------------------
(* The token of an answer that has more to read. *)
NextToken(answer) ==
    IF answer.kind = "envelope" THEN answer.page_token ELSE answer.next_page_token

Reading(t) ==
    reply[t].kind \in {"envelope", "page"} /\ reply[t].handle \notin forgotten

ClientInit ==
    /\ Init
    /\ got = [t \in Tasks |-> << >>]
    /\ forgotten = {}
    /\ rereads = 0

(* Call a wrapped tool, once the previous result is done with. *)
Call(t) ==
    /\ ~ Reading(t)
    /\ PassThrough(t) \/ CacheLarge(t)
    /\ UNCHANGED <<got, forgotten, rereads>>

ReadEnvelope(t) ==
    /\ ReturnEnvelope(t)
    /\ got' = [got EXCEPT ![t] = reply'[t].first_page]
    /\ UNCHANGED <<forgotten, rereads>>

(* A call of cache.page, up to the end of its first section or its refusal. *)
CallPage(t, args) == PageLen(t, args) \/ (BadArgs(args) /\ RefuseArgs(t))

FollowToken(t) ==
    /\ Reading(t)
    /\ \E token \in NextToken(reply[t]), limit \in ClientLimits :
          CallPage(t, ByToken(token, limit))
    /\ UNCHANGED <<got, forgotten, rereads>>

(* At the end, send the null token back with the handle. *)
StartAgain(t) ==
    /\ Reading(t)
    /\ NextToken(reply[t]) = {}
    /\ rereads < MaxRereads
    /\ \E limit \in ClientLimits : CallPage(t, ByNullToken(reply[t].handle, limit))
    /\ rereads' = rereads + 1
    /\ got' = [got EXCEPT ![t] = << >>]
    /\ UNCHANGED forgotten

ReadPage(t) ==
    /\ PageItems(t)
    /\ got' = IF reply'[t].kind = "page"
                THEN [got EXCEPT ![t] = @ \o reply'[t].items] ELSE got
    /\ UNCHANGED <<forgotten, rereads>>

ReleaseWhenRead(t) ==
    /\ Reading(t)
    /\ NextToken(reply[t]) = {}
    /\ ReleaseTool(t, reply[t].handle)
    /\ UNCHANGED <<got, forgotten, rereads>>

(* The client makes no further call for this result; the cache is not told. *)
Forget(t) ==
    /\ Reading(t) /\ Idle(t)
    /\ forgotten' = forgotten \cup {reply[t].handle}
    /\ UNCHANGED <<vars, got, rereads>>

(* What a client that has begun to read does next, unless it gives up. *)
Continue(t) ==
    ReadEnvelope(t) \/ FollowToken(t) \/ ReadPage(t) \/ ReleaseWhenRead(t)

ClientNext ==
    \/ \E t \in Tasks :
          \/ Call(t)
          \/ ReadEnvelope(t)
          \/ FollowToken(t)
          \/ StartAgain(t)
          \/ ReadPage(t)
          \/ ReleaseWhenRead(t)
          \/ Forget(t)
    \/ Panic /\ UNCHANGED <<got, forgotten, rereads>>

(* Every critical section is finite and the runtime polls a task that can   *)
(* run, so a tool call ends; that its client then makes the next call is    *)
(* assumed of clients.                                                      *)
ClientFairness == \A t \in Tasks : WF_clientVars(Continue(t))

ClientSpec == ClientInit /\ [][ClientNext]_clientVars /\ ClientFairness

-------------------------------------------------------------------------------
(* At every answer a client has read a prefix of its own array, the next token *)
(* starts right after it, and a client that is told there is no more has read  *)
(* everything exactly once, whatever limits it chose and whatever the other    *)
(* clients stored and released in between, also when it reads the array again  *)
(* (result_cache.rs:52-60, cache_tools.rs:285-288).                            *)
ReadsEverythingOnce ==
    \A t \in Tasks : Reading(t) /\ Idle(t) =>
        LET items == origin[reply[t].handle]
        IN  /\ got[t] = SubSeq(items, 1, Len(got[t]))
            /\ NextToken(reply[t]) = {} => got[t] = items
            /\ \A token \in NextToken(reply[t]) : TokenOffset(token) = Len(got[t])

(* No client loses its handle to another one: as long as the map is not       *)
(* poisoned, a client that reads gets no error from cache.page, and its       *)
(* release is the one that succeeds.                                          *)
OwnHandleOnly ==
    \A t \in Tasks : ~ poisoned =>
        /\ reply[t].kind = "release" => reply[t].released
        /\ reply[t].kind = "error" => reply[t].error = "wrapped tool"

(* A client that reads finishes: it releases its handle, gives up, or is told *)
(* that the handle is unknown (in a poisoned cache).  The tokens cannot loop. *)
ReadersFinish == \A t \in Tasks : Reading(t) ~> ~ Reading(t)

(* A page for a limit of at least one item is never in vain: it brings the    *)
(* client further or is the last, so that only a client that keeps asking for *)
(* no items at all can follow tokens for ever (cache_tools.rs:212-214).       *)
PagesAdvance ==
    [][\A t \in Tasks :
          paging[t] # {} /\ paging'[t] = {} /\ reply'[t].kind = "page" /\ reply'[t].limit > 0
            => Len(got'[t]) > Len(got[t]) \/ NextToken(reply'[t]) = {}]_clientVars

(* Without a fault the cache holds an entry for ever only if its client gave  *)
(* it up: "memory bounds stay deterministic" (result_cache.rs:12-13).         *)
NothingLeaks ==
    \A id \in 0 .. IdSpace - 1 :
        (Handle(id) \in DOMAIN origin)
            ~> (poisoned \/ Handle(id) \in released \cup forgotten)

(* The page size in the envelope is "the page size the cache will use when    *)
(* serving subsequent pages" (result_cache.rs:67), "exposed in the first page *)
(* and default follow-up pages" (cache_tools.rs:25).                          *)
PageSizeHonoured ==
    \A t \in Tasks : reply[t].kind = "page" => Len(reply[t].items) <= page_size
===============================================================================
