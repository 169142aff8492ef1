----------------------------- MODULE PagedResults -----------------------------
(***************************************************************************)
(* What the cached-results boundary promises its callers, with every tool  *)
(* call atomic: a call that returns an oversized array keeps the array     *)
(* under a handle that was never used before and answers with its          *)
(* envelope; cache.page answers with a slice of that very array for as     *)
(* long as the handle is live; cache.release ends it, once.                *)
(***************************************************************************)
EXTENDS Paging

CONSTANTS
    Tasks,              \* the tasks that call tools
    SmallReplies,       \* what calls of wrapped tools answer unchanged
    LargeArrays,        \* the results too large to answer with
    Names,              \* the handle texts callers send
    Requests,           \* the arguments callers send to cache.page
    IdSpace,            \* how many handles there are
    page_size           \* CachedResultsConfig::page_size

VARIABLES
    live,       \* handle -> items that can be paged
    gone,       \* handles that were live once, or never came to be
    broken,     \* whether the cache has failed for good
    reply       \* reply[t]: the answer to t's last tool call

absVars == <<live, gone, broken, reply>>

-------------------------------------------------------------------------------
Init ==
    /\ live = EmptyMap
    /\ gone = {}
    /\ broken = FALSE
    /\ reply = [t \in Tasks |-> [kind |-> "none"]]

Answer(t, value) == reply' = [reply EXCEPT ![t] = value]

(* Errors, small arrays and other values pass unchanged. *)
Pass(t) ==
    /\ \E result \in SmallReplies : Answer(t, result)
    /\ UNCHANGED <<live, gone, broken>>

Keep(t) ==
    \E items \in LargeArrays, id \in 0 .. IdSpace - 1 :
        /\ Handle(id) \notin DOMAIN live \cup gone
        /\ live' = IF broken THEN live ELSE Put(live, Handle(id), items)
        /\ gone' = IF broken THEN gone \cup {Handle(id)} ELSE gone
        /\ Answer(t, Envelope(Handle(id), items, page_size))
        /\ UNCHANGED broken

Reject(t) ==
    /\ Answer(t, Error("bad arguments"))
    /\ UNCHANGED <<live, gone, broken>>

ServePage(t) ==
    /\ \E args \in Requests :
          LET request == PageRequest(args)
          IN  /\ ~ BadArgs(args)
              /\ Answer(t,
                   IF request.handle \in DOMAIN live
                     THEN PageReply(request, Len(live[request.handle]),
                            PageSlice(live[request.handle],
                                      request.offset, request.limit))
                     ELSE Error("unknown handle"))
    /\ UNCHANGED <<live, gone, broken>>

End(t) ==
    \E handle \in Names :
        /\ live' = Drop(live, handle)
        /\ gone' = gone \cup (DOMAIN live \cap {handle})
        /\ Answer(t, [kind |-> "release", handle |-> handle,
                      released |-> handle \in DOMAIN live])
        /\ UNCHANGED broken

(* The cache fails for good: from now on every handle is unknown. *)
Break ==
    /\ broken' = TRUE
    /\ live' = EmptyMap
    /\ gone' = gone \cup DOMAIN live
    /\ UNCHANGED reply

Next ==
    \/ \E t \in Tasks : Pass(t) \/ Keep(t) \/ Reject(t) \/ ServePage(t) \/ End(t)
    \/ Break

Spec == Init /\ [][Next]_absVars
===============================================================================
