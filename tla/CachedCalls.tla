------------------------------ MODULE CachedCalls ------------------------------
(***************************************************************************)
(* CachedResultsTransport over the transport it wraps, with the clients on *)
(* top: a wrapped call is itself a remote call, which takes its time, may  *)
(* fail or be given up by its caller, and answers in any order.            *)
(*                                                                         *)
(* The wrapped transport is any McpTransport that keeps the promise of     *)
(* RemoteCalls, as StdioSession does.  call_tool awaits it and runs on     *)
(* without another await, so the caller can be dropped while it waits for  *)
(* the result but not between the result and the envelope.                 *)
(***************************************************************************)
EXTENDS PagingClient

CONSTANTS
    Asks,       \* the calls that can be sent; list_tools is one of them
    Result,     \* Result[ask]: what the remote tool returns, as callers see it
    MaxCalls    \* bound: at most this many remote calls

Results == {Error("wrapped tool"), [kind |-> "other"]}
             \cup {[kind |-> "array", items |-> items] : items \in Arrays}

ASSUME CallsAssumption ==
    /\ Result \in [Asks -> Results]
    /\ MaxCalls \in Nat
    /\ MaxCalls <= MaxStores

VARIABLES
    open, call, calls, invoked, outcome,    \* the wrapped transport, see RemoteCalls
    source,     \* history, source[t]: {} or the {[id, ask]} that t's last answer is of
    kept,       \* history: handle -> the [id, ask] whose result it was drawn for
    abandoned,  \* history: the ids of the calls that failed or were given up
    due,        \* history, due[t]: {} or the {[id, ask]} t has not had in full yet
    whole       \* history, whole[t]: what came of t's last call, pages put together

transportVars == <<open, call, calls, invoked, outcome>>
accountVars == <<due, whole>>
historyVars == <<source, kept, abandoned, accountVars>>
callVars == <<clientVars, transportVars, historyVars>>

Transport == INSTANCE RemoteCalls WITH
    Promised <- Result,
    Refusal  <- Error("wrapped tool"),
    Outage   <- Error("wrapped tool"),
    answer   <- outcome

-------------------------------------------------------------------------------
(* What can be told of an error, whichever it is. *)
Failure == [kind |-> "error"]

InFull(result) == IF result.kind = "error" THEN Failure ELSE result

TimedOut == [kind |-> "timed out"]

(* Nothing more is due to t: this is what came of its call. *)
Settle(t, value) ==
    /\ due' = [due EXCEPT ![t] = {}]
    /\ whole' = [whole EXCEPT ![t] = value]

CallsInit ==
    /\ ClientInit
    /\ Transport!Init
    /\ source = [t \in Tasks |-> {}]
    /\ kept = EmptyMap
    /\ abandoned = {}
    /\ due = [t \in Tasks |-> {}]
    /\ whole = [t \in Tasks |-> [kind |-> "none"]]

(* A client calls a wrapped tool, once the previous result is done with; its *)
(* task waits for the wrapped transport.                                     *)
Ask(t, ask) ==
    /\ ~ Reading(t) /\ Idle(t)
    /\ Transport!Begin(t, ask)
    /\ due' = [due EXCEPT ![t] = call'[t]]
    /\ UNCHANGED <<clientVars, source, kept, abandoned, whole>>

(* What happens at the far end. *)
FarEnd ==
    /\ Transport!Open \/ Transport!Close \/ Transport!Invoke
    /\ UNCHANGED <<clientVars, historyVars>>

(* t is told this, unchanged. *)
Tell(t, result) ==
    /\ Answer(t, result)
    /\ UNCHANGED <<cacheVars, paging, got, forgotten, rereads>>

IsLarge(result) == result.kind = "array" /\ Oversized(result.items, threshold_bytes)

(* cache_if_large of this result, up to the end of the first section of store. *)
CacheIfLarge(t, result, c) ==
    IF IsLarge(result)
      THEN /\ FreshHandle(t, result.items)
           /\ kept' = Put(kept, Handle(next_id), c)
           /\ UNCHANGED <<paging, reply, got, forgotten, rereads, accountVars>>
      ELSE Tell(t, result) /\ Settle(t, InFull(result)) /\ UNCHANGED kept

(* Mutant of Return: takes the result the task had before it waited. *)
ReturnStale(t) ==
    \E c \in call[t] :
        /\ Transport!Return(t)
        /\ CacheIfLarge(t, outcome[t], c)
        /\ source' = [source EXCEPT ![t] = {c}]
        /\ UNCHANGED abandoned

(* The wrapped call returns, with its result or the tool's own error. *)
Return(t) ==
    \E c \in call[t] :
        /\ Transport!Return(t)
        /\ CacheIfLarge(t, outcome'[t], c)
        /\ source' = [source EXCEPT ![t] = {c}]
        /\ UNCHANGED abandoned

(* It fails, or is refused before it is sent: the ? of call_tool. *)
Fail(t) ==
    /\ ~ Reading(t) /\ Idle(t)
    /\ Transport!Fail({t}) \/ Transport!Refuse(t)
    /\ Tell(t, Error("wrapped tool"))
    /\ Settle(t, Failure)
    /\ source' = [source EXCEPT ![t] = {}]
    /\ abandoned' = abandoned \cup {c.id : c \in call[t]}
    /\ UNCHANGED kept

(* Mutant of GiveUp: the call runs on in a task of its own. *)
DetachOnGiveUp(t) ==
    /\ call[t] # {}
    /\ abandoned' = abandoned \cup {c.id : c \in call[t]}
    /\ Settle(t, TimedOut)
    /\ UNCHANGED <<clientVars, transportVars, source, kept>>

(* The caller drops the future while it waits, and has no answer. *)
GiveUp(t) ==
    /\ Transport!GiveUp(t)
    /\ abandoned' = abandoned \cup {c.id : c \in call[t]}
    /\ Settle(t, TimedOut)
    /\ UNCHANGED <<clientVars, source, kept>>

HasAll(t) == Reading(t) /\ Idle(t) /\ NextToken(reply[t]) = {}

(* What the client's step brings it of the result that is due to it: all that *)
(* was missing, an error, nothing more because it gives up, or only a part.   *)
Observe(t) ==
    IF due[t] = {} THEN UNCHANGED accountVars
    ELSE \/ HasAll(t)' /\ Settle(t, [kind |-> "array", items |-> got'[t]])
         \/ reply'[t].kind = "error" /\ Settle(t, Failure)
         \/ Forget(t) /\ Settle(t, TimedOut)
         \/ /\ ~ HasAll(t)' /\ reply'[t].kind # "error" /\ ~ Forget(t)
            /\ UNCHANGED accountVars

(* With a result in hand the client goes on as before. *)
Proceed(t) ==
    /\ Continue(t) \/ StartAgain(t) \/ Forget(t)
    /\ Observe(t)
    /\ UNCHANGED <<transportVars, source, kept, abandoned>>

CallsNext ==
    \/ \E t \in Tasks :
          \/ \E ask \in Asks : Ask(t, ask)
          \/ Return(t)
          \/ Fail(t)
          \/ GiveUp(t)
          \/ Proceed(t)
    \/ FarEnd
    \/ Panic /\ UNCHANGED <<got, forgotten, rereads, transportVars, historyVars>>

CallsSpec == CallsInit /\ [][CallsNext]_callVars

-------------------------------------------------------------------------------
(* A client that reads has begun the result of its own last call, and nothing *)
(* else, and when it is told there is no more it has exactly what the remote  *)
(* tool returned to that call: "implementations MUST round-trip the result"   *)
(* (transport.rs:35) holds through pages as well, however the calls of other  *)
(* clients return, fail or are given up in between (cache_tools.rs:111-119).  *)
OwnResult ==
    \A t \in Tasks : Reading(t) /\ Idle(t) =>
        \E c \in source[t] :
            /\ kept[reply[t].handle] = c
            /\ Result[c.ask].kind = "array"
            /\ got[t] = SubSeq(Result[c.ask].items, 1, Len(got[t]))
            /\ NextToken(reply[t]) = {} => got[t] = Result[c.ask].items

(* A handle is drawn for a call that was invoked and returned, and for each   *)
(* such call at most once, so a call that failed or was given up leaves       *)
(* nothing behind in a cache that evicts nothing; and what is kept under it   *)
(* is the result of that call (cache_tools.rs:112).                           *)
OneEntryPerCall ==
    /\ \A h \in DOMAIN kept : kept[h].id \in invoked \ abandoned
    /\ \A g, h \in DOMAIN kept : kept[g].id = kept[h].id => g = h
    /\ \A h \in DOMAIN origin :
          h \in DOMAIN kept /\ Result[kept[h].ask] = [kind |-> "array", items |-> origin[h]]

-------------------------------------------------------------------------------
(* The stack seen as one transport: a call takes until its client has all of  *)
(* the result, an oversized array from the envelope to the last page, and the *)
(* transport can be called from the first call on.                            *)
Stack == INSTANCE RemoteCalls WITH
    Promised <- [ask \in Asks |-> InFull(Result[ask])],
    Refusal  <- Failure,
    Outage   <- Failure,
    open     <- open \/ calls > 0,
    call     <- due,
    answer   <- whole

(* The cache is transparent: a client that calls through it and puts the pages *)
(* together is promised what it would be promised by the wrapped transport:    *)
(* each call has at most one outcome, and that is exactly the result of its    *)
(* own request, a failure, or nothing if the client gives up, whatever other   *)
(* clients do to the cache meanwhile (cache_tools.rs:111-119, 200-233,         *)
(* transport.rs:35).                                                           *)
ImplementsRemoteCalls == Stack!Spec
===============================================================================
