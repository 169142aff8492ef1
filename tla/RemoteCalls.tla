----------------------------- MODULE RemoteCalls -----------------------------
(***************************************************************************)
(* What a transport promises its callers, whatever happens on the way: a   *)
(* call invokes the remote registry at most once; if it returns an answer  *)
(* of the registry then it is the one to its own request, and the registry *)
(* was invoked for it; otherwise it fails with ToolFailed, or its caller   *)
(* gives it up, and nothing is known about the invocation.  Arguments that *)
(* cannot be sent are refused and never reach the registry.                *)
(***************************************************************************)
EXTENDS Naturals

CONSTANTS
    Tasks,      \* the callers
    Asks,       \* the requests that can be sent
    Promised,   \* Promised[ask]: the registry's answer, as callers see it
    Refusal,    \* the answer to arguments that cannot be sent
    Outage,     \* the answer to a call that the connection fails
    MaxCalls    \* bound: at most this many requests

VARIABLES
    open,       \* whether there is a transport to call
    call,       \* call[t]: {} or the {[id, ask]} t waits for
    calls,      \* how many requests were made
    invoked,    \* the ids for which the registry was invoked
    answer      \* answer[t]: the outcome of t's last call

vars == <<open, call, calls, invoked, answer>>

Init ==
    /\ open = FALSE
    /\ call = [t \in Tasks |-> {}]
    /\ calls = 0
    /\ invoked = {}
    /\ answer = [t \in Tasks |-> [kind |-> "none"]]

Open  == ~ open /\ open' = TRUE /\ UNCHANGED <<call, calls, invoked, answer>>

Close ==
    /\ open
    /\ \A t \in Tasks : call[t] = {}
    /\ open' = FALSE
    /\ UNCHANGED <<call, calls, invoked, answer>>

Begin(t, ask) ==
    /\ open /\ call[t] = {} /\ calls < MaxCalls
    /\ call' = [call EXCEPT ![t] = {[id |-> calls, ask |-> ask]}]
    /\ calls' = calls + 1
    /\ UNCHANGED <<open, invoked, answer>>

Invoke ==
    /\ \E id \in (0 .. calls - 1) \ invoked : invoked' = invoked \cup {id}
    /\ UNCHANGED <<open, call, calls, answer>>

Return(t) ==
    /\ \E c \in call[t] : c.id \in invoked /\ answer' = [answer EXCEPT ![t] = Promised[c.ask]]
    /\ call' = [call EXCEPT ![t] = {}]
    /\ UNCHANGED <<open, calls, invoked>>

Refuse(t) ==
    /\ open /\ call[t] = {}
    /\ answer' = [answer EXCEPT ![t] = Refusal]
    /\ UNCHANGED <<open, call, calls, invoked>>

(* The connection fails some calls, begun or about to begin. *)
Fail(S) ==
    /\ open
    /\ call' = [t \in Tasks |-> IF t \in S THEN {} ELSE call[t]]
    /\ answer' = [t \in Tasks |-> IF t \in S THEN Outage ELSE answer[t]]
    /\ UNCHANGED <<open, calls, invoked>>

GiveUp(t) ==
    /\ call[t] # {}
    /\ call' = [call EXCEPT ![t] = {}]
    /\ answer' = [answer EXCEPT ![t] = [kind |-> "timed out"]]
    /\ UNCHANGED <<open, calls, invoked>>

Next ==
    \/ Open \/ Close \/ Invoke
    \/ \E t \in Tasks : (\E ask \in Asks : Begin(t, ask)) \/ Return(t) \/ Refuse(t) \/ GiveUp(t)
    \/ \E S \in SUBSET Tasks : Fail(S)

Spec == Init /\ [][Next]_vars
===============================================================================
