----------------------------- MODULE StdioSession -----------------------------
(***************************************************************************)
(* One StdioTransport and the child process it spawned, which runs         *)
(* serve_stdio over a registry.  Tasks call through the transport at the   *)
(* same time, without a lock of its own; rmcp gives every request an id,   *)
(* the server answers requests concurrently and in any order.  The child   *)
(* may exit at any time, a tool may end it in the middle of its own call   *)
(* or never return, and there is no timeout in the transport: callers that *)
(* want one drop the future, as the tests do, and the answer comes late.   *)
(***************************************************************************)
EXTENDS Seam

CONSTANTS
    Tasks,      \* the callers
    Names,      \* the names they call, known to the registry or not
    Args,       \* the arguments they pass
    registry,   \* registry[<<name, args>>]: the outcome of registry.invoke
    schemas,    \* registry.schemas()
    Stuck,      \* the names of tools that never return
    Fatal,      \* the names of tools that end the process they run in
    MaxCalls,   \* bound: at most this many requests
    Faults      \* whether the child may fail, and callers give up

(* What is asked of the server: CallToolRequestParams, and the list. *)
Calls ==
    [method : {"tools/call"}, name : Names,
     arguments : {Arguments(a) : a \in {x \in Args : Sendable(x)}}]
List == [method |-> "tools/list"]
Asks == Calls \cup {List}

ASSUME SessionAssumption ==
    /\ registry \in [Names \X (Args \cup {Null, NoFields}) ->
                      [kind : {"ok"}, value : Values] \cup
                      [kind : {"error"}, error : STRING, message : Phrases]]
    /\ MaxCalls \in Nat
    /\ Faults \in BOOLEAN

VARIABLES
    transport,  \* the client's side: none, connecting, failed, open, broken, dropped
    server,     \* the child: none, starting, serving, gone
    call,       \* call[t]: {} or the {[id, ask]} whose response t awaits
    calls,      \* how many requests were made: the next id
    requests,   \* requests written and not yet read by the server
    running,    \* requests for which the registry was invoked
    responses,  \* responses written and not yet read by the client
    invoked,    \* history: the ids of the requests the registry was invoked for
    answer      \* answer[t]: the outcome of t's last call

wire == <<requests, running, responses, invoked>>
vars == <<transport, server, call, calls, wire, answer>>

-------------------------------------------------------------------------------
Usable == transport \in {"open", "broken"}

(* Every error of rmcp becomes a ToolFailed with the stage it happened in. *)
TransportError == Failure("ToolFailed", Prose(<<"transport">>))

BadArguments == Failure("InvalidArgument", Prose(<<"requires an object or null">>))

(* RegistryServer: list_tools and call_tool. *)
Reply(ask) ==
    IF ask = List THEN [tools |-> {ToRmcpTool(s) : s \in schemas}]
    ELSE OverTheWire(ToResult(registry[<<ask.name, Received(ask.arguments)>>]))

(* StdioTransport: what list_tools and call_tool return for a reply. *)
Read(ask, reply) ==
    IF ask = List THEN [kind |-> "tools", tools |-> {FromRmcpTool(t) : t \in reply.tools}]
    ELSE FromResult(reply)

(* An answer ends t's call. *)
End(t, outcome) ==
    /\ call' = [call EXCEPT ![t] = {}]
    /\ answer' = [answer EXCEPT ![t] = outcome]

Init ==
    /\ transport = "none"
    /\ server = "none"
    /\ call = [t \in Tasks |-> {}]
    /\ calls = 0
    /\ requests = {} /\ running = {} /\ responses = {} /\ invoked = {}
    /\ answer = [t \in Tasks |-> [kind |-> "none"]]

-------------------------------------------------------------------------------
(* spawn: start the program, which may fail, ... *)
Spawn ==
    /\ transport = "none"
    /\ \/ transport' = "connecting" /\ server' = "starting"
       \/ Faults /\ transport' = "failed" /\ UNCHANGED server
    /\ UNCHANGED <<call, calls, wire, answer>>

(* ... and shake hands; *)
Connect ==
    /\ transport = "connecting" /\ server = "starting"
    /\ transport' = "open"
    /\ server' = "serving"
    /\ UNCHANGED <<call, calls, wire, answer>>

(* a child that exited or talks nonsense fails the spawn. *)
ConnectFails ==
    /\ transport = "connecting"
    /\ Faults
    /\ transport' = "failed"
    /\ server' = "gone"
    /\ UNCHANGED <<call, calls, wire, answer>>

(* call_tool with arguments that are neither an object nor null. *)
RefuseArguments(t) ==
    /\ Usable
    /\ call[t] = {}
    /\ \E args \in Args : ~ Sendable(args)
    /\ answer' = [answer EXCEPT ![t] = BadArguments]
    /\ UNCHANGED <<transport, server, call, calls, wire>>

(* call_tool or list_tools up to the point where it awaits the response. *)
Send(t, ask) ==
    /\ transport = "open"
    /\ call[t] = {}
    /\ calls < MaxCalls
    /\ call' = [call EXCEPT ![t] = {[id |-> calls, ask |-> ask]}]
    /\ calls' = calls + 1
    /\ requests' = requests \cup {[id |-> calls, ask |-> ask]}
    /\ UNCHANGED <<transport, server, running, responses, invoked, answer>>

(* The connection is known to be gone, or the write fails. *)
SendFails(t) ==
    /\ Usable
    /\ call[t] = {}
    /\ transport = "broken" \/ server = "gone"
    /\ answer' = [answer EXCEPT ![t] = TransportError]
    /\ UNCHANGED <<transport, server, call, calls, wire>>

(* Mutant of Accept: requests wait for the one before. *)
AcceptSerially(r) ==
    /\ server = "serving"
    /\ running = {}
    /\ r \in requests
    /\ requests' = requests \ {r}
    /\ running' = running \cup {r}
    /\ invoked' = invoked \cup {r.id}
    /\ UNCHANGED <<transport, server, call, calls, responses, answer>>

(* Mutant of Accept: a request that comes while a tool runs is lost. *)
AcceptIfIdle(r) ==
    /\ server = "serving"
    /\ r \in requests
    /\ requests' = requests \ {r}
    /\ running' = IF running = {} THEN {r} ELSE running
    /\ invoked' = IF running = {} THEN invoked \cup {r.id} ELSE invoked
    /\ UNCHANGED <<transport, server, call, calls, responses, answer>>

(* The server takes up a request and invokes the registry, whatever else is  *)
(* running.                                                                  *)
Accept(r) ==
    /\ server = "serving"
    /\ r \in requests
    /\ requests' = requests \ {r}
    /\ running' = running \cup {r}
    /\ invoked' = invoked \cup {r.id}
    /\ UNCHANGED <<transport, server, call, calls, responses, answer>>

(* The tool returns. *)
Respond(r) ==
    /\ r \in running
    /\ r.ask # List => r.ask.name \notin Stuck \cup Fatal
    /\ running' = running \ {r}
    /\ responses' = responses \cup {[id |-> r.id, reply |-> Reply(r.ask)]}
    /\ UNCHANGED <<transport, server, call, calls, requests, invoked, answer>>

(* The client reads a response and ends the call with its id; a response to  *)
(* a call that was given up is dropped.                                      *)
Deliver(r) ==
    /\ transport = "open"
    /\ r \in responses
    /\ responses' = responses \ {r}
    /\ \/ \E t \in Tasks : \E c \in call[t] :
             c.id = r.id /\ End(t, Read(c.ask, r.reply))
       \/ /\ \A t \in Tasks : \A c \in call[t] : c.id # r.id
          /\ UNCHANGED <<call, answer>>
    /\ UNCHANGED <<transport, server, calls, requests, running, invoked>>

(* The caller's own timeout: the future is dropped, the request is not undone. *)
GiveUp(t) ==
    /\ Faults
    /\ call[t] # {}
    /\ End(t, [kind |-> "timed out"])
    /\ UNCHANGED <<transport, server, calls, wire>>

(* The child is gone: what it was doing and had not read yet is lost, what   *)
(* it had written can still be read.                                         *)
ChildGone ==
    /\ server' = "gone"
    /\ requests' = {} /\ running' = {}
    /\ UNCHANGED <<transport, call, calls, responses, invoked, answer>>

(* It exits at any time, ... *)
Exit ==
    /\ Faults
    /\ server \in {"starting", "serving"}
    /\ ChildGone

(* ... or a tool ends it, with whatever else was running. *)
ExitMidRpc(r) ==
    /\ r \in running
    /\ r.ask # List /\ r.ask.name \in Fatal
    /\ ChildGone

(* The end of the child's output ends every call that is still waiting. *)
EndOfFile ==
    /\ transport = "open" /\ server = "gone" /\ responses = {}
    /\ transport' = "broken"
    /\ call' = [t \in Tasks |-> {}]
    /\ answer' = [t \in Tasks |-> IF call[t] = {} THEN answer[t] ELSE TransportError]
    /\ requests' = {}
    /\ UNCHANGED <<server, calls, running, responses, invoked>>

(* The last owner drops the transport, which closes the child's stdin, ... *)
DropTransport ==
    /\ Usable
    /\ \A t \in Tasks : call[t] = {}
    /\ transport' = "dropped"
    /\ responses' = {}
    /\ UNCHANGED <<server, call, calls, requests, running, invoked, answer>>

(* ... and serve_stdio returns when its peer disconnects. *)
Disconnected ==
    /\ transport = "dropped" /\ server = "serving"
    /\ ChildGone

Next ==
    \/ Spawn \/ Connect \/ ConnectFails
    \/ Exit \/ EndOfFile \/ DropTransport \/ Disconnected
    \/ \E r \in requests : Accept(r)
    \/ \E r \in running : Respond(r) \/ ExitMidRpc(r)
    \/ \E r \in responses : Deliver(r)
    \/ \E t \in Tasks :
          \/ RefuseArguments(t)
          \/ \E ask \in Asks : Send(t, ask)
          \/ SendFails(t)
          \/ GiveUp(t)

Spec == Init /\ [][Next]_vars

(* A request the server has, a tool that returns or ends the process, and a  *)
(* response in the pipe are dealt with in the end, for each request by       *)
(* itself, since both sides are driven by a runtime that polls what is       *)
(* ready; a read at the end of the child's output returns.  Nothing makes a  *)
(* stuck tool return, a child exit by itself, or a caller give up.           *)
Fairness ==
    /\ WF_vars(EndOfFile)
    /\ \A id \in 0 .. MaxCalls - 1 :
          /\ WF_vars(\E r \in requests : r.id = id /\ Accept(r))
          /\ WF_vars(\E r \in running : r.id = id /\ (Respond(r) \/ ExitMidRpc(r)))
          /\ WF_vars(\E r \in responses : r.id = id /\ Deliver(r))

LiveSpec == Spec /\ Fairness

-------------------------------------------------------------------------------
(* What may be on the wire: MCP's arguments are an object or absent. *)
WireCalls ==
    [method : {"tools/call"}, name : Names, arguments : {{}} \cup {{o} : o \in Objects}]
Requests == [id : 0 .. calls - 1, ask : WireCalls \cup {List}]

SessionTypeOK ==
    /\ transport \in {"none", "connecting", "failed", "open", "broken", "dropped"}
    /\ server \in {"none", "starting", "serving", "gone"}
    /\ calls \in 0 .. MaxCalls
    /\ call \in [Tasks -> SUBSET Requests]
    /\ requests \subseteq Requests
    /\ running \subseteq Requests
    /\ \A r \in responses : r.id \in 0 .. calls - 1
    /\ invoked \subseteq 0 .. calls - 1
    /\ answer = [t \in Tasks |-> answer[t]]

Ids(messages) == {m.id : m \in messages}

(* While both sides live, a call that waits is at one place exactly: its     *)
(* request is on the way, or its tool runs, or its response is on the way,   *)
(* and that response is the reply to this very request.  No call waits for   *)
(* nothing, however many were given up around it (stdio.rs:198-201).         *)
PendingAccounted ==
    server = "serving" /\ transport = "open" =>
        \A t \in Tasks : \A c \in call[t] :
            \/ c \in requests /\ c.id \notin Ids(running) \cup Ids(responses)
            \/ c \in running /\ c.id \notin Ids(requests) \cup Ids(responses)
            \/ /\ [id |-> c.id, reply |-> Reply(c.ask)] \in responses
               /\ c.id \notin Ids(requests) \cup Ids(running)

(* A call ends unless its own tool never returns: a tool that is stuck does  *)
(* not hold up calls of other tools ("concurrent calls fan out",             *)
(* stdio.rs:200), and once the child is gone every call ends, also that of a *)
(* stuck tool and that of the tool that ended it ("rather than hanging",     *)
(* tests/stdio_failures.rs:117-119).                                         *)
CallsEnd ==
    \A t \in Tasks, id \in 0 .. MaxCalls - 1 :
        (\E c \in call[t] :
            /\ c.id = id
            /\ server = "gone" \/ c.ask = List \/ c.ask.name \notin Stuck)
        ~> (\A c \in call[t] : c.id # id)

(* An error of the tool reaches the caller as the error it is: "skills that  *)
(* receive a ToolRegistry cannot tell whether a tool is local, loopback, or  *)
(* served by a child process over MCP stdio" (README.md:15).                 *)
ErrorKindKept ==
    [][ \A t \in Tasks : \A c \in call[t] : \A r \in responses \ responses' :
          (r.id = c.id /\ c.ask # List) =>
              LET local == registry[<<c.ask.name, Received(c.ask.arguments)>>]
              IN  local.kind = "error" => answer'[t].error = local.error ]_vars

-------------------------------------------------------------------------------
(* A registry's answer as callers across the seam are to see it. *)
SeenBy(ask) ==
    IF ask = List THEN [kind |-> "tools", tools |-> {Relayed(s) : s \in schemas}]
    ELSE SeenAs(registry[<<ask.name, Received(ask.arguments)>>])

Remote == INSTANCE RemoteCalls WITH
    Promised <- [ask \in Asks |-> SeenBy(ask)],
    Refusal  <- BadArguments,
    Outage   <- TransportError,
    open     <- Usable

(* Whatever order requests and responses take, whatever exits or is given up *)
(* in between: every answer is the one to the caller's own request, the      *)
(* registry is invoked at most once for it, refused arguments never reach    *)
(* it, and what fails does so with ToolFailed.                               *)
ImplementsRemoteCalls == Remote!Spec
===============================================================================
