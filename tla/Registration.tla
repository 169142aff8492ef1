----------------------------- MODULE Registration -----------------------------
(***************************************************************************)
(* How remote tools get into a host's ToolRegistry and stay usable across  *)
(* reconnects: RegistrationSnapshot and replay_into (replay.rs),           *)
(* McpTool::from_transport and the loop that registers its result          *)
(* (transport.rs), register_cache_tools (cache_tools.rs), and the calls    *)
(* that other tasks make meanwhile.                                        *)
(*                                                                         *)
(* ToolRegistry locks for one operation at a time, so registering a list   *)
(* of tools is one step per tool.  A call looks its tool up and keeps it,  *)
(* then awaits the tool's transport.  A connection serves one list of      *)
(* tools as long as it lives; a peer that changed is another connection.   *)
(* A LoopbackTransport is a connection in this process, and so is what the *)
(* closures of the cache's own tools hold on to: neither is ever lost.     *)
(***************************************************************************)
EXTENDS Integers, Sequences, FiniteSets, SequencesExt

CONSTANTS
    Hosts,      \* tasks that register tools
    Callers,    \* tasks that call tools
    Conns,      \* connections, each a transport of its own
    Loopbacks,  \* those of them in this process
    Cache,      \* the one the tools of the result cache are bound to
    Names,      \* tool names
    Scopes,     \* the scopes through which hosts look at the registry
    Order,      \* Order[name]: the position of the name in the order of strings
    Listing,    \* Listing[c]: what list_tools answers on c, a sequence of schemas
    MaxPasses   \* bound: at most this many registration passes

Schemas == UNION {{Listing[c][i] : i \in DOMAIN Listing[c]} : c \in Conns}

NamesOf(tools) == {tools[i].name : i \in DOMAIN tools}

ASSUME RegistrationAssumption ==
    /\ Order \in [Names -> Int]
    /\ \A m, n \in Names : Order[m] = Order[n] => m = n
    /\ IsFiniteSet(Names)
    /\ \A c \in Conns : Listing[c] \in Seq(Schemas)
    /\ \A s \in Schemas : s.name \in Names
    /\ Loopbacks \subseteq Conns
    /\ Cache \in Loopbacks
    /\ NamesOf(Listing[Cache]) = {"cache.page", "cache.release"}
    /\ Scopes \subseteq SUBSET Names
    /\ MaxPasses \in Nat

VARIABLES
    alive,      \* the connections that are up
    used,       \* the connections there have been
    registry,   \* name -> McpTool [schema, transport]
    snapshot,   \* snapshot[h]: {} or the {[tools, listed]} h holds, where
                \*   `listed` is history: what the snapshot was made of
    pending,    \* pending[h]: the adapters h has still to register
    passes,     \* how many registration passes were begun
    goal,       \* history, goal[h]: name -> the adapter that h's passes want
                \*   there, without the names another host registered after h
    calling,    \* calling[k]: {} or the {McpTool} k looked up and invokes
    answer      \* answer[k]: the outcome of k's last call

hostVars == <<snapshot, pending, passes, goal>>
callVars == <<calling, answer>>
vars == <<alive, used, registry, hostVars, callVars>>

-------------------------------------------------------------------------------
LastIndex(tools, name) ==
    CHOOSE i \in DOMAIN tools :
        tools[i].name = name /\ \A j \in DOMAIN tools : tools[j].name = name => j <= i

(* The i-th of some names is the one with i - 1 names before it. *)
Rank(names, name) == Cardinality({m \in names : Order[m] <= Order[name]})

(* Mutant of ByName: the listing as it is. *)
ByNameAsListed(tools) == tools

(* The BTreeMap of with_policy: sorted by name, the last schema of each. *)
ByName(tools) ==
    LET names == NamesOf(tools)
    IN  [i \in 1 .. Cardinality(names) |->
            tools[LastIndex(tools, CHOOSE n \in names : Rank(names, n) = i)]]

McpTool(c, schema) == [schema |-> schema, transport |-> c]

(* replay_tools, and from_transport. *)
Adapters(c, tools) == [i \in DOMAIN tools |-> McpTool(c, tools[i])]

(* The adapter a listing leaves under each name, registered one by one. *)
Resolved(c, listed) ==
    [n \in NamesOf(listed) |-> McpTool(c, listed[LastIndex(listed, n)])]

Put(f, key, value) == [k \in DOMAIN f \cup {key} |-> IF k = key THEN value ELSE f[k]]

Over(f, g) == [k \in DOMAIN f \cup DOMAIN g |-> IF k \in DOMAIN f THEN f[k] ELSE g[k]]

Without(f, key) == [k \in DOMAIN f \ {key} |-> f[k]]

-------------------------------------------------------------------------------
Init ==
    /\ alive = Loopbacks /\ used = Loopbacks
    /\ registry = [n \in {} |-> {}]
    /\ snapshot = [h \in Hosts |-> {}]
    /\ pending = [h \in Hosts |-> << >>]
    /\ passes = 0
    /\ goal = [h \in Hosts |-> [n \in {} |-> {}]]
    /\ calling = [k \in Callers |-> {}]
    /\ answer = [k \in Callers |-> [kind |-> "none"]]

Connect(c) ==
    /\ c \notin used
    /\ alive' = alive \cup {c} /\ used' = used \cup {c}
    /\ UNCHANGED <<registry, hostVars, callVars>>

Disconnect(c) ==
    /\ c \in alive \ Loopbacks
    /\ alive' = alive \ {c}
    /\ UNCHANGED <<used, registry, hostVars, callVars>>

(* RegistrationSnapshot::new of what was listed. *)
Snapshot(h, listed) ==
    /\ pending[h] = << >>
    /\ snapshot' = [snapshot EXCEPT ![h] = {[tools |-> ByName(listed), listed |-> listed]}]
    /\ UNCHANGED <<alive, used, registry, pending, passes, goal, callVars>>

(* discover; without a connection it fails and the host keeps what it has. *)
Discover(h, c) == c \in alive /\ Snapshot(h, Listing[c])

(* from_registry: the descriptors a scope lets through, remote ones and local *)
(* ones alike, in any order.                                                  *)
FromRegistry(h, scope) ==
    Snapshot(h, SetToSeq({registry[n].schema : n \in scope \cap DOMAIN registry}))

(* A pass of h registers these tools over c, one after the other.  Its goal is *)
(* what was listed, the last schema of each name, bound to c; what earlier    *)
(* passes registered under other names is to stay.                            *)
BeginPass(h, c, tools, listed) ==
    /\ pending[h] = << >>
    /\ passes < MaxPasses
    /\ passes' = passes + 1
    /\ pending' = [pending EXCEPT ![h] = Adapters(c, tools)]
    /\ goal' = [goal EXCEPT ![h] = Over(Resolved(c, listed), @)]
    /\ UNCHANGED <<alive, used, registry, snapshot, callVars>>

(* McpTool::from_transport and its caller's loop: the tools as they are listed. *)
FromTransport(h, c) == c \in alive \ {Cache} /\ BeginPass(h, c, Listing[c], Listing[c])

(* register_cache_tools: cache.page and then cache.release. *)
RegisterCacheTools(h) == BeginPass(h, Cache, Listing[Cache], Listing[Cache])

(* replay_into: the snapshot's tools over any transport, connected or not. *)
ReplayInto(h, c) ==
    /\ c \in used \ {Cache}
    /\ \E s \in snapshot[h] : BeginPass(h, c, s.tools, s.listed)

(* h has not registered all it has to under this name. *)
Awaits(h, name) == \E i \in DOMAIN pending[h] : pending[h][i].schema.name = name

(* The name is h's now, and no longer that of a host that is through with it. *)
HandOver(h, name) ==
    goal' = [g \in Hosts |->
                IF g = h \/ Awaits(g, name) THEN goal[g] ELSE Without(goal[g], name)]

(* Mutant of RegisterNext: a name that is taken is left alone. *)
RegisterIfAbsent(h) ==
    /\ pending[h] # << >>
    /\ LET tool == Head(pending[h])
           name == tool.schema.name
       IN  /\ registry' = IF name \in DOMAIN registry THEN registry
                          ELSE Put(registry, name, tool)
           /\ HandOver(h, name)
    /\ pending' = [pending EXCEPT ![h] = Tail(@)]
    /\ UNCHANGED <<alive, used, snapshot, passes, callVars>>

(* ToolRegistry::register of the next tool: the name is the key. *)
RegisterNext(h) ==
    /\ pending[h] # << >>
    /\ LET tool == Head(pending[h])
           name == tool.schema.name
       IN  /\ registry' = Put(registry, name, tool)
           /\ HandOver(h, name)
    /\ pending' = [pending EXCEPT ![h] = Tail(@)]
    /\ UNCHANGED <<alive, used, snapshot, passes, callVars>>

(* ToolRegistry::invoke up to the tool's transport. *)
Invoke(k, name) ==
    /\ calling[k] = {}
    /\ IF name \in DOMAIN registry
         THEN /\ calling' = [calling EXCEPT ![k] = {registry[name]}]
              /\ answer' = [answer EXCEPT ![k] = [kind |-> "none"]]
         ELSE answer' = [answer EXCEPT ![k] = [kind |-> "unknown tool"]]
              /\ UNCHANGED calling
    /\ UNCHANGED <<alive, used, registry, hostVars>>

(* McpTool::invoke: the transport is asked for the tool by its name, and      *)
(* fails, or answers with a tool of that name it has, if it has one.          *)
Answers(tool) ==
    LET name == tool.schema.name
        here == {s \in ToSet(Listing[tool.transport]) : s.name = name}
    IN  IF tool.transport \notin alive THEN {[kind |-> "failed"]}
        ELSE IF here = {} THEN {[kind |-> "unknown tool"]}
        ELSE {[kind |-> "value", called |-> tool.schema, by |-> s] : s \in here}

Answer(k) ==
    /\ \E tool \in calling[k] : \E a \in Answers(tool) : answer' = [answer EXCEPT ![k] = a]
    /\ calling' = [calling EXCEPT ![k] = {}]
    /\ UNCHANGED <<alive, used, registry, hostVars>>

Next ==
    \/ \E c \in Conns : Connect(c) \/ Disconnect(c)
    \/ \E h \in Hosts, c \in Conns : Discover(h, c) \/ FromTransport(h, c) \/ ReplayInto(h, c)
    \/ \E h \in Hosts :
          (\E scope \in Scopes : FromRegistry(h, scope)) \/ RegisterCacheTools(h) \/ RegisterNext(h)
    \/ \E k \in Callers : (\E n \in Names : Invoke(k, n)) \/ Answer(k)

Spec == Init /\ [][Next]_vars

-------------------------------------------------------------------------------
Tools == {McpTool(c, s) : c \in Conns, s \in Schemas}

Canonical(tools) ==
    \A i, j \in DOMAIN tools : i < j => Order[tools[i].name] < Order[tools[j].name]

(* The registry's key is the tool's own name; snapshots are "sorted and        *)
(* deduplicated by name" (replay.rs:33).                                       *)
RegistrationTypeOK ==
    /\ Loopbacks \subseteq alive /\ alive \subseteq used /\ used \subseteq Conns
    /\ DOMAIN registry \subseteq Names
    /\ \A n \in DOMAIN registry : registry[n] \in Tools /\ registry[n].schema.name = n
    /\ snapshot \in [Hosts -> SUBSET [tools : Seq(Schemas), listed : Seq(Schemas)]]
    /\ \A h \in Hosts : \A s \in snapshot[h] : Canonical(s.tools)
    /\ pending \in [Hosts -> Seq(Tools)]
    /\ passes \in 0 .. MaxPasses
    /\ goal = [h \in Hosts |-> goal[h]]
    /\ calling \in [Callers -> SUBSET Tools]

(* When a host has registered what it listed, directly or by way of a         *)
(* snapshot replayed over the same or another connection, or the tools of the *)
(* cache, every name of the listing leads to that connection with the last    *)
(* schema listed under it, whatever was registered before, unless another     *)
(* host registered the name after it: no tool is left on a connection that    *)
(* is gone, and both paths resolve duplicates alike (replay.rs:106-118,       *)
(* transport.rs:66-81, cache_tools.rs:122-126).  And of hosts that race for a *)
(* name one always has it: no name is left to an adapter that nobody wanted.  *)
RegistrationTakesHold ==
    /\ \A h \in Hosts : pending[h] = << >> =>
          \A n \in DOMAIN goal[h] : n \in DOMAIN registry /\ registry[n] = goal[h][n]
    /\ \A n \in DOMAIN registry : \E h \in Hosts : n \in DOMAIN goal[h]

(* A tool that is called has the schema the registry shows for it: list_tools *)
(* is "called at registration time; the returned schemas are authoritative"   *)
(* (transport.rs:31-32).                                                      *)
SchemaFidelity ==
    \A k \in Callers : answer[k].kind = "value" => answer[k].called = answer[k].by
===============================================================================
