# Specifications of rig-mcp

rig-mcp lets a rig-compose `ToolRegistry` use tools over MCP: in the same
process (loopback) or in a child process over stdio. It also keeps large tool
results out of the model's window by caching them behind page tokens. This
directory holds TLA+ specifications of it, the TLC configurations that check
them on small instances, and proofs that TLAPS checks for every instance.

Paths below are relative to the repository.

## 1. Inventory

| Component | Source | State | Operations | What is hard | What makes it correct |
|---|---|---|---|---|---|
| Result cache | `src/result_cache.rs` | `next_id`, `inner` (handle to items), each under its own mutex | `store`, `page`, `len`, `release`, `cache_if_large` | `store` is two critical sections; the counter wraps; a poisoned `inner` drops inserts silently; page arithmetic at the ends | a handle is given out once and never again; what is stored stays whole until its own release; an envelope and its token lead to the whole result |
| Cached results boundary | `src/cache_tools.rs` | none of its own; shares the cache | `CachedResultsTransport::call_tool`, the tools `cache.page` and `cache.release` | `page_cached_result` locks twice (`len`, `page`) with releases in between; handles are guessable | every page is a true slice with a true total and next token; one release succeeds; following tokens reads everything exactly once |
| stdio client | `src/stdio.rs`, `StdioTransport` | the rmcp service: one connection, pending requests by id | `spawn`, `list_tools`, `call_tool` | many tasks over one child without a lock; answers in any order; the child exits in the middle of a call; callers give up; tools that never return | an answer reaches its own call; at most one invocation; every call ends once the child is gone |
| stdio server | `src/stdio.rs`, `RegistryServer`, `serve_stdio` | the registry it serves | `list_tools`, `call_tool`, end of the session | calls run concurrently and one of them may end the process; results, errors and schemas change shape on the wire | values round-trip, null included; a stuck tool holds up nobody else |
| Transport contract, adapters | `src/transport.rs` | per `McpTool`: a schema and a transport | `from_transport`, `invoke`, loopback | a schema is kept while the peer changes; a transport dies under registered tools; a wrapped call takes time, fails or is given up | a name leads to the connection that registered it last; a result is the one of the caller's own call |
| Registration replay | `src/replay.rs` | `RegistrationSnapshot` | `discover`, `from_registry`, `with_policy`, `replay_tools`, `replay_into` | tools are registered one at a time among other registrations and calls; duplicates in a listing; local tools in a snapshot; the cache's tools and a peer's share one namespace | a finished pass moved every name of the listing; duplicates resolve as registering the listing directly would |
| stdio fixture | `src/bin/rig_mcp_stdio_fixture.rs` | a test registry of four tools | `weather.lookup`, `math.checked_add`, `diagnostics.exit_mid_rpc`, `diagnostics.big_payload` | arguments are checked and sums overflow; one tool ends the process in the middle of its call | its answers, errors and schemas cross the wire as they are; calls next to the fatal one end as well |
| Re-exports, harness example | `src/lib.rs`, `examples/` | none | none | nothing | nothing |

How they interact: a host registers `McpTool`s (Registration). Calling one asks
its transport (StdioSession, or loopback, which calls its registry directly).
`CachedResultsTransport` wraps any transport and puts oversized arrays into the
cache; the model pages and releases them through two local tools that share
that cache. There are no callbacks. Shared state is the cache (mutexes), the
registry (one lock per operation) and the connection (ids of requests).

The hazards this code has, each at its line and with the properties that cover
it, are the `hazards` of `PROJECT.json`.

## 2. Modules

| Module | Models | Notes |
|---|---|---|
| `Paging` | the pure functions of `result_cache.rs` and `cache_tools.rs` | pages, tokens, how `cache.page` reads its arguments, envelopes |
| `ResultCache` | `MemoryResultCache` | one action per critical section |
| `PagedResults` | *abstract*: what the boundary promises | every tool call is atomic |
| `CachedResults` | `cache_tools.rs` over the cache | implements `PagedResults` |
| `PagingClient` | clients that follow tokens, start again, and release | fairness and liveness |
| `CachedCalls` | `CachedResultsTransport` over the transport it wraps, with the clients on top | composes `PagingClient` with `RemoteCalls`, and implements `RemoteCalls` |
| `Seam` | what arguments, results, errors and schemas become at `stdio.rs` | pure |
| `RemoteCalls` | *abstract*: what a transport promises | at-most-once calls |
| `StdioSession` | `StdioTransport` and `serve_stdio` over one child | implements `RemoteCalls` |
| `Fixture` | the registry of the fixture binary | pure; the child's registry in the runs of `StdioSession` |
| `Registration` | `replay.rs`, `McpTool`, `from_transport`, `register_cache_tools`, loopback | hosts, connections, callers |
| `PagingTheorems`, `ResultCacheProofs`, `CachedResultsProofs`, `PagingClientProofs`, `CachedCallsProofs`, `SeamTheorems`, `StdioSessionProofs`, `RegistrationProofs` | theorems and proofs | section 5 |
| `MC*` | instances for TLC | section 3 |

`CachedResults` extends `ResultCache`, which extends `Paging`; `PagingClient`
extends `CachedResults`, and `CachedCalls` extends `PagingClient` and
instantiates `RemoteCalls` twice: as the transport it wraps and as the one it is. `StdioSession` and `Fixture` extend `Seam`.

### The cache side

`next_id`, `inner` and `poisoned` are the two mutexes' contents and the poison
flag of `inner`. `storing[t]` is what a task holds between the two sections of
`store`: `FreshHandle` is the section of `fresh_handle`, `Insert` the one of
`store`. `stores`, `origin` and `released` are history that the code does not
have; the properties need it. `Release`, `Page` and `CachedLen` take `inner`
once. `cache_if_large` is split between `CacheLarge` (measure, draw a handle)
and `ReturnEnvelope` (insert, answer); `page_cached_result` between `PageLen`
and `PageItems`. `call_tool` awaits the wrapped transport before it touches the
cache, so the awaited call is not a step of its own: its result is chosen when
it returns.

A text is a sequence of segments between `":offset:"` separators, each a word
and a number, so that `rsplit_once` and `parse` are what the code does to
texts: a handle is one segment, a token two, and other texts (a handle passed
as a token, a number with a plus sign) are told apart as the code tells them. Arrays
have items with a length in bytes, because the threshold is in bytes and pages
are in items. `usize` is `0 .. MaxUsize` with saturating arithmetic; the
`u64` counter wraps at `IdSpace`.

Nothing in the crate panics while it holds `inner`. Every operation has a
branch for a poisoned lock all the same, so `Poison` is a step of the
environment under `Faults`. A poisoned `next_id` is recovered in place.

A field of a request is absent, a text, or a value that is not a string
(`NotAString`), of which the null token of a last page is one. What
`Value::as_str` makes of the last is `AsStr`, and a caller may send the null
token back with its handle: it counts as absent (`cache_tools.rs:285-288`), so
the client starts at the first item again (`StartAgain`). A client's call of
`cache.page` may be refused as any other (`CallPage`); that a token or a null
token never is follows from what the code does with it, and is proved. A client that gives up
(`Forget`) makes no further call: nothing happens at the boundary, and the last
answer stays what it was. `forgotten` is history, and a client reads (`Reading`)
as long as its last answer has a handle that is not in it.

### The cache over a transport

In `CachedResults` the awaited call is not a step, because it does not touch the
cache. `CachedCalls` makes it one: the wrapped transport is `RemoteCalls`, what
`StdioSession` is shown to implement, and a client's call is `Ask`, then
`Return`, `Fail` or `GiveUp`. `Return` runs on into `cache_if_large` without an
await, so its last step is the one that measures the result and draws a
handle. A future dropped while it waits never gets there; one dropped later
cannot be, as there is no await left. `source`, `kept` and `abandoned` are
history: which call an answer is of, which call a handle was drawn for, and
which calls came to nothing.

Seen from its client, the stack is a transport again. `due[t]` and `whole[t]`
are history of that view: the call whose result `t` does not have in full yet,
and what came of its last one, with the pages put together. A call is settled
when a small result or an error arrives, when the envelope or a page is the
last one (`HasAll`), or when the client gives up, before the envelope or after
it (`Observe`). `Stack` is `RemoteCalls` over these two.

### The stdio session

`transport` and `server` are the two sides; `call[t]` is the request whose
response `t` awaits, with rmcp's request id. The pipes are *sets* of messages
with ids, not queues: the client reads in order but dispatches by id, the
server spawns a task per request, so no order of the pipe survives on either
side. `Accept` is the server's task calling `registry.invoke` (or `schemas`),
`Respond` its return. `invoked` is history: the ids the registry was invoked
for. `GiveUp` is the caller's own timeout, as `tests/stdio_failures.rs` has it;
the transport has none. `Exit` loses what the child had not read or was doing,
and keeps what it had written; `ExitMidRpc` does the same by way of a tool of
the fixture; `EndOfFile` is what the client makes of either. The child serves
the fixture's registry (`Fixture`), with two tools next to it that the fixture
lacks: one that returns null and one that never returns.
`Seam` says what the handlers make of the data: an outcome of the registry
becomes an rmcp result, a null structured content is lost on the wire, and the
client reads error, structured content and text in that order.

### Registration

A connection serves one listing for life; a peer that changed is another
connection. A `LoopbackTransport` is a connection that is never lost, and so is
what the closures of `register_cache_tools` hold on to (`Cache`).
`FromRegistry` snapshots what a scope lets through, remote tools and local ones
alike. `pending[h]` holds the adapters that a host's loop has still to
register, since each `register` locks on its own. `goal` is
history: what a host set out to register, without the names that others
registered after it was through with them. A host that still awaits a name keeps
it in its goal, so of hosts that race for a name the one that registers it last
has it (`HandOver`). `Invoke` looks a tool up and keeps it, `Answer` awaits its
transport, so a call can outlive the registration and the connection.

## 3. Runs

| Run | Instance | Shows |
|---|---|---|
| `cache` | 3 tasks, 4 stores, 4 ids, 2 arrays, poison | handles are unique, nothing is lost, the audit adds up, a handle lives once |
| `boundary` | 2 tasks, 2 stores, 5 requests by token, by handle and by a null token with it, poison | pages and envelopes are faithful; refinement of `PagedResults` |
| `clients` | 2 clients, 3 stores, first page empty, limits 0, 1, 2, one start over | a client reads its own array exactly once and is never refused; a page for an item is never in vain |
| `clients_live` | 2 clients, 2 stores, limits none, 1, 2 | readers finish; no entry leaks unless given up |
| `stack` | 2 clients over a remote transport, 3 calls, 3 stores, results of 3 and 2 items with pages of 2, and an error, poison | a client reads the result of its own call; a failed or abandoned call leaves no entry; refinement of `RemoteCalls` |
| `session` | 2 tasks, 3 requests, calls and lists, exits (by a tool too), late answers | no call is lost; refinement of `RemoteCalls` |
| `session_live` | 2 tasks, 2 requests, all of the fixture's tools, one that never returns, one that ends the process | other calls end; all end once the child is gone |
| `registration` | 2 hosts, 1 caller, 2 peers and the cache's tools, 2 passes | a finished pass takes hold; of hosts that race for a name one has it |
| `default_limit`, `whole`, `session_errors`, `replayed_schemas` | | disagreements, section 6 |

Each property of a passing run has a mutant in `PROJECT.json`: a plausible bug
in a modelled definition that makes TLC refute it under the same configuration.

### Bounds

* `MaxStores` at most `IdSpace`: the code relies on the counter not wrapping in
  practice (`result_cache.rs:131-132`), and this is `NoWrapAssumption`. The runs
  take them equal, so that the counter wraps to 0 after its last id.
* Two tasks are enough for each race at the boundary (store against store, page
  against release, release against release). `cache` has three so that a store
  overlaps two others.
* Arrays have up to four items and limits are 0, 1, 2, default and `MaxUsize`:
  first page, middle page, last page, past the end and saturation all occur.
  `MaxUsize` is 100, above the default limit of 64, as the assumption demands.
* `MaxCalls` is 3 in `session`: two calls overlap, and one is made after an
  answer, or after a caller gave up while its first answer is still to come.
  `session_live` takes 2: a stuck call and another one.
* `MaxPasses` is 2 in `registration`: the passes of two hosts overlap in every
  way, or one host registers again over another connection, by a snapshot of
  the first or of its registry. The first peer lists a name twice and out of
  order and has a `cache.page` of its own; the second has lost that tool and
  changed the other. `replayed_schemas` takes 3.
* `MaxRereads` is 1: a client starts again once, in `clients` and `stack`.
* `MaxCalls` is 3 in `stack`, and no more than `MaxStores`, so the bound on
  stores never stops a call that has returned: two calls overlap, and one of
  their callers, or both, call once more after a failure or a timeout.
* `stack` has `page_size` 2: one result needs a second page, the other is whole
  in its envelope, and both ways of having it all occur.
* `clients` includes the limit 0, which is what makes `PagesAdvance` conditional;
  `clients_live` leaves it out, because a client that asks for no items for ever
  does not finish (see Fairness).
* The largest runs have 1.16 million (`clients`), 1.02 million (`stack`) and
  974 000 (`session`) distinct states.
* Symmetry is used for tasks and hosts in safety runs only.

`CHECK_DEADLOCK FALSE` is set for the sessions alone: a dropped transport with
no child left has nothing more to do, as in the code.

### Fairness

* `ClientFairness`: `WF(Continue(t))` for each client. Critical sections are
  finite and the runtime polls tasks that can run, so a tool call ends. That a
  client makes its next call is an assumption on clients; giving up (`Forget`)
  is always allowed. Wrapped calls carry no fairness. `ReadersFinish` is about
  clients whose limits are above 0: with limit 0, which the schema of
  `cache.page` allows, no token advances. What the boundary owes every client
  is `PagesAdvance`.
* `Fairness` of the session: `Accept`, `Respond` and `Deliver` are weakly fair
  for each request by itself, because the server spawns a task per request and
  the client dispatches by id; `EndOfFile` is fair because a read at the end of
  a pipe returns. A tool that ends the process does so in the end
  (`ExitMidRpc`), as one that returns does. Nothing makes a stuck tool return, a child exit, or a caller
  give up, and `Respond` is never enabled for a stuck tool.

## 4. Properties

Cache: `HandlesUnique`, `NothingLost`, `ReleaseAudit`, `HandleLifecycle`.
Boundary: `PagesFaithful`, `EnvelopesFaithful`, `ImplementsPagedResults`.
Clients: `ReadsEverythingOnce`, `OwnHandleOnly`, `PagesAdvance`, `ReadersFinish`,
`NothingLeaks`. Cache over a transport: `OwnResult`, `OneEntryPerCall`,
`ImplementsRemoteCalls`.
Session: `PendingAccounted`, `CallsEnd`, `ImplementsRemoteCalls`.
Registration: `RegistrationTakesHold`. One type invariant per stateful module. Each
is stated in words above its definition.

In the refinement of `PagedResults` a handle is live from the insert on, which
is before anybody can have been told of it, and a call takes effect at its last
step; a poisoned cache is a broken store with nothing live. In the one of
`RemoteCalls` only the calls, the invocations and the answers are visible;
starting the child, its exit and its responses are hidden steps, and the end of
the child's output fails all waiting calls in one step. In the one of the stack
a call begins at `Ask` and ends when its client has all of the result; drawing
a handle, `len`, pages before the last, starting again and releasing are hidden
steps, and which error it was cannot be told.

## 5. Proofs

Everything here holds for all values of the constants that satisfy the named
assumptions.

| Theorem | Says |
|---|---|
| `PagingTheorems`: `SliceIsWindow`, `TokenRoundTrip`, `TokenRequest`, `NextTokenIsExact`, `PageExtendsPrefix` | pages are windows, tokens parse back, and following them neither skips nor repeats |
| `ResultCacheProofs`: `CacheTypeCorrect`, `HandleUniqueness`, `Conservation`, `AuditBalances`, `Lifecycle` | `CacheSpec` keeps `TypeOK`, `HandlesUnique`, `NothingLost`, `ReleaseAudit`, and satisfies `HandleLifecycle` |
| `CachedResultsProofs`: `UsesCache` | the boundary's steps are steps of the cache, so the cache's theorems hold there |
| `CachedResultsProofs`: `BoundaryTypeCorrect`, `PagesAreFaithful`, `EnvelopesAreFaithful` | the boundary's invariants |
| `CachedResultsProofs`: `Refinement` | `Spec => ImplementsPagedResults` |
| `CachedResultsProofs`: `OnlyShortArraysWhole` | an envelope has its whole array iff that has at most `page_size` items |
| `PagingClientProofs`: `ClientsUseBoundary`, `ClientsImplementPagedResults` | `ClientSpec => Spec`, hence `ImplementsPagedResults` |
| `PagingClientProofs`: `OwnHandle`, `EveryItemOnce`, `EveryPageAdvances` | `ClientSpec` keeps `OwnHandleOnly` and `ReadsEverythingOnce`, and satisfies `PagesAdvance` |
| `PagingClientProofs`: `SmallLimitsHonoured` | `PageSizeHonoured` where every limit asked for, 64 included, is at most `page_size` |
| `CachedCallsProofs`: `StackUsesBoundary`, `StackImplementsPagedResults`, `StackReadsEverythingOnce` | `CallsSpec => Spec`, hence `ImplementsPagedResults`; and `ReadsEverythingOnce` |
| `CachedCallsProofs`: `ResultsAreOwn`, `EntriesHaveCalls` | `CallsSpec` keeps `OwnResult` and `OneEntryPerCall` |
| `CachedCallsProofs`: `StackKeepsPromise` | `CallsSpec => ImplementsRemoteCalls` |
| `SeamTheorems`: `ResultRoundTrip`, `ArgumentsArrive`, `SchemasSettle` | what survives the wire, for every value, error and schema |
| `StdioSessionProofs`: `SessionTypeCorrect`, `NoCallIsLost` | the session's invariants |
| `StdioSessionProofs`: `SessionImplementsRemoteCalls` | `Spec => ImplementsRemoteCalls` |
| `StdioSessionProofs`: `ErrorsBecomeToolFailed` | every error of a tool arrives as `ToolFailed` with its text |
| `RegistrationProofs`: `RegistrationTypeCorrect`, `RegistrationSettles` | `Spec` keeps `RegistrationTypeOK` and `RegistrationTakesHold` |

**Cache.** The inductive invariant is `TypeOK /\ DrawnInOrder /\ HandlesUnique /\
MapIsHistory`. Uniqueness alone is not inductive: a fresh id must differ from
all earlier ones, which `DrawnInOrder` provides by tying every handle ever drawn
to an id below `stores`, and `next_id` to `stores` while it has not wrapped.
This is where `NoWrapAssumption` is used. `MapIsHistory` ties the map to the
history of stores and releases, poisoned or not. The audit needs one more
conjunct, `Counted`: as many handles were drawn as there are in the history and
in the hands of tasks, and both sets are finite (the tasks that are storing are
finite even if there are infinitely many tasks).

**Boundary.** `BoundaryInv` adds `CallsInformed` (a task between `len` and
`page` holds the true length of the array its handle stands for, even if that
array has been released since), `PagesFaithful` and `EnvelopesFaithful`.
Refinement follows step by step from it.

**Clients.** `ClientInv` adds, for each client that reads, that its handle is
the cache's, not released, and nobody else's (`Owns`), that what it has read is
a prefix of its array (`HasRead`), and that its request under way (`Asking`) or
its next token (`Resting`) starts where that prefix ends. A step of one client
cannot break this for another (`OnlyBy`, `OthersFine`); its own pages extend
the prefix by `PageExtendsPrefix`. Every step is a step of the boundary or, for
`Forget`, leaves it alone, so `BoundaryInv` and the refinement of `PagedResults`
come along (`ClientsUseBoundary`). `EveryPageAdvances` needs the same invariant
at the step that ends a page call: the page starts where the prefix ends, and
`NextTokenIsExact` says what is left.

**Cache over a transport.** `CallsInv` adds that a call in flight has an id of
its own and no entry (`Calling`), and that each handle is bound to a call that
was invoked, with its result, from the moment it is drawn (`Keeping`). Nothing
binds a handle or a call twice because neither kind of id is used again. Each
step of `CachedCalls` is a step of `PagingClient` or leaves it alone, so
`ClientInv` comes along too, and with it the boundary, the cache and
`PagedResults`.

The refinement of `RemoteCalls` needs `Accounting`, which says for each task
what is due to it (`DueTo`): while it waits, the call it waits for; while it is
storing or reads, the call its handle was drawn for, unless it has everything;
and nothing otherwise. It is inductive only on top of `CallsInv`, which binds the handle to the
call and to its result, and needs `WholePrefix` to know that what a client has
at a page without a token is that result, item by item. A call that fails,
a poisoned cache under a reader and a wrapped tool's own error all map to a
failure, dropping the future and `Forget` to giving up.

**Session.** Three invariants strengthen the types: `Quiet` (nothing waits
unless the session is open, nothing runs unless the child serves), `Flow` (an
id is a request not invoked yet, or invoked and then running or answered, in
one place) and `Matching` (whatever on the wire has the id of a waiting call
belongs to that call). They are what makes "the answer is the one to this
request" inductive. The refinement uses `ResultRoundTrip` and
`ArgumentsArrive` to see that what the client reads is what the registry said.

`ErrorsBecomeToolFailed` is an action property (`ErrorsCross`) about the one
step that takes a response off the pipe; `Matching` says whose it is.

**Registration.** `RegInv` adds two parts to the types. `SnapshotFaithful`: a
snapshot is sorted and leads each name to the last schema listed under it; for
this `ByName` counts ranks instead of sorting, and the proof shows that ranks
number a finite set in order (`RanksNumber`). `Settling`: while a pass runs,
each name of its goal is still pending, with the goal's adapter as the last one
of that name, or already leads there. `Wanted` and `Owned`, for hosts that
race: a host wants all that it has still to register, so registering a tool
never leaves its name to nobody. `RegistrationTakesHold` is `Settling` with
nothing pending, and `Owned`.

**What holds instead.** Where a run refutes a document (section 6), a theorem says
what the code does guarantee: `OnlyShortArraysWhole` for `whole`,
`ErrorsBecomeToolFailed` for `session_errors`, and for `default_limit`
`SmallLimitsHonoured`, which names the configurations (64 and every other limit
asked for at most `page_size`) in which no page is too long (invariant
`LimitsAsked`). For `replayed_schemas` there is nothing of the kind: the schema
a host shows is whatever was listed when the snapshot was taken.

**Assumptions.** `PagingAssumption` and `WordAssumption` (item lengths are
positive, `usize` holds 64, the words of handles and numbers exist),
`CacheAssumption`, `NoWrapAssumption`, `BoundaryAssumption` (configuration values are
`usize`), `JsonAssumption` (null, objects and other values are different,
`{}` is an object), `SessionAssumption` (a registry answers every call with a
value or an error), `ClientAssumption` and `CallsAssumption` (clients send
requests of the boundary; a remote tool answers with one of the results the
boundary tells apart), `RegistrationAssumption` (names are finitely many and
ordered, listings name them, the cache's tools are the two it has). TLC
evaluates each in the runs.

**Only model-checked.** The liveness properties (`ReadersFinish`,
`NothingLeaks`, `CallsEnd`), which the prover cannot do. Every safety property
of a passing run is proved, action properties and refinements included. No
theorem needs induction over data: `JsonLen` folds over an array and stays
opaque, as only the comparison with the threshold matters.

## 6. Where the code and its documentation disagree

* `default_limit`: a page request without a limit gets 64 items
  (`cache_tools.rs:252`) whatever `page_size` is, which is documented as the
  size of subsequent pages too (`result_cache.rs:67`, `cache_tools.rs:25`).
* `whole`: the threshold is in bytes and the first page in items, so an
  oversized array of at most `page_size` items enters its envelope whole
  (`result_cache.rs:209` against `ROADMAP.md:76`).
* `session_errors`: over stdio an `InvalidArgument` of a tool arrives as
  `ToolFailed` (`stdio.rs:331`), so callers can tell a remote tool from a local one
  (`README.md:15`, `ROADMAP.md:75`). The code means it so:
  `tests/stdio_failures.rs:50-74` expects `ToolFailed`.
* `replayed_schemas`: `replay_into` registers a snapshot's schemas over any
  transport without asking it, so a registry can show a schema the tool does
  not have (`replay.rs:111` against `transport.rs:31-32`).

## 7. Not modelled

* rmcp itself: framing, cancellation notices, the messages of the handshake
  (one step here), and the error `serve_stdio` returns.
* The replay policy and the endpoints: labels that no code reads.
* Results of MCP servers other than `serve_stdio`, with several content blocks
  or none. `FromResult` reads them, but only a foreign server sends them, and
  nothing in the repository says what they should become.
* Two caches, or a cache after a restart: ids start at 0 in each, so a handle
  of one may name an entry of another. A cache has no identity and the code
  claims nothing about it.
* Eviction, which `MemoryResultCache` does not have; another `ResultCache`
  would be a module next to `ResultCache`.
* Descriptions, wording of errors, logging; the items of the fixture's big
  payload; `src/lib.rs` (re-exports) and the harness example, which prints a
  record of one sequential run over loopback.

## 8. State of the plan

Done: the cache, the boundary, the clients, the cache over a transport, the
session with the fixture as its child, and registration, each with its safety
properties proved; the boundary, the clients and the stack refine
`PagedResults`, the session and the stack `RemoteCalls`. The stack assumes of
the transport it wraps only what the session is proved to promise, and promises
the same to its callers.

Left:

1. Results of foreign servers through `Seam`, over bounded inputs, once the
   code says what it promises about them.
2. Fairness for `CachedCalls`: with the session's fairness below and the
   clients' above, that every result is read, given up or failed.
3. Theorems about the abstract specifications themselves, `PagedResults` and
   `RemoteCalls` (no call has two outcomes, a released handle serves no page),
   which the modules that implement them then inherit.
