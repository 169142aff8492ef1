-------------------------- MODULE StdioSessionProofs --------------------------
(***************************************************************************)
(* Invariants of StdioSession, and that it implements RemoteCalls, for any *)
(* number of tasks, requests and tools.                                    *)
(*                                                                         *)
(* What makes it work is that an id names one request for good: requests,  *)
(* running tools, responses and waiting calls with the same id belong      *)
(* together (Matching), and an id passes through the wire in one direction *)
(* (Flow).  Both need that nothing is under way before the handshake and   *)
(* after the end of the session (Quiet).                                   *)
(***************************************************************************)
EXTENDS StdioSession, SeamTheorems

(* Nothing waits unless the session is open, nothing runs unless the child   *)
(* serves.                                                                   *)
Quiet ==
    /\ transport # "open" => \A t \in Tasks : call[t] = {}
    /\ transport \in {"none", "connecting", "failed"} =>
          server # "serving" /\ requests = {} /\ responses = {}
    /\ server # "serving" => running = {}

(* An id is under way at one place, and invoked from Accept on. *)
Flow ==
    /\ \A r \in requests : r.id \notin invoked
    /\ \A r \in running : r.id \in invoked
    /\ \A r \in responses : r.id \in invoked
    /\ \A r \in running : \A s \in responses : r.id # s.id
    /\ \A r, s \in requests : r.id = s.id => r = s
    /\ \A r, s \in running : r.id = s.id => r = s

(* What has the id of a waiting call belongs to it. *)
Matching ==
    /\ \A t, u \in Tasks : \A c \in call[t], d \in call[u] : c.id = d.id => t = u /\ c = d
    /\ \A t \in Tasks : \A c \in call[t] :
          /\ c.ask \in Asks
          /\ \A r \in requests \cup running : r.id = c.id => r = c
          /\ \A r \in responses : r.id = c.id => r.reply = Reply(c.ask)

IndInv == SessionTypeOK /\ Quiet /\ Flow /\ Matching /\ PendingAccounted

-------------------------------------------------------------------------------
LEMMA AsksOnWire == Asks \subseteq WireCalls \cup {List}
  <1>1. ASSUME NEW a \in Args, Sendable(a)
        PROVE  Arguments(a) \in {{}} \cup {{o} : o \in Objects}
    BY <1>1 DEF Sendable, Arguments
  <1> QED
    BY <1>1 DEF Asks, Calls, WireCalls

LEMMA InitInd == Init => IndInv
  <1> SUFFICES ASSUME Init PROVE IndInv
    OBVIOUS
  <1> USE DEF Init
  <1>1. SessionTypeOK
    BY SessionAssumption DEF SessionTypeOK, Requests
  <1>2. Quiet /\ Flow /\ Matching /\ PendingAccounted
    BY DEF Quiet, Flow, Matching, PendingAccounted
  <1> QED
    BY <1>1, <1>2 DEF IndInv

LEMMA SpawnKeeps ==
    ASSUME IndInv, Spawn
    PROVE  IndInv'
  <1> USE DEF IndInv, Spawn, wire
  <1>1. SessionTypeOK'
    BY DEF SessionTypeOK, Requests
  <1>2. Quiet'
    BY DEF SessionTypeOK, Quiet
  <1>3. Flow'
    BY DEF SessionTypeOK, Flow, Requests
  <1>4. Matching'
    BY DEF SessionTypeOK, Quiet, Flow, Matching, Requests
  <1>5. PendingAccounted'
    BY DEF SessionTypeOK, Quiet, Flow, Matching, PendingAccounted, Requests, Ids
  <1> QED
    BY <1>1, <1>2, <1>3, <1>4, <1>5

LEMMA ConnectKeeps ==
    ASSUME IndInv, Connect
    PROVE  IndInv'
  <1> USE DEF IndInv, Connect, wire
  <1>1. SessionTypeOK'
    BY DEF SessionTypeOK, Requests
  <1>2. Quiet'
    BY DEF SessionTypeOK, Quiet
  <1>3. Flow'
    BY DEF SessionTypeOK, Flow, Requests
  <1>4. Matching'
    BY DEF SessionTypeOK, Quiet, Flow, Matching, Requests
  <1>5. PendingAccounted'
    BY DEF SessionTypeOK, Quiet, Flow, Matching, PendingAccounted, Requests, Ids
  <1> QED
    BY <1>1, <1>2, <1>3, <1>4, <1>5

LEMMA ConnectFailsKeeps ==
    ASSUME IndInv, ConnectFails
    PROVE  IndInv'
  <1> USE DEF IndInv, ConnectFails, wire
  <1>1. SessionTypeOK'
    BY DEF SessionTypeOK, Requests
  <1>2. Quiet'
    BY DEF SessionTypeOK, Quiet
  <1>3. Flow'
    BY DEF SessionTypeOK, Flow, Requests
  <1>4. Matching'
    BY DEF SessionTypeOK, Quiet, Flow, Matching, Requests
  <1>5. PendingAccounted'
    BY DEF SessionTypeOK, Quiet, Flow, Matching, PendingAccounted, Requests, Ids
  <1> QED
    BY <1>1, <1>2, <1>3, <1>4, <1>5

LEMMA RefuseArgumentsKeeps ==
    ASSUME IndInv, NEW t \in Tasks, RefuseArguments(t)
    PROVE  IndInv'
  <1> USE DEF IndInv, RefuseArguments, wire
  <1>1. SessionTypeOK'
    BY DEF SessionTypeOK, Requests
  <1>2. Quiet'
    BY DEF SessionTypeOK, Quiet
  <1>3. Flow'
    BY DEF SessionTypeOK, Flow, Requests
  <1>4. Matching'
    BY DEF SessionTypeOK, Quiet, Flow, Matching, Requests
  <1>5. PendingAccounted'
    BY DEF SessionTypeOK, Quiet, Flow, Matching, PendingAccounted, Requests, Ids
  <1> QED
    BY <1>1, <1>2, <1>3, <1>4, <1>5

LEMMA SendKeeps ==
    ASSUME IndInv, NEW t \in Tasks, NEW ask \in Asks, Send(t, ask)
    PROVE  IndInv'
  <1> USE DEF IndInv, Send, wire
  <1>1. SessionTypeOK'
    BY AsksOnWire, SessionAssumption DEF SessionTypeOK, Requests
  <1>2. Quiet'
    BY DEF SessionTypeOK, Quiet
  <1>3. Flow'
    BY DEF SessionTypeOK, Flow, Requests
  <1>4. Matching'
    BY DEF SessionTypeOK, Quiet, Flow, Matching, Requests
  <1>5. PendingAccounted'
    BY DEF SessionTypeOK, Quiet, Flow, Matching, PendingAccounted, Requests, Ids
  <1> QED
    BY <1>1, <1>2, <1>3, <1>4, <1>5

LEMMA SendFailsKeeps ==
    ASSUME IndInv, NEW t \in Tasks, SendFails(t)
    PROVE  IndInv'
  <1> USE DEF IndInv, SendFails, wire
  <1>1. SessionTypeOK'
    BY DEF SessionTypeOK, Requests
  <1>2. Quiet'
    BY DEF SessionTypeOK, Quiet
  <1>3. Flow'
    BY DEF SessionTypeOK, Flow, Requests
  <1>4. Matching'
    BY DEF SessionTypeOK, Quiet, Flow, Matching, Requests
  <1>5. PendingAccounted'
    BY DEF SessionTypeOK, Quiet, Flow, Matching, PendingAccounted, Requests, Ids
  <1> QED
    BY <1>1, <1>2, <1>3, <1>4, <1>5

LEMMA AcceptKeeps ==
    ASSUME IndInv, NEW r, Accept(r)
    PROVE  IndInv'
  <1> USE DEF IndInv, Accept, wire
  <1>1. SessionTypeOK'
    BY DEF SessionTypeOK, Requests
  <1>2. Quiet'
    BY DEF SessionTypeOK, Quiet
  <1>3. Flow'
    BY DEF SessionTypeOK, Flow, Requests
  <1>4. Matching'
    BY DEF SessionTypeOK, Quiet, Flow, Matching, Requests
  <1>5. PendingAccounted'
    BY DEF SessionTypeOK, Quiet, Flow, Matching, PendingAccounted, Requests, Ids
  <1> QED
    BY <1>1, <1>2, <1>3, <1>4, <1>5

LEMMA RespondKeeps ==
    ASSUME IndInv, NEW r, Respond(r)
    PROVE  IndInv'
  <1> USE DEF IndInv, Respond, wire
  <1>1. SessionTypeOK'
    BY DEF SessionTypeOK, Requests
  <1>2. Quiet'
    BY DEF SessionTypeOK, Quiet
  <1>3. Flow'
    BY DEF SessionTypeOK, Flow, Requests
  <1>4. Matching'
    BY DEF SessionTypeOK, Quiet, Flow, Matching, Requests
  <1>5. PendingAccounted'
    BY DEF SessionTypeOK, Quiet, Flow, Matching, PendingAccounted, Requests, Ids
  <1> QED
    BY <1>1, <1>2, <1>3, <1>4, <1>5

LEMMA DeliverKeeps ==
    ASSUME IndInv, NEW r, Deliver(r)
    PROVE  IndInv'
  <1> USE DEF IndInv, Deliver, wire, End
  <1>1. SessionTypeOK'
    BY DEF SessionTypeOK, Requests
  <1>2. Quiet'
    BY DEF SessionTypeOK, Quiet
  <1>3. Flow'
    BY DEF SessionTypeOK, Flow, Requests
  <1>4. Matching'
    BY DEF SessionTypeOK, Quiet, Flow, Matching, Requests
  <1>5. PendingAccounted'
    BY DEF SessionTypeOK, Quiet, Flow, Matching, PendingAccounted, Requests, Ids
  <1> QED
    BY <1>1, <1>2, <1>3, <1>4, <1>5

LEMMA GiveUpKeeps ==
    ASSUME IndInv, NEW t \in Tasks, GiveUp(t)
    PROVE  IndInv'
  <1> USE DEF IndInv, GiveUp, wire, End
  <1>1. SessionTypeOK'
    BY DEF SessionTypeOK, Requests
  <1>2. Quiet'
    BY DEF SessionTypeOK, Quiet
  <1>3. Flow'
    BY DEF SessionTypeOK, Flow, Requests
  <1>4. \A u \in Tasks : call'[u] \subseteq call[u]
    BY DEF SessionTypeOK
  <1>5. Matching'
    <2>1. ASSUME NEW v \in Tasks, NEW u \in Tasks, NEW c \in call'[v], NEW d \in call'[u],
                 c.id = d.id
          PROVE  v = u /\ c = d
      <3>1. c \in call[v] /\ d \in call[u]
        BY <1>4
      <3>2. \A v1, u1 \in Tasks : \A c1 \in call[v1], d1 \in call[u1] :
               c1.id = d1.id => v1 = u1 /\ c1 = d1
        BY DEF Matching
      <3> HIDE DEF IndInv, GiveUp
      <3> QED
        BY <2>1, <3>1, <3>2
    <2>2. \A u \in Tasks : \A c \in call'[u] :
            /\ c.ask \in Asks
            /\ \A r \in requests \cup running : r.id = c.id => r = c
            /\ \A r \in responses : r.id = c.id => r.reply = Reply(c.ask)
      BY <1>4 DEF Matching
    <2> QED
      BY <2>1, <2>2 DEF Matching
  <1>6. PendingAccounted'
    <2> SUFFICES ASSUME server = "serving", transport = "open",
                        NEW u \in Tasks, NEW c \in call'[u]
                 PROVE  \/ c \in requests /\ c.id \notin Ids(running) \cup Ids(responses)
                        \/ c \in running /\ c.id \notin Ids(requests) \cup Ids(responses)
                        \/ /\ [id |-> c.id, reply |-> Reply(c.ask)] \in responses
                           /\ c.id \notin Ids(requests) \cup Ids(running)
      BY DEF PendingAccounted, Ids
    <2>1. c \in call[u]
      BY <1>4
    <2> QED
      BY <2>1 DEF PendingAccounted
  <1> QED
    BY <1>1, <1>2, <1>3, <1>5, <1>6

(* However the child comes to its end. *)
LEMMA ChildGoneKeeps ==
    ASSUME IndInv, ChildGone
    PROVE  IndInv'
  <1> USE DEF IndInv, ChildGone, wire
  <1>1. SessionTypeOK'
    BY DEF SessionTypeOK, Requests
  <1>2. Quiet'
    BY DEF SessionTypeOK, Quiet
  <1>3. Flow'
    BY DEF SessionTypeOK, Flow, Requests
  <1>4. Matching'
    BY DEF SessionTypeOK, Quiet, Flow, Matching, Requests
  <1>5. PendingAccounted'
    BY DEF SessionTypeOK, Quiet, Flow, Matching, PendingAccounted, Requests, Ids
  <1> QED
    BY <1>1, <1>2, <1>3, <1>4, <1>5

LEMMA EndOfFileKeeps ==
    ASSUME IndInv, EndOfFile
    PROVE  IndInv'
  <1> USE DEF IndInv, EndOfFile, wire
  <1>1. SessionTypeOK'
    BY DEF SessionTypeOK, Requests
  <1>2. Quiet'
    BY DEF SessionTypeOK, Quiet
  <1>3. Flow'
    BY DEF SessionTypeOK, Flow, Requests
  <1>4. Matching'
    BY DEF SessionTypeOK, Quiet, Flow, Matching, Requests
  <1>5. PendingAccounted'
    BY DEF SessionTypeOK, Quiet, Flow, Matching, PendingAccounted, Requests, Ids
  <1> QED
    BY <1>1, <1>2, <1>3, <1>4, <1>5

LEMMA DropTransportKeeps ==
    ASSUME IndInv, DropTransport
    PROVE  IndInv'
  <1> USE DEF IndInv, DropTransport, wire
  <1>1. SessionTypeOK'
    BY DEF SessionTypeOK, Requests
  <1>2. Quiet'
    BY DEF SessionTypeOK, Quiet
  <1>3. Flow'
    BY DEF SessionTypeOK, Flow, Requests
  <1>4. Matching'
    BY DEF SessionTypeOK, Quiet, Flow, Matching, Requests
  <1>5. PendingAccounted'
    BY DEF SessionTypeOK, Quiet, Flow, Matching, PendingAccounted, Requests, Ids
  <1> QED
    BY <1>1, <1>2, <1>3, <1>4, <1>5

-------------------------------------------------------------------------------
LEMMA StepKeeps ==
    ASSUME IndInv, [Next]_vars
    PROVE  IndInv'
  <1>1. CASE UNCHANGED vars
    BY <1>1 DEF vars, wire, IndInv, SessionTypeOK, Requests, Quiet, Flow, Matching,
                PendingAccounted, Ids
  <1>2. CASE Next
    <2>1. ASSUME Exit \/ Disconnected \/ \E r \in running : ExitMidRpc(r)
          PROVE  IndInv'
      BY <2>1, ChildGoneKeeps DEF Exit, Disconnected, ExitMidRpc
    <2> QED
      BY <1>2, <2>1, SpawnKeeps, ConnectKeeps, ConnectFailsKeeps, EndOfFileKeeps,
         DropTransportKeeps, AcceptKeeps, RespondKeeps, DeliverKeeps,
         RefuseArgumentsKeeps, SendKeeps, SendFailsKeeps, GiveUpKeeps DEF Next
  <1> QED
    BY <1>1, <1>2

LEMMA Invariance == Spec => []IndInv
  <1> USE InitInd, StepKeeps
  <1> QED
    BY PTL DEF Spec

(* The session's variables keep their types. *)
THEOREM SessionTypeCorrect == Spec => []SessionTypeOK
  <1>1. IndInv => SessionTypeOK
    BY DEF IndInv
  <1> QED
    BY <1>1, Invariance, PTL

(* While both sides live, every call that waits is at one place exactly: its  *)
(* request, its tool or its response, and the response is the reply to this   *)
(* request (stdio.rs:198-201).                                                *)
THEOREM NoCallIsLost == Spec => []PendingAccounted
  <1>1. IndInv => PendingAccounted
    BY DEF IndInv
  <1> QED
    BY <1>1, Invariance, PTL

-------------------------------------------------------------------------------
(* The client reads the reply to a request as what callers are to see. *)
LEMMA ReplyIsPromised == \A ask \in Asks : Read(ask, Reply(ask)) = SeenBy(ask)
  <1> SUFFICES ASSUME NEW ask \in Asks PROVE Read(ask, Reply(ask)) = SeenBy(ask)
    OBVIOUS
  <1>1. CASE ask = List
    <2> DEFINE sent == {ToRmcpTool(s) : s \in schemas}
    <2>1. {FromRmcpTool(t) : t \in sent} = {Relayed(s) : s \in schemas}
      BY DEF Relayed
    <2>2. Reply(ask) = [tools |-> sent]
      BY <1>1 DEF Reply
    <2>3. Reply(ask).tools = sent
      BY <2>2
    <2> HIDE DEF sent
    <2> QED
      BY <1>1, <2>1, <2>3 DEF Read, SeenBy
  <1>2. CASE ask # List
    <2> DEFINE args    == Received(ask.arguments)
               outcome == registry[<<ask.name, args>>]
    <2>1. PICK n \in Names, a \in Args : Sendable(a) /\ ask.name = n /\ ask.arguments = Arguments(a)
      BY <1>2 DEF Asks, Calls
    <2>2. args \in Args \cup {Null, NoFields}
      BY <2>1, ArgumentsArrive DEF Sendable
    <2>3. outcome \in RegistryOutcomes
      <3> HIDE DEF args
      <3>1. <<n, args>> \in Names \X (Args \cup {Null, NoFields})
        BY <2>2
      <3> DEFINE domain == Names \X (Args \cup {Null, NoFields})
      <3>2. registry \in [domain -> RegistryOutcomes]
        BY SessionAssumption DEF RegistryOutcomes
      <3>3. outcome = registry[<<n, args>>]
        BY <2>1
      <3> HIDE DEF outcome, domain
      <3>4. <<n, args>> \in domain
        BY <3>1 DEF domain
      <3> QED
        BY <3>2, <3>3, <3>4
    <2>4. FromResult(OverTheWire(ToResult(outcome))) = SeenAs(outcome)
      BY <2>3, ResultRoundTrip
    <2> QED
      BY <1>2, <2>4 DEF Read, Reply, SeenBy
  <1> QED
    BY <1>1, <1>2

LEMMA InitImplements == Init => Remote!Init
  BY DEF Init, Remote!Init, Usable

(* The steps that no caller can tell from nothing. *)
LEMMA HiddenStepsStutter ==
    ASSUME Spawn \/ ConnectFails \/ Exit \/ Disconnected
             \/ \E r \in running : Respond(r) \/ ExitMidRpc(r)
    PROVE  UNCHANGED Remote!vars
  <1> USE DEF Remote!vars, Usable, wire
  <1>1. ASSUME Spawn \/ ConnectFails PROVE UNCHANGED Remote!vars
    BY <1>1 DEF Spawn, ConnectFails
  <1>2. ASSUME Exit \/ Disconnected \/ \E r \in running : ExitMidRpc(r)
        PROVE  UNCHANGED Remote!vars
    BY <1>2 DEF Exit, Disconnected, ExitMidRpc, ChildGone
  <1>3. ASSUME NEW r \in running, Respond(r) PROVE UNCHANGED Remote!vars
    BY <1>3 DEF Respond
  <1> QED
    BY <1>1, <1>2, <1>3

LEMMA DeliverImplements ==
    ASSUME IndInv, NEW r \in responses, Deliver(r)
    PROVE  (\E t \in Tasks : Remote!Return(t)) \/ UNCHANGED Remote!vars
  <1>1. transport = "open" /\ UNCHANGED <<transport, calls, invoked>>
    BY DEF Deliver
  <1>2. UNCHANGED Usable
    BY <1>1 DEF Usable
  <1>3. ASSUME NEW t \in Tasks, NEW c \in call[t], c.id = r.id, End(t, Read(c.ask, r.reply))
        PROVE  Remote!Return(t)
    <2>1. c.ask \in Asks /\ r.reply = Reply(c.ask)
      BY <1>3 DEF IndInv, Matching
    <2>2. Read(c.ask, r.reply) = [ask \in Asks |-> SeenBy(ask)][c.ask]
      BY <2>1, ReplyIsPromised
    <2>3. c.id \in invoked
      BY <1>3 DEF IndInv, Flow
    <2> QED
      BY <1>1, <1>2, <1>3, <2>2, <2>3 DEF End, Remote!Return
  <1>4. ASSUME UNCHANGED <<call, answer>> PROVE UNCHANGED Remote!vars
    BY <1>1, <1>2, <1>4 DEF Remote!vars
  <1> QED
    BY <1>3, <1>4 DEF Deliver

LEMMA FailuresImplement ==
    ASSUME IndInv, EndOfFile \/ \E t \in Tasks : SendFails(t)
    PROVE  \E S \in SUBSET Tasks : Remote!Fail(S)
  <1>1. ASSUME EndOfFile PROVE Remote!Fail({t \in Tasks : call[t] # {}})
    BY <1>1 DEF EndOfFile, Remote!Fail, Usable
  <1>2. ASSUME NEW t \in Tasks, SendFails(t) PROVE Remote!Fail({t})
    <2>1. call' = [u \in Tasks |-> IF u \in {t} THEN {} ELSE call[u]]
      BY <1>2 DEF IndInv, SessionTypeOK, SendFails
    <2>2. answer' = [u \in Tasks |-> IF u \in {t} THEN TransportError ELSE answer[u]]
      BY <1>2 DEF IndInv, SessionTypeOK, SendFails
    <2>3. Usable /\ UNCHANGED <<Usable, calls, invoked>>
      BY <1>2 DEF SendFails, Usable, wire
    <2> QED
      BY <2>1, <2>2, <2>3 DEF Remote!Fail
  <1> QED
    BY <1>1, <1>2

LEMMA StepImplements ==
    ASSUME IndInv, [Next]_vars
    PROVE  [Remote!Next]_(Remote!vars)
  <1> USE DEF Usable, wire
  <1>1. ASSUME UNCHANGED vars PROVE UNCHANGED Remote!vars
    BY <1>1 DEF vars, Remote!vars
  <1>2. ASSUME Connect PROVE Remote!Open
    BY <1>2 DEF Connect, Remote!Open
  <1>3. ASSUME DropTransport PROVE Remote!Close
    BY <1>3 DEF DropTransport, Remote!Close
  <1>4. ASSUME NEW r \in requests, Accept(r) PROVE Remote!Invoke
    <2>1. r.id \in (0 .. calls - 1) \ invoked
      BY DEF IndInv, SessionTypeOK, Requests, Flow
    <2> QED
      BY <1>4, <2>1 DEF Accept, Remote!Invoke
  <1>5. ASSUME NEW t \in Tasks, NEW ask \in Asks, Send(t, ask) PROVE Remote!Begin(t, ask)
    BY <1>5 DEF Send, Remote!Begin
  <1>6. ASSUME NEW t \in Tasks, RefuseArguments(t) PROVE Remote!Refuse(t)
    BY <1>6 DEF RefuseArguments, Remote!Refuse
  <1>7. ASSUME NEW t \in Tasks, GiveUp(t) PROVE Remote!GiveUp(t)
    BY <1>7 DEF GiveUp, End, Remote!GiveUp
  <1> QED
    BY <1>1, <1>2, <1>3, <1>4, <1>5, <1>6, <1>7, HiddenStepsStutter, DeliverImplements,
       FailuresImplement DEF Next, Remote!Next

(* Through a session, calls are the at-most-once calls of RemoteCalls: every  *)
(* answer is the one to the caller's own request as the registry gave it,     *)
(* whatever the order of requests and responses, and whatever exits or is     *)
(* given up (stdio.rs:198-201, 297-352).                                      *)
THEOREM SessionImplementsRemoteCalls == Spec => ImplementsRemoteCalls
  <1>1. Spec => []IndInv
    BY Invariance
  <1>2. IndInv /\ [Next]_vars => [Remote!Next]_(Remote!vars)
    BY StepImplements
  <1> QED
    BY <1>1, <1>2, InitImplements, PTL DEF Spec, ImplementsRemoteCalls, Remote!Spec

-------------------------------------------------------------------------------
(* The registry's own answer to a call, before it crosses the seam. *)
Local(ask) == registry[<<ask.name, Received(ask.arguments)>>]

(* A response ends the call with its id, and with what was promised for it. *)
LEMMA DeliveredAnswer ==
    ASSUME IndInv, [Next]_vars, NEW t \in Tasks, NEW c \in call[t],
           NEW r \in responses \ responses', r.id = c.id
    PROVE  c.ask \in Asks /\ answer'[t] = SeenBy(c.ask)
  <1>1. responses' # responses /\ call[t] # {}
    OBVIOUS
  <1>2. ASSUME NEW s \in responses, Deliver(s) PROVE c.ask \in Asks /\ answer'[t] = SeenBy(c.ask)
    <2>1. s = r
      BY <1>2 DEF Deliver
    <2>2. PICK u \in Tasks : \E d \in call[u] : d.id = r.id /\ End(u, Read(d.ask, r.reply))
      BY <1>2, <2>1 DEF Deliver
    <2>3. u = t /\ \A d \in call[u] : d.id = r.id => d = c
      BY <2>2 DEF IndInv, Matching
    <2>4. c.ask \in Asks /\ r.reply = Reply(c.ask)
      BY DEF IndInv, Matching
    <2>5. Read(c.ask, r.reply) = SeenBy(c.ask)
      BY <2>4, ReplyIsPromised
    <2>6. answer' = [answer EXCEPT ![t] = SeenBy(c.ask)]
      BY <2>2, <2>3, <2>5 DEF End
    <2> QED
      BY <2>4, <2>6 DEF IndInv, SessionTypeOK
  <1>3. ASSUME NEW s \in running, Respond(s) PROVE FALSE
    BY <1>1, <1>3 DEF Respond
  <1>4. ~ DropTransport
    BY <1>1 DEF DropTransport
  <1>5. /\ ~ Spawn /\ ~ Connect /\ ~ ConnectFails
        /\ ~ Exit /\ ~ EndOfFile /\ ~ Disconnected
        /\ \A s \in running : ~ ExitMidRpc(s)
        /\ \A s \in requests : ~ Accept(s)
    BY <1>1 DEF Spawn, Connect, ConnectFails, Exit, EndOfFile, Disconnected, ExitMidRpc,
                ChildGone, Accept, wire
  <1>6. \A u \in Tasks : /\ ~ RefuseArguments(u) /\ ~ SendFails(u) /\ ~ GiveUp(u)
                         /\ \A ask \in Asks : ~ Send(u, ask)
    BY <1>1 DEF RefuseArguments, SendFails, GiveUp, Send, wire
  <1>7. ~ UNCHANGED vars
    BY <1>1 DEF vars, wire
  <1> QED
    BY <1>2, <1>3, <1>4, <1>5, <1>6, <1>7 DEF Next

(* The answer to a tool's own error is always ToolFailed, and its message is *)
(* the text of the error.                                                    *)
ErrorsCross ==
    [][ \A t \in Tasks : \A c \in call[t] : \A r \in responses \ responses' :
          r.id = c.id /\ c.ask # List /\ Local(c.ask).kind = "error"
            => answer'[t] = Failure("ToolFailed", ErrorText(Local(c.ask))) ]_vars

(* Whatever a tool of the registry fails with, its remote caller sees a       *)
(* ToolFailed with the text of that error (stdio.rs:154, 325-331).         *)
THEOREM ErrorsBecomeToolFailed == Spec => ErrorsCross
  <1>1. ASSUME IndInv, [Next]_vars, NEW t \in Tasks, NEW c \in call[t],
               NEW r \in responses \ responses', r.id = c.id, c.ask # List,
               Local(c.ask).kind = "error"
        PROVE  answer'[t] = Failure("ToolFailed", ErrorText(Local(c.ask)))
    <2>1. c.ask \in Asks /\ answer'[t] = SeenBy(c.ask)
      BY <1>1, DeliveredAnswer
    <2>2. SeenBy(c.ask) = SeenAs(Local(c.ask))
      BY <1>1 DEF SeenBy, Local
    <2>3. Local(c.ask).kind # "ok"
      BY <1>1
    <2> QED
      BY <2>1, <2>2, <2>3 DEF SeenAs
  <1> DEFINE Crosses ==
        \A t \in Tasks : \A c \in call[t] : \A r \in responses \ responses' :
          r.id = c.id /\ c.ask # List /\ Local(c.ask).kind = "error"
            => answer'[t] = Failure("ToolFailed", ErrorText(Local(c.ask)))
  <1>2. IndInv /\ [Next]_vars => [Crosses]_vars
    BY <1>1
  <1> QED
    BY <1>2, Invariance, PTL DEF Spec, ErrorsCross
===============================================================================
