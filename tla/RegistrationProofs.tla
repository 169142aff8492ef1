-------------------------- MODULE RegistrationProofs --------------------------
(***************************************************************************)
(* Registration for any hosts, connections, listings, names and number of  *)
(* passes.  Snapshots are sorted, without duplicates, and keep the last    *)
(* schema of each name.  A finished pass has taken hold because, while it  *)
(* runs, each of its names is either still to be registered, with the      *)
(* goal's adapter last, or already leads there; and of hosts that race for *)
(* a name the one that registers it last still wants it.                   *)
(***************************************************************************)
EXTENDS Registration, FiniteSetTheorems, TLAPS

-------------------------------------------------------------------------------
(* The place of each element of a set in the order ord. *)
Numbering(S, ord) == [n \in S |-> Cardinality({m \in S : ord[m] <= ord[n]})]

(* Counting the elements up to each one numbers a finite set from 1 on, in    *)
(* the order of its elements.                                                 *)
LEMMA RanksNumber ==
    ASSUME NEW S, IsFiniteSet(S), NEW ord,
           \A m \in S : ord[m] \in Int,
           \A m, n \in S : ord[m] = ord[n] => m = n
    PROVE  /\ Cardinality(S) \in Nat
           /\ \A m, n \in S : ord[m] < ord[n] => Numbering(S, ord)[m] < Numbering(S, ord)[n]
           /\ Numbering(S, ord) \in [S -> 1 .. Cardinality(S)]
           /\ \A i \in 1 .. Cardinality(S) : \E n \in S : Numbering(S, ord)[n] = i
  <1> DEFINE Upto(n) == {m \in S : ord[m] <= ord[n]}
             rank    == Numbering(S, ord)
  <1>1. Cardinality(S) \in Nat
    BY FS_CardinalityType
  <1>2. ASSUME NEW n \in S
        PROVE  /\ IsFiniteSet(Upto(n)) /\ Cardinality(Upto(n)) \in Nat
               /\ Cardinality(Upto(n)) <= Cardinality(S)
    <2>1. Upto(n) \in SUBSET S
      OBVIOUS
    <2> HIDE DEF Upto
    <2> QED
      BY <2>1, FS_Subset, FS_CardinalityType
  <1>3. /\ \A n \in S : rank[n] = Cardinality(Upto(n))
        /\ rank = [n \in S |-> rank[n]]
    BY Zenon DEF Numbering
  <1> HIDE DEF rank
  <1>4. ASSUME NEW n \in S PROVE rank[n] \in 1 .. Cardinality(S)
    <2>1. n \in Upto(n)
      OBVIOUS
    <2>2. Cardinality(Upto(n)) # 0
      BY <2>1, <1>2, FS_EmptySet
    <2> HIDE DEF Upto
    <2> QED
      BY <1>1, <1>2, <1>3, <2>2
  <1>5. ASSUME NEW m \in S, NEW n \in S, ord[m] < ord[n]
        PROVE  rank[m] < rank[n]
    <2>1. Upto(m) \in SUBSET Upto(n) /\ n \in Upto(n) /\ n \notin Upto(m)
      BY <1>5
    <2>2. /\ IsFiniteSet(Upto(n)) /\ Upto(m) # Upto(n)
          /\ Cardinality(Upto(m)) \in Nat /\ Cardinality(Upto(n)) \in Nat
          /\ rank[m] = Cardinality(Upto(m)) /\ rank[n] = Cardinality(Upto(n))
      BY <2>1, <1>2, <1>3, Zenon
    <2> HIDE DEF Upto
    <2>3. /\ Cardinality(Upto(m)) <= Cardinality(Upto(n))
          /\ Cardinality(Upto(m)) = Cardinality(Upto(n)) => Upto(m) = Upto(n)
      BY <2>1, <2>2, FS_Subset
    <2> QED
      BY <2>2, <2>3
  <1>6. rank \in [S -> 1 .. Cardinality(S)]
    BY <1>3, <1>4, Zenon
  <1>7. ASSUME NEW m \in S, NEW n \in S, rank[m] = rank[n] PROVE m = n
    <2>1. rank[m] \in Int /\ rank[n] \in Int
      BY <1>1, <1>4
    <2>2. ord[m] < ord[n] \/ ord[n] < ord[m] \/ m = n
      OBVIOUS
    <2> QED
      BY <2>1, <2>2, <1>5, <1>7
  <1>8. rank \in Injection(S, 1 .. Cardinality(S))
    BY <1>6, <1>7 DEF Injection, IsInjective
  <1>9. /\ IsFiniteSet(1 .. Cardinality(S))
        /\ Cardinality(1 .. Cardinality(S)) = Cardinality(S)
    BY <1>1, FS_Interval
  <1>10. rank \in Surjection(S, 1 .. Cardinality(S))
    BY <1>8, <1>9, FS_Injection
  <1> QED
    BY <1>1, <1>5, <1>6, <1>10, Zenon DEF Surjection, rank

(* The last schema of a name that is listed. *)
LEMMA LastIndexIsLast ==
    ASSUME NEW tools \in Seq(Schemas), NEW n \in NamesOf(tools)
    PROVE  /\ LastIndex(tools, n) \in DOMAIN tools
           /\ tools[LastIndex(tools, n)].name = n
           /\ \A j \in DOMAIN tools : tools[j].name = n => j <= LastIndex(tools, n)
  <1> DEFINE Places == {i \in DOMAIN tools : tools[i].name = n}
             ord    == [i \in Places |-> i]
             rank   == Numbering(Places, ord)
  <1>1. Places \subseteq Nat /\ Places # {}
    BY DEF NamesOf
  <1>2. IsFiniteSet(Places)
    <2>1. Places \in SUBSET (1 .. Len(tools))
      BY DOMAIN tools = 1 .. Len(tools)
    <2>2. IsFiniteSet(1 .. Len(tools))
      BY Len(tools) \in Int, FS_Interval
    <2> HIDE DEF Places
    <2> QED
      BY <2>1, <2>2, FS_Subset
  <1>3. Cardinality(Places) # 0
    BY <1>1, <1>2, FS_EmptySet
  <1>4. /\ Cardinality(Places) \in Nat
        /\ \A i, j \in Places : i < j => rank[i] < rank[j]
        /\ rank \in [Places -> 1 .. Cardinality(Places)]
        /\ \A k \in 1 .. Cardinality(Places) : \E i \in Places : rank[i] = k
    <2>1. \A i \in Places : ord[i] = i
      OBVIOUS
    <2> HIDE DEF Places, ord
    <2>2. /\ \A i \in Places : ord[i] \in Int
          /\ \A i, j \in Places : ord[i] = ord[j] => i = j
      BY <2>1, <1>1
    <2>3. /\ Cardinality(Places) \in Nat
          /\ \A i, j \in Places : ord[i] < ord[j] => rank[i] < rank[j]
          /\ rank \in [Places -> 1 .. Cardinality(Places)]
          /\ \A k \in 1 .. Cardinality(Places) : \E i \in Places : rank[i] = k
      BY <1>2, <2>2, RanksNumber
    <2> HIDE DEF rank
    <2> QED
      BY <2>1, <2>3
  <1> HIDE DEF rank
  <1>5. PICK last \in Places : rank[last] = Cardinality(Places)
    <2> HIDE DEF Places
    <2> QED
      BY <1>3, <1>4
  <1>6. \A j \in Places : j <= last
    <2> HIDE DEF Places
    <2> QED
      BY <1>1, <1>4, <1>5
  <1>7. \E k \in DOMAIN tools :
           tools[k].name = n /\ \A j \in DOMAIN tools : tools[j].name = n => j <= k
    BY <1>6
  <1> QED
    BY <1>7 DEF LastIndex

-------------------------------------------------------------------------------
LEMMA NamesAreFinite ==
    ASSUME NEW tools \in Seq(Schemas)
    PROVE  /\ NamesOf(tools) \in SUBSET Names /\ IsFiniteSet(NamesOf(tools))
           /\ \A m \in NamesOf(tools) : Order[m] \in Int
           /\ \A m, n \in NamesOf(tools) : Order[m] = Order[n] => m = n
  <1>1. NamesOf(tools) \in SUBSET Names
    BY RegistrationAssumption DEF NamesOf
  <1> QED
    BY <1>1, FS_Subset, RegistrationAssumption

(* A snapshot is sorted, has no name twice, and has the last schema of each   *)
(* name that was listed.                                                      *)
LEMMA ByNameCorrect ==
    ASSUME NEW tools \in Seq(Schemas)
    PROVE  /\ ByName(tools) \in Seq(Schemas)
           /\ Canonical(ByName(tools))
           /\ \A i \in DOMAIN ByName(tools) :
                 /\ ByName(tools)[i].name \in NamesOf(tools)
                 /\ ByName(tools)[i] = tools[LastIndex(tools, ByName(tools)[i].name)]
           /\ \A n \in NamesOf(tools) :
                 \E i \in DOMAIN ByName(tools) : ByName(tools)[i].name = n
  <1> DEFINE names == NamesOf(tools)
             rank  == Numbering(names, Order)
             at(i) == CHOOSE n \in names : Rank(names, n) = i
             b     == ByName(tools)
  <1>1. /\ Cardinality(names) \in Nat
        /\ \A m, n \in names : Order[m] < Order[n] => rank[m] < rank[n]
        /\ rank \in [names -> 1 .. Cardinality(names)]
        /\ \A i \in 1 .. Cardinality(names) : \E n \in names : rank[n] = i
    <2>1. /\ IsFiniteSet(names)
          /\ \A m \in names : Order[m] \in Int
          /\ \A m, n \in names : Order[m] = Order[n] => m = n
      BY NamesAreFinite
    <2> HIDE DEF names
    <2> QED
      BY <2>1, RanksNumber
  <1>2. \A n \in names : Rank(names, n) = rank[n]
    BY DEF Rank, Numbering
  <1>3. /\ b = [i \in 1 .. Cardinality(names) |-> tools[LastIndex(tools, at(i))]]
        /\ names = NamesOf(tools)
    BY DEF ByName
  <1> HIDE DEF names, rank, b
  <1>4. \A i \in 1 .. Cardinality(names) : at(i) \in names /\ rank[at(i)] = i
    BY <1>1, <1>2
  <1>5. \A n \in names : at(rank[n]) = n
    <2>1. \A m, n \in names : Order[m] \in Int /\ (Order[m] = Order[n] => m = n)
      BY NamesAreFinite DEF names
    <2>2. \A m, n \in names : rank[m] = rank[n] => m = n
      BY <2>1, <1>1
    <2> QED
      BY <1>1, <1>4, <2>2
  <1> HIDE DEF at
  <1>6. \A n \in names : /\ LastIndex(tools, n) \in DOMAIN tools
                         /\ tools[LastIndex(tools, n)].name = n
    BY <1>3, LastIndexIsLast
  <1>7. /\ DOMAIN b = 1 .. Cardinality(names)
        /\ \A i \in DOMAIN b : /\ b[i] \in Schemas
                               /\ b[i].name = at(i) /\ b[i].name \in names
                               /\ b[i] = tools[LastIndex(tools, b[i].name)]
    BY <1>3, <1>4, <1>6
  <1>8. b \in Seq(Schemas)
    <2>1. b \in [1 .. Cardinality(names) -> Schemas]
      BY <1>3, <1>7
    <2> QED
      BY <1>1, <2>1
  <1>9. Canonical(b)
    <2>1. ASSUME NEW i \in DOMAIN b, NEW j \in DOMAIN b, i < j
          PROVE  Order[at(i)] < Order[at(j)]
      <3>1. /\ at(i) \in names /\ rank[at(i)] = i
            /\ at(j) \in names /\ rank[at(j)] = j
        BY <1>4, <1>7
      <3>2. Order[at(i)] \in Int /\ Order[at(j)] \in Int
            /\ (Order[at(i)] = Order[at(j)] => at(i) = at(j))
        BY <3>1, NamesAreFinite DEF names
      <3>3. i \in Int /\ j \in Int
        BY <1>7
      <3>4. ~(Order[at(j)] < Order[at(i)])
        BY <3>1, <3>3, <1>1, <2>1
      <3> QED
        BY <3>1, <3>2, <3>3, <3>4, <2>1
    <2> QED
      BY <2>1, <1>7 DEF Canonical
  <1>10. \A n \in names : \E i \in DOMAIN b : b[i].name = n
    BY <1>1, <1>5, <1>7
  <1> QED
    BY <1>3, <1>7, <1>8, <1>9, <1>10 DEF b

(* A pass registers nothing that was not listed. *)
LEMMA PassNamesListed ==
    ASSUME NEW listed \in Seq(Schemas),
           NEW tools, tools = listed \/ tools = ByName(listed),
           NEW i \in DOMAIN tools
    PROVE  tools[i].name \in NamesOf(listed)
  BY ByNameCorrect DEF NamesOf

(* What a pass registers last under each name is its goal, whether it is the *)
(* listing itself or a snapshot of it.                                       *)
LEMMA PassLeadsToGoal ==
    ASSUME NEW listed \in Seq(Schemas),
           NEW tools, tools = listed \/ tools = ByName(listed),
           NEW n \in NamesOf(listed)
    PROVE  \E i \in DOMAIN tools :
              /\ tools[i].name = n /\ tools[i] = listed[LastIndex(listed, n)]
              /\ \A j \in DOMAIN tools : tools[j].name = n => j <= i
  <1>1. CASE tools = listed
    BY <1>1, LastIndexIsLast
  <1>2. CASE tools = ByName(listed)
    <2>1. /\ tools \in Seq(Schemas) /\ Canonical(tools)
          /\ \A i \in DOMAIN tools : tools[i] = listed[LastIndex(listed, tools[i].name)]
      BY <1>2, ByNameCorrect
    <2>2. PICK i \in DOMAIN tools : tools[i].name = n
      BY <1>2, ByNameCorrect
    <2>3. Order[n] \in Int
      BY NamesAreFinite
    <2>4. \A j \in DOMAIN tools : tools[j].name = n => j <= i
      BY <2>1, <2>2, <2>3 DEF Canonical
    <2> QED
      BY <2>1, <2>2, <2>4
  <1> QED
    BY <1>1, <1>2

(* A finite set of schemas can be listed. *)
LEMMA SetToSeqLists ==
    ASSUME NEW S \in SUBSET Schemas, IsFiniteSet(S)
    PROVE  SetToSeq(S) \in Seq(Schemas)
  <1>1. Cardinality(S) \in Nat /\ ExistsBijection(1 .. Cardinality(S), S)
    BY FS_CardinalityType
  <1>2. \E f \in [1 .. Cardinality(S) -> S] : IsInjective(f)
    BY <1>1 DEF ExistsBijection, Bijection, Injection
  <1>3. SetToSeq(S) \in [1 .. Cardinality(S) -> S]
    BY <1>2 DEF SetToSeq
  <1> QED
    BY <1>1, <1>3
-------------------------------------------------------------------------------
(* The inductive invariant. *)
SnapshotFaithful == \A h \in Hosts : \A s \in snapshot[h] : s.tools = ByName(s.listed)

(* A name of h's goal is still to be registered, the goal's adapter last. *)
ToCome(h, n) ==
    \E i \in DOMAIN pending[h] :
        /\ pending[h][i].schema.name = n /\ pending[h][i] = goal[h][n]
        /\ \A j \in DOMAIN pending[h] : pending[h][j].schema.name = n => j <= i

(* A name of h's goal leads where h wanted it, and h will not touch it again. *)
Settled(h, n) ==
    /\ \A i \in DOMAIN pending[h] : pending[h][i].schema.name # n
    /\ n \in DOMAIN registry /\ registry[n] = goal[h][n]

Settling == \A h \in Hosts : \A n \in DOMAIN goal[h] : ToCome(h, n) \/ Settled(h, n)

(* A host wants everything that it has still to register, *)
Wanted ==
    \A h \in Hosts : \A i \in DOMAIN pending[h] : pending[h][i].schema.name \in DOMAIN goal[h]

(* so that a name in the registry is never without a host that wants it. *)
Owned == \A n \in DOMAIN registry : \E h \in Hosts : n \in DOMAIN goal[h]

RegInv == RegistrationTypeOK /\ SnapshotFaithful /\ Settling /\ Wanted /\ Owned

LEMMA ToolParts ==
    /\ \A c \in Conns, s \in Schemas :
          McpTool(c, s) \in Tools /\ McpTool(c, s).schema = s
    /\ \A t \in Tools : t.schema \in Schemas /\ t.schema.name \in Names
  BY RegistrationAssumption DEF Tools, McpTool

LEMMA AdaptersListed ==
    ASSUME NEW c \in Conns, NEW tools \in Seq(Schemas)
    PROVE  /\ Adapters(c, tools) \in Seq(Tools) /\ DOMAIN Adapters(c, tools) = DOMAIN tools
           /\ \A i \in DOMAIN tools : /\ Adapters(c, tools)[i] = McpTool(c, tools[i])
                                      /\ Adapters(c, tools)[i].schema = tools[i]
  <1>1. \A i \in DOMAIN tools : tools[i] \in Schemas
    OBVIOUS
  <1>2. /\ DOMAIN Adapters(c, tools) = 1 .. Len(tools)
        /\ \A i \in 1 .. Len(tools) : Adapters(c, tools)[i] = McpTool(c, tools[i])
        /\ Adapters(c, tools) = [i \in 1 .. Len(tools) |-> McpTool(c, tools[i])]
    BY DEF Adapters
  <1>3. Adapters(c, tools) \in [1 .. Len(tools) -> Tools]
    BY <1>1, <1>2, ToolParts
  <1> QED
    BY <1>1, <1>2, <1>3, ToolParts

LEMMA InitRegistered == Init => RegInv
  <1> SUFFICES ASSUME Init PROVE RegInv
    OBVIOUS
  <1>1. Loopbacks \subseteq Conns /\ 0 \in 0 .. MaxPasses
    BY RegistrationAssumption
  <1>2. RegistrationTypeOK
    BY <1>1 DEF Init, RegistrationTypeOK
  <1>3. SnapshotFaithful /\ Settling /\ Wanted /\ Owned
    BY DEF Init, SnapshotFaithful, Settling, Wanted, Owned
  <1> QED
    BY <1>2, <1>3 DEF RegInv

(* Taking a snapshot disturbs no pass: its host has none. *)
LEMMA SnapshotKeeps ==
    ASSUME RegInv, NEW h \in Hosts, NEW listed \in Seq(Schemas), Snapshot(h, listed)
    PROVE  RegInv'
  <1> DEFINE new == [tools |-> ByName(listed), listed |-> listed]
  <1>1. /\ new \in [tools : Seq(Schemas), listed : Seq(Schemas)]
        /\ new.tools = ByName(listed) /\ new.listed = listed /\ Canonical(new.tools)
    BY ByNameCorrect
  <1>2. /\ snapshot' = [snapshot EXCEPT ![h] = {new}]
        /\ UNCHANGED <<alive, used, registry, pending, passes, goal, calling, answer>>
    BY DEF Snapshot, callVars
  <1> HIDE DEF new
  <1>3. RegistrationTypeOK'
    BY <1>1, <1>2 DEF RegInv, RegistrationTypeOK, Canonical
  <1>4. SnapshotFaithful'
    BY <1>1, <1>2 DEF RegInv, RegistrationTypeOK, SnapshotFaithful
  <1>5. Settling' /\ Wanted' /\ Owned'
    BY <1>2 DEF RegInv, Settling, ToCome, Settled, Wanted, Owned
  <1> QED
    BY <1>3, <1>4, <1>5 DEF RegInv

(* A pass begins with all of its names to come. *)
LEMMA PassKeeps ==
    ASSUME RegInv, NEW h \in Hosts, NEW c \in Conns, NEW listed \in Seq(Schemas),
           NEW tools, tools = listed \/ tools = ByName(listed),
           BeginPass(h, c, tools, listed)
    PROVE  RegInv'
  <1> DEFINE new == Resolved(c, listed)
  <1>1. tools \in Seq(Schemas)
    BY ByNameCorrect
  <1>2. /\ pending[h] = << >>
        /\ passes < MaxPasses /\ passes' = passes + 1
        /\ pending' = [pending EXCEPT ![h] = Adapters(c, tools)]
        /\ goal' = [goal EXCEPT ![h] = Over(new, goal[h])]
        /\ UNCHANGED <<alive, used, registry, snapshot, calling, answer>>
    BY DEF BeginPass, callVars
  <1>3. RegistrationTypeOK'
    <2>1. passes' \in 0 .. MaxPasses
      BY <1>2, RegistrationAssumption DEF RegInv, RegistrationTypeOK
    <2>2. pending' \in [Hosts -> Seq(Tools)]
      BY <1>1, <1>2, AdaptersListed DEF RegInv, RegistrationTypeOK
    <2>3. goal' = [g \in Hosts |-> goal'[g]]
      BY <1>2 DEF RegInv, RegistrationTypeOK
    <2> QED
      BY <1>2, <2>1, <2>2, <2>3 DEF RegInv, RegistrationTypeOK, Canonical
  <1>4. SnapshotFaithful'
    BY <1>2 DEF RegInv, SnapshotFaithful
  <1>5. /\ pending'[h] = Adapters(c, tools) /\ goal'[h] = Over(new, goal[h])
        /\ \A g \in Hosts \ {h} : goal'[g] = goal[g] /\ pending'[g] = pending[g]
    BY <1>2 DEF RegInv, RegistrationTypeOK
  <1>6. /\ DOMAIN new = NamesOf(listed)
        /\ \A n \in NamesOf(listed) : new[n] = McpTool(c, listed[LastIndex(listed, n)])
    BY DEF Resolved
  <1> HIDE DEF new
  <1>7. /\ DOMAIN goal'[h] = NamesOf(listed) \cup DOMAIN goal[h]
        /\ \A n \in NamesOf(listed) : goal'[h][n] = McpTool(c, listed[LastIndex(listed, n)])
        /\ \A n \in DOMAIN goal[h] \ NamesOf(listed) : goal'[h][n] = goal[h][n]
    BY <1>5, <1>6 DEF Over
  <1>8. /\ DOMAIN pending'[h] = DOMAIN tools
        /\ \A j \in DOMAIN tools : /\ pending'[h][j] = McpTool(c, tools[j])
                                   /\ pending'[h][j].schema = tools[j]
                                   /\ tools[j].name \in NamesOf(listed)
    BY <1>1, <1>5, AdaptersListed, PassNamesListed
  <1>9. ASSUME NEW g \in Hosts, NEW n \in DOMAIN goal'[g]
        PROVE  ToCome(g, n)' \/ Settled(g, n)'
    <2>1. CASE g = h /\ n \in NamesOf(listed)
      <3>1. PICK i \in DOMAIN tools :
                /\ tools[i].name = n /\ tools[i] = listed[LastIndex(listed, n)]
                /\ \A j \in DOMAIN tools : tools[j].name = n => j <= i
        BY <2>1, PassLeadsToGoal
      <3> QED
        BY <2>1, <3>1, <1>7, <1>8 DEF ToCome
    <2>2. CASE g = h /\ n \notin NamesOf(listed)
      <3>1. n \in DOMAIN goal[h] /\ goal'[h][n] = goal[h][n]
        BY <2>2, <1>7, <1>9
      <3>2. DOMAIN pending[h] = {}
        BY <1>2
      <3>3. Settled(h, n)
        BY <3>1, <3>2 DEF RegInv, Settling, ToCome
      <3> QED
        BY <2>2, <3>1, <3>3, <1>2, <1>8 DEF Settled
    <2>3. CASE g # h
      BY <2>3, <1>2, <1>5, <1>9 DEF RegInv, Settling, ToCome, Settled
    <2> QED
      BY <2>1, <2>2, <2>3
  <1>10. Settling'
    BY <1>9 DEF Settling
  <1>11. Wanted'
    BY <1>5, <1>7, <1>8 DEF RegInv, Wanted
  <1>12. Owned'
    BY <1>2, <1>5, <1>7 DEF RegInv, Owned
  <1> QED
    BY <1>3, <1>4, <1>10, <1>11, <1>12 DEF RegInv

(* One more tool is registered: the name is its host's, and no longer that of *)
(* a host that has nothing more to register under it.                         *)
LEMMA RegisterKeeps ==
    ASSUME RegInv, NEW h \in Hosts, RegisterNext(h)
    PROVE  RegInv'
  <1> DEFINE tool == Head(pending[h])
             name == tool.schema.name
  <1>1. /\ pending[h] \in Seq(Tools) /\ pending[h] # << >>
        /\ registry' = Put(registry, name, tool)
        /\ HandOver(h, name)
        /\ pending' = [pending EXCEPT ![h] = Tail(@)]
        /\ UNCHANGED <<alive, used, snapshot, passes, calling, answer>>
    BY DEF RegisterNext, callVars, RegInv, RegistrationTypeOK
  <1>2. /\ Tail(pending[h]) \in Seq(Tools)
        /\ Len(pending[h]) \in Nat \ {0}
        /\ DOMAIN pending[h] = 1 .. Len(pending[h])
        /\ DOMAIN Tail(pending[h]) = 1 .. Len(pending[h]) - 1
        /\ tool = pending[h][1]
        /\ \A i \in 1 .. Len(pending[h]) - 1 : Tail(pending[h])[i] = pending[h][i + 1]
    BY <1>1
  <1>3. tool \in Tools /\ name \in Names
    BY <1>2, ToolParts
  <1> HIDE DEF tool
  <1>4. /\ DOMAIN registry' = DOMAIN registry \cup {name}
        /\ registry'[name] = tool
        /\ \A n \in DOMAIN registry \ {name} : registry'[n] = registry[n]
    BY <1>1 DEF Put
  <1>5. RegistrationTypeOK'
    <2>1. pending' \in [Hosts -> Seq(Tools)]
      BY <1>1, <1>2 DEF RegInv, RegistrationTypeOK
    <2>2. goal' = [g \in Hosts |-> goal'[g]]
      BY <1>1 DEF HandOver
    <2>3. /\ DOMAIN registry' \subseteq Names
          /\ \A n \in DOMAIN registry' : registry'[n] \in Tools /\ registry'[n].schema.name = n
      BY <1>3, <1>4 DEF RegInv, RegistrationTypeOK
    <2> QED
      BY <1>1, <2>1, <2>2, <2>3 DEF RegInv, RegistrationTypeOK, Canonical
  <1>6. SnapshotFaithful'
    BY <1>1 DEF RegInv, SnapshotFaithful
  <1>7. /\ goal'[h] = goal[h] /\ pending'[h] = Tail(pending[h])
        /\ \A g \in Hosts \ {h} :
              /\ pending'[g] = pending[g]
              /\ Awaits(g, name) => goal'[g] = goal[g]
              /\ ~ Awaits(g, name) => /\ DOMAIN goal'[g] = DOMAIN goal[g] \ {name}
                                      /\ \A n \in DOMAIN goal'[g] : goal'[g][n] = goal[g][n]
    BY <1>1 DEF HandOver, Without, RegInv, RegistrationTypeOK
  <1> HIDE DEF name
  <1>8. ASSUME NEW g \in Hosts, NEW n \in DOMAIN goal'[g]
        PROVE  ToCome(g, n)' \/ Settled(g, n)'
    <2>1. CASE g # h
      <3>1. /\ n \in DOMAIN goal[g] /\ goal'[g][n] = goal[g][n]
            /\ n = name => Awaits(g, name)
        BY <1>7, <1>8, <2>1
      <3>2. ToCome(g, n) \/ Settled(g, n)
        BY <3>1 DEF RegInv, Settling
      <3>3. CASE ToCome(g, n)
        BY <1>7, <2>1, <3>1, <3>3 DEF ToCome
      <3>4. CASE Settled(g, n)
        <4>1. n # name
          BY <3>1, <3>4 DEF Settled, Awaits
        <4> QED
          BY <1>4, <1>7, <2>1, <3>1, <3>4, <4>1 DEF Settled
      <3> QED
        BY <3>2, <3>3, <3>4
    <2>2. CASE g = h
      <3>1. /\ goal'[h] = goal[h] /\ n \in DOMAIN goal[h]
            /\ pending'[h] = Tail(pending[h])
        BY <1>7, <1>8, <2>2
      <3>2. ToCome(h, n) \/ Settled(h, n)
        BY <3>1 DEF RegInv, Settling
      <3>3. CASE Settled(h, n)
        <4>1. n # name
          BY <1>2, <3>3 DEF Settled, name
        <4>2. \A i \in DOMAIN pending'[h] : pending'[h][i].schema.name # n
          BY <3>1, <3>3, <1>2 DEF Settled
        <4>3. n \in DOMAIN registry' /\ registry'[n] = goal'[h][n]
          BY <3>1, <3>3, <4>1, <1>4 DEF Settled
        <4> QED
          BY <4>2, <4>3, <2>2 DEF Settled
      <3>4. CASE ToCome(h, n)
        <4>1. PICK i \in DOMAIN pending[h] :
                /\ pending[h][i].schema.name = n /\ pending[h][i] = goal[h][n]
                /\ \A j \in DOMAIN pending[h] : pending[h][j].schema.name = n => j <= i
          BY <3>4 DEF ToCome
        <4>2. CASE i = 1
          <5>1. name = n /\ registry'[n] = goal'[h][n] /\ n \in DOMAIN registry'
            BY <4>1, <4>2, <3>1, <1>2, <1>4 DEF name
          <5>2. \A j \in DOMAIN pending'[h] : pending'[h][j].schema.name # n
            BY <4>1, <4>2, <3>1, <1>2
          <5> QED
            BY <5>1, <5>2, <2>2 DEF Settled
        <4>3. CASE i # 1
          <5>1. i - 1 \in DOMAIN pending'[h] /\ pending'[h][i - 1] = pending[h][i]
            BY <4>1, <4>3, <3>1, <1>2
          <5>2. ASSUME NEW j \in DOMAIN pending'[h], pending'[h][j].schema.name = n
                PROVE  j <= i - 1
            <6>1. /\ j + 1 \in DOMAIN pending[h] /\ pending'[h][j] = pending[h][j + 1]
                  /\ i \in Int /\ j \in Int
              BY <3>1, <1>2
            <6>2. j + 1 <= i
              BY <5>2, <6>1, <4>1
            <6> QED
              BY <6>1, <6>2
          <5> QED
            BY <5>1, <5>2, <4>1, <3>1, <2>2 DEF ToCome
        <4> QED
          BY <4>2, <4>3
      <3> QED
        BY <3>2, <3>3, <3>4
    <2> QED
      BY <2>1, <2>2
  <1>9. Settling'
    BY <1>8 DEF Settling
  <1>10. ASSUME NEW g \in Hosts, NEW i \in DOMAIN pending'[g]
         PROVE  pending'[g][i].schema.name \in DOMAIN goal'[g]
    <2>1. CASE g = h
      <3>1. i + 1 \in DOMAIN pending[h] /\ pending'[h][i] = pending[h][i + 1]
        <4>1. pending'[h] = Tail(pending[h]) /\ i \in DOMAIN pending'[h]
          BY <1>7, <1>10, <2>1
        <4>2. i \in 1 .. Len(pending[h]) - 1
          BY <4>1, <1>2
        <4> QED
          BY <4>1, <4>2, <1>2
      <3> QED
        BY <1>7, <2>1, <3>1 DEF RegInv, Wanted
    <2>2. CASE g # h
      <3>1. i \in DOMAIN pending[g] /\ pending'[g][i] = pending[g][i]
        BY <1>7, <1>10, <2>2
      <3>2. pending[g][i].schema.name \in DOMAIN goal[g]
        BY <3>1 DEF RegInv, Wanted
      <3> QED
        BY <1>7, <2>2, <3>1, <3>2 DEF Awaits
    <2> QED
      BY <2>1, <2>2
  <1>11. Wanted'
    BY <1>10 DEF Wanted
  <1>12. ASSUME NEW n \in DOMAIN registry'
         PROVE  \E g \in Hosts : n \in DOMAIN goal'[g]
    <2>1. CASE n = name
      <3>1. 1 \in DOMAIN pending[h]
        BY <1>2
      <3>2. name \in DOMAIN goal[h]
        BY <1>2, <3>1 DEF RegInv, Wanted, name
      <3> QED
        BY <1>7, <2>1, <3>2
    <2>2. CASE n # name
      <3>1. PICK g \in Hosts : n \in DOMAIN goal[g]
        BY <1>4, <1>12, <2>2 DEF RegInv, Owned
      <3>2. n \in DOMAIN goal'[g]
        BY <1>7, <2>2, <3>1
      <3> QED
        BY <3>2
    <2> QED
      BY <2>1, <2>2
  <1>13. Owned'
    BY <1>12 DEF Owned
  <1> QED
    BY <1>5, <1>6, <1>9, <1>11, <1>13 DEF RegInv

(* Connections and calls disturb no pass. *)
LEMMA OthersKeep ==
    ASSUME RegInv, UNCHANGED hostVars, UNCHANGED registry,
           Loopbacks \subseteq alive' /\ alive' \subseteq used' /\ used' \subseteq Conns,
           calling' \in [Callers -> SUBSET Tools]
    PROVE  RegInv'
  <1>1. UNCHANGED <<registry, snapshot, pending, passes, goal>>
    BY DEF hostVars
  <1>2. RegistrationTypeOK'
    BY <1>1 DEF RegInv, RegistrationTypeOK, Canonical
  <1>3. SnapshotFaithful' /\ Settling' /\ Wanted' /\ Owned'
    BY <1>1 DEF RegInv, SnapshotFaithful, Settling, ToCome, Settled, Wanted, Owned
  <1> QED
    BY <1>2, <1>3 DEF RegInv

(* What a scope shows of a registry can be listed. *)
LEMMA ScopeListed ==
    ASSUME RegInv, NEW scope
    PROVE  SetToSeq({registry[n].schema : n \in scope \cap DOMAIN registry}) \in Seq(Schemas)
  <1> DEFINE shown   == scope \cap DOMAIN registry
             schema  == [n \in shown |-> registry[n].schema]
             schemas == {registry[n].schema : n \in shown}
  <1>1. IsFiniteSet(shown)
    <2>1. shown \in SUBSET Names /\ IsFiniteSet(Names)
      BY RegistrationAssumption DEF RegInv, RegistrationTypeOK
    <2> HIDE DEF shown
    <2> QED
      BY <2>1, FS_Subset
  <1>2. schema \in Surjection(shown, schemas)
    BY DEF Surjection
  <1>3. schemas \in SUBSET Schemas
    BY ToolParts DEF RegInv, RegistrationTypeOK
  <1> HIDE DEF shown, schema, schemas
  <1>4. IsFiniteSet(schemas)
    BY <1>1, <1>2, FS_Surjection
  <1>5. SetToSeq(schemas) \in Seq(Schemas)
    BY <1>3, <1>4, SetToSeqLists
  <1> QED
    BY <1>5 DEF schemas, shown

LEMMA RegInvHolds == Spec => []RegInv
  <1>1. ASSUME RegInv, [Next]_vars PROVE RegInv'
    <2> USE <1>1
    <2>1. CASE UNCHANGED vars
      BY <2>1, OthersKeep DEF vars, hostVars, callVars, RegInv, RegistrationTypeOK
    <2>2. ASSUME NEW c \in Conns, Connect(c) \/ Disconnect(c) PROVE RegInv'
      BY <2>2, OthersKeep
      DEF Connect, Disconnect, hostVars, callVars, RegInv, RegistrationTypeOK
    <2>3. ASSUME NEW h \in Hosts, NEW c \in Conns, Discover(h, c) PROVE RegInv'
      BY <2>3, SnapshotKeeps, RegistrationAssumption DEF Discover
    <2>4. ASSUME NEW h \in Hosts, NEW c \in Conns, FromTransport(h, c) PROVE RegInv'
      BY <2>4, PassKeeps, RegistrationAssumption DEF FromTransport
    <2>5. ASSUME NEW h \in Hosts, NEW c \in Conns, ReplayInto(h, c) PROVE RegInv'
      <3>1. PICK s \in snapshot[h] : BeginPass(h, c, s.tools, s.listed)
        BY <2>5 DEF ReplayInto
      <3>2. s.listed \in Seq(Schemas) /\ s.tools = ByName(s.listed)
        BY DEF RegInv, RegistrationTypeOK, SnapshotFaithful
      <3> QED
        BY <3>1, <3>2, PassKeeps
    <2>6. ASSUME NEW h \in Hosts, NEW scope \in Scopes, FromRegistry(h, scope) PROVE RegInv'
      BY <2>6, ScopeListed, SnapshotKeeps DEF FromRegistry
    <2>7. ASSUME NEW h \in Hosts, RegisterCacheTools(h) PROVE RegInv'
      BY <2>7, PassKeeps, RegistrationAssumption DEF RegisterCacheTools
    <2>8. ASSUME NEW h \in Hosts, RegisterNext(h) PROVE RegInv'
      BY <2>8, RegisterKeeps
    <2>9. ASSUME NEW k \in Callers, NEW n \in Names, Invoke(k, n) PROVE RegInv'
      <3>1. \/ UNCHANGED calling
            \/ n \in DOMAIN registry /\ calling' = [calling EXCEPT ![k] = {registry[n]}]
        BY <2>9, Zenon DEF Invoke
      <3>2. calling' \in [Callers -> SUBSET Tools]
        BY <3>1 DEF RegInv, RegistrationTypeOK
      <3> QED
        BY <3>2, <2>9, OthersKeep DEF Invoke, RegInv, RegistrationTypeOK
    <2>10. ASSUME NEW k \in Callers, Answer(k) PROVE RegInv'
      <3>1. calling' \in [Callers -> SUBSET Tools]
        BY <2>10 DEF Answer, RegInv, RegistrationTypeOK
      <3> QED
        BY <3>1, <2>10, OthersKeep DEF Answer, RegInv, RegistrationTypeOK
    <2> QED
      BY <2>1, <2>2, <2>3, <2>4, <2>5, <2>6, <2>7, <2>8, <2>9, <2>10 DEF Next
  <1> QED
    BY <1>1, InitRegistered, PTL DEF Spec

-------------------------------------------------------------------------------
(* Type correctness: the registry's key is the tool's own name, and every     *)
(* snapshot is sorted by name and without duplicates, whatever was listed.    *)
THEOREM RegistrationTypeCorrect == Spec => []RegistrationTypeOK
  <1>1. RegInv => RegistrationTypeOK
    BY DEF RegInv
  <1> QED
    BY <1>1, RegInvHolds, PTL

(* A finished pass has taken hold: each of its names leads to its connection  *)
(* with the last schema listed, unless another host registered the name since;*)
(* and of hosts that race for a name one always has it.                       *)
THEOREM RegistrationSettles == Spec => []RegistrationTakesHold
  <1>1. RegInv => RegistrationTakesHold
    BY DEF RegInv, RegistrationTakesHold, Settling, ToCome, Settled, Owned
  <1> QED
    BY <1>1, RegInvHolds, PTL

===============================================================================
