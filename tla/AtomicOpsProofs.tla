--------------------------- MODULE AtomicOpsProofs ---------------------------
(* Proofs about Engine and AtomicOps.  Engine, for every set of values,      *)
(* number of UIDs, of namespaces, of edges in a batch and of concurrent      *)
(* upserts.  AtomicOps: GetAndDelete gives each record to one caller, on     *)
(* the embedded engine and on a cluster, with any number of callers, records *)
(* and retries, whatever fails.  Two conditions: on the embedded engine no   *)
(* one consumes in a transaction of its own (Unarbitrated), which takes no   *)
(* lock; and the key GetOrInsert ensures is another, for on the engine its   *)
(* mutation writes its key into a node that was consumed since its query.    *)
(* Under them no record is lost unreported either, and where the key is      *)
(* unique in the schema one GetOrInsert inserts.                             *)
EXTENDS AtomicOps, FiniteSetTheorems, TLAPS

(* Engine by itself: Spec.                                                   *)
USE EngineConstants DEF Lands

NodeMap == [UID -> Value \cup {NoValue}]

-----------------------------------------------------------------------------
(* Nodes are ordered: of a set of UIDs one is the lowest.  The strict subset *)
(* ordering is well-founded on finite sets, and so is < on the intervals     *)
(* below the UIDs.                                                           *)
LEMMA LowestUID ==
    ASSUME NEW H, H \subseteq UID, H # {}
    PROVE  \E x \in H : \A y \in H : x <= y
<1> DEFINE S == 1 .. MaxUID
           Below(x) == 1 .. x
           T == {Below(x) : x \in H}
<1>1. \A x \in H : x \in Nat /\ 1 <= x /\ x <= MaxUID
  BY DEF UID
<1>2. IsFiniteSet(S)
  BY FS_Interval
<1>3. T \subseteq SUBSET S /\ T # {}
  BY <1>1
<1>4. T \subseteq FiniteSubsetsOf(S)
  BY <1>2, <1>3, FS_Subset DEF FiniteSubsetsOf
<1>5. \E t \in T : \A u \in T : ~ (<<u, t>> \in StrictSubsetOrdering(S))
  <2> HIDE DEF T, S
  <2> QED
    BY <1>2, <1>3, <1>4, FS_StrictSubsetOrderingWellFounded, WFMin
<1>6. PICK x \in H : \A y \in H : ~ (<<Below(y), Below(x)>> \in StrictSubsetOrdering(S))
  BY <1>5
<1>7. \A y \in H : ~ (y < x)
  <2> SUFFICES ASSUME NEW y \in H, y < x PROVE FALSE
    OBVIOUS
  <2>1. Below(y) \in SUBSET S /\ Below(x) \in SUBSET S
    BY <1>1
  <2>2. Below(y) \subseteq Below(x) /\ Below(y) # Below(x)
    BY <1>1
  <2> QED
    BY <1>6, <2>1, <2>2 DEF StrictSubsetOrdering
<1> QED
  BY <1>1, <1>7

(* The first node of a query's result exists whenever some node matches:     *)
(* UIDs are naturals, so a set of them has a least member.                   *)
LEMMA FirstMatches ==
    ASSUME NEW ns \in Namespace, NEW v
    PROVE  /\ Having(ns, v) = {} => First(ns, v) = NoUID
           /\ Having(ns, v) # {} => First(ns, v) \in Having(ns, v)
           /\ First(ns, v) \in UID \cup {NoUID}
<1>1. Having(ns, v) \subseteq UID
  BY DEF Having
<1>2. UID \subseteq Nat
  BY DEF UID
<1>3. CASE Having(ns, v) = {}
  BY <1>3 DEF First
<1>4. CASE Having(ns, v) # {}
  <2> DEFINE H == Having(ns, v)
  <2>1. \E x \in H : \A y \in H : x <= y
    BY <1>1, <1>4, LowestUID
  <2>2. First(ns, v) \in H
    BY <1>4, <2>1 DEF First
  <2> QED
    BY <1>1, <1>4, <2>2
<1> QED
  BY <1>3, <1>4

(* A batch that passes verifyUniqueConstraints leaves no two nodes with the  *)
(* same value, in whatever order the store applies its edges.                *)
LEMMA AppliedDistinct ==
    ASSUME NEW ns \in Namespace, NEW n \in Nat, NEW edges, DOMAIN edges = 1 .. n,
           valueOf \in [Namespace -> NodeMap],
           schemaOf[ns] = "unique",
           Distinct(ns),
           ~ViolatesUnique(ns, edges),
           NEW new \in Applied(valueOf[ns], edges),
           NEW u \in UID, NEW w \in UID, u # w, new[u] = new[w]
    PROVE  new[u] = NoValue
<1> SUFFICES ASSUME new[u] # NoValue PROVE FALSE
  OBVIOUS
<1> DEFINE SetBy(x, i) == edges[i].uid = x /\ edges[i].op = "SET" /\ edges[i].value = new[x]
           Kept(x) == new[x] = valueOf[ns][x]
<1>1. \A x \in {u, w} : (\E i \in 1 .. n : SetBy(x, i)) \/ Kept(x)
  BY DEF Applied, Outcome
<1>2. \A i \in 1 .. n, x \in UID : SetBy(x, i) => First(ns, new[x]) \in {NoUID, x} /\ ~SeenInBatch(edges, i)
  BY DEF ViolatesUnique, StoredElsewhere
<1>3. \A x, y \in UID, i \in 1 .. n : ~(SetBy(x, i) /\ Kept(y) /\ x # y /\ new[x] = new[y] /\ new[x] # NoValue)
  <2> SUFFICES ASSUME NEW x \in UID, NEW y \in UID, NEW i \in 1 .. n,
                      SetBy(x, i), Kept(y), x # y, new[x] = new[y], new[x] # NoValue
               PROVE  FALSE
    OBVIOUS
  <2>1. y \in Having(ns, new[x])
    BY DEF Having
  <2>2. First(ns, new[x]) \in Having(ns, new[x]) /\ First(ns, new[x]) # NoUID
    BY <2>1, FirstMatches DEF Having, UID, NoUID
  <2>3. x \in Having(ns, new[x])
    BY <1>2, <2>2
  <2> QED
    BY <2>1, <2>3 DEF Having, Distinct
<1>4. \A i, j \in 1 .. n : ~(SetBy(u, i) /\ SetBy(w, j))
  <2> SUFFICES ASSUME NEW i \in 1 .. n, NEW j \in 1 .. n, SetBy(u, i), SetBy(w, j)
               PROVE  FALSE
    OBVIOUS
  <2>1. ~SeenInBatch(edges, i) /\ ~SeenInBatch(edges, j)
    BY <1>2
  <2>2. i # j
    OBVIOUS
  <2>3. i < j \/ j < i
    BY <2>2
  <2> QED
    BY <2>1, <2>3 DEF SeenInBatch
<1>5. ~(Kept(u) /\ Kept(w))
  BY DEF Distinct
<1> HIDE DEF SetBy, Kept
<1> QED
  BY <1>1, <1>3, <1>4, <1>5

-----------------------------------------------------------------------------
(* A mutation keeps the three invariants, whichever way it ends. *)
IInv == TypeOK /\ UniqueHolds /\ BlankNodesAreNew

(* Whatever the store makes of a batch of edges is a map of nodes. *)
LEMMA AppliedTyped ==
    ASSUME NEW nodes, NEW edges, NEW new \in Applied(nodes, edges)
    PROVE  new \in NodeMap
  BY DEF Applied, NodeMap

(* mutate keeps the engine's state typed, whichever way it ends. *)
LEMMA MutateTyped ==
    ASSUME TypeOK,
           NEW ns \in Namespace, NEW edges, NEW blanks \in 0 .. 1, NEW result,
           Mutate(ns, edges, blanks, result),
           reference' \in [Upserter -> [ns : Namespace, value : Value \cup {NoValue},
                                        found : UID \cup {NoUID}]]
    PROVE  TypeOK'
<1>1. valueOf' \in [Namespace -> NodeMap]
  BY AppliedTyped DEF Mutate, TypeOK, NodeMap
<1>2. minLeasedUID' \in initialUID .. MaxUID + 1
  BY DEF Mutate, TypeOK, Addressable, AssignUIDs
<1> QED
  BY <1>1, <1>2 DEF Mutate, TypeOK, NodeMap

(* mutate keeps @unique: a batch that violates it is refused                 *)
(* (verifyUniqueConstraints), one that does not is applied.                  *)
LEMMA MutateKeepsUnique ==
    ASSUME TypeOK, UniqueHolds,
           NEW ns \in Namespace, NEW n \in Nat, NEW edges, DOMAIN edges = 1 .. n,
           NEW blanks, NEW result,
           Mutate(ns, edges, blanks, result)
    PROVE  UniqueHolds'
<1>1. CASE UNCHANGED valueOf
  BY <1>1 DEF Mutate, UniqueHolds, Distinct
<1>2. CASE ~ UNCHANGED valueOf
  <2>1. PICK new \in Applied(valueOf[ns], edges) : valueOf' = [valueOf EXCEPT ![ns] = new]
    BY <1>2 DEF Mutate
  <2>2. ~ViolatesUnique(ns, edges)
    BY <1>2 DEF Mutate
  <2>3. UNCHANGED <<schemaOf, tainted>>
    BY DEF Mutate
  <2>4. valueOf \in [Namespace -> NodeMap]
    BY DEF TypeOK, NodeMap
  <2> SUFFICES ASSUME NEW m \in Namespace, schemaOf[m] = "unique", m \notin tainted
               PROVE  Distinct(m)'
    BY <2>3 DEF UniqueHolds
  <2>5. Distinct(m)
    BY DEF UniqueHolds
  <2>6. CASE m # ns
    BY <2>1, <2>4, <2>5, <2>6 DEF Distinct
  <2>7. CASE m = ns
    <3>1. valueOf'[ns] = new
      BY <2>1, <2>4
    <3>2. \A u, w \in UID : u # w /\ new[u] = new[w] => new[u] = NoValue
      BY <2>2, <2>4, <2>5, <2>7, AppliedDistinct
    <3> QED
      BY <2>7, <3>1, <3>2 DEF Distinct
  <2> QED
    BY <2>6, <2>7
<1> QED
  BY <1>1, <1>2

(* mutate keeps the UIDs above the counter without values: the nodes it      *)
(* names lie below the counter it leaves.                                    *)
LEMMA MutateKeepsBlanksNew ==
    ASSUME TypeOK, BlankNodesAreNew,
           NEW ns \in Namespace, NEW edges, NEW blanks \in 0 .. 1, NEW result,
           Mutate(ns, edges, blanks, result)
    PROVE  BlankNodesAreNew'
<1>1. minLeasedUID \in Int /\ minLeasedUID' = minLeasedUID + blanks
  BY DEF Mutate, TypeOK, AssignUIDs
<1>2. UID \subseteq Int /\ \A u \in UID : u >= minLeasedUID' => u >= minLeasedUID
  BY <1>1 DEF UID
<1>3. CASE UNCHANGED valueOf
  <2>1. \A m \in Namespace, u \in UID : u >= minLeasedUID' => valueOf[m][u] = NoValue
    BY <1>2 DEF BlankNodesAreNew
  <2> QED
    BY <1>3, <2>1 DEF BlankNodesAreNew
<1>4. CASE ~ UNCHANGED valueOf
  <2>1. PICK new \in Applied(valueOf[ns], edges) : valueOf' = [valueOf EXCEPT ![ns] = new]
    BY <1>4 DEF Mutate
  <2>2. \A i \in DOMAIN edges : edges[i].uid < minLeasedUID'
    BY <1>1 DEF Mutate, Addressable
  <2> SUFFICES ASSUME NEW m \in Namespace, NEW u \in UID, u >= minLeasedUID'
               PROVE  valueOf'[m][u] = NoValue
    BY DEF BlankNodesAreNew
  <2>3. valueOf[m][u] = NoValue
    BY <1>1, <1>2 DEF BlankNodesAreNew
  <2>4. \A i \in DOMAIN edges : edges[i].uid # u
    <3> SUFFICES ASSUME NEW i \in DOMAIN edges, edges[i].uid = u PROVE FALSE
      OBVIOUS
    <3>1. u < minLeasedUID'
      BY <2>2
    <3> QED
      BY <1>1, <1>2, <3>1
  <2>5. new[u] = valueOf[ns][u]
    BY <2>4 DEF Applied
  <2>6. CASE m = ns
    BY <2>1, <2>3, <2>5, <2>6 DEF TypeOK
  <2>7. CASE m # ns
    BY <2>1, <2>3, <2>7 DEF TypeOK
  <2> QED
    BY <2>6, <2>7
<1> QED
  BY <1>3, <1>4

-----------------------------------------------------------------------------
(* An engine just opened on an empty store satisfies the invariant. *)
LEMMA InitSafe == Init => IInv
  BY DEF Init, IInv, TypeOK, UniqueHolds, BlankNodesAreNew, Distinct, NoNodes,
         NoReference, Namespace, UID, NoUID

(* An upsert's mutation is a batch of one edge, on the node its query found  *)
(* or on the next blank node.                                                *)
LEMMA UpsertSafe ==
    ASSUME IInv, NEW g \in Upserter, UpsertMutate(g)
    PROVE  IInv'
<1> DEFINE r == reference[g]
           blanks == IF r.found = NoUID THEN 1 ELSE 0
           node == IF r.found = NoUID THEN minLeasedUID ELSE r.found
           edges == <<[op |-> "SET", uid |-> node, value |-> r.value]>>
<1>1. r.ns \in Namespace /\ r.found \in UID \cup {NoUID}
  BY DEF IInv, TypeOK
<1>2. reference' \in [Upserter -> [ns : Namespace, value : Value \cup {NoValue},
                                   found : UID \cup {NoUID}]]
  BY DEF IInv, TypeOK, UpsertMutate, NoReference, Namespace
<1>3. CASE \E result \in Result : Mutate(r.ns, edges, blanks, result)
  <2>1. PICK result \in Result : Mutate(r.ns, edges, blanks, result)
    BY <1>3
  <2>2. DOMAIN edges = 1 .. 1 /\ 1 \in Nat /\ blanks \in 0 .. 1
    OBVIOUS
  <2> HIDE DEF edges, blanks, r
  <2>3. TypeOK'
    BY <1>1, <1>2, <2>1, <2>2, MutateTyped DEF IInv
  <2>4. UniqueHolds'
    BY <1>1, <2>1, <2>2, MutateKeepsUnique DEF IInv
  <2>5. BlankNodesAreNew'
    BY <1>1, <2>1, <2>2, MutateKeepsBlanksNew DEF IInv
  <2> QED
    BY <2>3, <2>4, <2>5 DEF IInv
<1>4. CASE UNCHANGED <<isOpen, lastNamespace, handles, minLeasedUID, data, tainted>>
  BY <1>2, <1>4 DEF IInv, TypeOK, UniqueHolds, BlankNodesAreNew, Distinct, data
<1> QED
  BY <1>3, <1>4 DEF UpsertMutate

(* A mutation without a query keeps it (embedded_client.go Query). *)
LEMMA MutateAnySafe ==
    ASSUME IInv, MutateAny
    PROVE  IInv'
<1>1. PICK ns \in handles, edges \in Edges, blanks \in 0 .. 1, result \in Result :
          Mutate(ns, edges, blanks, result) /\ UNCHANGED reference
  BY DEF MutateAny
<1>2. PICK n \in 1 .. MaxEdges : edges \in [1 .. n -> Edge]
  BY DEF Edges
<1>3. DOMAIN edges = 1 .. n /\ n \in Nat
  BY <1>2
<1>4. ns \in Namespace
  BY DEF IInv, TypeOK
<1>5. TypeOK'
  <2>1. reference' \in [Upserter -> [ns : Namespace, value : Value \cup {NoValue},
                                     found : UID \cup {NoUID}]]
    BY <1>1 DEF IInv, TypeOK
  <2> QED
    BY <1>1, <1>4, <2>1, MutateTyped DEF IInv
<1>6. UniqueHolds'
  BY <1>1, <1>3, <1>4, MutateKeepsUnique DEF IInv
<1>7. BlankNodesAreNew'
  BY <1>1, <1>4, MutateKeepsBlanksNew DEF IInv
<1> QED
  BY <1>5, <1>6, <1>7 DEF IInv

-----------------------------------------------------------------------------
(* The other calls: drops empty the namespaces whose constraint they lift or *)
(* keep, and a DropAll that starts the UIDs afresh leaves no values at all.  *)
LEMMA DropSafe ==
    ASSUME IInv, NEW ns \in handles, dropData(ns) \/ dropPredicate(ns)
    PROVE  IInv'
<1>1. ns \in Namespace
  BY DEF IInv, TypeOK
<1>2. valueOf' = [valueOf EXCEPT ![ns] = NoNodes]
  BY DEF dropData, dropPredicate
<1>3. /\ schemaOf' \in [Namespace -> {"none", "plain", "unique"}]
      /\ \A m \in Namespace : m # ns => schemaOf'[m] = schemaOf[m]
      /\ tainted' = tainted \ {ns}
      /\ UNCHANGED <<isOpen, lastNamespace, handles, minLeasedUID, reference>>
  BY <1>1 DEF dropData, dropPredicate, IInv, TypeOK
<1>4. TypeOK'
  BY <1>1, <1>2, <1>3 DEF IInv, TypeOK, NoNodes
<1>5. UniqueHolds'
  BY <1>1, <1>2, <1>3 DEF IInv, TypeOK, UniqueHolds, Distinct, NoNodes
<1>6. BlankNodesAreNew'
  BY <1>1, <1>2, <1>3 DEF IInv, TypeOK, BlankNodesAreNew, NoNodes
<1> QED
  BY <1>4, <1>5, <1>6 DEF IInv

(* alterSchema keeps it: a namespace whose duplicates get the constraint is  *)
(* marked.                                                                   *)
LEMMA AlterSafe ==
    ASSUME IInv, NEW ns \in handles, NEW s \in {"plain", "unique"}, AlterSchema(ns, s)
    PROVE  IInv'
<1>1. ns \in Namespace
  BY DEF IInv, TypeOK
<1>2. TypeOK'
  BY <1>1 DEF IInv, TypeOK, AlterSchema
<1>3. UniqueHolds'
  BY <1>1 DEF IInv, TypeOK, UniqueHolds, Distinct, AlterSchema
<1>4. BlankNodesAreNew'
  BY DEF IInv, BlankNodesAreNew, AlterSchema
<1> QED
  BY <1>2, <1>3, <1>4 DEF IInv

(* DropAll keeps it, whether its reset succeeds or not. *)
LEMMA DropAllSafe ==
    ASSUME IInv, DropAll
    PROVE  IInv'
<1>1. TypeOK'
  BY DEF IInv, TypeOK, DropAll, NoNodes, Namespace
<1>2. UniqueHolds' /\ BlankNodesAreNew'
  BY DEF DropAll, UniqueHolds, BlankNodesAreNew, NoNodes
<1> QED
  BY <1>1, <1>2 DEF IInv

(* The calls that change no data keep it: upsert queries, namespaces, Close. *)
LEMMA OtherCallsSafe ==
    ASSUME IInv,
           \/ \E g \in Upserter : UpsertQuery(g)
           \/ CreateNamespace
           \/ \E ns \in Namespace : GetNamespace(ns)
           \/ Close
           \/ UNCHANGED vars
    PROVE  IInv'
<1>1. UNCHANGED <<schemaOf, valueOf, tainted, minLeasedUID>>
  BY DEF UpsertQuery, CreateNamespace, GetNamespace, Close, vars, data
<1>2. TypeOK'
  <2>1. ASSUME NEW g \in Upserter, UpsertQuery(g) PROVE TypeOK'
    <3>1. PICK ns \in handles, v \in Value :
              reference' = [reference EXCEPT ![g] = [ns |-> ns, value |-> v, found |-> First(ns, v)]]
      BY <2>1 DEF UpsertQuery
    <3>2. ns \in Namespace /\ First(ns, v) \in UID \cup {NoUID}
      BY FirstMatches DEF IInv, TypeOK
    <3> QED
      BY <2>1, <3>1, <3>2 DEF IInv, TypeOK, UpsertQuery, data
  <2>2. CASE CreateNamespace
    BY <2>2 DEF IInv, TypeOK, CreateNamespace, Namespace, data
  <2>3. ASSUME NEW ns \in Namespace, GetNamespace(ns) PROVE TypeOK'
    BY <2>3 DEF IInv, TypeOK, GetNamespace, data
  <2>4. CASE Close
    BY <2>4 DEF IInv, TypeOK, Close, data
  <2>5. CASE UNCHANGED vars
    BY <2>5 DEF IInv, TypeOK, vars
  <2> QED
    BY <2>1, <2>2, <2>3, <2>4, <2>5
<1>3. UniqueHolds' /\ BlankNodesAreNew'
  BY <1>1 DEF IInv, UniqueHolds, BlankNodesAreNew, Distinct
<1> QED
  BY <1>2, <1>3 DEF IInv

-----------------------------------------------------------------------------
(* Every call on the engine keeps the three invariants together. *)
LEMMA Inductive == IInv /\ [Next]_vars => IInv'
  BY MutateAnySafe, UpsertSafe, DropSafe, AlterSafe, DropAllSafe, OtherCallsSafe DEF Next

(* They hold in every reachable state. *)
LEMMA Invariance == Spec => []IInv
  BY InitSafe, Inductive, PTL DEF Spec

(* The engine's state stays well-formed (engine.go): UIDs, namespaces and    *)
(* pending upserts in their ranges.                                          *)
THEOREM TypeCorrect == Spec => []TypeOK
<1>1. IInv => TypeOK
  BY DEF IInv
<1> QED
  BY <1>1, Invariance, PTL

(* verifyUniqueConstraints is enough: as long as every mutation and every    *)
(* drop is one critical section of Engine.mutex, @unique holds for batches   *)
(* of any size and any number of upserts whose queries are out of date.      *)
THEOREM UniqueConstraint == Spec => []UniqueHolds
<1>1. IInv => UniqueHolds
  BY DEF IInv
<1> QED
  BY <1>1, Invariance, PTL

(* A blank node never merges with a node that has data (mutate, nextUIDs).   *)
THEOREM FreshBlankNodes == Spec => []BlankNodesAreNew
<1>1. IInv => BlankNodesAreNew
  BY DEF IInv
<1> QED
  BY <1>1, Invariance, PTL

-----------------------------------------------------------------------------
(* The callers: OpsSpec.                                                     *)
USE AtomicOpsConstants

Conditions == ~Unarbitrated /\ ConsumedKey # EnsuredKey

-----------------------------------------------------------------------------
(* A record is live while its node has the key; a node handed out that does  *)
(* not have it, never gets it again.                                         *)
Live == Having(0, ConsumedKey)
Dead(u) == u \in UID /\ u < minLeasedUID /\ u \notin Live

Statement == {"idle", "get", "delete", "commit", "done"}
Results == {"none", "ok", "UniqueError", "failed", "closed", "inserted", "loaded", "aborted",
            "notfound", "uncommitted"}

OpsTyped ==
    /\ embedded \in BOOLEAN
    /\ scoped \subseteq Consumer
    /\ pc \in [Consumer -> Statement]
    /\ found \in [Consumer -> UID \cup {NoUID}]
    /\ outcome \in [Consumer \cup Upserter -> Results]

(* An upsert refers to a node with its own key. *)
RefersElsewhere == \A g \in Upserter : reference[g].found # NoUID => Dead(reference[g].found)

Returned == \A c \in Consumer : pc[c] # "done" => outcome[c] = "none"

(* On the embedded engine the caller between its query and its end holds     *)
(* consumeMu, ...                                                            *)
Arbitrated ==
    embedded => /\ scoped = {}
                /\ \A c \in Consumer : pc[c] \in {"get", "delete", "commit"} => consumeMu = c

(* ... so the record it read is there until it deletes it; on a cluster it   *)
(* is there while no other commit has overtaken the transaction.             *)
ReadIsLive ==
    \A c \in Consumer :
        /\ embedded /\ pc[c] = "delete" => found[c] \in Live
        /\ ~embedded /\ pc[c] \in {"delete", "commit"} /\ c \notin overtaken => found[c] \in Live

Spent == \A c \in Consumer : Took(c) => Dead(found[c])
Apart == \A c, d \in Consumer : Took(c) /\ Took(d) /\ c # d => found[c] # found[d]

StoreInv == TypeOK /\ BlankNodesAreNew
OpsInv ==
    /\ StoreInv /\ RefersElsewhere
    /\ OpsTyped /\ Returned /\ Arbitrated /\ ReadIsLive
    /\ Spent /\ Apart

-----------------------------------------------------------------------------
LEMMA LiveBelow == StoreInv => \A u \in Live : u \in UID /\ u < minLeasedUID
BY DEF StoreInv, TypeOK, BlankNodesAreNew, Live, Having, UID, Namespace

(* What a mutation of one edge does to the engine. *)
LEMMA OneEdge ==
    ASSUME StoreInv, NEW e, e.uid \in UID, NEW blanks \in 0 .. 1, NEW result,
           Mutate(0, <<e>>, blanks, result),
           reference' \in [Upserter -> [ns : Namespace, value : Value \cup {NoValue},
                                        found : UID \cup {NoUID}]]
    PROVE  /\ StoreInv'
           /\ minLeasedUID' = minLeasedUID + blanks /\ e.uid < minLeasedUID'
           /\ ~Lands(result) => Live' = Live
           /\ Lands(result) => Live' = IF Outcome(e) = ConsumedKey THEN Live \cup {e.uid}
                                       ELSE Live \ {e.uid}
<1> USE DEF StoreInv
<1>1. 0 \in Namespace
  BY DEF Namespace
<1>2. StoreInv'
  BY <1>1, MutateTyped, MutateKeepsBlanksNew
<1>3. minLeasedUID' = minLeasedUID + blanks /\ e.uid < minLeasedUID'
  BY DEF Mutate, AssignUIDs, Addressable
<1>4. ~Lands(result) => Live' = Live
  BY DEF Mutate, Live, Having
<1>5. ASSUME Lands(result)
      PROVE  Live' = IF Outcome(e) = ConsumedKey THEN Live \cup {e.uid} ELSE Live \ {e.uid}
  <2>1. PICK new \in Applied(valueOf[0], <<e>>) : valueOf' = [valueOf EXCEPT ![0] = new]
    BY <1>5 DEF Mutate
  <2>2. valueOf'[0] = new
    BY <1>1, <2>1 DEF TypeOK
  <2>3. \A u \in UID : new[u] = IF u = e.uid THEN Outcome(e) ELSE valueOf[0][u]
    BY DEF Applied
  <2> QED  BY <2>2, <2>3 DEF Live, Having
<1> QED  BY <1>2, <1>3, <1>4, <1>5

LEMMA DeadStays ==
    ASSUME StoreInv, minLeasedUID' \in Int, minLeasedUID' >= minLeasedUID,
           Live' \subseteq Live \cup {minLeasedUID},
           NEW u, Dead(u)
    PROVE  Dead(u)'
BY DEF Dead, UID, StoreInv, TypeOK

-----------------------------------------------------------------------------
(* A step that takes nothing, and one that answers no one "not found" either. *)
TakesNothing ==
    \A c \in Consumer : (Took(c)' <=> Took(c)) /\ (Took(c) => found'[c] = found[c])

Undecided ==
    /\ TakesNothing
    /\ \A c \in Consumer : outcome'[c] = "notfound" <=> outcome[c] = "notfound"

LEMMA Untaken ==
    ASSUME OpsInv, TakesNothing,
           minLeasedUID' \in Int, minLeasedUID' >= minLeasedUID,
           Live' \subseteq Live \cup {minLeasedUID}
    PROVE  Spent' /\ Apart'
<1>1. Spent'
  <2> SUFFICES ASSUME NEW c \in Consumer, Took(c)' PROVE Dead(found[c])'
    BY DEF Spent
  <2>1. Dead(found[c]) /\ found'[c] = found[c]
    BY DEF TakesNothing, OpsInv, Spent
  <2> QED  BY <2>1, DeadStays DEF OpsInv, Dead, Live
<1>2. Apart'
  BY DEF TakesNothing, OpsInv, Apart
<1> QED  BY <1>1, <1>2

LEMMA Stutters ==
    ASSUME Undecided, Live' = Live
    PROVE  UNCHANGED Single!vars
<1>1. {c \in Consumer : Took(c) \/ outcome[c] = "notfound"}'
          = {c \in Consumer : Took(c) \/ outcome[c] = "notfound"}
  BY DEF Undecided, TakesNothing
<1>2. [c \in Consumer |-> IF Took(c) THEN {found[c]} ELSE {}]'
          = [c \in Consumer |-> IF Took(c) THEN {found[c]} ELSE {}]
  BY DEF Undecided, TakesNothing
<1> QED  BY <1>1, <1>2 DEF Single!vars, Live
-----------------------------------------------------------------------------
(* The calls' own state, for steps that move one caller on.                  *)
Good == OpsInv' /\ [Single!Next]_(Single!vars)

LEMMA StoreSame ==
    ASSUME OpsInv, UNCHANGED vars
    PROVE  /\ StoreInv' /\ RefersElsewhere' /\ Live' = Live
           /\ minLeasedUID' = minLeasedUID /\ minLeasedUID \in Int
<1>1. StoreInv' /\ minLeasedUID \in Int
  BY DEF OpsInv, StoreInv, TypeOK, BlankNodesAreNew, vars
<1>2. Live' = Live
  BY DEF Live, Having, vars
<1>3. RefersElsewhere'
  BY <1>2 DEF OpsInv, RefersElsewhere, Dead, Live, Having, vars
<1> QED  BY <1>1, <1>2, <1>3 DEF vars

(* A step after which everything an operation knows is as before, but for    *)
(* records that were inserted.                                               *)
LEMMA CallersSame ==
    ASSUME OpsInv, StoreInv', RefersElsewhere',
           minLeasedUID' \in Int, minLeasedUID' >= minLeasedUID,
           Live \subseteq Live', Live' \subseteq Live \cup {minLeasedUID},
           UNCHANGED <<settings, consumeMu, pc, found>>,
           outcome' \in [Consumer \cup Upserter -> Results],
           \A c \in Consumer : outcome'[c] = outcome[c],
           ~embedded => overtaken \cap Consumer \subseteq overtaken'
    PROVE  OpsInv' /\ Undecided
<1> USE DEF OpsInv, settings
<1>1. Undecided
  BY DEF Undecided, TakesNothing, Took
<1>2. Spent' /\ Apart'
  BY <1>1, Untaken DEF Undecided
<1>3. OpsTyped' /\ Returned' /\ Arbitrated'
  BY DEF OpsTyped, Returned, Arbitrated
<1>4. ReadIsLive'
  BY DEF ReadIsLive
<1> QED  BY <1>1, <1>2, <1>3, <1>4

LEMMA InsertStep ==
    ASSUME OpsInv, Insert
    PROVE  Good
<1> DEFINE u == minLeasedUID
<1> USE DEF OpsInv
<1>1. PICK result \in Ends :
          /\ Mutate(0, SetKey(u, ConsumedKey), 1, result)
          /\ IF Lands(result) THEN CommitsOn(ConsumedKey, NoOne) ELSE UNCHANGED overtaken
  BY DEF Insert
<1>2. u \in UID /\ u \in Int
  BY <1>1 DEF Mutate, Addressable, SetKey, StoreInv, TypeOK, UID
<1>3. reference' = reference /\ UNCHANGED <<settings, consumeMu, pc, found, outcome>>
  BY DEF Insert
<1>4. /\ StoreInv' /\ minLeasedUID' = u + 1
      /\ ~Lands(result) => Live' = Live
      /\ Lands(result) => Live' = Live \cup {u}
  <2> DEFINE e == [op |-> "SET", uid |-> u, value |-> ConsumedKey]
  <2>1. Mutate(0, <<e>>, 1, result) /\ e.uid = u /\ Outcome(e) = ConsumedKey
    BY <1>1 DEF SetKey, Outcome
  <2>2. 1 \in 0 .. 1
    OBVIOUS
  <2>3. reference' \in [Upserter -> [ns : Namespace, value : Value \cup {NoValue},
                                     found : UID \cup {NoUID}]]
    BY <1>3 DEF StoreInv, TypeOK
  <2> HIDE DEF e
  <2> QED  BY <1>2, <2>1, <2>2, <2>3, OneEdge
<1>5. Live' = Live \/ Live' = Live \cup {u}
  BY <1>4
<1>6. RefersElsewhere'
  <2> SUFFICES ASSUME NEW g \in Upserter, reference[g].found # NoUID
               PROVE  Dead(reference[g].found)'
    BY <1>3 DEF RefersElsewhere
  <2>1. Dead(reference[g].found)
    BY DEF RefersElsewhere
  <2> QED  BY <1>2, <1>3, <1>4, <1>5, <2>1, DeadStays DEF Dead, Live
<1>7. OpsInv' /\ Undecided
  <2>1. ~embedded => overtaken \cap Consumer \subseteq overtaken'
    BY <1>1 DEF CommitsOn
  <2>2. outcome' \in [Consumer \cup Upserter -> Results]
    BY <1>3 DEF OpsTyped
  <2> QED  BY <1>2, <1>3, <1>4, <1>5, <1>6, <2>1, <2>2, CallersSame
<1>8. CASE Live' = Live
  BY <1>7, <1>8, Stutters DEF Good
<1>9. CASE Live' = Live \cup {u} /\ Live' # Live
  <2>1. \A c \in Consumer : Took(c) => found[c] # u
    BY <1>2 DEF Spent, Dead
  <2>2. Single!Put(u)
    BY <1>3, <1>7, <1>9, <2>1 DEF Single!Put, Undecided, TakesNothing, Live
  <2> QED  BY <1>2, <1>7, <2>2 DEF Good, Single!Next
<1> QED  BY <1>5, <1>8, <1>9

(* GetOrInsert touches no record with another key. *)
LEMMA QueryStep ==
    ASSUME OpsInv, Conditions, NEW g \in Upserter, Query(g)
    PROVE  Good
<1> USE DEF OpsInv
<1>1. /\ UNCHANGED <<isOpen, lastNamespace, handles, minLeasedUID, valueOf, schemaOf, tainted>>
      /\ UNCHANGED <<settings, consumeMu, pc, found, outcome>>
      /\ overtaken' = overtaken \ {g}
      /\ reference' = [reference EXCEPT
            ![g] = [ns |-> 0, value |-> EnsuredKey, found |-> First(0, EnsuredKey)]]
  BY DEF Query, Begins, data
<1>2. 0 \in Namespace
  BY DEF Namespace
<1>3. First(0, EnsuredKey) \in UID \cup {NoUID}
  BY <1>2, FirstMatches
<1>4. StoreInv'
  BY <1>1, <1>2, <1>3 DEF StoreInv, TypeOK, BlankNodesAreNew
<1>5. Live' = Live
  BY <1>1 DEF Live, Having
<1>6. First(0, EnsuredKey) # NoUID => Dead(First(0, EnsuredKey))
  <2> SUFFICES ASSUME First(0, EnsuredKey) # NoUID PROVE Dead(First(0, EnsuredKey))
    OBVIOUS
  <2>1. First(0, EnsuredKey) \in Having(0, EnsuredKey)
    BY <1>2, FirstMatches
  <2> QED
    BY <1>2, <2>1
    DEF Conditions, Dead, Live, Having, StoreInv, TypeOK, BlankNodesAreNew, UID
<1>7. RefersElsewhere'
  <2>1. \A u : Dead(u) => Dead(u)'
    BY <1>1, <1>5 DEF Dead
  <2> QED  BY <1>1, <1>6, <2>1 DEF RefersElsewhere, StoreInv, TypeOK
<1>8. minLeasedUID \in Int
  BY DEF StoreInv, TypeOK
<1>9. overtaken \cap Consumer \subseteq overtaken'
  BY <1>1
<1>10. OpsInv' /\ Undecided
  BY <1>1, <1>4, <1>5, <1>7, <1>8, <1>9, CallersSame DEF OpsTyped
<1> QED  BY <1>5, <1>10, Stutters DEF Good

LEMMA MutateOrGetStep ==
    ASSUME OpsInv, Conditions, NEW g \in Upserter, MutateOrGet(g)
    PROVE  Good
<1> DEFINE f == reference[g].found
           u == IF f = NoUID THEN minLeasedUID ELSE f
           blanks == IF f = NoUID THEN 1 ELSE 0
           e == [op |-> "SET", uid |-> u, value |-> EnsuredKey]
<1> USE DEF OpsInv
<1>1. /\ reference' = [reference EXCEPT ![g] = NoReference]
      /\ UNCHANGED <<settings, consumeMu, pc, found>>
  BY DEF MutateOrGet
<1>2. /\ reference' \in [Upserter -> [ns : Namespace, value : Value \cup {NoValue},
                                      found : UID \cup {NoUID}]]
      /\ \A h \in Upserter : reference'[h] = reference[h] \/ reference'[h].found = NoUID
  BY <1>1 DEF StoreInv, TypeOK, NoReference, Namespace
<1>3. f \in UID \cup {NoUID} /\ minLeasedUID \in Int /\ NoUID \notin UID
  BY DEF StoreInv, TypeOK, UID, NoUID
<1>4. (\E result \in Ends : Mutate(0, <<e>>, blanks, result))
         \/ UNCHANGED <<isOpen, lastNamespace, handles, minLeasedUID, data, tainted>>
  BY DEF MutateOrGet, SetKey
<1>5. /\ StoreInv' /\ Live' = Live
      /\ minLeasedUID' \in Int /\ minLeasedUID' >= minLeasedUID
  <2>1. ASSUME NEW result \in Ends, Mutate(0, <<e>>, blanks, result)
        PROVE  /\ StoreInv' /\ Live' = Live
               /\ minLeasedUID' \in Int /\ minLeasedUID' >= minLeasedUID
    <3>1. u \in UID
      BY <1>3, <2>1 DEF Mutate, Addressable, StoreInv, TypeOK, UID
    <3>2. u \notin Live
      <4>1. CASE f = NoUID
        BY <1>3, <4>1, LiveBelow
      <4>2. CASE f # NoUID
        BY <4>2 DEF RefersElsewhere, Dead
      <4> QED  BY <4>1, <4>2
    <3>3. e.uid = u /\ Outcome(e) = EnsuredKey /\ blanks \in 0 .. 1
      BY DEF Outcome
    <3> HIDE DEF e, u, blanks
    <3>4. /\ StoreInv' /\ minLeasedUID' = minLeasedUID + blanks
          /\ ~Lands(result) => Live' = Live
          /\ Lands(result) => Live' = IF Outcome(e) = ConsumedKey THEN Live \cup {u} ELSE Live \ {u}
      BY <1>2, <2>1, <3>1, <3>3, OneEdge
    <3>5. minLeasedUID' \in Int /\ minLeasedUID' >= minLeasedUID
      BY <1>3, <3>3, <3>4
    <3>6. Live \ {u} = Live /\ Outcome(e) # ConsumedKey
      BY <3>2, <3>3 DEF Conditions
    <3>7. Live' = Live
      BY <3>4, <3>6
    <3> QED  BY <3>4, <3>5, <3>7
  <2>2. ASSUME UNCHANGED <<isOpen, lastNamespace, handles, minLeasedUID, data, tainted>>
        PROVE  /\ StoreInv' /\ Live' = Live
               /\ minLeasedUID' \in Int /\ minLeasedUID' >= minLeasedUID
    BY <1>2, <1>3, <2>2 DEF data, StoreInv, TypeOK, BlankNodesAreNew, Live, Having
  <2> QED  BY <1>4, <2>1, <2>2
<1> HIDE DEF e, u, blanks
<1>6. RefersElsewhere'
  <2> SUFFICES ASSUME NEW h \in Upserter, reference'[h].found # NoUID
               PROVE  Dead(reference[h].found)'
    BY DEF RefersElsewhere
  <2>1. Dead(reference[h].found) /\ reference'[h] = reference[h]
    BY <1>2 DEF RefersElsewhere
  <2> QED  BY <1>5, <2>1, DeadStays DEF Dead, Live
<1>7. /\ \E result \in Results : outcome' = [outcome EXCEPT ![g] = result]
      /\ ~embedded => overtaken \cap Consumer \subseteq overtaken'
  BY DEF MutateOrGet, Returns, CommitsOn, Ends, Results
<1>8. /\ outcome' \in [Consumer \cup Upserter -> Results]
      /\ \A c \in Consumer : outcome'[c] = outcome[c]
  BY <1>7 DEF OpsTyped
<1>9. OpsInv' /\ Undecided
  BY <1>1, <1>5, <1>6, <1>7, <1>8, CallersSame
<1> QED  BY <1>5, <1>9, Stutters DEF Good

-----------------------------------------------------------------------------
(* The caller takes consumeMu where the operation locks it. *)
LEMMA StartStep ==
    ASSUME OpsInv, NEW c \in Consumer, Start(c)
    PROVE  Good
<1> USE DEF OpsInv
<1>1. /\ pc[c] = "idle" /\ pc' = [pc EXCEPT ![c] = "get"]
      /\ UNCHANGED vars
      /\ UNCHANGED <<embedded, scoped, found, overtaken, outcome>>
      /\ IF embedded /\ c \notin scoped THEN consumeMu = NoOne /\ consumeMu' = c
                                        ELSE UNCHANGED consumeMu
  BY DEF Start, Goto, Locks, settings
<1>2. /\ StoreInv' /\ RefersElsewhere' /\ Live' = Live
      /\ minLeasedUID' = minLeasedUID /\ minLeasedUID \in Int
  BY <1>1, StoreSame
<1>3. Undecided
  <2>1. /\ pc' \in [Consumer -> Statement]
        /\ \A d \in Consumer : pc'[d] = IF d = c THEN "get" ELSE pc[d]
    BY <1>1 DEF OpsTyped, Statement
  <2> QED  BY <1>1, <2>1 DEF Undecided, TakesNothing, Took
<1>4. Spent' /\ Apart'
  BY <1>2, <1>3, Untaken DEF Undecided
<1>5. OpsTyped' /\ Returned'
  BY <1>1 DEF OpsTyped, Returned, Statement
<1>6. Arbitrated'
  BY <1>1 DEF Arbitrated, OpsTyped
<1>7. ReadIsLive'
  BY <1>1, <1>2 DEF ReadIsLive, OpsTyped
<1> QED  BY <1>2, <1>3, <1>4, <1>5, <1>6, <1>7, Stutters DEF Good

(* A caller's step to its next statement or its end.                         *)
Alone(c) ==
    \A d \in Consumer \ {c} : /\ pc'[d] = pc[d] /\ found'[d] = found[d]
                             /\ outcome'[d] = outcome[d] /\ (Took(d)' <=> Took(d))

LEMMA MovesOn ==
    ASSUME OpsInv, UNCHANGED settings, NEW c \in Consumer,
           pc[c] \in {"get", "delete", "commit"},
           NEW s \in {"get", "delete", "commit", "done"},
           pc' = [pc EXCEPT ![c] = s],
           NEW result \in Results,
           outcome' = [outcome EXCEPT ![c] = result],
           s # "done" => result = "none" /\ consumeMu' = consumeMu,
           s = "done" => consumeMu' = IF consumeMu = c THEN NoOne ELSE consumeMu,
           NEW u \in UID \cup {NoUID},
           found' = [found EXCEPT ![c] = u]
    PROVE  /\ OpsTyped' /\ Returned' /\ Arbitrated' /\ Alone(c)
           /\ outcome[c] = "none" /\ outcome'[c] = result /\ pc'[c] = s /\ found'[c] = u
           /\ embedded => \A d \in Consumer \ {c} : pc[d] \notin {"get", "delete", "commit"}
<1> USE DEF OpsInv
<1>1. embedded' = embedded /\ scoped' = scoped
  BY DEF settings
<1>2. OpsTyped' /\ Returned'
  BY <1>1 DEF OpsTyped, Returned, Statement
<1>3. /\ \A d \in Consumer : d # c => pc'[d] = pc[d]
      /\ pc'[c] = s
  BY DEF OpsTyped
<1>4. /\ \A d \in Consumer : d # c => found'[d] = found[d]
      /\ found'[c] = u
  BY DEF OpsTyped
<1>5. /\ \A d \in Consumer : d # c => outcome'[d] = outcome[d]
      /\ outcome'[c] = result
  BY DEF OpsTyped
<1>6. Arbitrated'
  BY <1>1, <1>3 DEF Arbitrated
<1>7. Alone(c)
  BY <1>1, <1>3, <1>4, <1>5 DEF Alone, Took
<1>8. outcome[c] = "none"
  BY DEF Returned
<1>9. embedded => \A d \in Consumer \ {c} : pc[d] \notin {"get", "delete", "commit"}
  BY DEF Arbitrated
<1> QED  BY <1>2, <1>3, <1>4, <1>5, <1>6, <1>7, <1>8, <1>9

LEMMA EndsCall ==
    ASSUME OpsInv, UNCHANGED settings, NEW c \in Consumer,
           pc[c] \in {"get", "delete", "commit"},
           NEW result \in Results, Ended(c, result), UNCHANGED found
    PROVE  /\ OpsTyped' /\ Returned' /\ Arbitrated' /\ Alone(c)
           /\ outcome[c] = "none" /\ outcome'[c] = result /\ pc'[c] = "done"
           /\ found'[c] = found[c]
           /\ embedded => \A d \in Consumer \ {c} : pc[d] \notin {"get", "delete", "commit"}
<1> USE DEF OpsInv
<1>1. /\ outcome' = [outcome EXCEPT ![c] = result] /\ pc' = [pc EXCEPT ![c] = "done"]
      /\ consumeMu' = IF consumeMu = c THEN NoOne ELSE consumeMu
      /\ embedded' = embedded /\ scoped' = scoped /\ found' = found
  BY DEF Ended, Returns, Goto, Unlock, settings
<1>2. OpsTyped' /\ Returned'
  BY <1>1 DEF OpsTyped, Returned, Statement
<1>3. /\ \A d \in Consumer : d # c => pc'[d] = pc[d]
      /\ pc'[c] = "done"
  BY <1>1 DEF OpsTyped
<1>4. /\ \A d \in Consumer : d # c => outcome'[d] = outcome[d]
      /\ outcome'[c] = result
  BY <1>1 DEF OpsTyped
<1>5. Arbitrated'
  BY <1>1, <1>3 DEF Arbitrated
<1>6. Alone(c)
  BY <1>1, <1>3, <1>4 DEF Alone, Took
<1>7. outcome[c] = "none"
  BY DEF Returned
<1>8. embedded => \A d \in Consumer \ {c} : pc[d] \notin {"get", "delete", "commit"}
  BY DEF Arbitrated
<1> QED  BY <1>1, <1>2, <1>3, <1>4, <1>5, <1>6, <1>7, <1>8

(* Such a step, with the records as they were. *)
LEMMA SameRecords ==
    ASSUME OpsInv, StoreInv', RefersElsewhere', Live' = Live, minLeasedUID' = minLeasedUID,
           UNCHANGED settings, NEW c \in Consumer,
           OpsTyped', Returned', Arbitrated', Alone(c),
           overtaken \ {c} \subseteq overtaken',
           embedded /\ pc'[c] = "delete" => found'[c] \in Live,
           ~embedded /\ pc'[c] \in {"delete", "commit"} /\ c \notin overtaken'
               => found'[c] \in Live,
           TakesNothing
    PROVE  OpsInv'
<1>1. minLeasedUID \in Int
  BY DEF OpsInv, StoreInv, TypeOK
<1>2. Spent' /\ Apart'
  BY <1>1, Untaken
<1>3. ReadIsLive'
  <2> SUFFICES ASSUME NEW d \in Consumer
               PROVE  /\ embedded /\ pc'[d] = "delete" => found'[d] \in Live
                      /\ ~embedded /\ pc'[d] \in {"delete", "commit"} /\ d \notin overtaken'
                            => found'[d] \in Live
    BY DEF ReadIsLive, settings
  <2>1. CASE d = c
    BY <2>1
  <2>2. CASE d # c
    BY <2>2 DEF Alone, OpsInv, ReadIsLive
  <2> QED  BY <2>1, <2>2
<1> QED  BY <1>2, <1>3 DEF OpsInv

(* The step in which a caller takes its record. *)
LEMMA TakesRecord ==
    ASSUME OpsInv, NEW c \in Consumer, NEW u \in Live,
           Alone(c), OpsTyped, OpsTyped',
           ~Took(c), outcome[c] = "none", Took(c)', found'[c] = u,
           minLeasedUID' = minLeasedUID, Live' = Live \ {u}
    PROVE  Spent' /\ Apart' /\ Single!Take(c, u)
<1> USE DEF OpsInv
<1>1. u \in UID /\ u < minLeasedUID
  BY LiveBelow
<1>2. \A d \in Consumer : Took(d) => found[d] # u
  BY DEF Spent, Dead
<1>3. Spent'
  <2> SUFFICES ASSUME NEW d \in Consumer, Took(d)' PROVE Dead(found[d])'
    BY DEF Spent
  <2>1. CASE d = c
    BY <1>1, <2>1 DEF Dead
  <2>2. CASE d # c
    BY <2>2 DEF Alone, Spent, Dead
  <2> QED  BY <2>1, <2>2
<1>4. Apart'
  BY <1>2 DEF Alone, Apart
<1>5. Single!Take(c, u)
  <2> DEFINE answered == {d \in Consumer : Took(d) \/ outcome[d] = "notfound"}
             got == [d \in Consumer |-> IF Took(d) THEN {found[d]} ELSE {}]
  <2>1. c \notin answered /\ answered' = answered \cup {c}
    BY DEF Alone
  <2>2. got' = [got EXCEPT ![c] = {u}]
    <3>1. \A d \in Consumer : got'[d] = IF d = c THEN {u} ELSE got[d]
      BY DEF Alone
    <3> QED  BY <3>1
  <2> QED  BY <2>1, <2>2 DEF Single!Take, Single!Answer, Live
<1> QED  BY <1>3, <1>4, <1>5

LEMMA GetStep ==
    ASSUME OpsInv, NEW c \in Consumer, Get(c)
    PROVE  Good
<1> DEFINE u == First(0, ConsumedKey)
<1> USE DEF OpsInv
<1>1. /\ pc[c] = "get" /\ UNCHANGED vars /\ UNCHANGED settings
      /\ overtaken' = overtaken \ {c}
      /\ outcome[c] = "none" /\ ~Took(c)
      /\ found[c] \in UID \cup {NoUID}
      /\ outcome \in [Consumer \cup Upserter -> Results]
      /\ found \in [Consumer -> UID \cup {NoUID}]
  BY DEF Get, Begins, Returned, Took, OpsTyped
<1>0. StoreInv' /\ RefersElsewhere' /\ Live' = Live /\ minLeasedUID' = minLeasedUID
  BY <1>1, StoreSame
<1>2. u \in UID \cup {NoUID} /\ (u # NoUID => u \in Live) /\ (u = NoUID => Live = {})
  <2>1. 0 \in Namespace
    BY DEF Namespace
  <2>2. Live \subseteq UID /\ NoUID \notin UID
    BY DEF Live, Having, UID, NoUID
  <2> QED  BY <2>1, <2>2, FirstMatches DEF Live
<1>3. CASE /\ u # NoUID
           /\ found' = [found EXCEPT ![c] = u]
           /\ Goto(c, "delete")
           /\ UNCHANGED <<consumeMu, outcome>>
  <2>1. /\ OpsTyped' /\ Returned' /\ Arbitrated' /\ Alone(c)
        /\ outcome'[c] = "none" /\ pc'[c] = "delete" /\ found'[c] = u
    <3>1. /\ UNCHANGED settings /\ consumeMu' = consumeMu
          /\ pc[c] \in {"get", "delete", "commit"} /\ pc' = [pc EXCEPT ![c] = "delete"]
          /\ outcome' = [outcome EXCEPT ![c] = "none"] /\ "none" \in Results
          /\ found' = [found EXCEPT ![c] = u] /\ u \in UID \cup {NoUID}
      BY <1>1, <1>2, <1>3 DEF Goto, Results
    <3> HIDE DEF u, OpsInv
    <3> QED  BY <3>1, MovesOn
  <2>2. Undecided
    BY <1>1, <2>1 DEF Undecided, TakesNothing, Alone, Took
  <2>3. OpsInv'
    BY <1>0, <1>1, <1>2, <1>3, <2>1, <2>2, SameRecords DEF Undecided
  <2> QED  BY <1>0, <2>2, <2>3, Stutters DEF Good
<1>4. ASSUME NEW result \in {"notfound", "closed"}, Ended(c, result),
             found' = [found EXCEPT ![c] = found'[c]], found'[c] \in {found[c], NoUID},
             result = "notfound" => u = NoUID
      PROVE  Good
  <2>1. /\ OpsTyped' /\ Returned' /\ Arbitrated' /\ Alone(c)
        /\ outcome'[c] = result /\ pc'[c] = "done"
    <3>1. /\ outcome' = [outcome EXCEPT ![c] = result] /\ result \in Results
          /\ pc' = [pc EXCEPT ![c] = "done"]
          /\ consumeMu' = IF consumeMu = c THEN NoOne ELSE consumeMu
      BY <1>4 DEF Results, Ended, Returns, Goto, Unlock
    <3>2. found'[c] \in UID \cup {NoUID}
      BY <1>1, <1>4
    <3> HIDE DEF OpsInv
    <3> QED  BY <1>1, <1>4, <3>1, <3>2, MovesOn
  <2>2. TakesNothing
    BY <1>1, <2>1 DEF TakesNothing, Alone, Took
  <2>3. OpsInv'
    BY <1>0, <1>1, <2>1, <2>2, SameRecords
  <2>4. CASE result = "closed"
    <3>1. Undecided
      BY <1>1, <2>1, <2>2, <2>4 DEF Undecided, Alone
    <3> QED  BY <1>0, <2>3, <3>1, Stutters DEF Good
  <2>5. CASE result = "notfound"
    <3> DEFINE answered == {d \in Consumer : Took(d) \/ outcome[d] = "notfound"}
               got == [d \in Consumer |-> IF Took(d) THEN {found[d]} ELSE {}]
    <3>1. c \notin answered /\ answered' = answered \cup {c}
      BY <1>1, <2>1, <2>2, <2>5 DEF Alone, TakesNothing
    <3>2. got' = [got EXCEPT ![c] = {}]
      <4>1. \A d \in Consumer : got'[d] = IF d = c THEN {} ELSE got[d]
        BY <1>1, <2>2 DEF TakesNothing
      <4> QED  BY <4>1
    <3>3. Live = {} /\ Live' = Live \ {}
      BY <1>0, <1>2, <1>4, <2>5
    <3>4. Single!Miss(c)
      BY <3>1, <3>2, <3>3 DEF Single!Miss, Single!Answer, Live
    <3> QED  BY <2>3, <3>4 DEF Good, Single!Next
  <2> QED  BY <2>4, <2>5
<1>5. \/ /\ u # NoUID
         /\ found' = [found EXCEPT ![c] = u]
         /\ Goto(c, "delete")
         /\ UNCHANGED <<consumeMu, outcome>>
      \/ u = NoUID /\ found' = [found EXCEPT ![c] = NoUID] /\ Ended(c, "notfound")
      \/ Ended(c, "closed") /\ UNCHANGED found
  BY DEF Get
<1>6. CASE u = NoUID /\ found' = [found EXCEPT ![c] = NoUID] /\ Ended(c, "notfound")
  <2>1. found'[c] = NoUID /\ found' = [found EXCEPT ![c] = found'[c]]
    BY <1>1, <1>6
  <2> QED  BY <1>4, <1>6, <2>1
<1>7. CASE Ended(c, "closed") /\ UNCHANGED found
  <2>1. found'[c] = found[c] /\ found' = [found EXCEPT ![c] = found'[c]]
    BY <1>1, <1>7
  <2> QED  BY <1>4, <1>7, <2>1
<1> QED  BY <1>3, <1>5, <1>6, <1>7

-----------------------------------------------------------------------------
(* The deletion of a record's key. *)
LEMMA Deletion ==
    ASSUME OpsInv, NEW u \in UID, NEW result, Mutate(0, DeleteKey(u), 0, result),
           UNCHANGED reference
    PROVE  /\ StoreInv' /\ RefersElsewhere' /\ minLeasedUID' = minLeasedUID
           /\ ~Lands(result) => Live' = Live
           /\ Lands(result) => Live' = Live \ {u}
<1> DEFINE e == [op |-> "DEL", uid |-> u, value |-> NoValue]
<1> USE DEF OpsInv
<1>1. Mutate(0, <<e>>, 0, result) /\ e.uid = u /\ Outcome(e) # ConsumedKey /\ 0 \in 0 .. 1
  BY DEF DeleteKey, Outcome
<1>2. reference' \in [Upserter -> [ns : Namespace, value : Value \cup {NoValue},
                                   found : UID \cup {NoUID}]]
  BY DEF StoreInv, TypeOK
<1> HIDE DEF e
<1>3. /\ StoreInv' /\ minLeasedUID' = minLeasedUID + 0 /\ minLeasedUID \in Int
      /\ ~Lands(result) => Live' = Live
      /\ Lands(result) => Live' = IF Outcome(e) = ConsumedKey THEN Live \cup {u} ELSE Live \ {u}
  BY <1>1, <1>2, OneEdge DEF StoreInv, TypeOK
<1>4. minLeasedUID' = minLeasedUID /\ Live' \subseteq Live
  BY <1>1, <1>3
<1>5. RefersElsewhere'
  BY <1>4 DEF RefersElsewhere, Dead
<1> QED  BY <1>1, <1>3, <1>4, <1>5

LEMMA DeleteStep ==
    ASSUME OpsInv, NEW c \in Consumer, Delete(c)
    PROVE  Good
<1> DEFINE u == found[c]
<1> USE DEF OpsInv
<1>1. /\ pc[c] = "delete" /\ UNCHANGED <<settings, found, overtaken>>
      /\ embedded' = embedded
      /\ outcome[c] = "none" /\ ~Took(c)
      /\ embedded \/ c \notin overtaken => u \in Live
  BY DEF Delete, Returned, Took, ReadIsLive, settings
<1>2. ASSUME NEW result \in Results \ {"ok", "loaded", "uncommitted", "notfound"},
             Ended(c, result), StoreInv', RefersElsewhere', Live' = Live,
             minLeasedUID' = minLeasedUID
      PROVE  Good
  <2>1. /\ OpsTyped' /\ Returned' /\ Arbitrated' /\ Alone(c)
        /\ outcome'[c] = result /\ pc'[c] = "done"
    BY <1>1, <1>2, EndsCall
  <2>2. Undecided
    BY <1>1, <1>2, <2>1 DEF Undecided, TakesNothing, Alone, Took
  <2>3. OpsInv'
    BY <1>1, <1>2, <2>1, <2>2, SameRecords DEF Undecided
  <2> QED  BY <1>2, <2>2, <2>3, Stutters DEF Good
<1>3. ASSUME embedded, Mutate(0, DeleteKey(u), 0, "ok"), UNCHANGED reference,
             Goto(c, "commit"), UNCHANGED <<consumeMu, outcome>>
      PROVE  Good
  <2>1. u \in Live /\ u \in UID
    BY <1>1, <1>3, LiveBelow
  <2>2. StoreInv' /\ RefersElsewhere' /\ minLeasedUID' = minLeasedUID /\ Live' = Live \ {u}
    BY <1>3, <2>1, Deletion
  <2>3. /\ OpsTyped' /\ Returned' /\ Arbitrated' /\ Alone(c)
        /\ pc'[c] = "commit" /\ found'[c] = u
        /\ \A d \in Consumer \ {c} : pc[d] \notin {"get", "delete", "commit"}
    <3>1. /\ UNCHANGED settings /\ consumeMu' = consumeMu
          /\ pc[c] \in {"get", "delete", "commit"} /\ pc' = [pc EXCEPT ![c] = "commit"]
          /\ outcome' = [outcome EXCEPT ![c] = "none"] /\ "none" \in Results
          /\ found' = [found EXCEPT ![c] = u] /\ u \in UID \cup {NoUID}
      BY <1>1, <1>3 DEF Goto, OpsTyped, Results
    <3> HIDE DEF u
    <3> QED  BY <1>3, <3>1, MovesOn
  <2>4. ReadIsLive'
    BY <1>1, <1>3, <2>3 DEF ReadIsLive, Alone
  <2>5. Took(c)'
    BY <1>1, <1>3, <2>3 DEF Took
  <2>6. Spent' /\ Apart' /\ Single!Take(c, u)
    <3> HIDE DEF u
    <3> QED  BY <1>1, <2>1, <2>2, <2>3, <2>5, TakesRecord
  <2> QED  BY <2>1, <2>2, <2>3, <2>4, <2>6 DEF Good, Single!Next
<1>6. ASSUME embedded, Mutate(0, DeleteKey(u), 0, "uncommitted"), UNCHANGED reference,
             Ended(c, "uncommitted")
      PROVE  Good
  <2>1. u \in Live /\ u \in UID
    BY <1>1, <1>6, LiveBelow
  <2>2. StoreInv' /\ RefersElsewhere' /\ minLeasedUID' = minLeasedUID /\ Live' = Live \ {u}
    BY <1>6, <2>1, Deletion
  <2>3. /\ OpsTyped' /\ Returned' /\ Arbitrated' /\ Alone(c)
        /\ outcome'[c] = "uncommitted" /\ pc'[c] = "done" /\ found'[c] = u
        /\ \A d \in Consumer \ {c} : pc[d] \notin {"get", "delete", "commit"}
    <3>1. "uncommitted" \in Results
      BY DEF Results
    <3> QED  BY <1>1, <1>6, <3>1, EndsCall
  <2>4. ReadIsLive'
    BY <1>1, <1>6, <2>3 DEF ReadIsLive, Alone
  <2>5. Took(c)'
    BY <2>3 DEF Took
  <2>6. Spent' /\ Apart' /\ Single!Take(c, u)
    <3> HIDE DEF u
    <3> QED  BY <1>1, <2>1, <2>2, <2>3, <2>5, TakesRecord
  <2> QED  BY <2>1, <2>2, <2>3, <2>4, <2>6 DEF Good, Single!Next
<1>4. CASE embedded
  <2>1. PICK result \in Ends :
            /\ Mutate(0, DeleteKey(u), 0, result)
            /\ IF result = "ok" THEN Goto(c, "commit") /\ UNCHANGED <<consumeMu, outcome>>
                               ELSE Ended(c, result)
            /\ UNCHANGED reference
    BY <1>4 DEF Delete
  <2>2. CASE result = "ok"
    BY <1>3, <1>4, <2>1, <2>2
  <2>3. CASE result = "uncommitted"
    <3>1. Mutate(0, DeleteKey(u), 0, "uncommitted") /\ Ended(c, "uncommitted")
      BY <2>1, <2>3
    <3> QED  BY <1>4, <1>6, <2>1, <3>1
  <2>4. CASE result \notin {"ok", "uncommitted"}
    <3>1. result \in Results \ {"ok", "loaded", "uncommitted", "notfound"}
      BY <2>4 DEF Ends, Results
    <3>2. u \in UID
      BY <1>1, <1>4, LiveBelow
    <3>3. StoreInv' /\ RefersElsewhere' /\ minLeasedUID' = minLeasedUID /\ Live' = Live
      <4> HIDE DEF u
      <4> QED  BY <2>1, <2>4, <3>2, Deletion
    <3> QED  BY <1>2, <2>1, <2>4, <3>1, <3>3
  <2> QED  BY <2>2, <2>3, <2>4
<1>5. CASE ~embedded
  <2>1. /\ UNCHANGED vars
        /\ \/ Goto(c, "commit") /\ UNCHANGED <<consumeMu, outcome>>
           \/ Ended(c, "failed")
    BY <1>5 DEF Delete
  <2>2. StoreInv' /\ RefersElsewhere' /\ Live' = Live /\ minLeasedUID' = minLeasedUID
    BY <2>1, StoreSame
  <2>3. CASE Goto(c, "commit") /\ UNCHANGED <<consumeMu, outcome>>
    <3>1. /\ OpsTyped' /\ Returned' /\ Arbitrated' /\ Alone(c)
          /\ outcome'[c] = "none" /\ pc'[c] = "commit" /\ found'[c] = u
      <4>1. /\ UNCHANGED settings /\ consumeMu' = consumeMu
          /\ pc[c] \in {"get", "delete", "commit"} /\ pc' = [pc EXCEPT ![c] = "commit"]
          /\ outcome' = [outcome EXCEPT ![c] = "none"] /\ "none" \in Results
          /\ found' = [found EXCEPT ![c] = u] /\ u \in UID \cup {NoUID}
        BY <1>1, <2>3 DEF Goto, OpsTyped, Results
      <4> HIDE DEF u
      <4> QED  BY <4>1, MovesOn
    <3>2. Undecided
      BY <1>1, <1>5, <3>1 DEF Undecided, TakesNothing, Alone, Took
    <3>3. OpsInv'
      BY <1>1, <1>5, <2>2, <3>1, <3>2, SameRecords DEF Undecided
    <3> QED  BY <2>2, <3>2, <3>3, Stutters DEF Good
  <2>4. CASE Ended(c, "failed")
    BY <1>2, <2>2, <2>4 DEF Results
  <2> QED  BY <2>1, <2>3, <2>4
<1> QED  BY <1>4, <1>5

LEMMA CommitEmbeddedStep ==
    ASSUME OpsInv, NEW c \in Consumer, CommitEmbedded(c)
    PROVE  Good
<1> USE DEF OpsInv
<1>1. /\ pc[c] = "commit" /\ embedded /\ UNCHANGED vars /\ UNCHANGED settings
      /\ embedded' = embedded /\ UNCHANGED <<found, overtaken>>
      /\ outcome[c] = "none" /\ Took(c)
  BY DEF CommitEmbedded, Returned, Took, settings
<1>2. PICK result \in {"loaded", "uncommitted"} : Ended(c, result)
  BY DEF CommitEmbedded
<1>3. StoreInv' /\ RefersElsewhere' /\ Live' = Live /\ minLeasedUID' = minLeasedUID
  BY <1>1, StoreSame
<1>4. /\ OpsTyped' /\ Returned' /\ Arbitrated' /\ Alone(c)
      /\ outcome'[c] = result /\ pc'[c] = "done"
  <2>1. result \in Results
    BY DEF Results
  <2> QED  BY <1>1, <1>2, <2>1, EndsCall
<1>5. Undecided
  BY <1>1, <1>4 DEF Undecided, TakesNothing, Alone, Took
<1>6. OpsInv'
  BY <1>1, <1>3, <1>4, <1>5, SameRecords DEF Undecided
<1> QED  BY <1>3, <1>5, <1>6, Stutters DEF Good

(* The deletion lands at the commit; every other transaction on the record   *)
(* is overtaken.                                                             *)
LEMMA CommitClusterStep ==
    ASSUME OpsInv, NEW c \in Consumer, CommitCluster(c)
    PROVE  Good
<1> DEFINE u == found[c]
<1> USE DEF OpsInv
<1>1. /\ pc[c] = "commit" /\ ~embedded /\ UNCHANGED settings /\ UNCHANGED found
      /\ embedded' = embedded
      /\ outcome[c] = "none" /\ ~Took(c)
      /\ c \notin overtaken => u \in Live
  BY DEF CommitCluster, Returned, Took, ReadIsLive, settings
<1>2. CASE /\ c \notin overtaken
           /\ Mutate(0, DeleteKey(u), 0, "ok")
           /\ CommitsOn(ConsumedKey, c)
           /\ \E result \in {"loaded", "uncommitted"} : Ended(c, result)
           /\ UNCHANGED reference
  <2>1. PICK result \in {"loaded", "uncommitted"} : Ended(c, result)
    BY <1>2
  <2>2. u \in Live /\ u \in UID
    BY <1>1, <1>2, LiveBelow
  <2>3. StoreInv' /\ RefersElsewhere' /\ minLeasedUID' = minLeasedUID /\ Live' = Live \ {u}
    <3> HIDE DEF u
    <3> QED  BY <1>2, <2>2, Deletion
  <2>4. /\ OpsTyped' /\ Returned' /\ Arbitrated' /\ Alone(c)
        /\ outcome'[c] = result /\ pc'[c] = "done" /\ found'[c] = u
    <3>1. result \in Results
      BY DEF Results
    <3> QED  BY <1>1, <2>1, <3>1, EndsCall
  <2>5. ReadIsLive'
    <3>1. \A d \in Consumer \ {c} : pc[d] \in {"delete", "commit"} => d \in overtaken'
      BY <1>1, <1>2 DEF CommitsOn, OpenOn
    <3> QED  BY <1>1, <2>4, <3>1 DEF ReadIsLive, Alone
  <2>6. Took(c)'
    BY <2>4 DEF Took
  <2>7. Spent' /\ Apart' /\ Single!Take(c, u)
    <3> HIDE DEF u
    <3> QED  BY <1>1, <2>2, <2>3, <2>4, <2>6, TakesRecord
  <2> QED  BY <2>2, <2>3, <2>4, <2>5, <2>7 DEF Good, Single!Next
<1>3. CASE Ended(c, "failed") /\ UNCHANGED <<vars, overtaken>>
  <2>1. StoreInv' /\ RefersElsewhere' /\ Live' = Live /\ minLeasedUID' = minLeasedUID
    BY <1>3, StoreSame
  <2>2. /\ OpsTyped' /\ Returned' /\ Arbitrated' /\ Alone(c)
        /\ outcome'[c] = "failed" /\ pc'[c] = "done"
    <3>1. "failed" \in Results
      BY DEF Results
    <3> QED  BY <1>1, <1>3, <3>1, EndsCall
  <2>3. Undecided
    BY <1>1, <2>2 DEF Undecided, TakesNothing, Alone, Took
  <2>4. OpsInv'
    BY <1>1, <1>3, <2>1, <2>2, <2>3, SameRecords DEF Undecided
  <2> QED  BY <2>1, <2>3, <2>4, Stutters DEF Good
<1> QED  BY <1>2, <1>3 DEF CommitCluster

(* A retry starts over from its query. *)
LEMMA AbortClusterStep ==
    ASSUME OpsInv, NEW c \in Consumer, AbortCluster(c)
    PROVE  Good
<1> DEFINE u == found[c]
<1> USE DEF OpsInv
<1>1. /\ pc[c] = "commit" /\ ~embedded /\ UNCHANGED vars /\ UNCHANGED settings
      /\ embedded' = embedded /\ UNCHANGED <<found, overtaken>>
      /\ outcome[c] = "none" /\ ~Took(c)
  BY DEF AbortCluster, MayAbort, Returned, Took, settings
<1>2. StoreInv' /\ RefersElsewhere' /\ Live' = Live /\ minLeasedUID' = minLeasedUID
  BY <1>1, StoreSame
<1>3. CASE Goto(c, "get") /\ UNCHANGED <<consumeMu, outcome>>
  <2>1. /\ OpsTyped' /\ Returned' /\ Arbitrated' /\ Alone(c)
        /\ outcome'[c] = "none" /\ pc'[c] = "get"
    <3>1. /\ UNCHANGED settings /\ consumeMu' = consumeMu
          /\ pc[c] \in {"get", "delete", "commit"} /\ pc' = [pc EXCEPT ![c] = "get"]
          /\ outcome' = [outcome EXCEPT ![c] = "none"] /\ "none" \in Results
          /\ found' = [found EXCEPT ![c] = u] /\ u \in UID \cup {NoUID}
      BY <1>1, <1>3 DEF Goto, OpsTyped, Results
    <3> HIDE DEF u
    <3> QED  BY <3>1, MovesOn
  <2>2. Undecided
    BY <1>1, <2>1 DEF Undecided, TakesNothing, Alone, Took
  <2>3. OpsInv'
    BY <1>1, <1>2, <2>1, <2>2, SameRecords DEF Undecided
  <2> QED  BY <1>2, <2>2, <2>3, Stutters DEF Good
<1>4. CASE Ended(c, "aborted")
  <2>1. /\ OpsTyped' /\ Returned' /\ Arbitrated' /\ Alone(c)
        /\ outcome'[c] = "aborted" /\ pc'[c] = "done"
    <3>1. "aborted" \in Results
      BY DEF Results
    <3> QED  BY <1>1, <1>4, <3>1, EndsCall
  <2>2. Undecided
    BY <1>1, <2>1 DEF Undecided, TakesNothing, Alone, Took
  <2>3. OpsInv'
    BY <1>1, <1>2, <2>1, <2>2, SameRecords DEF Undecided
  <2> QED  BY <1>2, <2>2, <2>3, Stutters DEF Good
<1> QED  BY <1>3, <1>4 DEF AbortCluster

LEMMA RestStep ==
    ASSUME OpsInv, CloseEngine \/ UNCHANGED allVars
    PROVE  Good
<1> USE DEF OpsInv
<1>1. /\ UNCHANGED <<minLeasedUID, valueOf, schemaOf, reference>>
      /\ UNCHANGED <<settings, consumeMu, pc, found, overtaken, outcome>>
  BY DEF CloseEngine, Close, ops, allVars, vars, data
<1>2. StoreInv'
  BY <1>1 DEF CloseEngine, Close, allVars, vars, data, StoreInv, TypeOK, BlankNodesAreNew
<1>3. Live' = Live /\ minLeasedUID \in Int
  BY <1>1 DEF Live, Having, StoreInv, TypeOK
<1>4. RefersElsewhere'
  BY <1>1, <1>3 DEF RefersElsewhere, Dead
<1>5. OpsInv' /\ Undecided
  BY <1>1, <1>2, <1>3, <1>4, CallersSame DEF OpsTyped
<1> QED  BY <1>3, <1>5, Stutters DEF Good

-----------------------------------------------------------------------------
LEMMA OpsInitially == Conditions /\ OpsInit => OpsInv /\ Single!Init
<1> SUFFICES ASSUME Conditions, OpsInit PROVE OpsInv /\ Single!Init
  OBVIOUS
<1>1. StoreInv
  BY DEF OpsInit, StoreInv, TypeOK, BlankNodesAreNew, NoNodes, NoReference, UID, Namespace, NoUID
<1>2. RefersElsewhere
  BY DEF OpsInit, RefersElsewhere, NoReference
<1>3. OpsTyped /\ Returned /\ Arbitrated /\ ReadIsLive
  BY DEF OpsInit, Conditions, OpsTyped, Returned, Arbitrated, ReadIsLive, Statement, Results
<1>4. \A c \in Consumer : ~Took(c) /\ outcome[c] # "notfound"
  BY DEF OpsInit, Took
<1>5. Spent /\ Apart
  BY <1>4 DEF Spent, Apart
<1>6. Live = {}
  BY DEF Live, Having, OpsInit, NoNodes, Namespace
<1>7. Single!Init
  BY <1>4, <1>6 DEF Single!Init, Live
<1> QED  BY <1>1, <1>2, <1>3, <1>5, <1>7 DEF OpsInv

LEMMA OpsStep == Conditions /\ OpsInv /\ [OpsNext]_allVars => Good
<1> SUFFICES ASSUME Conditions, OpsInv, [OpsNext]_allVars PROVE Good
  OBVIOUS
<1>1. CASE Insert
  BY <1>1, InsertStep
<1>2. ASSUME NEW g \in Upserter, Query(g) \/ MutateOrGet(g) PROVE Good
  BY <1>2, QueryStep, MutateOrGetStep
<1>3. ASSUME NEW c \in Consumer, Start(c) \/ ConsumerStep(c) PROVE Good
  BY <1>3, StartStep, GetStep, DeleteStep, CommitEmbeddedStep, CommitClusterStep, AbortClusterStep
  DEF ConsumerStep
<1>4. CASE CloseEngine \/ Finished \/ UNCHANGED allVars
  BY <1>4, RestStep DEF Finished
<1> QED  BY <1>1, <1>2, <1>3, <1>4 DEF OpsNext

LEMMA WinnersApart == OpsInv => SingleWinner
BY DEF OpsInv, Apart, Took, SingleWinner

(* No record is given to two callers of GetAndDelete (client.go, the comment *)
(* on GetAndDelete), whatever else runs, fails or is retried.                *)
THEOREM EachRecordOneWinner == Conditions => (OpsSpec => []SingleWinner)
<1> SUFFICES ASSUME Conditions PROVE OpsSpec => []SingleWinner
  OBVIOUS
<1>1. OpsInit => OpsInv
  BY OpsInitially
<1>2. OpsInv /\ [OpsNext]_allVars => OpsInv'
  BY OpsStep DEF Good
<1> QED  BY <1>1, <1>2, WinnersApart, PTL DEF OpsSpec

(* GetAndDelete implements SingleUse: a record is taken in the one step that *)
(* removes it and never comes back, and "not found" is answered only while   *)
(* there is none.                                                            *)
THEOREM ConsumesOnce == Conditions => (OpsSpec => ImplementsSingleUse)
<1> SUFFICES ASSUME Conditions PROVE OpsSpec => ImplementsSingleUse
  OBVIOUS
<1>1. OpsInit => OpsInv /\ Single!Init
  BY OpsInitially
<1>2. OpsInv /\ [OpsNext]_allVars => OpsInv' /\ [Single!Next]_(Single!vars)
  BY OpsStep DEF Good
<1> QED  BY <1>1, <1>2, PTL DEF OpsSpec, ImplementsSingleUse, Single!Spec
-----------------------------------------------------------------------------
(* A node a caller's query found has the key, or was taken: by that caller   *)
(* or by another one.                                                        *)
Reachable(u) == u \in Live \/ \E d \in Consumer : Took(d) /\ found[d] = u
Accounted == \A c \in Consumer : found[c] # NoUID => Reachable(found[c])

(* No step of SingleUse loses a record. *)
LEMMA NoneLost ==
    ASSUME [Single!Next]_(Single!vars), NEW u, Reachable(u)
    PROVE  Reachable(u)'
<1> DEFINE got == [c \in Consumer |-> IF Took(c) THEN {found[c]} ELSE {}]
           answered == {c \in Consumer : Took(c) \/ outcome[c] = "notfound"}
<1>1. u \in Live \/ \E d \in Consumer : u \in got[d]
  BY DEF Reachable
<1>2. ASSUME u \in Live' \/ \E d \in Consumer : u \in got'[d]
      PROVE  Reachable(u)'
  <2>1. \A d \in Consumer : got'[d] = IF Took(d)' THEN {found'[d]} ELSE {}
    OBVIOUS
  <2> QED  BY <1>2, <2>1 DEF Reachable
<1>3. ASSUME NEW c \in Consumer, NEW records, c \notin answered,
             got' = [got EXCEPT ![c] = records], Live' = Live \ records
      PROVE  u \in Live' \/ \E d \in Consumer : u \in got'[d]
  <2>1. got[c] = {}
    BY <1>3
  <2>2. \A d \in Consumer : got'[d] = IF d = c THEN records ELSE got[d]
    <3>1. got' = [d \in Consumer |-> IF d = c THEN records ELSE got[d]]
      BY <1>3
    <3> HIDE DEF got
    <3> QED  BY <3>1
  <2> HIDE DEF got
  <2> QED  BY <1>1, <1>3, <2>1, <2>2
<1>4. CASE UNCHANGED Single!vars
  BY <1>1, <1>2, <1>4 DEF Single!vars, Live
<1>5. CASE \E r \in UID : Single!Put(r)
  BY <1>1, <1>2, <1>5 DEF Single!Put, Live
<1>6. ASSUME NEW c \in Consumer, Single!Miss(c) PROVE Reachable(u)'
  BY <1>2, <1>3, <1>6 DEF Single!Miss, Single!Answer, Live
<1>7. ASSUME NEW c \in Consumer, NEW r \in UID, Single!Take(c, r) PROVE Reachable(u)'
  BY <1>2, <1>3, <1>7 DEF Single!Take, Single!Answer, Live
<1> QED  BY <1>4, <1>5, <1>6, <1>7 DEF Single!Next

(* A caller learns of a node by its query alone. *)
LEMMA FoundByQuery ==
    ASSUME OpsInv, [OpsNext]_allVars, NEW c \in Consumer
    PROVE  found'[c] \in {found[c], NoUID} \cup Live'
<1>1. ASSUME NEW d \in Consumer, Get(d)
      PROVE  found'[c] \in {found[c], NoUID} \cup Live'
  <2>1. Live' = Live
    BY <1>1 DEF Get, vars, Live, Having
  <2>2. 0 \in Namespace
    BY DEF Namespace
  <2>3. First(0, ConsumedKey) \in {NoUID} \cup Live
    BY <2>2, FirstMatches DEF Live
  <2>4. /\ found \in [Consumer -> UID \cup {NoUID}]
        /\ \/ found' = found
           \/ found' = [found EXCEPT ![d] = First(0, ConsumedKey)]
           \/ found' = [found EXCEPT ![d] = NoUID]
    BY <1>1 DEF Get, OpsInv, OpsTyped
  <2> QED  BY <2>1, <2>3, <2>4
<1>2. CASE UNCHANGED found
  BY <1>2
<1>3. CASE Insert \/ CloseEngine \/ Finished \/ UNCHANGED allVars
  BY <1>2, <1>3 DEF Insert, CloseEngine, Finished, ops, allVars
<1>4. ASSUME NEW g \in Upserter, Query(g) \/ MutateOrGet(g) PROVE UNCHANGED found
  BY <1>4 DEF Query, MutateOrGet
<1>5. ASSUME NEW d \in Consumer,
             \/ Start(d) \/ Delete(d)
             \/ CommitEmbedded(d) \/ CommitCluster(d) \/ AbortCluster(d)
      PROVE  UNCHANGED found
  BY <1>5 DEF Start, Delete, CommitEmbedded, CommitCluster, AbortCluster
<1> QED  BY <1>1, <1>2, <1>3, <1>4, <1>5 DEF OpsNext, ConsumerStep

LEMMA AccountedStep ==
    ASSUME Conditions, OpsInv, Accounted, [OpsNext]_allVars
    PROVE  Accounted'
<1> SUFFICES ASSUME NEW c \in Consumer, found'[c] # NoUID
             PROVE  Reachable(found[c])'
  BY DEF Accounted
<1>1. CASE found'[c] \in Live'
  BY <1>1 DEF Reachable
<1>2. CASE found'[c] = found[c]
  <2>1. [Single!Next]_(Single!vars)
    BY OpsStep DEF Good
  <2>2. Reachable(found[c])
    BY <1>2 DEF Accounted
  <2>3. \A u : Reachable(u) => Reachable(u)'
    BY <2>1, NoneLost
  <2> QED  BY <1>2, <2>2, <2>3 DEF Reachable
<1> QED  BY <1>1, <1>2, FoundByQuery

LEMMA QuietReported == Accounted => RemovalReported
<1> SUFFICES ASSUME Accounted, \A c \in Consumer : pc[c] \in {"idle", "done"},
                    NEW c \in Consumer, found[c] # NoUID, valueOf[0][found[c]] = NoValue
             PROVE  \E d \in Consumer :
                        outcome[d] \in {"loaded", "uncommitted"} /\ found[d] = found[c]
  BY DEF RemovalReported
<1>1. found[c] \notin Live
  BY DEF Live, Having
<1>2. \A d \in Consumer : Took(d) => outcome[d] \in {"loaded", "uncommitted"}
  BY DEF Took
<1> QED  BY <1>1, <1>2 DEF Accounted, Reachable

(* RemovalReported: when every GetAndDelete has returned, a record that one  *)
(* of them found and that is gone was handed to a caller, or a caller was    *)
(* told that its commit failed; no removal hides behind a "not found".       *)
THEOREM NoSilentRemoval == Conditions => (OpsSpec => []RemovalReported)
<1> SUFFICES ASSUME Conditions PROVE OpsSpec => []RemovalReported
  OBVIOUS
<1>1. OpsInit => OpsInv /\ Accounted
  <2>1. OpsInit => Accounted
    BY DEF OpsInit, Accounted
  <2> QED  BY <2>1, OpsInitially
<1>2. OpsInv /\ Accounted /\ [OpsNext]_allVars => OpsInv' /\ Accounted'
  BY OpsStep, AccountedStep DEF Good
<1> QED  BY <1>1, <1>2, QuietReported, PTL DEF OpsSpec

-----------------------------------------------------------------------------
(* Once a GetOrInsert has inserted its record a node has the key.  The next  *)
(* insertion is refused by the index on a unique key, and on a cluster by    *)
(* the conflict: a query that found no node stands until it is overtaken.    *)
Ensured == Having(0, EnsuredKey)
Inserted(g) == outcome[g] = "inserted"
Refusing == schemaOf[0] = "unique" \/ ~embedded

Missed(g) == reference[g] # NoReference /\ reference[g].found = NoUID
MissesStand ==
    \A g \in Upserter : ~embedded /\ Missed(g) /\ g \notin overtaken => Ensured = {}

InsertInv ==
    /\ Refusing
    /\ \A g \in Upserter : Inserted(g) => Ensured # {}
    /\ OneInserts
    /\ MissesStand

Same == Ensured' = Ensured /\ schemaOf' = schemaOf
Keeps == Ensured \subseteq Ensured' /\ schemaOf' = schemaOf
InsertsNone == \A g \in Upserter : Inserted(g)' => Inserted(g)

(* No upserter forgets that it was overtaken. *)
Remembers == ~embedded => \A g \in Upserter : g \in overtaken => g \in overtaken'

LEMMA EnsuredChanges ==
    ASSUME StoreInv, NEW e, NEW blanks, NEW result, Mutate(0, <<e>>, blanks, result)
    PROVE  /\ (e.uid \in Ensured => Outcome(e) = EnsuredKey) => Keeps
           /\ e.uid \notin Ensured /\ Outcome(e) # EnsuredKey => Same
           /\ ~Lands(result) => Same
<1>1. schemaOf' = schemaOf
  BY DEF Mutate
<1>2. CASE UNCHANGED valueOf
  BY <1>1, <1>2 DEF Keeps, Same, Ensured, Having
<1>3. CASE Lands(result) /\ \E new \in Applied(valueOf[0], <<e>>) :
                                  valueOf' = [valueOf EXCEPT ![0] = new]
  <2>1. PICK new \in Applied(valueOf[0], <<e>>) : valueOf' = [valueOf EXCEPT ![0] = new]
    BY <1>3
  <2>2. valueOf'[0] = new
    BY <2>1 DEF StoreInv, TypeOK, Namespace
  <2>3. \A u \in UID : new[u] = IF u = e.uid THEN Outcome(e) ELSE valueOf[0][u]
    BY DEF Applied
  <2>4. Ensured' = {u \in UID : new[u] = EnsuredKey}
    BY <2>2 DEF Ensured, Having
  <2>5. Ensured = {u \in UID : valueOf[0][u] = EnsuredKey}
    BY DEF Ensured, Having
  <2> QED  BY <1>1, <1>3, <2>3, <2>4, <2>5 DEF Keeps, Same
<1> QED  BY <1>2, <1>3 DEF Mutate

LEMMA UnusedNotEnsured ==
    ASSUME StoreInv
    PROVE  minLeasedUID \notin Ensured
BY DEF StoreInv, TypeOK, BlankNodesAreNew, Ensured, Having, UID, Namespace

LEMMA InsertInvKept ==
    ASSUME OpsInv, InsertInv, Keeps, InsertsNone, embedded' = embedded, MissesStand'
    PROVE  InsertInv'
BY DEF InsertInv, Refusing, Keeps, InsertsNone, OneInserts, Inserted

(* A step that neither adds nor takes the key. *)
LEMMA InsertInvSame ==
    ASSUME OpsInv, InsertInv, Same, InsertsNone, Remembers, UNCHANGED <<reference, embedded>>
    PROVE  InsertInv'
<1>1. MissesStand'
  BY DEF InsertInv, MissesStand, Missed, Same, Remembers
<1> QED  BY <1>1, InsertInvKept DEF Same, Keeps

LEMMA ReturnsOther ==
    ASSUME OpsInv, NEW c \in Consumer \cup Upserter, NEW result, Returns(c, result),
           result # "inserted" \/ c \in Consumer
    PROVE  InsertsNone
BY AtomicOpsConstants DEF OpsInv, OpsTyped, Returns, InsertsNone, Inserted

(* The mutation of a GetOrInsert that found no node. *)
LEMMA FreshInsert ==
    ASSUME OpsInv, InsertInv, NEW g \in Upserter, Missed(g),
           embedded \/ g \notin overtaken,
           Mutate(0, SetKey(minLeasedUID, EnsuredKey), 1, "ok"), Returns(g, "inserted"),
           embedded' = embedded, MissesStand'
    PROVE  InsertInv'
<1> DEFINE u == minLeasedUID
           e == [op |-> "SET", uid |-> u, value |-> EnsuredKey]
<1>1. /\ StoreInv /\ outcome \in [Consumer \cup Upserter -> Results]
      /\ 0 \in Namespace
  BY DEF OpsInv, OpsTyped, Namespace
<1>2. Mutate(0, <<e>>, 1, "ok") /\ e.uid = u /\ Outcome(e) = EnsuredKey
  BY DEF SetKey, Outcome
<1>3. Ensured = {}
  <2>1. CASE schemaOf[0] = "unique"
    <3>1. First(0, EnsuredKey) \in {NoUID, u}
      BY <1>2, <2>1 DEF Mutate, ViolatesUnique, StoredElsewhere
    <3>2. u \notin Ensured
      BY <1>1, UnusedNotEnsured
    <3>3. NoUID \notin Ensured
      BY EngineConstants DEF Ensured, Having, UID, NoUID
    <3> QED  BY <1>1, <3>1, <3>2, <3>3, FirstMatches DEF Ensured
  <2>2. CASE ~embedded
    BY <2>2 DEF InsertInv, MissesStand
  <2> QED  BY <2>1, <2>2 DEF InsertInv, Refusing
<1>4. u \in Ensured' /\ schemaOf' = schemaOf
  <2>1. PICK new \in Applied(valueOf[0], <<e>>) : valueOf' = [valueOf EXCEPT ![0] = new]
    BY <1>2 DEF Mutate
  <2>2. valueOf'[0] = new
    BY <1>1, <2>1 DEF StoreInv, TypeOK
  <2>3. u \in UID
    BY <1>1, <1>2, EngineConstants DEF Mutate, Addressable, StoreInv, TypeOK, UID
  <2>4. new[u] = EnsuredKey
    BY <1>2, <2>3 DEF Applied
  <2> QED  BY <1>2, <2>2, <2>3, <2>4 DEF Ensured, Having, Mutate
<1>5. \A h \in Upserter : Inserted(h)' <=> h = g
  BY <1>1, <1>3 DEF Returns, InsertInv, Inserted
<1> QED  BY <1>4, <1>5 DEF InsertInv, Refusing, Inserted, OneInserts

(* An insertion overtakes every GetOrInsert that has yet to mutate. *)
LEMMA InsertOvertakes ==
    ASSUME OpsInv, InsertInv, NEW g \in Upserter, embedded' = embedded,
           reference' = [reference EXCEPT ![g] = NoReference],
           \/ Same /\ UNCHANGED overtaken
           \/ CommitsOn(EnsuredKey, g)
    PROVE  MissesStand'
<1>1. ~Missed(g)' /\ \A h \in Upserter \ {g} : reference'[h] = reference[h]
  BY DEF OpsInv, StoreInv, TypeOK, Missed
<1>2. CASE Same /\ UNCHANGED overtaken
  BY <1>1, <1>2 DEF InsertInv, MissesStand, Missed, Same
<1>3. CASE CommitsOn(EnsuredKey, g)
  <2>1. ~embedded => \A h \in Upserter \ {g} : Missed(h) => h \in overtaken'
    BY <1>3 DEF CommitsOn, OpenOn, Missed
  <2> QED  BY <1>1, <2>1 DEF MissesStand, Missed
<1> QED  BY <1>2, <1>3

LEMMA MutateOrGetInserts ==
    ASSUME OpsInv, InsertInv, NEW g \in Upserter, MutateOrGet(g)
    PROVE  InsertInv'
<1> DEFINE f == reference[g].found
           u == IF f = NoUID THEN minLeasedUID ELSE f
           blanks == IF f = NoUID THEN 1 ELSE 0
<1>1. /\ StoreInv /\ reference[g] # NoReference /\ embedded' = embedded
      /\ reference' = [reference EXCEPT ![g] = NoReference]
  BY DEF MutateOrGet, settings, OpsInv
<1>2. CASE /\ embedded \/ (f = NoUID /\ g \notin overtaken)
           /\ \E result \in Ends :
                 /\ Mutate(0, SetKey(u, EnsuredKey), blanks, result)
                 /\ Returns(g, IF result # "ok" THEN result
                               ELSE IF f = NoUID THEN "inserted" ELSE "loaded")
                 /\ IF Lands(result) THEN CommitsOn(EnsuredKey, g) ELSE UNCHANGED overtaken
  <2>1. PICK result \in Ends :
                 /\ Mutate(0, SetKey(u, EnsuredKey), blanks, result)
                 /\ Returns(g, IF result # "ok" THEN result
                               ELSE IF f = NoUID THEN "inserted" ELSE "loaded")
                 /\ IF Lands(result) THEN CommitsOn(EnsuredKey, g) ELSE UNCHANGED overtaken
    BY <1>2
  <2>2. Keeps /\ (~Lands(result) => Same)
    <3> DEFINE e == [op |-> "SET", uid |-> u, value |-> EnsuredKey]
    <3>1. Mutate(0, <<e>>, blanks, result) /\ Outcome(e) = EnsuredKey
      BY <2>1 DEF SetKey, Outcome
    <3> HIDE DEF e, blanks
    <3> QED  BY <1>1, <3>1, EnsuredChanges
  <2>3. MissesStand'
    BY <1>1, <2>1, <2>2, InsertOvertakes
  <2>4. CASE result = "ok" /\ f = NoUID
    BY <1>1, <1>2, <2>1, <2>3, <2>4, FreshInsert DEF Missed
  <2>5. CASE ~(result = "ok" /\ f = NoUID)
    <3>1. PICK r : Returns(g, r) /\ r # "inserted"
      BY <2>1, <2>5 DEF Ends
    <3>2. InsertsNone
      BY <3>1, ReturnsOther
    <3> QED  BY <1>1, <2>2, <2>3, <3>2, InsertInvKept
  <2> QED  BY <2>4, <2>5
<1>3. CASE /\ \E r \in {"loaded", "aborted"} : Returns(g, r)
           /\ UNCHANGED <<valueOf, schemaOf, overtaken>>
  <2>1. InsertsNone
    BY <1>3, ReturnsOther
  <2>2. Same /\ Keeps
    BY <1>3 DEF Same, Keeps, Ensured, Having
  <2>3. MissesStand'
    BY <1>1, <1>3, <2>2, InsertOvertakes
  <2> QED  BY <1>1, <2>1, <2>2, <2>3, InsertInvKept
<1> QED  BY <1>2, <1>3 DEF MutateOrGet, data

(* The query of a GetOrInsert: a miss is of a key that no node has. *)
LEMMA QueryStands ==
    ASSUME OpsInv, InsertInv, NEW g \in Upserter, Query(g)
    PROVE  InsertInv'
<1>1. /\ reference' = [reference EXCEPT
                          ![g] = [ns |-> 0, value |-> EnsuredKey, found |-> First(0, EnsuredKey)]]
      /\ overtaken' = overtaken \ {g}
      /\ UNCHANGED <<valueOf, schemaOf, embedded, outcome>>
  BY DEF Query, Begins, data, settings
<1>2. Same /\ Keeps /\ InsertsNone
  BY <1>1 DEF Same, Keeps, Ensured, Having, InsertsNone, Inserted
<1>3. /\ reference'[g].found = First(0, EnsuredKey)
      /\ \A h \in Upserter \ {g} : reference'[h] = reference[h]
  BY <1>1 DEF OpsInv, StoreInv, TypeOK
<1>4. First(0, EnsuredKey) = NoUID => Ensured = {}
  <2>1. NoUID \notin Ensured /\ 0 \in Namespace
    BY EngineConstants DEF Ensured, Having, UID, NoUID, Namespace
  <2> QED  BY <2>1, FirstMatches DEF Ensured
<1>5. MissesStand'
  BY <1>1, <1>2, <1>3, <1>4 DEF InsertInv, MissesStand, Missed, Same
<1> QED  BY <1>1, <1>2, <1>5, InsertInvKept

(* The requests of others: a record to consume comes or goes. *)
LEMMA OthersInsertNone ==
    ASSUME Conditions, OpsInv, InsertInv,
           \/ Insert
           \/ \E c \in Consumer : Start(c) \/ ConsumerStep(c)
    PROVE  InsertInv'
<1> USE DEF OpsInv
<1>1. NoOne \notin Upserter /\ Consumer \cap Upserter = {} /\ ConsumedKey # EnsuredKey
      /\ EnsuredKey # NoValue
  BY AtomicOpsConstants, EngineConstants DEF Conditions
<1>2. ASSUME NEW key, NEW by, by \notin Upserter, CommitsOn(key, by) PROVE Remembers
  BY <1>2 DEF CommitsOn, Remembers
<1>3. CASE Insert
  <2>1. PICK result \in Ends :
            /\ Mutate(0, SetKey(minLeasedUID, ConsumedKey), 1, result)
            /\ IF Lands(result) THEN CommitsOn(ConsumedKey, NoOne) ELSE UNCHANGED overtaken
    BY <1>3 DEF Insert
  <2>2. Same
    <3> DEFINE e == [op |-> "SET", uid |-> minLeasedUID, value |-> ConsumedKey]
    <3>1. /\ Mutate(0, <<e>>, 1, result)
          /\ e.uid \notin Ensured /\ Outcome(e) # EnsuredKey
      BY <1>1, <2>1, UnusedNotEnsured DEF SetKey, Outcome
    <3> HIDE DEF e
    <3> QED  BY <3>1, EnsuredChanges
  <2>3. InsertsNone /\ UNCHANGED <<reference, embedded>>
    BY <1>3 DEF Insert, InsertsNone, Inserted, settings
  <2>4. Remembers
    BY <1>1, <1>2, <2>1 DEF Remembers
  <2> QED  BY <2>2, <2>3, <2>4, InsertInvSame
<1>4. ASSUME NEW c \in Consumer, Same, Remembers, UNCHANGED <<reference, embedded>>,
             UNCHANGED outcome \/ \E r : Returns(c, r)
      PROVE  InsertInv'
  <2>1. InsertsNone
    BY <1>4, ReturnsOther DEF InsertsNone, Inserted
  <2> QED  BY <1>4, <2>1, InsertInvSame
<1>5. ASSUME NEW c \in Consumer, NEW result, Mutate(0, DeleteKey(found[c]), 0, result),
             found[c] \in Live
      PROVE  Same
  <2> DEFINE e == [op |-> "DEL", uid |-> found[c], value |-> NoValue]
  <2>1. Mutate(0, <<e>>, 0, result) /\ e.uid = found[c] /\ Outcome(e) # EnsuredKey
    BY <1>1, <1>5 DEF DeleteKey, Outcome
  <2>2. found[c] \notin Ensured
    BY <1>1, <1>5 DEF Ensured, Live, Having
  <2> HIDE DEF e
  <2> QED  BY <2>1, <2>2, EnsuredChanges
<1>6. ASSUME UNCHANGED vars PROVE Same /\ UNCHANGED reference
  BY <1>6 DEF vars, Same, Ensured, Having
<1>7. ASSUME NEW c \in Consumer, Delete(c) PROVE InsertInv'
  <2>1. UNCHANGED outcome \/ \E r : Returns(c, r)
    BY <1>7 DEF Delete, Ended
  <2>2. embedded => found[c] \in Live
    BY <1>7 DEF Delete, ReadIsLive
  <2>3. Same /\ UNCHANGED reference
    BY <1>5, <1>6, <1>7, <2>2 DEF Delete
  <2>4. Remembers /\ UNCHANGED embedded
    BY <1>7 DEF Delete, Remembers, settings
  <2> QED  BY <1>4, <2>1, <2>3, <2>4
<1>8. ASSUME NEW c \in Consumer, CommitCluster(c) PROVE InsertInv'
  <2>1. \E r : Returns(c, r)
    BY <1>8 DEF CommitCluster, Ended
  <2>2. c \notin overtaken => found[c] \in Live
    BY <1>8 DEF CommitCluster, ReadIsLive
  <2>3. Same /\ UNCHANGED reference
    BY <1>5, <1>6, <1>8, <2>2 DEF CommitCluster
  <2>4. UNCHANGED embedded
    BY <1>8 DEF CommitCluster, settings
  <2>5. Remembers
    <3>1. c \notin Upserter
      BY <1>1
    <3>2. CommitsOn(ConsumedKey, c) \/ UNCHANGED overtaken
      BY <1>8 DEF CommitCluster
    <3> QED  BY <1>2, <3>1, <3>2 DEF Remembers
  <2> QED  BY <1>4, <2>1, <2>3, <2>4, <2>5
<1>9. ASSUME NEW c \in Consumer, Start(c) \/ Get(c) \/ CommitEmbedded(c) \/ AbortCluster(c)
      PROVE  InsertInv'
  <2>1. UNCHANGED <<vars, embedded>>
    BY <1>9 DEF Start, Get, CommitEmbedded, AbortCluster, settings
  <2>2. UNCHANGED outcome \/ \E r : Returns(c, r)
    BY <1>9 DEF Start, Get, CommitEmbedded, AbortCluster, Ended
  <2>3. overtaken' = overtaken \/ overtaken' = overtaken \ {c}
    BY <1>9 DEF Start, Get, CommitEmbedded, AbortCluster, Begins
  <2>4. Remembers
    BY <1>1, <2>3 DEF Remembers
  <2> QED  BY <1>4, <1>6, <2>1, <2>2, <2>4
<1> QED  BY <1>3, <1>7, <1>8, <1>9 DEF ConsumerStep

LEMMA InsertInvStep ==
    ASSUME Conditions, OpsInv, InsertInv, [OpsNext]_allVars
    PROVE  InsertInv'
<1>1. CASE CloseEngine \/ Finished \/ UNCHANGED allVars
  <2>1. UNCHANGED <<valueOf, schemaOf, reference, outcome, embedded, overtaken>>
    BY <1>1 DEF CloseEngine, Close, Finished, ops, settings, allVars, vars, data
  <2>2. Same /\ InsertsNone /\ Remembers
    BY <2>1 DEF Same, Ensured, Having, InsertsNone, Inserted, Remembers
  <2> QED  BY <2>1, <2>2, InsertInvSame
<1> QED  BY <1>1, MutateOrGetInserts, QueryStands, OthersInsertNone DEF OpsNext

LEMMA InsertInvHolds ==
    Conditions => (OpsSpec => [](KeySchema = "unique" \/ ~embedded => InsertInv))
<1> SUFFICES ASSUME Conditions
             PROVE  OpsSpec => [](KeySchema = "unique" \/ ~embedded => InsertInv)
  OBVIOUS
<1> DEFINE Goal == KeySchema = "unique" \/ ~embedded => InsertInv
<1>1. OpsInit => OpsInv /\ Goal
  <2>1. OpsInit => Goal
    BY DEF OpsInit, InsertInv, Refusing, MissesStand, Missed, Inserted, OneInserts, Namespace
  <2> QED  BY <2>1, OpsInitially
<1>2. OpsInv /\ Goal /\ [OpsNext]_allVars => OpsInv' /\ Goal'
  <2>1. [OpsNext]_allVars => embedded' = embedded
    BY DEF OpsNext, Insert, Query, MutateOrGet, Start, ConsumerStep, Get, Delete, CommitEmbedded,
           CommitCluster, AbortCluster, CloseEngine, Finished, settings, ops, allVars
  <2> QED  BY <2>1, OpsStep, InsertInvStep DEF Good
<1> QED  BY <1>1, <1>2, PTL DEF OpsSpec

(* OneInserts: of the GetOrInsert callers racing on a key declared unique,   *)
(* one at most is told that it inserted the record.                          *)
THEOREM OneCallerInserts ==
    Conditions /\ KeySchema = "unique" => (OpsSpec => []OneInserts)
<1> SUFFICES ASSUME Conditions, KeySchema = "unique" PROVE OpsSpec => []OneInserts
  OBVIOUS
<1>1. (KeySchema = "unique" \/ ~embedded => InsertInv) => OneInserts
  BY DEF InsertInv
<1> QED  BY <1>1, InsertInvHolds, PTL

(* On a cluster this holds of any key: a transaction whose query found no    *)
(* node is aborted when another has inserted one meanwhile.                  *)
THEOREM OneInsertsOnCluster ==
    Conditions => (OpsSpec => [](~embedded => OneInserts))
<1> SUFFICES ASSUME Conditions PROVE OpsSpec => [](~embedded => OneInserts)
  OBVIOUS
<1>1. (KeySchema = "unique" \/ ~embedded => InsertInv) => (~embedded => OneInserts)
  BY DEF InsertInv
<1> QED  BY <1>1, InsertInvHolds, PTL

=============================================================================
