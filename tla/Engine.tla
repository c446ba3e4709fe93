------------------------------- MODULE Engine -------------------------------
(* The data an open engine keeps and the calls on it: engine.go, with the    *)
(* calls of namespace.go and embedded_client.go that lead there.  Every call *)
(* is one critical section of Engine.mutex; an upsert is two, its query and  *)
(* its mutation, with other calls in between.  One predicate, indexed, with  *)
(* a single value per node, stands for all; zero's leases are module Zero.   *)
EXTENDS Integers

CONSTANTS
    Value,           \* the values of the predicate
    initialUID,      \* zero.go: 2
    MaxUID,          \* bound: the highest UID handed out
    MaxNamespaces,   \* bound: namespaces created since the last DropAll
    MaxEdges,        \* bound: edges in one mutation
    Upserter,        \* the goroutines that run upserts
    NoValue

ASSUME EngineConstants ==
    /\ initialUID \in Nat \ {0}
    /\ {MaxUID, MaxNamespaces, MaxEdges} \subseteq Nat
    /\ initialUID <= MaxUID
    /\ NoValue \notin Value

UID == initialUID .. MaxUID
NoUID == 0
Namespace == 0 .. MaxNamespaces

VARIABLES
    isOpen,
    lastNamespace,   \* zero's namespace counter
    handles,         \* the namespaces callers have ever been given
    minLeasedUID,    \* zero's UID counter
    schemaOf,        \* per namespace: "none", "plain" or "unique"
    valueOf,         \* per namespace and node: its value
    reference,       \* each upserter's request and the node its query found
    tainted          \* ghost: namespaces where @unique was put on duplicates

data == <<schemaOf, valueOf>>
vars == <<isOpen, lastNamespace, handles, minLeasedUID, schemaOf, valueOf, reference, tainted>>

NoReference == [ns |-> 0, value |-> NoValue, found |-> NoUID]
NoNodes == [u \in UID |-> NoValue]

Init ==
    /\ isOpen = TRUE
    /\ lastNamespace = 0
    /\ handles = {0}
    /\ minLeasedUID = initialUID
    /\ schemaOf = [ns \in Namespace |-> "none"]
    /\ valueOf = [ns \in Namespace |-> NoNodes]
    /\ reference = [g \in Upserter |-> NoReference]
    /\ tainted = {}

Having(ns, v) == {u \in UID : valueOf[ns][u] = v}

(* The first node of a query's result: results are ordered by UID. *)
First(ns, v) ==
    IF Having(ns, v) = {} THEN NoUID
    ELSE CHOOSE u \in Having(ns, v) : \A w \in Having(ns, v) : u <= w

-----------------------------------------------------------------------------
(* A mutation is a sequence of edges; verifyUniqueConstraints looks at them  *)
(* in order, first at the edges before it and then in the store.             *)
Edge == [op : {"SET"}, uid : UID, value : Value] \cup [op : {"DEL"}, uid : UID, value : {NoValue}]
Edges == UNION {[1 .. n -> Edge] : n \in 1 .. MaxEdges}

StoredElsewhere(ns, e) == First(ns, e.value) \notin {NoUID, e.uid}

SeenInBatch(edges, i) ==
    \E j \in 1 .. i - 1 :
        edges[j].op = "SET" /\ edges[j].value = edges[i].value /\ edges[j].uid # edges[i].uid

ViolatesStoreOnly(ns, edges) ==                           \* mutant of ViolatesUnique
    /\ schemaOf[ns] = "unique"
    /\ \E i \in DOMAIN edges : edges[i].op = "SET" /\ StoredElsewhere(ns, edges[i])

ViolatesBatchOnly(ns, edges) ==                           \* likewise
    /\ schemaOf[ns] = "unique"
    /\ \E i \in DOMAIN edges : edges[i].op = "SET" /\ SeenInBatch(edges, i)

ViolatesUnique(ns, edges) ==
    /\ schemaOf[ns] = "unique"
    /\ \E i \in DOMAIN edges :
          /\ edges[i].op = "SET"
          /\ SeenInBatch(edges, i) \/ StoredElsewhere(ns, edges[i])

(* worker.ApplyMutations and ApplyCommited (external): nodes that no edge    *)
(* names stay; which of several edges on one node counts is not engine.go's. *)
Outcome(e) == IF e.op = "SET" THEN e.value ELSE NoValue

Applied(nodes, edges) ==
    {new \in [UID -> Value \cup {NoValue}] :
        \A u \in UID : \/ \E i \in DOMAIN edges : edges[i].uid = u /\ new[u] = Outcome(edges[i])
                       \/ (\A i \in DOMAIN edges : edges[i].uid # u) /\ new[u] = nodes[u]}

(* ExtractBlankUIDs admits a node that is named only below the lease, and a  *)
(* blank node gets the next UID; both before the engine is known to be open. *)
Addressable(edges, blanks) ==
    /\ minLeasedUID + blanks <= MaxUID + 1
    /\ \A i \in DOMAIN edges : edges[i].uid < minLeasedUID + blanks

KeepUIDs(blanks) == UNCHANGED minLeasedUID                \* mutant of AssignUIDs
AssignUIDs(blanks) == minLeasedUID' = minLeasedUID + blanks

(* mutate and mutateWithDqlMutation, by the way they end: "uncommitted" is   *)
(* an error of ApplyCommited, after which the edges may be in the store all  *)
(* the same.                                                                 *)
Result == {"closed", "UniqueError", "failed", "uncommitted", "ok"}
Lands(result) == result \in {"uncommitted", "ok"}

Mutate(ns, edges, blanks, result) ==
    /\ Addressable(edges, blanks)
    /\ AssignUIDs(blanks)
    /\ \/ result = "closed" /\ ~isOpen /\ UNCHANGED valueOf
       \/ /\ result = "UniqueError"
          /\ isOpen /\ ViolatesUnique(ns, edges)
          /\ UNCHANGED valueOf
       \/ /\ result = "failed"             \* before the edges are applied, or without effect
          /\ isOpen /\ ~ViolatesUnique(ns, edges)
          /\ UNCHANGED valueOf
       \/ /\ Lands(result)
          /\ isOpen /\ ~ViolatesUnique(ns, edges)
          /\ \E new \in Applied(valueOf[ns], edges) : valueOf' = [valueOf EXCEPT ![ns] = new]
    /\ UNCHANGED <<isOpen, lastNamespace, handles, schemaOf, tainted>>

(* Anything a caller mutates without a query. *)
MutateAny ==
    \E ns \in handles, edges \in Edges, blanks \in 0 .. 1, result \in Result :
        Mutate(ns, edges, blanks, result) /\ UNCHANGED reference

-----------------------------------------------------------------------------
(* handleUpsert: the query under the read lock ...                           *)
UpsertQuery(g) ==
    /\ reference[g] = NoReference
    /\ isOpen
    /\ \E ns \in handles, v \in Value :
          reference' = [reference EXCEPT ![g] = [ns |-> ns, value |-> v, found |-> First(ns, v)]]
    /\ UNCHANGED <<isOpen, lastNamespace, handles, minLeasedUID, data, tainted>>

(* ... then, under the lock, the mutation with uid(var) replaced by the node *)
(* found, or by a blank node; the request's Cond is not looked at.           *)
UpsertMutate(g) ==
    /\ reference[g] # NoReference
    /\ LET r == reference[g]
           blanks == IF r.found = NoUID THEN 1 ELSE 0
           node == IF r.found = NoUID THEN minLeasedUID ELSE r.found
       IN  IF node < minLeasedUID + blanks /\ minLeasedUID + blanks <= MaxUID + 1
             THEN \E result \in Result :
                     Mutate(r.ns, <<[op |-> "SET", uid |-> node, value |-> r.value]>>, blanks, result)
             ELSE UNCHANGED <<isOpen, lastNamespace, handles, minLeasedUID, data, tainted>>
    /\ reference' = [reference EXCEPT ![g] = NoReference]

-----------------------------------------------------------------------------
(* The number is taken before the namespace's initial schema is applied: if  *)
(* that fails it stays taken.                                                *)
CreateNamespace ==
    /\ isOpen
    /\ lastNamespace < MaxNamespaces
    /\ lastNamespace' = lastNamespace + 1
    /\ handles' \in {handles, handles \cup {lastNamespace + 1}}
    /\ UNCHANGED <<isOpen, minLeasedUID, data, reference, tainted>>

GetNamespace(ns) ==
    /\ isOpen
    /\ ns <= lastNamespace
    /\ handles' = handles \cup {ns}
    /\ UNCHANGED <<isOpen, lastNamespace, minLeasedUID, data, reference, tainted>>

Distinct(ns) == \A u, w \in UID : valueOf[ns][u] = valueOf[ns][w] /\ u # w => valueOf[ns][u] = NoValue

(* Duplicates already in the store are not looked for. *)
AlterSchema(ns, s) ==
    /\ isOpen
    /\ schemaOf' = [schemaOf EXCEPT ![ns] = s]
    /\ tainted' = IF s = "unique" /\ ~Distinct(ns)
                    THEN tainted \cup {ns}
                    ELSE tainted
    /\ UNCHANGED <<isOpen, lastNamespace, handles, minLeasedUID, valueOf, reference>>

dropData(ns) ==
    /\ isOpen
    /\ valueOf' = [valueOf EXCEPT ![ns] = NoNodes]
    /\ tainted' = tainted \ {ns}
    /\ UNCHANGED <<isOpen, lastNamespace, handles, minLeasedUID, schemaOf, reference>>

dropPredicate(ns) ==
    /\ isOpen
    /\ valueOf' = [valueOf EXCEPT ![ns] = NoNodes]
    /\ schemaOf' = [schemaOf EXCEPT ![ns] = "none"]
    /\ tainted' = tainted \ {ns}
    /\ UNCHANGED <<isOpen, lastNamespace, handles, minLeasedUID, reference>>

(* The ALL mutation, then reset, which starts the counters afresh; when      *)
(* reset fails the data is gone and the old counters stay.                   *)
DropAll ==
    /\ isOpen
    /\ valueOf' = [ns \in Namespace |-> NoNodes]
    /\ schemaOf' = [ns \in Namespace |-> "none"]
    /\ tainted' = {}
    /\ \/ minLeasedUID' = initialUID /\ lastNamespace' = 0
       \/ UNCHANGED <<minLeasedUID, lastNamespace>>
    /\ UNCHANGED <<isOpen, handles, reference>>

Close ==
    /\ isOpen
    /\ isOpen' = FALSE
    /\ UNCHANGED <<lastNamespace, handles, minLeasedUID, data, reference, tainted>>

Next ==
    \/ MutateAny
    \/ \E g \in Upserter : UpsertQuery(g) \/ UpsertMutate(g)
    \/ CreateNamespace
    \/ \E ns \in Namespace : GetNamespace(ns)
    \/ \E ns \in handles : \/ dropData(ns) \/ dropPredicate(ns)
                          \/ \E s \in {"plain", "unique"} : AlterSchema(ns, s)
    \/ DropAll
    \/ Close

Spec == Init /\ [][Next]_vars
-----------------------------------------------------------------------------
(* Nodes are known below the counter's bound and a pending upsert refers to  *)
(* a node it saw, or to none.                                                *)
TypeOK ==
    /\ isOpen \in BOOLEAN
    /\ lastNamespace \in Namespace
    /\ handles \subseteq Namespace
    /\ minLeasedUID \in initialUID .. MaxUID + 1
    /\ schemaOf \in [Namespace -> {"none", "plain", "unique"}]
    /\ valueOf \in [Namespace -> [UID -> Value \cup {NoValue}]]
    /\ reference \in [Upserter -> [ns : Namespace, value : Value \cup {NoValue},
                                   found : UID \cup {NoUID}]]
    /\ tainted \subseteq Namespace

(* @unique holds: in a namespace whose predicate is unique no two nodes have *)
(* the same value, through every mix of batches, upserts whose query is out  *)
(* of date, deletions, drops and schema changes, unless the constraint was   *)
(* put on duplicates (alterSchema does not look for them).                   *)
UniqueHolds ==
    \A ns \in Namespace : schemaOf[ns] = "unique" /\ ns \notin tainted => Distinct(ns)

(* A blank node is a new node: the UID it will get has no value in any       *)
(* namespace, also after a DropAll started the UIDs afresh.                  *)
BlankNodesAreNew ==
    \A ns \in Namespace, u \in UID : u >= minLeasedUID => valueOf[ns][u] = NoValue
=============================================================================
