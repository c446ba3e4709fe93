------------------------------ MODULE AtomicOps ------------------------------
(* The key-keyed operations of client.go and intxn.go: Insert, GetOrInsert   *)
(* and GetAndDelete, each a series of requests with those of others between  *)
(* them.  On the embedded engine a request is a call on module Engine and is *)
(* final; on a Dgraph cluster (external) the same store is read and written  *)
(* by transactions, and a commit that comes after another one on the same    *)
(* key aborts.  dgman (external) turns GetOrInsert into an upsert and        *)
(* GetAndDelete into a query, a deletion and a commit.                       *)
EXTENDS Engine

CONSTANTS
    ConsumedKey,    \* the value of the key predicate in the records to consume
    EnsuredKey,     \* its value in the record GetOrInsert ensures
    KeySchema,      \* "plain" (dgraph:"upsert") or "unique" (dgraph:"upsert unique")
    Consumer,       \* callers of GetAndDelete
    maxAttempts,    \* client.go: 10
    Unarbitrated,   \* may they use transactions of their own on the embedded engine, too?
    Inserts,        \* does anyone Insert meanwhile?
    Faults,         \* may requests fail or the engine be closed meanwhile?
    NoOne

ASSUME AtomicOpsConstants ==
    /\ {ConsumedKey, EnsuredKey} \subseteq Value
    /\ KeySchema \in {"plain", "unique"}
    /\ maxAttempts \in Nat
    /\ {Unarbitrated, Inserts, Faults} \subseteq BOOLEAN
    /\ NoOne \notin Consumer \cup Upserter
    /\ Consumer \cap Upserter = {}

VARIABLES
    embedded,       \* client.engine # nil
    scoped,         \* the consumers that call ClientTxn.GetAndDelete and then Commit
    consumeMu,      \* the holder of client.consumeMu
    pc,             \* each consumer's statement
    found,          \* the node its query found
    attempt,        \* how often its commit was aborted
    overtaken,      \* the open transactions whose key another has committed on
    outcome         \* what each caller has returned

settings == <<embedded, scoped>>
ops == <<settings, consumeMu, pc, found, attempt, overtaken, outcome>>
allVars == <<vars, ops>>

OpsInit ==
    /\ isOpen = TRUE
    /\ lastNamespace = 0
    /\ handles = {0}
    /\ minLeasedUID = initialUID
    /\ schemaOf = [ns \in Namespace |-> IF ns = 0 THEN KeySchema ELSE "none"]
    /\ valueOf = [ns \in Namespace |-> NoNodes]
    /\ reference = [g \in Upserter |-> NoReference]
    /\ tainted = {}
    /\ embedded \in BOOLEAN
    /\ scoped \in SUBSET Consumer
    /\ embedded /\ ~Unarbitrated => scoped = {}
    /\ consumeMu = NoOne
    /\ pc = [c \in Consumer |-> "idle"]
    /\ found = [c \in Consumer |-> NoUID]
    /\ attempt = [c \in Consumer |-> 0]
    /\ overtaken = {}
    /\ outcome = [c \in Consumer \cup Upserter |-> "none"]

Ends == {"ok", "UniqueError"} \cup (IF Faults THEN {"failed", "uncommitted", "closed"} ELSE {})

Returns(c, result) == outcome' = [outcome EXCEPT ![c] = result]

SetKey(u, key) == <<[op |-> "SET", uid |-> u, value |-> key]>>
DeleteKey(u) == <<[op |-> "DEL", uid |-> u, value |-> NoValue]>>

(* The cluster's conflict check: a commit on a key overtakes the open        *)
(* transactions that touch it; a transaction that begins is overtaken by no  *)
(* one.  The embedded engine has none.                                       *)
OpenOn(key) ==
    {c \in Consumer : key = ConsumedKey /\ pc[c] \in {"delete", "commit"}}
        \cup {g \in Upserter : key = EnsuredKey /\ reference[g] # NoReference}

CommitsOn(key, by) == overtaken' = IF embedded THEN {} ELSE (overtaken \cup OpenOn(key)) \ {by}
Begins(c) == overtaken' = overtaken \ {c}
MayAbort(c) == ~embedded /\ (c \in overtaken \/ Faults)

-----------------------------------------------------------------------------
(* Insert of a record to consume. *)
Insert ==
    /\ Inserts
    /\ \E result \in Ends :
          /\ Mutate(0, SetKey(minLeasedUID, ConsumedKey), 1, result)
          /\ IF Lands(result) THEN CommitsOn(ConsumedKey, NoOne) ELSE UNCHANGED overtaken
    /\ UNCHANGED <<reference, settings, consumeMu, pc, found, attempt, outcome>>

(* GetOrInsert: the query and the mutation of an upsert. *)
Query(g) ==
    /\ outcome[g] = "none"
    /\ reference[g] = NoReference
    /\ isOpen
    /\ minLeasedUID <= MaxUID
    /\ reference' = [reference EXCEPT
                        ![g] = [ns |-> 0, value |-> EnsuredKey, found |-> First(0, EnsuredKey)]]
    /\ Begins(g)
    /\ UNCHANGED <<isOpen, lastNamespace, handles, minLeasedUID, data, tainted,
                   settings, consumeMu, pc, found, attempt, outcome>>

(* The UIDs of new nodes come back: none means an existing node matched.     *)
(* The cluster, unlike the engine, does not mutate a node that matched.      *)
MutateOrGet(g) ==
    /\ reference[g] # NoReference
    /\ LET u == reference[g].found
           fresh == u = NoUID
       IN  \/ /\ embedded \/ (fresh /\ g \notin overtaken)
              /\ \E result \in Ends :
                    /\ Mutate(0, SetKey(IF fresh THEN minLeasedUID ELSE u, EnsuredKey),
                              IF fresh THEN 1 ELSE 0, result)
                    /\ Returns(g, IF result # "ok" THEN result
                                  ELSE IF fresh THEN "inserted" ELSE "loaded")
                    /\ IF Lands(result) THEN CommitsOn(EnsuredKey, g) ELSE UNCHANGED overtaken
           \/ /\ ~embedded /\ ~fresh
              /\ Returns(g, "loaded")
              /\ UNCHANGED <<isOpen, lastNamespace, handles, minLeasedUID, data, tainted, overtaken>>
           \/ /\ fresh /\ MayAbort(g)
              /\ Returns(g, "aborted")
              /\ UNCHANGED <<isOpen, lastNamespace, handles, minLeasedUID, data, tainted, overtaken>>
    /\ reference' = [reference EXCEPT ![g] = NoReference]
    /\ UNCHANGED <<settings, consumeMu, pc, found, attempt>>

-----------------------------------------------------------------------------
(* On the embedded engine Client.GetAndDelete holds consumeMu from before    *)
(* its query until it returns; a transaction of the caller's does not.       *)

Locks(c) == embedded /\ c \notin scoped

Unlock(c) == consumeMu' = IF consumeMu = c THEN NoOne ELSE consumeMu

Goto(c, s) == pc' = [pc EXCEPT ![c] = s]
Ended(c, result) == Returns(c, result) /\ Goto(c, "done") /\ Unlock(c)

StartUnlocked(c) ==                                       \* mutant of Start
    /\ pc[c] = "idle"
    /\ Goto(c, "get")
    /\ UNCHANGED <<vars, settings, consumeMu, found, attempt, overtaken, outcome>>

Start(c) ==
    /\ pc[c] = "idle"
    /\ IF Locks(c) THEN consumeMu = NoOne /\ consumeMu' = c ELSE UNCHANGED consumeMu
    /\ Goto(c, "get")
    /\ UNCHANGED <<vars, settings, found, attempt, overtaken, outcome>>

(* A miss leaves the caller's record zero, whatever an earlier attempt read. *)
Get(c) ==
    /\ pc[c] = "get"
    /\ \/ /\ isOpen
          /\ First(0, ConsumedKey) # NoUID
          /\ found' = [found EXCEPT ![c] = First(0, ConsumedKey)]
          /\ Goto(c, "delete")
          /\ UNCHANGED <<consumeMu, outcome>>
       \/ /\ isOpen
          /\ First(0, ConsumedKey) = NoUID
          /\ found' = [found EXCEPT ![c] = NoUID]
          /\ Ended(c, "notfound")
       \/ /\ ~isOpen \/ (~embedded /\ Faults)
          /\ Ended(c, "closed") /\ UNCHANGED found
    /\ Begins(c)
    /\ UNCHANGED <<vars, settings, attempt>>

(* DeleteNode: on the embedded engine the deletion is in the store at once,  *)
(* even if ApplyCommited reports an error; on the cluster it waits for the   *)
(* commit.                                                                   *)
Delete(c) ==
    /\ pc[c] = "delete"
    /\ \/ /\ embedded
          /\ \E result \in Ends :
                /\ Mutate(0, DeleteKey(found[c]), 0, result)
                /\ IF result = "ok"
                     THEN Goto(c, "commit") /\ UNCHANGED <<consumeMu, outcome>>
                     ELSE Ended(c, result)
          /\ UNCHANGED reference
       \/ /\ ~embedded
          /\ \/ Goto(c, "commit") /\ UNCHANGED <<consumeMu, outcome>>
             \/ Faults /\ Ended(c, "failed")
          /\ UNCHANGED vars
    /\ UNCHANGED <<settings, found, attempt, overtaken>>

(* Commit on the embedded engine: commitOrAbort runs an empty mutation,      *)
(* which can fail like any other; the deletion stays.                        *)
CommitReportsMiss(c) ==                                   \* mutant of CommitEmbedded
    /\ pc[c] = "commit" /\ embedded
    /\ Ended(c, "notfound")
    /\ UNCHANGED <<vars, settings, found, attempt, overtaken>>

CommitEmbedded(c) ==
    /\ pc[c] = "commit" /\ embedded
    /\ \/ isOpen /\ Ended(c, "loaded")
       \/ (~isOpen \/ Faults) /\ Ended(c, "uncommitted")
    /\ UNCHANGED <<vars, settings, found, attempt, overtaken>>

(* On the cluster the deletion lands now, or not at all; the answer can be   *)
(* lost either way.                                                          *)
CommitCluster(c) ==
    /\ pc[c] = "commit" /\ ~embedded
    /\ \/ /\ c \notin overtaken
          /\ Mutate(0, DeleteKey(found[c]), 0, "ok")
          /\ CommitsOn(ConsumedKey, c)
          /\ \E result \in {"loaded"} \cup (IF Faults THEN {"uncommitted"} ELSE {}) :
                Ended(c, result)
          /\ UNCHANGED reference
       \/ Faults /\ Ended(c, "failed") /\ UNCHANGED <<vars, overtaken>>
    /\ UNCHANGED <<settings, found, attempt>>

(* An abort: Client.GetAndDelete tries again, from its query on, so often;   *)
(* a transaction of the caller's is the caller's to repeat.                  *)
RetryFromDelete(c) ==                                     \* mutant of AbortCluster
    /\ pc[c] = "commit" /\ MayAbort(c)
    /\ IF c \notin scoped /\ attempt[c] < maxAttempts
         THEN /\ attempt' = [attempt EXCEPT ![c] = @ + 1]
              /\ Begins(c)
              /\ Goto(c, "delete") /\ UNCHANGED <<consumeMu, outcome>>
         ELSE Ended(c, "aborted") /\ UNCHANGED <<attempt, overtaken>>
    /\ UNCHANGED <<vars, settings, found>>

RetryForever(c) ==                                        \* likewise
    /\ pc[c] = "commit" /\ MayAbort(c)
    /\ Goto(c, "get")
    /\ UNCHANGED <<vars, settings, consumeMu, found, attempt, overtaken, outcome>>

AbortCluster(c) ==
    /\ pc[c] = "commit" /\ MayAbort(c)
    /\ IF c \notin scoped /\ attempt[c] < maxAttempts
         THEN /\ attempt' = [attempt EXCEPT ![c] = @ + 1]
              /\ Goto(c, "get") /\ UNCHANGED <<consumeMu, outcome>>
         ELSE Ended(c, "aborted") /\ UNCHANGED attempt
    /\ UNCHANGED <<vars, settings, found, overtaken>>

CloseEngine == embedded /\ Faults /\ Close /\ UNCHANGED ops

(* Every call has returned, or is a GetOrInsert that a closed engine refuses *)
(* without more ado, and there are no UIDs left for further inserts.         *)
Finished ==
    /\ \A c \in Consumer : outcome[c] # "none"
    /\ \A g \in Upserter : outcome[g] # "none" \/ ~isOpen \/ minLeasedUID > MaxUID
    /\ ~Inserts \/ minLeasedUID > MaxUID
    /\ UNCHANGED allVars

ConsumerStep(c) == Get(c) \/ Delete(c) \/ CommitEmbedded(c) \/ CommitCluster(c) \/ AbortCluster(c)

OpsNext ==
    \/ Insert
    \/ \E g \in Upserter : Query(g) \/ MutateOrGet(g)
    \/ \E c \in Consumer : Start(c) \/ ConsumerStep(c)
    \/ CloseEngine
    \/ Finished

(* consumeMu is a sync.Mutex, which does not starve a waiter. *)
OpsSpec ==
    /\ OpsInit
    /\ [][OpsNext]_allVars
    /\ \A c \in Consumer : SF_allVars(Start(c)) /\ WF_allVars(ConsumerStep(c))
    /\ \A g \in Upserter : WF_allVars(MutateOrGet(g))
-----------------------------------------------------------------------------
(* A record is consumed once: no two callers return loaded=true with it      *)
(* (client.go, the comment on GetAndDelete).                                 *)
SingleWinner ==
    \A c, d \in Consumer :
        c # d /\ outcome[c] = "loaded" /\ outcome[d] = "loaded" => found[c] # found[d]

(* When no GetAndDelete is in progress, a record one of them found and that  *)
(* is no longer there has ended with a caller that got it, or was told that  *)
(* applying or committing the deletion failed: it is never lost behind a     *)
(* "not found".                                                              *)
RemovalReported ==
    (\A c \in Consumer : pc[c] \in {"idle", "done"}) =>
        \A c \in Consumer :
            found[c] # NoUID /\ valueOf[0][found[c]] = NoValue =>
                \E d \in Consumer : outcome[d] \in {"loaded", "uncommitted"} /\ found[d] = found[c]

(* At most one of the GetOrInsert callers racing on a key is told that it    *)
(* inserted the record.                                                      *)
OneInserts ==
    \A g, h \in Upserter : outcome[g] = "inserted" /\ outcome[h] = "inserted" => g = h

(* GetAndDelete implements single-use records: the record is taken in the    *)
(* step that removes it (the deletion on the embedded engine, the commit on  *)
(* the cluster), whatever the caller is told of the commit, and loaded=false *)
(* without an error means there was none, also after lost races.             *)
Took(c) == (embedded /\ pc[c] = "commit") \/ outcome[c] \in {"loaded", "uncommitted"}

Single == INSTANCE SingleUse WITH
    Caller <- Consumer,
    Record <- UID,
    live <- Having(0, ConsumedKey),
    answered <- {c \in Consumer : Took(c) \/ outcome[c] = "notfound"},
    got <- [c \in Consumer |-> IF Took(c) THEN {found[c]} ELSE {}]
ImplementsSingleUse == Single!Spec

(* Every GetAndDelete returns, however often the cluster aborts it.          *)
ConsumersReturn == \A c \in Consumer : <>(outcome[c] # "none")
=============================================================================
