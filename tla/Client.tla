-------------------------------- MODULE Client --------------------------------
(* The calls of one client (client.go, mutate.go, txn.go) as they share its  *)
(* connection pool and its cache of schema checks, one action per statement  *)
(* another goroutine can see.  A request to the database (external) is one   *)
(* action; what it does to the data is the subject of AtomicOps and          *)
(* ShadowVectors.                                                            *)
EXTENDS ClientPool, SchemaCache

CONSTANTS
    Calls,          \* bound: the calls that are made
    DropsFail       \* may a DropAll fail with everything gone already?

VARIABLES
    autoSchema,     \* WithAutoSchema
    schemaCache,    \* WithSchemaCache
    op,             \* what each goroutine calls
    pc,             \* and its statement
    handle,         \* the connection a Txn or a Query refers to
    released,       \* the goroutines whose Txn is closed
    passed,         \* those whose schema step has succeeded
    doubtful,       \* ghost: those whose schema step a wipe has overtaken
    stale           \* ghost: such a step, a DropAll that failed, or a drop by a caller
                    \* of DgraphClient left its mark

options == <<autoSchema, schemaCache>>
locals == <<handle, released, passed, doubtful>>
vars == <<poolVars, schemaVars, options, op, pc, locals, stale>>

ClientInit ==
    /\ PoolInit
    /\ SchemaInit
    /\ autoSchema \in BOOLEAN
    /\ schemaCache \in BOOLEAN
    /\ op = [g \in Caller |-> "none"]
    /\ pc = [g \in Caller |-> "idle"]
    /\ handle = [g \in Caller |-> NoConnection]
    /\ released = {}
    /\ passed = {}
    /\ doubtful = {}
    /\ stale = FALSE

At(g, o, s) == op[g] = o /\ pc[g] = s
Goto(g, s) == pc' = [pc EXCEPT ![g] = s] /\ UNCHANGED op
Becomes(g, o, s) == op' = [op EXCEPT ![g] = o] /\ pc' = [pc EXCEPT ![g] = s]

Return(g) ==
    /\ Becomes(g, "none", "idle")
    /\ handle' = [handle EXCEPT ![g] = NoConnection]
    /\ released' = released \ {g}
    /\ passed' = passed \ {g}
    /\ doubtful' = doubtful \ {g}

-----------------------------------------------------------------------------
(* "write": Insert, Upsert, Update through process.  "update": UpdateSchema. *)
(* "request": the calls that get a connection, make one request and put the  *)
(* connection back (Get, Delete, QueryRaw, AlterSchema, GetSchema, DropData, *)
(* GetOrInsert, GetAndDelete).  "raw": a caller of DgraphClient, which hands *)
(* out the connection itself until its cleanup is called.                    *)
ASSUME ClientConstants ==
    /\ Calls \subseteq {"write", "update", "request", "raw", "query", "txn", "drop", "close"}
    /\ DropsFail \in BOOLEAN

Begin(g) ==
    /\ pc[g] = "idle"
    /\ \E o \in Calls :
          Becomes(g, o, IF o = "write" THEN "check" ELSE IF o = "close" THEN "drain" ELSE "get")
    /\ UNCHANGED <<poolVars, schemaVars, options, locals, stale>>

(* pool.get: a connection from the channel; else one from the factory, which *)
(* can fail and end the call.                                                *)
GetWaits(g) ==                                            \* mutant of Get
    /\ pc[g] = "get"
    /\ Reuse(g)
    /\ handle' = [handle EXCEPT ![g] = Head(clients)]
    /\ Goto(g, "call")
    /\ UNCHANGED <<schemaVars, options, released, passed, doubtful, stale>>

Get(g) ==
    /\ pc[g] = "get"
    /\ \/ /\ Reuse(g)
          /\ handle' = [handle EXCEPT ![g] = Head(clients)]
          /\ Goto(g, "call")
       \/ /\ clients = << >>
          /\ Goto(g, "dial")
          /\ UNCHANGED <<poolVars, handle>>
    /\ UNCHANGED <<schemaVars, options, released, passed, doubtful, stale>>

Fresh == {c \in Connection : c \notin open /\ \A g \in Caller : handle[g] # c}

Dial(g) ==
    /\ pc[g] = "dial"
    /\ \/ /\ Fresh # {}
          /\ LET c == CHOOSE c \in Fresh : TRUE
             IN  Create(g, c) /\ handle' = [handle EXCEPT ![g] = c]
          /\ Goto(g, "call")
          /\ UNCHANGED <<released, passed, doubtful>>
       \/ Return(g) /\ UNCHANGED poolVars
    /\ UNCHANGED <<schemaVars, options, stale>>

(* The deferred pool.put, and what follows it: process goes on after a       *)
(* schema step that succeeded, and the caller of Query gets a query on the   *)
(* connection just put back.                                                 *)
GoesOn(g) ==
    \/ /\ op[g] \in {"sync", "verify"} /\ g \in passed
       /\ Goto(g, "mark") /\ UNCHANGED locals
    \/ /\ op[g] = "query"
       /\ Goto(g, "run") /\ UNCHANGED locals
    \/ /\ op[g] # "query"
       /\ op[g] \notin {"sync", "verify"} \/ g \notin passed
       /\ Return(g)

ForgetFailed(g) ==                                        \* mutant of PutBack
    /\ pc[g] = "put"
    /\ IF op[g] \in {"sync", "verify"} /\ g \notin passed
         THEN Holds(g, NoConnection) /\ UNCHANGED <<clients, open>>
         ELSE put(g, handle[g])
    /\ GoesOn(g)
    /\ UNCHANGED <<schemaVars, options, stale>>

PutBack(g) ==
    /\ pc[g] = "put"
    /\ put(g, handle[g])
    /\ GoesOn(g)
    /\ UNCHANGED <<schemaVars, options, stale>>

-----------------------------------------------------------------------------
(* process: the schema step, unless the cache knows of the type; its end is  *)
(* marked in the cache after its connection is back in the pool.             *)
Check(g) ==
    /\ At(g, "write", "check")
    /\ IF schemaCache /\ (IF autoSchema THEN synced ELSE verified)
         THEN Becomes(g, "write", "get")
         ELSE Becomes(g, IF autoSchema THEN "sync" ELSE "verify", "get")
    /\ UNCHANGED <<poolVars, schemaVars, options, locals, stale>>

Mark(g) ==
    /\ pc[g] = "mark"
    /\ IF op[g] = "sync" THEN markSynced ELSE markVerified
    /\ stale' = (stale \/ g \in doubtful)
    /\ passed' = passed \ {g}
    /\ doubtful' = doubtful \ {g}
    /\ Becomes(g, "write", "get")
    /\ UNCHANGED <<poolVars, schema, options, handle, released>>

(* UpdateSchema, called by process or by the caller: two requests, either of *)
(* which can fail.                                                           *)
SendTypes(g) ==
    /\ pc[g] = "call" /\ op[g] \in {"sync", "update"}
    /\ \/ CreateSchema /\ Goto(g, "vectors")
       \/ UNCHANGED schema /\ Goto(g, "put")
    /\ UNCHANGED <<poolVars, cache, options, locals, stale>>

SendVectors(g) ==
    /\ pc[g] = "vectors"
    /\ \/ AlterVectors /\ passed' = passed \cup {g}
       \/ UNCHANGED <<schema, passed>>
    /\ Goto(g, "put")
    /\ UNCHANGED <<poolVars, cache, options, handle, released, doubtful, stale>>

(* A longer name that is taken for the type's is doubtful, too.              *)
ReadSchema(g) ==
    /\ At(g, "verify", "call")
    /\ passed' \in {passed, IF Contains THEN passed \cup {g} ELSE passed}
    /\ doubtful' = IF "type" \in schema THEN doubtful ELSE doubtful \cup {g}
    /\ Goto(g, "put")
    /\ UNCHANGED <<poolVars, schemaVars, options, handle, released, stale>>

Request(g) ==
    /\ pc[g] = "call" /\ op[g] \in {"write", "request", "query"}
    /\ \/ UNCHANGED schema
       \/ op[g] = "request" /\ AlterOther
    /\ Goto(g, "put")
    /\ UNCHANGED <<poolVars, cache, options, locals, stale>>

(* The query built by Query runs when its caller likes; it has no connection *)
(* of its own by then.                                                       *)
RunQuery(g) ==
    /\ pc[g] = "run"
    /\ Return(g)
    /\ UNCHANGED <<poolVars, schemaVars, options, stale>>

-----------------------------------------------------------------------------
(* DropAll: the Alter, which can fail with everything gone already, then the *)
(* invalidation.                                                             *)
Overtaken == {h \in Caller : op[h] \in {"sync", "verify"} /\ pc[h] \in {"vectors", "put", "mark"}}

DropAll(g) ==
    /\ At(g, "drop", "call")
    /\ \/ /\ Wipe
          /\ doubtful' = doubtful \cup Overtaken
          /\ \/ Goto(g, "invalidate") /\ UNCHANGED stale
             \/ DropsFail /\ Goto(g, "put") /\ stale' = (stale \/ synced \/ verified)
       \/ Goto(g, "put") /\ UNCHANGED <<schema, doubtful, stale>>
    /\ UNCHANGED <<poolVars, cache, options, handle, released, passed>>

(* The Alter of a caller of DgraphClient may also drop everything, or a      *)
(* predicate or type: nothing tells the cache of it.                         *)
RawRequest(g) ==
    /\ At(g, "raw", "call")
    /\ \/ UNCHANGED <<schema, doubtful, stale>>
       \/ AlterOther /\ UNCHANGED <<doubtful, stale>>
       \/ /\ DropPart
          /\ doubtful' = doubtful \cup Overtaken
          /\ stale' = (stale \/ synced \/ verified)
    /\ Goto(g, "put")
    /\ UNCHANGED <<poolVars, cache, options, handle, released, passed>>

Invalidate(g) ==
    /\ pc[g] = "invalidate"
    /\ invalidate
    /\ stale' = FALSE
    /\ Goto(g, "put")
    /\ UNCHANGED <<poolVars, schema, options, locals>>

-----------------------------------------------------------------------------
(* A Txn keeps its connection until Commit or Discard; Discard is deferred   *)
(* by the caller and comes after a Commit as well.                           *)
ReleaseAgain(g) == put(g, handle[g])                      \* mutant of release
release(g) == IF g \in released THEN UNCHANGED poolVars ELSE put(g, handle[g])

Commit(g) ==
    /\ At(g, "txn", "call")
    /\ release(g)
    /\ released' = released \cup {g}
    /\ Goto(g, "deferred")
    /\ UNCHANGED <<schemaVars, options, handle, passed, doubtful, stale>>

Discard(g) ==
    /\ op[g] = "txn" /\ pc[g] \in {"call", "deferred"}
    /\ release(g)
    /\ Return(g)
    /\ UNCHANGED <<schemaVars, options, stale>>

(* Close: the loop of pool.close; the engine is module EngineLifecycle.      *)
Close(g) ==
    /\ pc[g] = "drain"
    /\ \/ Drain /\ Goto(g, "drain") /\ UNCHANGED locals
       \/ clients = << >> /\ Return(g) /\ UNCHANGED poolVars
    /\ UNCHANGED <<schemaVars, options, stale>>

Step(g) ==
    \/ Get(g) \/ Dial(g) \/ PutBack(g)
    \/ Check(g) \/ Mark(g) \/ SendTypes(g) \/ SendVectors(g) \/ ReadSchema(g)
    \/ Request(g) \/ RunQuery(g)
    \/ DropAll(g) \/ Invalidate(g) \/ RawRequest(g)
    \/ Commit(g) \/ Discard(g)
    \/ Close(g)

ClientNext == \E g \in Caller : Begin(g) \/ Step(g)

(* A goroutine inside a call runs on, and ends the Txn it began.             *)
ClientSpec ==
    /\ ClientInit
    /\ [][ClientNext]_vars
    /\ \A g \in Caller : WF_vars(Step(g))
-----------------------------------------------------------------------------
(* The calls of a client use its pool as they should: put back what they     *)
(* got, once, also a Txn that is committed and then discarded.               *)
UsesPool == PoolSpec

(* The types the cache vouches for are in the schema: one marked as synced   *)
(* with its vector predicate, one marked as verified by itself.              *)
MarksTrue ==
    /\ synced => {"type", "vector"} \subseteq schema
    /\ verified => "type" \in schema

(* schema_cache.go: what the cache vouches for is so, except where the code  *)
(* cannot know better: between the Alter of a DropAll and its invalidation;  *)
(* after a DropAll that failed or a drop by a caller of DgraphClient, which  *)
(* leave the marks there are; and for a mark whose schema step a drop has    *)
(* overtaken, or that rests on a longer name.  The next DropAll that         *)
(* succeeds ends each of these.                                              *)
CacheTrue == stale \/ (\E g \in Caller : pc[g] = "invalidate") \/ MarksTrue

(* DropAll's promise to force every type to re-sync or re-verify on its next *)
(* write, in a client nobody makes raw requests with and no DropAll of which *)
(* fails: outside a DropAll, what the cache vouches for is so.               *)
DropAllForcesRecheck == (\E g \in Caller : pc[g] = "invalidate") \/ MarksTrue

(* Every call but Close returns (Close goes on while others put connections  *)
(* back).                                                                    *)
CallsReturn == \A g \in Caller : op[g] \notin {"none", "close"} ~> op[g] = "none"

(* A query that Query returned has an open connection when it runs.          *)
QueriesConnected == \A g \in Caller : pc[g] = "run" => handle[g] \in open
=============================================================================
