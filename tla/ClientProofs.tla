----------------------------- MODULE ClientProofs -----------------------------
(* Proofs about ClientPool and Client, with any number of goroutines and     *)
(* connections and any capacity: no connection is ever shared or forgotten,  *)
(* the client's calls use the pool as ClientPool allows, and its cache of    *)
(* schema checks says what is so.                                            *)
EXTENDS Client, SequenceTheorems, TLAPS

(* The pool. *)
PoolTypeOK ==
    /\ clients \in Seq(Connection)
    /\ open \subseteq Connection
    /\ holds \in [Caller -> Connection \cup {NoConnection}]

PoolInv == PoolTypeOK /\ ConnectionsExclusive /\ ConnectionsAccounted

(* What Tail leaves of a channel whose entries are distinct: all but the     *)
(* first, each still in one place.                                           *)
LEMMA TailOfDistinct ==
    ASSUME NEW S, NEW s \in Seq(S), s # << >>,
           \A i, j \in DOMAIN s : s[i] = s[j] => i = j
    PROVE  /\ Head(s) \in S /\ Tail(s) \in Seq(S)
           /\ Head(s) \in {s[i] : i \in DOMAIN s}
           /\ {Tail(s)[i] : i \in DOMAIN Tail(s)} = {s[i] : i \in DOMAIN s} \ {Head(s)}
           /\ \A i, j \in DOMAIN Tail(s) : Tail(s)[i] = Tail(s)[j] => i = j
<1>1. /\ Len(s) \in Nat \ {0} /\ DOMAIN s = 1 .. Len(s)
      /\ Head(s) = s[1] /\ Head(s) \in S
      /\ Tail(s) \in Seq(S) /\ Len(Tail(s)) = Len(s) - 1
      /\ DOMAIN Tail(s) = 1 .. Len(s) - 1
      /\ \A i \in 1 .. Len(s) - 1 : Tail(s)[i] = s[i + 1]
  BY HeadTailProperties, EmptySeq, LenProperties
<1>2. \A i, j \in DOMAIN Tail(s) : Tail(s)[i] = Tail(s)[j] => i = j
  BY <1>1
<1>3. ASSUME NEW i \in DOMAIN Tail(s)
      PROVE  Tail(s)[i] \in {s[j] : j \in DOMAIN s} \ {Head(s)}
  BY <1>1
<1>4. ASSUME NEW j \in DOMAIN s, s[j] # Head(s)
      PROVE  \E i \in DOMAIN Tail(s) : Tail(s)[i] = s[j]
  <2>1. j - 1 \in DOMAIN Tail(s) /\ Tail(s)[j - 1] = s[j]
    BY <1>1, <1>4
  <2> QED  BY <2>1
<1> QED  BY <1>1, <1>2, <1>3, <1>4

(* What Append adds to a channel of distinct entries that did not hold c.    *)
LEMMA AppendOfDistinct ==
    ASSUME NEW S, NEW s \in Seq(S), NEW c \in S,
           c \notin {s[i] : i \in DOMAIN s},
           \A i, j \in DOMAIN s : s[i] = s[j] => i = j
    PROVE  /\ Append(s, c) \in Seq(S)
           /\ {Append(s, c)[i] : i \in DOMAIN Append(s, c)} = {s[i] : i \in DOMAIN s} \cup {c}
           /\ \A i, j \in DOMAIN Append(s, c) : Append(s, c)[i] = Append(s, c)[j] => i = j
<1>1. /\ Len(s) \in Nat /\ DOMAIN s = 1 .. Len(s)
      /\ Append(s, c) \in Seq(S)
      /\ DOMAIN Append(s, c) = 1 .. Len(s) + 1
      /\ Append(s, c)[Len(s) + 1] = c
      /\ \A i \in 1 .. Len(s) : Append(s, c)[i] = s[i]
  BY AppendProperties, LenProperties
<1>2. ASSUME NEW i \in DOMAIN Append(s, c)
      PROVE  Append(s, c)[i] \in {s[j] : j \in DOMAIN s} \cup {c}
  BY <1>1
<1>3. ASSUME NEW x \in {s[j] : j \in DOMAIN s} \cup {c}
      PROVE  \E i \in DOMAIN Append(s, c) : Append(s, c)[i] = x
  BY <1>1
<1>4. \A i, j \in DOMAIN Append(s, c) : Append(s, c)[i] = Append(s, c)[j] => i = j
  BY <1>1
<1> QED  BY <1>1, <1>2, <1>3, <1>4

LEMMA PoolInitially == PoolInit => PoolInv
BY PoolConstants DEF PoolInit, PoolInv, PoolTypeOK, ConnectionsExclusive, ConnectionsAccounted,
    Idle, InUse

LEMMA ReuseKeeps ==
    ASSUME PoolInv, NEW g \in Caller, Reuse(g)
    PROVE  PoolInv'
<1> USE PoolConstants
<1>1. /\ clients \in Seq(Connection) /\ clients # << >>
      /\ \A i, j \in DOMAIN clients : clients[i] = clients[j] => i = j
  BY DEF PoolInv, PoolTypeOK, ConnectionsExclusive, Reuse
<1>2. /\ Head(clients) \in Connection /\ clients' \in Seq(Connection)
      /\ Head(clients) \in Idle
      /\ Idle' = Idle \ {Head(clients)}
      /\ \A i, j \in DOMAIN clients' : clients'[i] = clients'[j] => i = j
  <2>1. /\ Head(clients) \in Connection
        /\ Head(clients) \in {clients[i] : i \in DOMAIN clients}
        /\ Tail(clients) \in Seq(Connection)
        /\ {Tail(clients)[i] : i \in DOMAIN Tail(clients)}
              = {clients[i] : i \in DOMAIN clients} \ {Head(clients)}
        /\ \A i, j \in DOMAIN Tail(clients) : Tail(clients)[i] = Tail(clients)[j] => i = j
    BY <1>1, TailOfDistinct
  <2>2. clients' = Tail(clients)
    BY DEF Reuse
  <2> QED  BY <2>1, <2>2 DEF Idle
<1>3. PoolTypeOK'
  BY <1>2 DEF PoolInv, PoolTypeOK, Reuse, Holds
<1>4. InUse' = InUse \cup {Head(clients)}
  BY <1>2 DEF PoolInv, PoolTypeOK, Reuse, Holds, InUse
<1>5. \A f, h \in Caller : holds'[f] = holds'[h] /\ f # h => holds'[f] = NoConnection
  BY <1>2 DEF PoolInv, PoolTypeOK, ConnectionsExclusive, Reuse, Holds, InUse
<1> QED  BY <1>2, <1>3, <1>4, <1>5 DEF PoolInv, ConnectionsExclusive, ConnectionsAccounted, Reuse

LEMMA CreateKeeps ==
    ASSUME PoolInv, NEW g \in Caller, NEW c \in Connection, Create(g, c)
    PROVE  PoolInv'
<1> USE PoolConstants
<1>1. PoolTypeOK' /\ Idle' = Idle
  BY DEF PoolInv, PoolTypeOK, Create, Holds, Idle
<1>2. InUse' = InUse \cup {c}
  BY DEF PoolInv, PoolTypeOK, Create, Holds, InUse
<1>3. \A f, h \in Caller : holds'[f] = holds'[h] /\ f # h => holds'[f] = NoConnection
  BY DEF PoolInv, PoolTypeOK, ConnectionsExclusive, Create, Holds, InUse
<1> QED  BY <1>1, <1>2, <1>3 DEF PoolInv, ConnectionsExclusive, ConnectionsAccounted, Create

LEMMA PutKeeps ==
    ASSUME PoolInv, NEW g \in Caller, holds[g] # NoConnection, put(g, holds[g])
    PROVE  PoolInv'
<1> USE PoolConstants
<1> DEFINE c == holds[g]
<1>1. /\ c \in Connection /\ c \in InUse /\ c \notin Idle /\ c \in open
      /\ clients \in Seq(Connection)
      /\ \A i, j \in DOMAIN clients : clients[i] = clients[j] => i = j
  BY DEF PoolInv, PoolTypeOK, ConnectionsExclusive, InUse
<1>2. InUse' = InUse \ {c}
  BY DEF PoolInv, PoolTypeOK, ConnectionsExclusive, put, Holds, InUse
<1>3. \A f, h \in Caller : holds'[f] = holds'[h] /\ f # h => holds'[f] = NoConnection
  BY DEF PoolInv, PoolTypeOK, ConnectionsExclusive, put, Holds
<1>4. CASE Len(clients) < poolSize
  <2>1. /\ clients' \in Seq(Connection)
        /\ Idle' = Idle \cup {c}
        /\ \A i, j \in DOMAIN clients' : clients'[i] = clients'[j] => i = j
    BY <1>1, <1>4, AppendOfDistinct DEF Idle, put
  <2>2. PoolTypeOK'
    BY <1>4, <2>1 DEF PoolInv, PoolTypeOK, put, Holds
  <2> QED
    BY <1>1, <1>2, <1>3, <1>4, <2>1, <2>2
    DEF PoolInv, ConnectionsExclusive, ConnectionsAccounted, put
<1>5. CASE ~(Len(clients) < poolSize)
  <2>1. PoolTypeOK' /\ Idle' = Idle /\ clients' = clients
    BY <1>5 DEF PoolInv, PoolTypeOK, put, Holds, Idle
  <2> QED
    BY <1>1, <1>2, <1>3, <1>5, <2>1
    DEF PoolInv, ConnectionsExclusive, ConnectionsAccounted, put
<1> QED  BY <1>4, <1>5

LEMMA DrainKeeps ==
    ASSUME PoolInv, Drain
    PROVE  PoolInv'
<1>1. /\ clients \in Seq(Connection) /\ clients # << >>
      /\ \A i, j \in DOMAIN clients : clients[i] = clients[j] => i = j
  BY DEF PoolInv, PoolTypeOK, ConnectionsExclusive, Drain
<1>2. /\ clients' \in Seq(Connection)
      /\ Head(clients) \in Idle
      /\ Idle' = Idle \ {Head(clients)}
      /\ \A i, j \in DOMAIN clients' : clients'[i] = clients'[j] => i = j
  <2>1. /\ Head(clients) \in {clients[i] : i \in DOMAIN clients}
        /\ Tail(clients) \in Seq(Connection)
        /\ {Tail(clients)[i] : i \in DOMAIN Tail(clients)}
              = {clients[i] : i \in DOMAIN clients} \ {Head(clients)}
        /\ \A i, j \in DOMAIN Tail(clients) : Tail(clients)[i] = Tail(clients)[j] => i = j
    BY <1>1, TailOfDistinct
  <2>2. clients' = Tail(clients)
    BY DEF Drain
  <2> QED  BY <2>1, <2>2 DEF Idle
<1>3. PoolTypeOK' /\ InUse' = InUse
  BY <1>2 DEF PoolInv, PoolTypeOK, Drain, InUse
<1> QED  BY <1>2, <1>3 DEF PoolInv, ConnectionsExclusive, ConnectionsAccounted, Drain

(* get, put and each round of close keep PoolInv. *)
LEMMA PoolStepKeeps == PoolInv /\ [PoolNext]_poolVars => PoolInv'
<1> SUFFICES ASSUME PoolInv, [PoolNext]_poolVars PROVE PoolInv'
  OBVIOUS
<1>1. ASSUME NEW g \in Caller, Reuse(g) PROVE PoolInv'
  BY <1>1, ReuseKeeps
<1>2. ASSUME NEW g \in Caller, NEW c \in Connection, Create(g, c) PROVE PoolInv'
  BY <1>2, CreateKeeps
<1>3. ASSUME NEW g \in Caller, holds[g] # NoConnection, put(g, holds[g]) PROVE PoolInv'
  BY <1>3, PutKeeps
<1>4. CASE Drain
  BY <1>4, DrainKeeps
<1>5. CASE UNCHANGED poolVars
  BY <1>5 DEF poolVars, PoolInv, PoolTypeOK, ConnectionsExclusive, ConnectionsAccounted,
      Idle, InUse
<1> QED  BY <1>1, <1>2, <1>3, <1>4, <1>5 DEF PoolNext

LEMMA PoolInvHolds == PoolSpec => []PoolInv
BY PoolInitially, PoolStepKeeps, PTL DEF PoolSpec

(* A pooled connection is idle in one place or in use by one caller, and     *)
(* open, whatever get, put and close do in whatever order.                   *)
THEOREM ConnectionsStayExclusive == PoolSpec => []ConnectionsExclusive
BY PoolInvHolds, PTL DEF PoolInv

(* No open connection is ever lost to the pool and its callers.              *)
THEOREM ConnectionsStayAccounted == PoolSpec => []ConnectionsAccounted
BY PoolInvHolds, PTL DEF PoolInv

-----------------------------------------------------------------------------
(* The client, whose calls take connections from the pool and put them back. *)

(* The statements between a call's get and its put, a Txn's Commit or        *)
(* Discard taking the place of the put.                                      *)
Connected == {"call", "vectors", "put", "invalidate"}

Statement ==
    {"idle", "get", "dial", "check", "mark", "run", "drain", "deferred"} \cup Connected

(* In them the call has the connection that its Txn, its Query or its        *)
(* deferred put refers to; and a Txn is closed from its Commit on.           *)
ConnectionKept ==
    /\ pc \in [Caller -> Statement]
    /\ handle \in [Caller -> Connection \cup {NoConnection}]
    /\ \A g \in Caller :
          /\ pc[g] \in Connected => holds[g] = handle[g] /\ holds[g] # NoConnection
          /\ g \in released <=> pc[g] = "deferred"

ClientInv == PoolTypeOK /\ ConnectionKept

LEMMA ClientInitially == ClientInit => PoolInit /\ ConnectionKept
BY DEF ClientInit, PoolInit, ConnectionKept, Connected, Statement

-----------------------------------------------------------------------------
(* What a step does to the pool.                                             *)
LEMMA StepUsesPool ==
    ASSUME ClientInv, NEW g \in Caller, Begin(g) \/ Step(g)
    PROVE  [PoolNext]_poolVars
<1> USE DEF ClientInv
<1>1. CASE Get(g)
  BY <1>1 DEF Get, PoolNext
<1>2. CASE Dial(g)
  <2>1. Fresh # {} => (CHOOSE c \in Fresh : TRUE) \in Connection
    BY DEF Fresh
  <2> QED  BY <1>2, <2>1 DEF Dial, PoolNext
<1>3. CASE PutBack(g)
  <2>1. holds[g] = handle[g] /\ holds[g] # NoConnection
    BY <1>3 DEF PutBack, ConnectionKept, Connected, Statement
  <2> QED  BY <1>3, <2>1 DEF PutBack, PoolNext
<1>4. CASE Commit(g)
  <2>1. holds[g] = handle[g] /\ holds[g] # NoConnection
    BY <1>4 DEF Commit, At, ConnectionKept, Connected, Statement
  <2> QED  BY <1>4, <2>1 DEF Commit, release, PoolNext
<1>5. CASE Discard(g)
  <2>1. g \notin released => holds[g] = handle[g] /\ holds[g] # NoConnection
    BY <1>5 DEF Discard, ConnectionKept, Connected, Statement
  <2> QED  BY <1>5, <2>1 DEF Discard, release, PoolNext
<1>6. CASE Close(g)
  BY <1>6 DEF Close, PoolNext
<1>7. CASE Begin(g) \/ Check(g) \/ Mark(g) \/ SendTypes(g) \/ SendVectors(g)
              \/ ReadSchema(g) \/ Request(g) \/ RunQuery(g) \/ DropAll(g) \/ Invalidate(g)
              \/ RawRequest(g)
  BY <1>7 DEF Begin, Check, Mark, SendTypes, SendVectors, ReadSchema, Request, RunQuery,
      DropAll, Invalidate, RawRequest
<1> QED  BY <1>1, <1>2, <1>3, <1>4, <1>5, <1>6, <1>7 DEF Step

-----------------------------------------------------------------------------
(* The end of a call, once its connection is put back.                       *)
LEMMA ReturnKeeps ==
    ASSUME ClientInv, NEW g \in Caller, Return(g),
           \A h \in Caller \ {g} : holds'[h] = holds[h]
    PROVE  ConnectionKept'
BY DEF ClientInv, ConnectionKept, Return, Becomes, Connected, Statement

LEMMA PutLeavesOthers ==
    ASSUME PoolTypeOK, NEW g \in Caller, NEW c, put(g, c)
    PROVE  \A h \in Caller \ {g} : holds'[h] = holds[h]
BY DEF PoolTypeOK, put, Holds

LEMMA StepKeeps ==
    ASSUME ClientInv, NEW g \in Caller, Begin(g) \/ Step(g)
    PROVE  ConnectionKept'
<1> USE DEF ClientInv
<1>1. CASE Get(g)
  <2>1. CASE Reuse(g) /\ handle' = [handle EXCEPT ![g] = Head(clients)] /\ Goto(g, "call")
    <3>1. Head(clients) \in Connection
      BY <2>1, HeadTailProperties DEF PoolTypeOK, Reuse
    <3> QED
      BY <1>1, <2>1, <3>1, PoolConstants
      DEF Get, Reuse, Holds, Goto, PoolTypeOK, ConnectionKept, Connected, Statement
  <2>2. CASE Goto(g, "dial") /\ UNCHANGED <<poolVars, handle>>
    BY <1>1, <2>2 DEF poolVars, ConnectionKept, Get, Goto, Connected, Statement
  <2> QED  BY <1>1, <2>1, <2>2 DEF Get
<1>2. CASE Dial(g)
  <2>1. CASE Return(g) /\ UNCHANGED poolVars
    BY <2>1, ReturnKeeps DEF poolVars
  <2>2. CASE ~ (Return(g) /\ UNCHANGED poolVars)
    <3>1. PICK c \in Connection : Create(g, c) /\ handle' = [handle EXCEPT ![g] = c]
      BY <1>2, <2>2 DEF Dial, Fresh
    <3>2. Goto(g, "call") /\ UNCHANGED released /\ pc[g] = "dial"
      BY <1>2, <2>2 DEF Dial
    <3> QED
      BY <3>1, <3>2, PoolConstants
      DEF Create, Holds, Goto, PoolTypeOK, ConnectionKept, Connected, Statement
  <2> QED  BY <2>1, <2>2
<1>3. CASE PutBack(g)
  <2>1. \A h \in Caller \ {g} : holds'[h] = holds[h]
    BY <1>3, PutLeavesOthers DEF PutBack
  <2>2. CASE Return(g)
    BY <2>1, <2>2, ReturnKeeps
  <2>3. CASE (Goto(g, "mark") \/ Goto(g, "run")) /\ UNCHANGED locals
    BY <1>3, <2>1, <2>3 DEF PutBack, Goto, locals, ConnectionKept, Connected, Statement
  <2> QED  BY <1>3, <2>2, <2>3 DEF PutBack, GoesOn
<1>4. CASE Commit(g)
  <2>1. \A h \in Caller \ {g} : holds'[h] = holds[h]
    BY <1>4, PutLeavesOthers DEF Commit, release, poolVars
  <2> QED
    BY <1>4, <2>1 DEF Commit, Goto, ConnectionKept, Connected, Statement
<1>5. CASE Discard(g)
  <2>1. \A h \in Caller \ {g} : holds'[h] = holds[h]
    BY <1>5, PutLeavesOthers DEF Discard, release, poolVars
  <2> QED  BY <1>5, <2>1, ReturnKeeps DEF Discard
<1>6. CASE Close(g)
  <2>1. \A h \in Caller : holds'[h] = holds[h]
    BY <1>6 DEF Close, Drain, poolVars
  <2>2. CASE Return(g)
    BY <2>1, <2>2, ReturnKeeps
  <2>3. CASE Goto(g, "drain") /\ UNCHANGED locals
    BY <1>6, <2>1, <2>3 DEF Close, Goto, locals, ConnectionKept, Connected, Statement
  <2> QED  BY <1>6, <2>2, <2>3 DEF Close
<1>7. CASE RunQuery(g)
  BY <1>7, ReturnKeeps DEF RunQuery, poolVars
<1>8. CASE Begin(g)
  <2>1. PICK o \in Calls :
           pc' = [pc EXCEPT ![g] = IF o = "write" THEN "check"
                                   ELSE IF o = "close" THEN "drain" ELSE "get"]
    BY <1>8 DEF Begin, Becomes
  <2> QED
    BY <1>8, <2>1 DEF poolVars, ConnectionKept, Begin, locals, Connected, Statement
<1>9. CASE Check(g)
  BY <1>9 DEF poolVars, ConnectionKept, Check, At, Becomes, locals, Connected, Statement
<1>10. CASE Mark(g)
  BY <1>10 DEF poolVars, ConnectionKept, Mark, Becomes, Connected, Statement
<1>11. CASE SendTypes(g)
  BY <1>11 DEF poolVars, ConnectionKept, SendTypes, Goto, locals, Connected, Statement
<1>12. CASE SendVectors(g)
  BY <1>12 DEF poolVars, ConnectionKept, SendVectors, Goto, Connected, Statement
<1>13. CASE ReadSchema(g)
  BY <1>13 DEF poolVars, ConnectionKept, ReadSchema, At, Goto, Connected, Statement
<1>14. CASE Request(g)
  BY <1>14 DEF poolVars, ConnectionKept, Request, Goto, locals, Connected, Statement
<1>15. CASE DropAll(g)
  BY <1>15 DEF poolVars, ConnectionKept, DropAll, At, Goto, Connected, Statement
<1>16. CASE Invalidate(g)
  BY <1>16 DEF poolVars, ConnectionKept, Invalidate, Goto, locals, Connected, Statement
<1>17. CASE RawRequest(g)
  BY <1>17 DEF poolVars, ConnectionKept, RawRequest, At, Goto, Connected, Statement
<1> QED
  BY <1>1, <1>2, <1>3, <1>4, <1>5, <1>6, <1>7, <1>8, <1>9, <1>10, <1>11, <1>12, <1>13,
     <1>14, <1>15, <1>16, <1>17 DEF Step

-----------------------------------------------------------------------------
LEMMA ClientStep ==
    PoolInv /\ ConnectionKept /\ [ClientNext]_vars =>
        PoolInv' /\ ConnectionKept' /\ [PoolNext]_poolVars
<1> SUFFICES ASSUME PoolInv, ConnectionKept, [ClientNext]_vars
             PROVE  PoolInv' /\ ConnectionKept' /\ [PoolNext]_poolVars
  OBVIOUS
<1>1. ClientInv
  BY DEF ClientInv, PoolInv
<1>2. ASSUME NEW g \in Caller, Begin(g) \/ Step(g)
      PROVE  ConnectionKept' /\ [PoolNext]_poolVars
  BY <1>1, <1>2, StepUsesPool, StepKeeps
<1>3. ASSUME UNCHANGED vars
      PROVE  ConnectionKept' /\ [PoolNext]_poolVars
  <2>1. UNCHANGED poolVars /\ pc' = pc /\ handle' = handle /\ released' = released
    BY <1>3 DEF vars, locals
  <2>2. holds' = holds
    BY <2>1 DEF poolVars
  <2>3. ConnectionKept'
    BY <2>1, <2>2 DEF ConnectionKept
  <2> QED  BY <2>1, <2>3
<1>4. ConnectionKept' /\ [PoolNext]_poolVars
  BY <1>2, <1>3 DEF ClientNext
<1> QED  BY <1>4, PoolStepKeeps

(* Every behaviour of the client's calls is one of the pool's: each puts     *)
(* back what it got, once, a Txn that is committed and then discarded too.   *)
THEOREM ClientUsesPool == ClientSpec => UsesPool
<1>1. ClientInit => PoolInit /\ PoolInv /\ ConnectionKept
  BY ClientInitially, PoolInitially
<1> QED  BY <1>1, ClientStep, PTL DEF ClientSpec, UsesPool, PoolSpec

(* No call has the connection of another, or one closed under it.            *)
THEOREM ClientConnectionsExclusive == ClientSpec => []ConnectionsExclusive
BY ClientUsesPool, ConnectionsStayExclusive, PTL DEF UsesPool

(* No connection is lost by any way a call can end.                          *)
THEOREM ClientConnectionsAccounted == ClientSpec => []ConnectionsAccounted
BY ClientUsesPool, ConnectionsStayAccounted, PTL DEF UsesPool

-----------------------------------------------------------------------------
(* The cache of schema checks.  What a goroutine in its schema step has sent *)
(* or read is in the schema, unless a drop has overtaken it (doubtful), up   *)
(* to the mark it leaves in the cache.                                       *)
KnowsSchema(g) ==
    /\ g \in passed => op[g] \in {"sync", "verify", "update"} /\ pc[g] \in {"put", "mark"}
    /\ pc[g] = "mark" => op[g] \in {"sync", "verify"} /\ g \in passed
    /\ pc[g] = "vectors" => op[g] \in {"sync", "update"}
    /\ g \notin doubtful =>
          /\ At(g, "sync", "vectors") => "type" \in schema
          /\ op[g] = "sync" /\ g \in passed => {"type", "vector"} \subseteq schema
          /\ op[g] = "verify" /\ g \in passed => "type" \in schema

Operation ==
    {"none", "sync", "verify", "write", "update", "request", "raw", "query", "txn", "drop",
     "close"}

CacheTyped ==
    /\ pc \in [Caller -> Statement]
    /\ op \in [Caller -> Operation]
    /\ {synced, verified, stale} \subseteq BOOLEAN

CacheInv == CacheTyped /\ CacheTrue /\ \A g \in Caller : KnowsSchema(g)

LEMMA CacheInitially == ClientInit => CacheInv
BY DEF ClientInit, SchemaInit, CacheInv, CacheTyped, CacheTrue, MarksTrue, KnowsSchema, At, Statement,
       Operation

(* What a step of one goroutine leaves of the others.                        *)
Undisturbed(g) ==
    \A h \in Caller \ {g} :
        /\ op'[h] = op[h] /\ pc'[h] = pc[h]
        /\ h \in passed' <=> h \in passed
        /\ h \in doubtful => h \in doubtful'

LEMMA Moved ==
    ASSUME CacheTyped, NEW g \in Caller,
           NEW o \in Operation, NEW s \in Statement,
           Becomes(g, o, s)
    PROVE  /\ op' \in [Caller -> Operation]
           /\ pc' \in [Caller -> Statement]
           /\ op'[g] = o /\ pc'[g] = s
           /\ \A h \in Caller \ {g} : op'[h] = op[h] /\ pc'[h] = pc[h]
BY DEF CacheTyped, Becomes

LEMMA Stepped ==
    ASSUME CacheTyped, NEW g \in Caller, NEW s \in Statement, Goto(g, s)
    PROVE  /\ op' \in [Caller -> Operation]
           /\ pc' \in [Caller -> Statement]
           /\ op'[g] = op[g] /\ pc'[g] = s
           /\ \A h \in Caller \ {g} : op'[h] = op[h] /\ pc'[h] = pc[h]
BY DEF CacheTyped, Goto

LEMMA Returned ==
    ASSUME CacheTyped, NEW g \in Caller, Return(g)
    PROVE  /\ op' \in [Caller -> Operation]
           /\ pc' \in [Caller -> Statement]
           /\ pc'[g] = "idle" /\ Undisturbed(g) /\ KnowsSchema(g)'
<1>1. Becomes(g, "none", "idle") /\ passed' = passed \ {g} /\ doubtful' = doubtful \ {g}
  BY DEF Return
<1>2. /\ op' \in [Caller -> Operation]
      /\ pc' \in [Caller -> Statement]
      /\ op'[g] = "none" /\ pc'[g] = "idle"
      /\ \A h \in Caller \ {g} : op'[h] = op[h] /\ pc'[h] = pc[h]
  BY <1>1, Moved DEF Statement, Operation
<1>3. Undisturbed(g)
  BY <1>1, <1>2 DEF Undisturbed
<1>4. KnowsSchema(g)'
  BY <1>1, <1>2 DEF KnowsSchema, At
<1> QED  BY <1>2, <1>3, <1>4

(* A step that neither marks nor invalidates, and takes nothing out of the   *)
(* schema.                                                                   *)
LEMMA KeepsCache ==
    ASSUME CacheInv, NEW g \in Caller, pc[g] # "invalidate",
           op' \in [Caller -> Operation],
           pc' \in [Caller -> Statement],
           Undisturbed(g), KnowsSchema(g)',
           synced' = synced, verified' = verified, stale' = stale, schema \subseteq schema'
    PROVE  CacheInv'
<1>1. CacheTyped'
  BY DEF CacheInv, CacheTyped
<1>2. CacheTrue'
  BY DEF CacheInv, CacheTrue, MarksTrue, Undisturbed
<1>3. ASSUME NEW h \in Caller PROVE KnowsSchema(h)'
  <2>1. CASE h = g
    BY <2>1
  <2>2. CASE h # g
    <3>1. /\ op'[h] = op[h] /\ pc'[h] = pc[h]
          /\ h \in passed' <=> h \in passed
          /\ h \in doubtful => h \in doubtful'
      BY <2>2 DEF Undisturbed
    <3>2. KnowsSchema(h)
      BY DEF CacheInv
    <3> QED  BY <3>1, <3>2 DEF KnowsSchema, At
  <2> QED  BY <2>1, <2>2
<1> QED  BY <1>1, <1>2, <1>3 DEF CacheInv

(* The calls that end or go on without a schema step.                        *)
LEMMA CallKeepsCache ==
    ASSUME CacheInv, NEW g \in Caller,
           Begin(g) \/ Get(g) \/ Dial(g) \/ PutBack(g) \/ Check(g) \/ Request(g)
              \/ RunQuery(g) \/ Commit(g) \/ Discard(g) \/ Close(g)
    PROVE  CacheInv'
<1> USE DEF schemaVars, cache, locals
<1>1. CacheTyped /\ KnowsSchema(g)
  BY DEF CacheInv
<1>2. /\ pc[g] \notin {"invalidate", "vectors", "mark"} /\ synced' = synced /\ verified' = verified
      /\ stale' = stale /\ schema \subseteq schema'
  BY DEF Begin, Get, Dial, PutBack, Check, At, Request, RunQuery, Commit, Discard, Close,
     AlterOther
<1>3. CASE Return(g)
  BY <1>1, <1>2, <1>3, Returned, KeepsCache
<1>4. ASSUME pc[g] # "put", UNCHANGED <<passed, doubtful>>,
             NEW s \in Statement \ {"mark", "vectors"},
             NEW o \in Operation,
             Goto(g, s) \/ Becomes(g, o, s)
      PROVE  CacheInv'
  <2>1. /\ op' \in [Caller -> Operation]
        /\ pc' \in [Caller -> Statement] /\ pc'[g] = s
        /\ \A h \in Caller \ {g} : op'[h] = op[h] /\ pc'[h] = pc[h]
    BY <1>1, <1>4, Moved, Stepped
  <2>2. g \notin passed
    BY <1>1, <1>2, <1>4 DEF KnowsSchema
  <2>3. Undisturbed(g)
    BY <1>4, <2>1 DEF Undisturbed
  <2>4. KnowsSchema(g)'
    BY <1>4, <2>1, <2>2 DEF KnowsSchema, At
  <2> QED  BY <1>2, <2>1, <2>3, <2>4, KeepsCache
<1>5. CASE PutBack(g) /\ ~Return(g)
  <2>1. PICK s \in {"mark", "run"} : /\ Goto(g, s) /\ UNCHANGED locals
                                     /\ s = "mark" => op[g] \in {"sync", "verify"} /\ g \in passed
                                     /\ s = "run" => op[g] = "query"
    BY <1>5 DEF PutBack, GoesOn
  <2>2. /\ op' \in [Caller -> Operation]
        /\ pc' \in [Caller -> Statement]
        /\ op'[g] = op[g] /\ pc'[g] = s
        /\ \A h \in Caller \ {g} : op'[h] = op[h] /\ pc'[h] = pc[h]
    BY <1>1, <2>1, Stepped DEF Statement, Connected
  <2>3. Undisturbed(g)
    BY <2>1, <2>2 DEF Undisturbed
  <2>4. schema' = schema /\ passed' = passed /\ doubtful' = doubtful
    BY <1>5, <2>1 DEF PutBack
  <2>5. KnowsSchema(g)'
    BY <1>1, <2>1, <2>2, <2>4 DEF KnowsSchema, At
  <2> QED  BY <1>2, <2>2, <2>3, <2>5, KeepsCache
<1>6. CASE Begin(g)
  <2>1. PICK o \in Calls :
           Becomes(g, o, IF o = "write" THEN "check" ELSE IF o = "close" THEN "drain" ELSE "get")
    BY <1>6 DEF Begin
  <2> DEFINE s == IF o = "write" THEN "check" ELSE IF o = "close" THEN "drain" ELSE "get"
  <2>2. s \in Statement \ {"mark", "vectors"} /\ o \in Operation
    BY ClientConstants DEF Statement, Connected, Operation
  <2>3. pc[g] # "put" /\ UNCHANGED <<passed, doubtful>>
    BY <1>6 DEF Begin
  <2> HIDE DEF s
  <2> QED  BY <1>4, <2>1, <2>2, <2>3 DEF s
<1>7. CASE /\ ~Return(g)
           /\ Get(g) \/ Dial(g) \/ Request(g) \/ Commit(g) \/ Close(g)
  <2>1. \E s \in {"call", "dial", "put", "deferred", "drain"} : Goto(g, s)
    BY <1>7 DEF Get, Dial, Request, Commit, Close
  <2>2. pc[g] # "put" /\ UNCHANGED <<passed, doubtful>>
    BY <1>7 DEF Get, Dial, Request, Commit, Close, At
  <2>3. op[g] \in Operation
    BY <1>1 DEF CacheTyped
  <2> QED  BY <1>4, <2>1, <2>2, <2>3 DEF Statement, Connected
<1>8. CASE Check(g)
  <2>1. /\ Becomes(g, "sync", "get") \/ Becomes(g, "verify", "get") \/ Becomes(g, op[g], "get")
        /\ pc[g] # "put" /\ UNCHANGED <<passed, doubtful>>
    BY <1>8 DEF Check, At
  <2>2. op[g] \in Operation
    BY <1>1 DEF CacheTyped
  <2> QED  BY <1>4, <2>1, <2>2 DEF Statement, Connected, Operation
<1> QED  BY <1>3, <1>5, <1>6, <1>7, <1>8 DEF RunQuery, Discard

(* UpdateSchema and the read of the schema: what they add or find is there.  *)
LEMMA SchemaStepKeepsCache ==
    ASSUME CacheInv, NEW g \in Caller, SendTypes(g) \/ SendVectors(g) \/ ReadSchema(g)
    PROVE  CacheInv'
<1> USE DEF schemaVars, cache, locals
<1>1. CacheTyped /\ KnowsSchema(g)
  BY DEF CacheInv
<1>2. /\ pc[g] \notin {"invalidate", "put", "mark"} /\ synced' = synced /\ verified' = verified
      /\ stale' = stale /\ schema \subseteq schema'
      /\ g \notin passed
  BY <1>1 DEF SendTypes, SendVectors, ReadSchema, At, CreateSchema, AlterVectors, KnowsSchema
<1>3. PICK s \in {"vectors", "put"} : Goto(g, s)
  BY DEF SendTypes, SendVectors, ReadSchema
<1>4. /\ op' \in [Caller -> Operation]
      /\ pc' \in [Caller -> Statement]
      /\ op'[g] = op[g] /\ pc'[g] = s
      /\ \A h \in Caller \ {g} : op'[h] = op[h] /\ pc'[h] = pc[h]
  BY <1>1, <1>3, Stepped DEF Statement, Connected
<1>5. Undisturbed(g)
  BY <1>4 DEF Undisturbed, SendTypes, SendVectors, ReadSchema
<1>6. KnowsSchema(g)'
  <2>1. CASE SendTypes(g)
    <3>1. Goto(g, "put") => s = "put"
      BY <1>1, <1>4, Stepped DEF Statement, Connected
    <3>2. passed' = passed /\ op[g] \in {"sync", "update"} /\ (s = "vectors" => "type" \in schema')
      BY <2>1, <3>1 DEF SendTypes, CreateSchema
    <3> QED  BY <1>2, <1>4, <3>2 DEF KnowsSchema, At
  <2>2. CASE SendVectors(g)
    <3>1. s = "put" /\ pc[g] = "vectors" /\ op[g] \in {"sync", "update"} /\ doubtful' = doubtful
      BY <1>1, <1>4, <2>2, Stepped DEF SendVectors, KnowsSchema, Statement, Connected
    <3>2. \/ schema' = schema \cup {"vector"} /\ passed' = passed \cup {g}
          \/ passed' = passed
      BY <2>2 DEF SendVectors, AlterVectors
    <3>3. g \notin doubtful /\ op[g] = "sync" => "type" \in schema
      BY <1>1, <3>1 DEF KnowsSchema, At
    <3> QED  BY <1>2, <1>4, <3>1, <3>2, <3>3 DEF KnowsSchema, At
  <2>3. CASE ReadSchema(g)
    <3>1. /\ s = "put" /\ op[g] = "verify" /\ schema' = schema
          /\ passed' = passed \/ passed' = passed \cup {g}
          /\ g \notin doubtful' => "type" \in schema
      BY <1>1, <1>4, <2>3, Stepped DEF ReadSchema, At, Statement, Connected
    <3> QED  BY <1>2, <1>4, <3>1 DEF KnowsSchema, At
  <2> QED  BY <2>1, <2>2, <2>3
<1> QED  BY <1>2, <1>4, <1>5, <1>6, KeepsCache

(* The mark: of an undoubted schema step it is true, of a doubtful one it is *)
(* noted.                                                                    *)
LEMMA MarkKeepsCache ==
    ASSUME CacheInv, NEW g \in Caller, Mark(g)
    PROVE  CacheInv'
<1>1. CacheTyped /\ KnowsSchema(g)
  BY DEF CacheInv
<1>2. /\ pc[g] = "mark" /\ op[g] \in {"sync", "verify"} /\ g \in passed
      /\ schema' = schema /\ stale' = (stale \/ g \in doubtful)
      /\ passed' = passed \ {g} /\ doubtful' = doubtful \ {g}
      /\ op[g] = "sync" => synced' = TRUE /\ verified' = verified
      /\ op[g] = "verify" => verified' = TRUE /\ synced' = synced
  BY <1>1 DEF Mark, KnowsSchema, markSynced, markVerified
<1>3. /\ op' \in [Caller -> Operation]
      /\ pc' \in [Caller -> Statement]
      /\ op'[g] = "write" /\ pc'[g] = "get"
      /\ \A h \in Caller \ {g} : op'[h] = op[h] /\ pc'[h] = pc[h]
  <2>1. Becomes(g, "write", "get")
    BY DEF Mark
  <2> QED  BY <1>1, <2>1, Moved DEF Statement, Operation
<1>4. CacheTyped'
  BY <1>1, <1>2, <1>3 DEF CacheTyped
<1>5. CacheTrue'
  <2> SUFFICES ASSUME ~stale', \A h \in Caller : pc'[h] # "invalidate"
               PROVE  /\ synced' => {"type", "vector"} \subseteq schema
                      /\ verified' => "type" \in schema
    BY <1>2 DEF CacheTrue, MarksTrue
  <2>1. ~stale /\ g \notin doubtful
    BY <1>2
  <2>2. /\ synced => {"type", "vector"} \subseteq schema
        /\ verified => "type" \in schema
    <3>1. \A h \in Caller : pc[h] # "invalidate"
      BY <1>2, <1>3
    <3> QED  BY <2>1, <3>1 DEF CacheInv, CacheTrue, MarksTrue
  <2> QED  BY <1>1, <1>2, <2>1, <2>2 DEF KnowsSchema
<1>6. ASSUME NEW h \in Caller PROVE KnowsSchema(h)'
  <2>1. CASE h = g
    BY <1>2, <1>3, <2>1 DEF KnowsSchema, At
  <2>2. CASE h # g
    <3>1. /\ op'[h] = op[h] /\ pc'[h] = pc[h]
          /\ h \in passed' <=> h \in passed
          /\ h \in doubtful' <=> h \in doubtful
      BY <1>2, <1>3, <2>2
    <3>2. KnowsSchema(h)
      BY DEF CacheInv
    <3> QED  BY <1>2, <3>1, <3>2 DEF KnowsSchema, At
  <2> QED  BY <2>1, <2>2
<1> QED  BY <1>4, <1>5, <1>6 DEF CacheInv

(* A drop makes every schema step in progress doubtful; until a DropAll's    *)
(* invalidation, after its failure and after the drop of a caller of         *)
(* DgraphClient, what the cache holds is excepted.                           *)
LEMMA DropKeepsCache ==
    ASSUME CacheInv, NEW g \in Caller, DropAll(g) \/ RawRequest(g)
    PROVE  CacheInv'
<1> USE DEF cache, schemaVars
<1>1. /\ CacheTyped /\ KnowsSchema(g)
      /\ pc[g] = "call" /\ op[g] \in {"drop", "raw"} /\ g \notin passed
  BY DEF CacheInv, DropAll, RawRequest, At, KnowsSchema
<1>2. PICK s \in {"invalidate", "put"} : Goto(g, s)
  BY DEF DropAll, RawRequest
<1>3. /\ op' \in [Caller -> Operation]
      /\ pc' \in [Caller -> Statement]
      /\ op'[g] = op[g] /\ pc'[g] = s
      /\ \A h \in Caller \ {g} : op'[h] = op[h] /\ pc'[h] = pc[h]
  BY <1>1, <1>2, Stepped DEF Statement, Connected
<1>4. synced' = synced /\ verified' = verified /\ passed' = passed
  BY DEF DropAll, RawRequest
<1>5. CASE schema \subseteq schema' /\ UNCHANGED <<doubtful, stale>>
  <2>1. Undisturbed(g) /\ KnowsSchema(g)'
    BY <1>1, <1>3, <1>4, <1>5 DEF Undisturbed, KnowsSchema, At
  <2> QED  BY <1>1, <1>3, <1>4, <1>5, <2>1, KeepsCache
<1>6. CASE /\ doubtful' = doubtful \cup Overtaken
           /\ \/ s = "invalidate" /\ UNCHANGED stale
              \/ stale' = (stale \/ synced \/ verified)
  <2>1. CacheTyped'
    BY <1>1, <1>3, <1>4, <1>6 DEF CacheTyped
  <2>2. CacheTrue'
    <3>1. CASE s = "invalidate"
      BY <1>3, <3>1 DEF CacheTrue
    <3>2. CASE stale' = (stale \/ synced \/ verified)
      BY <1>4, <3>2 DEF CacheTrue, MarksTrue
    <3> QED  BY <1>6, <3>1, <3>2
  <2>3. ASSUME NEW h \in Caller PROVE KnowsSchema(h)'
    <3>1. /\ op'[h] = op[h] /\ (h \in passed' <=> h \in passed)
          /\ h \notin doubtful' => h \notin Overtaken /\ h \notin doubtful
          /\ h # g => pc'[h] = pc[h]
          /\ h = g => pc'[h] = s /\ h \notin passed /\ op[h] \in {"drop", "raw"}
      BY <1>1, <1>3, <1>4, <1>6
    <3>2. KnowsSchema(h)
      BY DEF CacheInv
    <3> QED  BY <3>1, <3>2 DEF KnowsSchema, At, Overtaken
  <2> QED  BY <2>1, <2>2, <2>3 DEF CacheInv
<1>7. \/ schema \subseteq schema' /\ UNCHANGED <<doubtful, stale>>
      \/ /\ doubtful' = doubtful \cup Overtaken
         /\ \/ s = "invalidate" /\ UNCHANGED stale
            \/ stale' = (stale \/ synced \/ verified)
  <2>1. Goto(g, "invalidate") => s = "invalidate"
    BY <1>1, <1>3, Stepped DEF Statement, Connected
  <2> QED  BY <2>1 DEF DropAll, RawRequest, AlterOther
<1> QED  BY <1>5, <1>6, <1>7

LEMMA InvalidateKeepsCache ==
    ASSUME CacheInv, NEW g \in Caller, Invalidate(g)
    PROVE  CacheInv'
<1> USE DEF locals
<1>1. CacheTyped /\ KnowsSchema(g) /\ pc[g] = "invalidate"
  BY DEF CacheInv, Invalidate
<1>2. /\ synced' = FALSE /\ verified' = FALSE /\ stale' = FALSE /\ Goto(g, "put")
      /\ UNCHANGED <<schema, passed, doubtful>>
  BY DEF Invalidate, invalidate
<1>3. /\ op' \in [Caller -> Operation]
      /\ pc' \in [Caller -> Statement]
      /\ op'[g] = op[g] /\ pc'[g] = "put"
      /\ \A h \in Caller \ {g} : op'[h] = op[h] /\ pc'[h] = pc[h]
  BY <1>1, <1>2, Stepped DEF Statement, Connected
<1>4. ASSUME NEW h \in Caller PROVE KnowsSchema(h)'
  <2>1. KnowsSchema(h)
    BY DEF CacheInv
  <2> QED  BY <1>1, <1>2, <1>3, <2>1 DEF KnowsSchema, At
<1> QED  BY <1>2, <1>3, <1>4 DEF CacheInv, CacheTyped, CacheTrue, MarksTrue

LEMMA CacheStep == CacheInv /\ [ClientNext]_vars => CacheInv'
<1> SUFFICES ASSUME CacheInv, [ClientNext]_vars PROVE CacheInv'
  OBVIOUS
<1>1. ASSUME NEW g \in Caller, Begin(g) \/ Step(g) PROVE CacheInv'
  BY <1>1, CallKeepsCache, SchemaStepKeepsCache, MarkKeepsCache, DropKeepsCache,
     InvalidateKeepsCache DEF Step
<1>2. CASE UNCHANGED vars
  <2>1. UNCHANGED <<schema, synced, verified, op, pc, passed, doubtful, stale>>
    BY <1>2 DEF vars, schemaVars, cache, locals
  <2> QED  BY <2>1 DEF CacheInv, CacheTyped, CacheTrue, MarksTrue, KnowsSchema, At
<1> QED  BY <1>1, <1>2 DEF ClientNext

(* schema_cache.go: what the cache vouches for is in the schema, whatever    *)
(* calls, schema changes and drops run at once, but where the code cannot    *)
(* know better: within a DropAll, after one that failed or a drop by a       *)
(* caller of DgraphClient (each until the next DropAll that succeeds), and   *)
(* for marks of schema steps that a drop overtook or a longer name misled.   *)
THEOREM CacheStaysTrue == ClientSpec => []CacheTrue
<1>1. CacheInv => CacheTrue
  BY DEF CacheInv
<1> QED  BY <1>1, CacheInitially, CacheStep, PTL DEF ClientSpec
=============================================================================
