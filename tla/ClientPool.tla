------------------------------ MODULE ClientPool ------------------------------
(* The connection pool of a client (client.go: clientPool): a buffered       *)
(* channel of idle connections.  get takes one out of it or makes one, put   *)
(* puts it back or, when the channel is full, closes it, close empties the   *)
(* channel.  Nothing records the connections that are in use: holds is what  *)
(* the callers know.                                                         *)
EXTENDS Integers, Sequences

CONSTANTS
    Caller,
    Connection,     \* every connection a factory ever makes
    poolSize,       \* the capacity of the channel
    NoConnection

ASSUME PoolConstants ==
    /\ poolSize \in Nat
    /\ NoConnection \notin Connection

VARIABLES
    clients,        \* the channel
    open,           \* the connections that are made and not closed
    holds           \* per caller: the connection it got and has not put back

poolVars == <<clients, open, holds>>

PoolInit ==
    /\ clients = << >>
    /\ open = {}
    /\ holds = [g \in Caller |-> NoConnection]

Idle == {clients[i] : i \in DOMAIN clients}
InUse == {holds[g] : g \in Caller} \ {NoConnection}

Holds(g, c) == holds' = [holds EXCEPT ![g] = c]

(* get: without waiting, a connection out of the channel ...                 *)
Reuse(g) ==
    /\ holds[g] = NoConnection
    /\ clients # << >>
    /\ Holds(g, Head(clients))
    /\ clients' = Tail(clients)
    /\ UNCHANGED open

(* ... or, when there was none, a new one; meanwhile there may be one again. *)
Create(g, c) ==
    /\ holds[g] = NoConnection
    /\ c \notin open
    /\ open' = open \cup {c}
    /\ Holds(g, c)
    /\ UNCHANGED clients

put(g, c) ==
    /\ IF Len(clients) < poolSize
         THEN clients' = Append(clients, c) /\ UNCHANGED open
         ELSE open' = open \ {c} /\ UNCHANGED clients
    /\ Holds(g, NoConnection)

(* One round of close's loop. *)
Drain ==
    /\ clients # << >>
    /\ open' = open \ {Head(clients)}
    /\ clients' = Tail(clients)
    /\ UNCHANGED holds

PoolNext ==
    \/ \E g \in Caller : \/ Reuse(g)
                         \/ \E c \in Connection : Create(g, c)
                         \/ holds[g] # NoConnection /\ put(g, holds[g])
    \/ Drain

PoolSpec == PoolInit /\ [][PoolNext]_poolVars
-----------------------------------------------------------------------------
(* A connection is idle in one place of the channel or in use by one caller, *)
(* and open in either case: no caller ever has the connection of another, or *)
(* one that put or close closes under it.                                    *)
ConnectionsExclusive ==
    /\ Idle \cup InUse \subseteq open
    /\ Idle \cap InUse = {}
    /\ \A i, j \in DOMAIN clients : clients[i] = clients[j] => i = j
    /\ \A g, h \in Caller : holds[g] = holds[h] /\ g # h => holds[g] = NoConnection

(* No connection is forgotten while it is open.                              *)
ConnectionsAccounted == open \subseteq Idle \cup InUse
=============================================================================
