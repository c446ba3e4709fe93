# dgdao: a verification project in TLA+

dgdao is a Go library over the graph database Dgraph. A program uses it
through a `Client`, which talks either to a remote cluster (`dgraph://`) or to
an engine embedded in the process (`file://`). The embedded engine replaces the
parts of Dgraph that a cluster would provide (Zero, commit conflict checks,
unique constraints), and that replacement is what most of this project is
about: it is the code that is dgdao's own, concurrent, persistent, and not
covered by Dgraph's tests.

This directory holds the modules, the TLC configurations (`*.cfg`), the proofs,
and `PROJECT.json`, which maps every definition to the source lines it
translates.

## 1. Inventory

| part | source | state it keeps | operations | modules |
|---|---|---|---|---|
| zero | `zero.go` | counters and leases of UIDs and timestamps, last namespace; the zero state record in the store | `newZero`, `nextTs`, `readTs`, `nextUIDs`, `nextNamespace`, `leaseTs`, `leaseUIDs`, `LeaseUIDs` | `Zero`, `IdOracle`, `ZeroSharing`, `ZeroProofs`, `ZeroSharingProofs` |
| engine, life cycle | `engine.go`, `client.go` | `singleton`, `activeEngine`, `clientMap`, the process-wide store and hooks, `isOpen`, `mutex` | `NewEngine`, `Close`, `Shutdown`, `NewClient`, `client.Close` | `EngineLifecycle`, `EngineLifecycleProofs` |
| engine, data | `engine.go`, `namespace.go` | values and schema per namespace, namespace handles | `mutate`, `verifyUniqueConstraints`, `query`, `alterSchema`, `dropData`, `dropPredicate`, `DropAll`, `CreateNamespace`, `GetNamespace` | `Engine`, `AtomicOpsProofs` |
| embedded client | `embedded_client.go` | none | `Query`, `handleUpsert`, `Alter`, `CommitOrAbort` | `Engine`, `AtomicOps` |
| atomic operations | `client.go`, `intxn.go` | `consumeMu`; on a cluster, open transactions | `Insert`, `GetOrInsert`, `GetAndDelete`, `ClientTxn.GetAndDelete` | `AtomicOps`, `SingleUse`, `AtomicOpsProofs` |
| live loader | `live.go` | `blankNodes`, the channels `nqch` and `nqbuf`, buffers, errgroups, contexts | `LoadData`, `processFile`, `uid`, `Load` | `LiveLoader`, `LiveLoaderProofs` |
| writes and schema cache | `mutate.go`, `schema_cache.go`, `client.go` | types synced and verified | `process`, `UpdateSchema`, `AlterSchema`, `DropAll` | `SchemaCache`, `Client`, `ClientProofs` |
| connection pool | `client.go` | a channel of connections | `get`, `put`, `close` | `ClientPool`, `Client`, `ClientProofs` |
| transactions | `txn.go`, `intxn.go` | the transaction, its connection, `closed` | `NewTxn`, `Commit`, `Discard`, `release`, staged writes | `Client`, `ShadowVectors`, `AtomicOps` |
| retry | `retry.go` | none | `WithRetry`, `delay` | `Retry`, `ShadowVectors`, `ShadowVectorsProofs` |
| embeddings | `embedding.go`, `mutate.go` | shadow vectors in the store | `injectShadowVectors` | `ShadowVectors`, `ShadowVectorsProofs` |
| typed queries and filters | `typed/*.go`, `typed/filter`, `typed/search` | the query under construction, a page's position | `Filter`, `OrGroup`, `WhereEdge`, `Nodes`, `First`, `NodesAndCount`, `IterNodes`, `MultiQuery`, `MergeByID`, `filter.Builder` | `Filters`, `Pages`, `TypedQuery`, `PagesProofs` |
| records, defaults, validation, errors, tracing, configuration, command line | the rest | none that outlives a call | | not modelled (section 7) |

How they interact. A client takes a connection from its pool; on an embedded
engine the connection is an `embeddedDgraphClient`, which turns dgo requests
into calls on one `Namespace` of the `Engine`. Every engine call is one critical
section of `Engine.mutex`: exclusive for `mutate`, `alterSchema`, the drops and
`Close`, shared for `query`, `CreateNamespace` and `GetNamespace`. Inside it the
engine calls Dgraph's packages (process-wide state: store, schema, oracle) and
its `zero`, which has no lock of its own. Dgraph calls back into the engine's
zero through `hooks`. The live loader runs goroutines outside the mutex that
call `LeaseUIDs` directly, and one that calls `Namespace.Mutate`.

What is hard about it.

* *Concurrency*: zero relies entirely on its callers' locks, and not all of
  them take an exclusive one; an upsert is two critical sections;
  `GetAndDelete` is three calls on an engine without conflict checks; the
  singleton, the client map and the process-wide packages are guarded by
  different things.
* *Failure*: every store write of zero can fail after the counter in memory has
  moved; `reset` can stop at any step, also in the middle of `DropAll`; the
  loader has three kinds of goroutines of which any can fail.
* *Restart*: a lease has to cover what the last process handed out.
* *Boundaries*: uint64 counters that more than double per open; bounded
  channels; a buffer that never fills up; delays that are shifted out of 64
  bits; a page that ends exactly at the limit.
* *Two backends under one API*: what is one transaction on a cluster is a series
  of final mutations on the embedded engine, so every multi-step write has a
  different half-way state on each.

What makes each part correct is listed with its module below. `PROJECT.json`
lists the hazards at their lines with the properties that watch them; a note
says what a property leaves open, or why no property covers the hazard.

## 2. Modules

**`Zero`** (`zero.go`, `Engine.reset`). One engine's counters. `z` is
`engine.z`, `nz` the zero that `newZero` is building, `zs` the record in the
store, `phase` the step of `reset` the process is at (`down`, `readZeroState`,
`leaseUIDs`, `leaseTs`, `initialSchema`, `loadSchema`, `open`). A stop (crash or
`Close`) can come between any two steps and every store access can fail
(`StoreFails`). Additions of the lease wrap at `WordSize`, as uint64 does. A
running engine hands out what its lease has left in any case and renews it while
the sum stays in the word (`Renews`): past that it would have to hand out 2^63
identifiers in one process, while restarts get there soon (`ResetLease`). Ghost
variables record the last block handed out of each kind (`grant`; its field
`again` marks a block that is not above the one before, so that the same block
handed out twice is a step and no stutter), whether the last lease write failed
(`unsynced`), whether a process stopped in that state (`lost`), whether a
counter wrapped (`wrapped`), and whether a reset was stopped between its first
lease write and the initial schema, or a `DropAll` failed, and no reset has
applied the schema since (`interrupted`).

**`IdOracle`** is what a caller of zero is promised about one kind of
identifier: blocks in strictly increasing order until the data is dropped.
`Zero` implements it three times (`UIDsIncrease`, `TimestampsIncrease`,
`NamespaceIDsIncrease`), with a refinement mapping that picks one field of
`grant`.

**`ZeroSharing`** takes the calls of zero apart into their statements, for
several goroutines that share one zero under the locks their callers hold
(`Exclusive`: `mutate`, `alterSchema`, `dropPredicate`; `Shared`:
`CreateNamespace`; `Unlocked`: the live loader's `LeaseUIDs`). The store write
is a snapshot of the bounds and a later commit; a counter that is read and then
incremented without a lock may be incremented from either value, which is what
the data race leaves open. A crash can come between any two statements. The
ghost `load` tells whether a goroutine in `Unlocked` has leased UIDs ("ran") and
whether a process was started since ("restarted"): the properties promise
everything before, timestamps and namespaces during, nothing after.

**`EngineLifecycle`** (`NewEngine`, `Close`, `Shutdown`, and `NewClient` for a
file URI) has one action per statement that another goroutine can see: the
flag, the storage, the hooks, `activeEngine`, the mutex of each engine, the
client map under its lock, for which every other `NewClient` waits (`LockMap`).
Every error return is there: an invalid
configuration, a failed `reset`, a missing namespace, the panic of `Close`.
Ghosts: `stale` (a closed client was handed out), `panicked`, `overlapped` (two
calls were ever in progress at once). One predicate of the world is left out:
which directory an engine opens does not matter to any of this.

**`Engine`** is the data of an open engine. One indexed predicate with one
value per node stands for all predicates; namespaces have their own values and
schema. A call is one action, an upsert two (`UpsertQuery`, `UpsertMutate`)
with anything in between. `Mutate` is parameterised by its edges, the number of
blank nodes and the way it ends (`closed`, `UniqueError`, `failed`, `uncommitted`,
`ok`); the UIDs of blank nodes are taken in all of them, as `mutate` does before it
looks at `isOpen`. `uncommitted` is an error of `ApplyCommited` after
`ApplyMutations`: the edges may be there (`Lands`) and the caller gets an error. What `ApplyMutations` makes of several edges on one node is
external and left open (`Applied`). The ghost `tainted` marks namespaces where
`@unique` was put on existing duplicates, which `alterSchema` does not look for.

**`AtomicOps`** EXTENDS `Engine`: callers of `GetAndDelete` (query, deletion,
commit), of `GetOrInsert` (an upsert) and of `Insert`, on one of two backends,
chosen in `OpsInit`. On the embedded engine each request is final,
`GetAndDelete` holds `consumeMu` around its three, and the engine can be closed
between them. On a cluster (external) the deletion waits in a transaction;
`overtaken` holds the open transactions whose key another has committed on
since, and a commit of one of them aborts. An aborted `GetAndDelete` starts over
from its query at most `maxAttempts` times; one in a transaction of the caller's
(`scoped`) does not. A commit's answer can be lost after it landed. It
implements **`SingleUse`**, the abstract promise of `GetAndDelete`: a record is
taken at most once, in one step, it never comes back, and a caller that gets
nothing found nothing. The mapping takes the record in the step that removes it:
the deletion on the embedded engine, the commit on a cluster.

**`LiveLoader`** (`live.go`). Each file has a parsing and a mapping goroutine;
`LoadData` starts at most `maxRoutines` files at a time, in order; one
goroutine mutates. `nqch` and `nqbuf` are bounded; the errgroups' contexts are
the definitions `rootDone`, `procErr`, `fileDone`, consulted only where the
code selects on them. Each nquad is reduced to its file, its place in it and the
UID of its subject; `applied` lists them in the order in which they were applied.
The chunker hands over one nquad at a time, at the end of the file with or without
a last one. A file whose format is not recognised ends before its goroutines start
(`UnknownFormat`); a batch whose `Mutate` fails is gone from `nqch` all the same.

**`ClientPool`** is the pool's channel with `get`, `put` and one round of
`close`. Nothing in the code records the connections in use; `holds` is what
the callers know, and `put` must be called with exactly that.

**`SchemaCache`** is the cache of schema checks beside the database's schema, for
one Go type: `synced`, `verified`, and which of the type, its vector predicate
and a longer type name the schema holds (`process` looks for the text `"type "`
followed by the name, which a longer name satisfies).

**`Client`** EXTENDS both: the calls of one client, one action per statement that
another goroutine can see. `write` is `process` with its schema step (`sync` or
`verify`) and its request; `update`, `request`, `raw`, `query`, `txn`, `drop` and
`close` are the other ways a call uses the pool and the cache. A `raw` request is
one that a caller of `DgraphClient` makes on the connection it was lent: it may
also drop everything, a predicate or a type (`DropPart`), as
`schema_cache_test.go:25` does, and nothing tells the cache. Every request can
fail; `DropsFail` says whether a `DropAll` may fail with everything gone. The connection of `Query` is put back before the query runs, and
`Discard` comes after `Commit` too. `Client` implements `ClientPool`'s own
specification (`UsesPool`). Two ghosts name the windows the code leaves open:
`doubtful` holds the calls whose schema step a drop has overtaken or rests on a
longer name; `stale` says that such a call has set its mark, or that a `DropAll`
that failed half-way or a raw drop has left one. The next `DropAll` that succeeds
clears it.

**`Retry`** has the policy of `retry.go`: `delay` is the set of delays that may be
drawn for an attempt, in two's complement of `Width` bits (64 in the code), with
the shift and the addition of the jitter wrapping as Go's do (the shift is a
multiplication by `PowerOfTwo`, a recursive function, which the provers can
reason about where they cannot about `2^n`); `Backoff` is what the delay should be
in integers that do not wrap.

**`ShadowVectors`** EXTENDS `Retry`: the text of one record with an embedding and
its vector, written by `Update` under `WithRetry` (the mutation with the text,
`injectShadowVectors`, the commit), by staged writes of a `ClientTxn` and by
`GetOrInsert`, which write no vector (ghost `bare`). On a cluster text and
vector land at the commit, on the embedded engine each at its mutation. A text
in `Short` gets no vector, and `NoText` is an omitempty field that is not set.

**`Filters`** is the composition of the text of a filter: fragments numbered from
`$1`, put in parentheses, renumbered and joined, OR groups of detached queries,
edge constraints, and `filter.Builder`. An expression is a sequence of tokens
and `Holds` reads it as Dgraph does, AND before OR; `Means` is what the caller
asked for. It declares recursive operators, so it is for TLC only.

**`Pages`** is `IterNodes` and what it depends on: it pages with its own start and
count of what is left while a writer inserts and deletes. On a cluster its pages
read the snapshot of the first, unless there are edge constraints; the embedded
engine ignores the read timestamp. What the builder calls mean is a set of
records (ghost `meant`) and the order of the results is a constant operator
(`InOrder`). By itself (`PagesSpec`) it is the abstract specification of the
pages of a query: they are pages of the records that the calls mean.

**`TypedQuery`** EXTENDS `Filters` and `Pages`: one `typed.Query` from its builder
calls to a terminal, and a `MultiQuery` of two. The records of a page are those
that the text of the request selects. It implements `PagesSpec` (`ReadsPages`).

### Properties

| property | what could be wrong |
|---|---|
| `Zero!LeaseCoversGrants` | a process started from the store hands out what the old one did |
| `Zero!NamespacesCovered` | a namespace ID returned but not stored |
| `Zero!ReadsSeeCommits` | an open engine reads below a commit it made |
| `Zero!ReadTsAssigned` | a query waits for a timestamp the oracle never reaches |
| `Zero!UIDsAdmitted` | the worker refuses a UID the engine assigned |
| `Zero!InitialSchemaPresent` | an engine without its initial schema, but for a fresh reset stopped between its first lease write and the schema, or a failed `DropAll` |
| `Zero!UIDsIncrease`, `TimestampsIncrease`, `NamespaceIDsIncrease` | an identifier handed out twice, across every failure and restart |
| `ZeroSharing!NoIdentifierTwice`, `StoreCoversIssued`, `CallsReturn` | lost increments; an old snapshot committed last; a refill loop that does not end |
| `EngineLifecycle!OneAtATime`, `CallsReturn` | a failed open or close that leaves a second engine, a foreign store, a held lock or a panic behind |
| `Engine!UniqueHolds` | two nodes with one value of a unique predicate |
| `Engine!BlankNodesAreNew` | a blank node that merges with a node that has data |
| `AtomicOps!SingleWinner`, `RemovalReported`, `ImplementsSingleUse`, `ConsumersReturn` | a record consumed twice, lost behind a "not found", a retry that returns an earlier attempt's record, a caller that waits or retries for ever |
| `AtomicOps!OneInserts` | two callers told that they inserted |
| `LiveLoader!NilMeansLoaded` | an error swallowed on the way from a goroutine to `LoadData` |
| `LiveLoader!OneNodePerName` | one blank node mapped to two UIDs, or two to one |
| `LiveLoader!AppliedInOrder` | batches of one file out of order |
| `LiveLoader!NoSendOnClosed` | a send on the closed channel |
| `LiveLoader!LoadsToTheEnd` | a deadlock of channels, groups and file slots without any fault |
| `Client!ConnectionsExclusive`, `ConnectionsAccounted`, `UsesPool` | a connection in two hands, put back twice, closed under a call, or lost on an error path |
| `Client!CacheTrue` | a mark in the cache without its schema, outside the windows of section 4 |
| `Client!CallsReturn` | a call that waits for a connection of another |
| `ShadowVectors!ClusterAgrees` | a text with the vector of another text, seen by any reader |
| `ShadowVectors!AloneAgrees` | an update that returned nil without its vector; a partial update that wipes one |
| `ShadowVectors!RetriesBackOff`, `WritesReturn` | an abort given up too early, a delay beyond the cap or below the backoff, a retry without end |
| `TypedQuery!FilterMeansCalls` | a placeholder that names another call's value; an OR that leaks out of its group |
| `Pages!StreamsSnapshot` | rows skipped, repeated, beyond the limit, or missing after a short or exactly full page |
| `TypedQuery!ReadsPages` | a page that is requested without some filter or constraint of the query |
| `TypedQuery!RequestsAgree` | a count of other rows than the page's; a batched block that answers for another query |

## 3. Runs

Run one with `tlc -workers 2 -config <cfg> <module>`.

| run | cfg | result | distinct states |
|---|---|---|---|
| `zero_faults` | `MCZero_faults.cfg` | pass, ten properties | 4 422 333 |
| `zero_restarts` | `MCZero_restarts.cfg` | violates `ReopenReadsCommits` | |
| `sharing_locked` | `MCZeroSharing_locked.cfg` | pass, three properties | about 241 000 |
| `sharing_namespaces` | `MCZeroSharing_namespaces.cfg` | violates `NamespacesDistinct` | |
| `lifecycle_open_close` | `MCEngineLifecycle_open_close.cfg` | pass, two properties | about 183 000 |
| `engine_unique` | `MCEngine_unique.cfg` | pass, two properties | about 102 000 |
| `atomic_races` | `MCAtomicOps_races.cfg` | pass, five properties | 515 056 |
| `live_loads` | `MCLiveLoader_loads.cfg` | pass, five properties | 191 514 |
| `live_hangs` | `MCLiveLoader_hangs.cfg` | violates `LoadReturns` | |
| `client_calls` | `MCClient_calls.cfg` | pass, five properties | 980 882 |
| `shadow_vectors` | `MCShadowVectors_updates.cfg` | pass, four properties | 890 144 |
| `typed_pages` | `MCTypedQuery_pages.cfg` | pass, four properties | 990 672 |

Bounds, and why they are enough.

* `zero_faults`: leases of one identifier, both counters starting at 1, and a word of
  16 values. Each open more than doubles the persisted bound (3, 7 and 15), so three
  processes of one store hand out identifiers before a fourth open leaves the word,
  or two of them if one renews its lease on the way. That includes the cases in which an
  identifier could be given out twice: a reopened process that goes on after a
  failed renewal, or after a successful one. A zero that
  persists less than it hands out violates `UIDsIncrease` and `TimestampsIncrease`,
  and only after a restart. Blocks of at most two UIDs, which can reach past the
  bound; two namespaces. Every step of `reset` fails and is interrupted in fresh,
  restarted and dropped stores.
* `zero_restarts`: a word of 64 values with no failing store access, so that
  the only cause left is the growth of the lease. With the constants of the
  code (10000 and 2^64) the same thing happens at the 51st open.
* `sharing_locked`: two exclusive goroutines, one shared and one without a lock
  (a live load), four calls or restarts, leases of one identifier, so that the
  second UID and the fourth timestamp renew. One `CreateNamespace` at a time is the
  assumption under which the properties hold; `sharing_namespaces` drops it. While
  the load runs a UID can be handed out twice (its increment and that of a
  mutation are lost into each other), and of two snapshots of the bounds the older
  may be committed last, so that after the next start identifiers of every kind
  may repeat: the properties claim neither.
* `lifecycle_open_close`: two goroutines, two engines and one client key are
  enough for an open between two steps of a close.
* `engine_unique`: two namespaces, two values, two UIDs and batches of two
  edges: a duplicate inside a batch, against the store, across namespaces, and
  through an upsert whose query is out of date.
* `atomic_races`: both backends; two consumers and two `GetOrInsert` callers on
  different keys, three new UIDs, two retries, so that records are inserted again
  after they were consumed and a transaction is overtaken more than once.
* `live_loads`: three files in two slots, a buffer of two nquads that the first
  file fills once and leaves a rest in, channels of one batch, all four faults.
  `CHECK_DEADLOCK` is off for the two loader runs because after a failure
  `LoadData` may really stop; without a failure `LoadsToTheEnd` says it may not.
* `client_calls`: two goroutines and a pool of one, so that a connection put back
  finds the channel empty or full; four connections are more than two callers
  and a channel can have open at once. All eight kinds of calls, both options.
* `shadow_vectors`: two writers, a text with and one without a vector. Durations
  have five bits and the policies are a usual one, one without retries, and one
  whose doubled base leaves the integers below its cap.
* `typed_pages`: five records in pages of two, so that three pages are read, one
  may be exactly full and the last one is short; a limit of three ends inside
  the second page. Two builder calls put every fragment behind every other one,
  and one write between two pages moves every later row by one.

Deadlock is checked in all other runs. `Finished` steps mark the states where
every bounded call has been made.

### Fairness

* `ZeroSharing`, `EngineLifecycle`, `LiveLoader`: weak fairness of each
  goroutine's next statement: the Go scheduler runs what can run. Nothing makes
  a caller start a call, cancel a context, crash or restart.
* `EngineLifecycle`: strong fairness for taking an engine's mutex or
  `clientMapLock`, and `AtomicOps`: for taking `consumeMu`. A `sync.Mutex` in starvation mode hands
  itself to the longest waiter after a millisecond; a `sync.RWMutex` blocks new
  readers behind a waiting writer.
* `AtomicOps`: weak fairness of a caller that is inside its call. That it
  returns on a cluster that aborts every commit is the bound on its retries.
* `Client`: weak fairness of each goroutine inside a call, which includes that
  the caller of `NewTxn` ends its transaction. `Close` is exempt from
  `CallsReturn`: its loop goes on while others put connections back.
* `ShadowVectors`: weak fairness of a call's next step; a wait ends. `TypedQuery`
  needs none: it states safety only.
* No fairness is assumed of the select statements: whichever case is ready may
  be taken each time.

## 4. Where the code and its claims part

Three runs end in a violation; `PROJECT.json` quotes the line of the repository
each disagrees with.

1. `zero_restarts`: `leaseTs` and `leaseUIDs` compute `max += min + 10000`
   where `max = 10000 + min` (or `max += 10000`) would do. After an open
   `min = max`, so an open more than doubles the bound.
2. `sharing_namespaces`: `CreateNamespace` takes `RLock`.
3. `live_hangs`: the send in `drain` does not look at the context.

Other claims that the modules show not to hold have no run of their own; each
named property is a definition of its module and is violated when it is put in
the cfg of that module's passing run.

* `EngineLifecycle!OpenEngineServes`: `Close` releases `singleton` at its first
  statement (`engine.go:605`), so an engine opened in between has its hooks
  disabled and its store disposed by the rest of that `Close`. `Shutdowns = FALSE`
  shows that this order alone is enough.
* `EngineLifecycle!ClientsReturnedOpen`: nothing removes a client from
  `clientMap`, so `NewClient` after `Close` returns the closed one.
* `AtomicOps`: on the embedded engine the deletion of `GetAndDelete` is final
  before its commit. When the commit fails the record is gone and no one has
  it; `RemovalReported` and the mapping to `SingleUse` count it as taken by the
  caller that got the error. With `Unarbitrated = TRUE` two transactions on the
  embedded engine consume one record (`SingleWinner`), and with
  `EnsuredKey = ConsumedKey` a `GetOrInsert` that read the record before it was
  consumed writes its key back.
* `Client!DropAllForcesRecheck`, also with `Calls = {"write", "drop"}` and
  `DropsFail = FALSE`: `process` sets its mark after its schema step whatever came
  in between (`mutate.go:76` and 100). A `DropAll` that did has invalidated the cache
  already, so the type stays marked and its next write is not checked, although the
  comment in `DropAll` (`client.go:1105`) says that every type will be.
* `Client!CacheTrue` names the other windows in which the cache is wrong: a
  `DropAll` whose request fails half-way does not invalidate; a raw drop through
  `DgraphClient` does not either, which `schema_cache_test.go:25-57` relies on, so
  that it is no disagreement; a type name that begins like another's is taken for
  it (`mutate.go:97`). Each lasts until the next `DropAll` that succeeds.
* `Zero!InitialSchemaPresent` without its exemption: a process that stops between
  the first lease write of a fresh store and `ApplyInitialSchema` (`engine.go:628`)
  leaves a store that every later open takes for a restarted one; nothing applies
  the schema until a `DropAll`.
* `Client!QueriesConnected`: `Query` returns a query whose connection is back in
  the pool, where it may be closed before the query runs. A connection that is
  put back after `Close` stays open in the channel.
* `ShadowVectors!TextHasItsVector`: on the embedded engine two updates can leave
  the text of one with the vector of the other. Staged writes and `GetOrInsert`
  write no vector and run no schema step on either backend.
* `Pages!NeverSkipsOrRepeats`: the comment on `IterNodes` (`query.go:360`)
  promises one snapshot without edge constraints; the embedded engine reads its
  newest state whatever the transaction, so a writer makes it skip or repeat.
* `Retry!delay`: a `BaseDelay` of zero means the cap, not no delay; policies
  outside `Sane` may wait less than the backoff.

## 5. Proofs

`tlapm M.tla` for each module `M` whose name ends in `Proofs`.

**`ZeroProofs`**, for all lease sizes, word sizes, first identifiers, block
sizes and numbers of namespaces, from the assumption `ZeroConstants` (they are
naturals, positive where the code's are, and fit the word):

* `TypeCorrect`: `Spec => []TypeOK`. Type correctness is inductive by itself.
* `LeaseCovers`, `NamespaceIDsCovered`: `LeaseCoversGrants` and
  `NamespacesCovered`.
* `ReadsCoverCommits`: `ReadsSeeCommits`.
* `UIDsImplementOracle`, `TimestampsImplementOracle`,
  `NamespaceIDsImplementOracle`: `Zero` implements `IdOracle`.

`LeaseCoversGrants` alone is not inductive: it says nothing of the counters a
running engine hands out from. `IInv` adds that counters lie between the first
identifier and their bound while nothing has wrapped (`CountersOrdered`), that
the store holds what the zero in use would write unless the last write failed
(`StoreInStep`), that a dropped store has no grants (`DropForgets`), and that
everything handed out lies below the counter it came from
(`GrantsBelowCounters`, `NamespacesBelowCounter`). Then `Init => Safe`, one
lemma per group of actions for `IInv /\ [Next]_vars => IInv'`, and the theorems
by PTL. The refinements follow from `GrantStep`: a step leaves the blocks as
they are, forgets them, or hands out one block above the last of its kind.

* `ReadsNeverWait` (`ReadTsAssigned`), `WorkerAdmits` (`UIDsAdmitted`),
  `SchemaBeforeServing` (`InitialSchemaPresent`): an open engine serves. These
  relate zero to what Dgraph's oracle and worker were told, and `ServingInv`
  says so at every step of `reset`: the oracle knows every timestamp below the
  counter in use and the one about to be (`OracleAhead`), also the old one's
  during a `DropAll` that may still fail; the worker's bound covers the UIDs
  handed out (`WorkerAhead`); a store with a zero state has the schema but for
  the steps in between (`SchemaInStep`). `SchemaBeforeServing` says that two ways
  to lose the schema are the only ones: the window of section 4 and a failed
  `DropAll`, each until a reset applies the schema again.

**`ZeroSharingProofs`**, for any number of goroutines, any first identifiers and
lease sizes, from `SharingConstants` and the condition `Locked`: at most one
goroutine creates namespaces. Without it `NamespacesDistinct` is false (section 4).

* `IssuedOnce` (`NoIdentifierTwice`) and `StoreCovers` (`StoreCoversIssued`).
  `SharingInv` says for each statement of the one call in progress by how much
  the counter is ahead of what was handed out (`TookUID`, `TookNamespace`: one
  identifier, the one about to be returned), that from one statement on there
  is room under the bound (`InNextTs`), and that memory and store
  differ only between the change of a bound and its commit, whose snapshot is
  the state in memory. A restart at any statement begins above everything handed
  out because the store covers it.
* `LoadedInv` is what is left of it from the moment a goroutine leases UIDs
  without a lock (`LoadBegins`: `SharingInv` implies it): those who hold the mutex
  are still alone with the timestamp and the namespace counter, whatever the
  others do to the UID counter, the bounds and the store. `Inv` joins the two by
  the ghost `load`.

**`EngineLifecycleProofs`**, for any number of goroutines, keys and engines, from
`LifecycleConstants`:

* `CallsApartOneEngine`: `OneAtATime`. While no calls overlapped
  (`LifecycleInv`), the process between two calls is `Settled`: no engine that a
  caller has is open, or one is and flag, `activeEngine`, store and hooks are its
  own. The flag or the store may be left behind by an open that failed, which is
  why `Settled` and not its second half alone is kept. `Opening` and `Ending` say
  for each statement of a call how far the process is from it, `MutexHeld`
  that a mutex is held only by a goroutine at a statement that releases it.

**`AtomicOpsProofs`**, first part, about `Engine` by itself, for any set of values,
numbers of UIDs, namespaces, edges and upserters, from `EngineConstants`:

* `TypeCorrect`, `UniqueConstraint` (`UniqueHolds`), `FreshBlankNodes`
  (`BlankNodesAreNew`). The inductive invariant is the conjunction of the
  three (`TypeOK` of `Engine` is in no cfg: it is proved here). The step that matters is `AppliedDistinct`: a batch that passes
  `verifyUniqueConstraints` leaves no two nodes with one value in whatever order
  the store applies its edges. It needs `FirstMatches` (the query's first match
  exists when any match does), which needs that a set of UIDs has a least member
  (`LowestUID`, from well-foundedness of the subset order on finite sets).
  `UniqueHolds` needs `BlankNodesAreNew`: nothing else keeps a blank node away
  from a node that has a value.

**`AtomicOpsProofs`**, second part, about `AtomicOps`, for any number of consumers, upserters, UIDs, edges and
retries, both backends and every fault, from `EngineConstants`,
`AtomicOpsConstants` and two conditions (`Conditions`): no transaction consumes
on the embedded engine without `consumeMu`, and `GetOrInsert` ensures another
key. Section 4 says what happens without them.

* `EachRecordOneWinner`: `SingleWinner`. `ConsumesOnce`: `ImplementsSingleUse`.
  `SingleWinner` is not inductive: nothing in it says why the second caller does
  not win. `OpsInv` adds who may proceed (`Arbitrated`: on the engine the caller
  between query and end holds the mutex), what it may rely on (`ReadIsLive`: the
  record it read is still there, on a cluster while no one has overtaken it),
  and what a taken record is (`Spent`: its UID is below the next blank node's
  and has lost its key, which `DeadStays` shows to be for good; `Apart`).
  `RefersElsewhere` keeps an upsert from a node with the other key. One lemma
  per action shows `OpsInv'` and a step of `SingleUse` or a stutter at once.
* `NoSilentRemoval`: `RemovalReported`, through the refinement: no step of
  `SingleUse` loses a record (`NoneLost`), so one that a query found
  (`Accounted`) is there or was taken.
* `OneCallerInserts`: `OneInserts`, where the key is unique in the schema at the
  start (`KeySchema = "unique"`), and `OneInsertsOnCluster`: the same of any key
  on a cluster. Once a caller inserted, a node has the key and keeps it
  (`InsertInv`, `EnsuredChanges`). The next insertion is refused by the check in
  `mutate`, or on a cluster by the conflict: a query that found no node is right
  until its transaction is overtaken (`MissesStand`), and an insertion overtakes
  every other that is open (`InsertOvertakes`, `FreshInsert`). With a key that is
  only `dgraph:"upsert"` (`KeySchema = "plain"`) it is false on the embedded
  engine, whose upsert is two critical sections: both callers query before either
  inserts.

**`LiveLoaderProofs`**, for any files, sizes of batches, buffers and channels,
any number of files at a time and every fault, from `LoaderConstants`:

* `ClosedForGood` (`NoSendOnClosed`), `OneNode` (`OneNodePerName`), `InFileOrder`
  (`AppliedInOrder`) and `NilIsLoaded` (`NilMeansLoaded`). `Closing` follows an
  error of a file to the goroutine that reports it, so that `nil` means there
  was none. `LoaderInv` follows the nquads of each file: what was parsed,
  batched, buffered, sent and applied, put end to end, is a prefix of the file
  in order (`FilesInv`, `LogInv`), and every subject on the way has the UID that
  `blankNodes` has for its name (`Nodes`, `QuadsNamed`).

**`ClientProofs`**, for any number of callers and connections and any capacity,
from `PoolConstants` and `ClientConstants`:

* `ConnectionsStayExclusive` and `ConnectionsStayAccounted` of the pool alone,
  the two properties being inductive together with the types.
* `ClientUsesPool`: `ClientSpec` implements `PoolSpec`, from `ConnectionKept`,
  which ties what a call holds to the statement it is at, through the ways
  `release`, `process` and the error returns go. The client's own two properties
  follow from the pool's theorems through the refinement.
* `CacheStaysTrue`: `CacheTrue`, with the exemptions it names: during a `DropAll`;
  marks that a failed `DropAll` or a raw drop left; marks of a schema step that a
  drop overtook or that rests on a longer name. `KnowsSchema` says of each call
  past its schema step what is in the schema, unless a drop has overtaken it
  (`doubtful`).

**`ShadowVectorsProofs`**, for any writers, texts, thresholds, widths and
policies, from `ShadowConstants` and `RetryConstants`:

* `ClusterVectorsAgree`: `ClusterAgrees`, inductive by itself, for only a commit
  that lands changes the record.
* `LoneUpdatesAgree`: the action property `AloneAgrees`. It needs that a call
  that is not crowded is the only one (`Solitary`), that on the engine it finds
  what it wrote (`OwnText`), and that a call has no result before it returns
  (`Pending`).
* `WaitsBackOff`: `RetriesBackOff`, for every width of the integers and every
  policy. The hard part is `DelayBounds`: for a policy in `Sane` no delay is below
  the backoff, although the shift wraps for large attempts. `ShiftWraps`: a shift
  by `n` is a multiple of `PowerOfTwo[n]` also after it wrapped, so that one that
  comes back positive is at least that, and where it wrapped, that is at least
  the cap. The powers need induction over the naturals; `Induction` gives it
  for a set of numbers instead of a predicate, from the well-foundedness of the
  subset order on finite sets. `Counted` ties the attempt to the statement a call
  is at.

**`PagesProofs`**, for any records, order of the results, query, limit, offset, page
size and number of writes, from `PagesConstants` (the order lists each record of
a set once):

* `PagesAreTheSnapshot`: `StreamsSnapshot`. The inductive invariant ties what is
  left of the limit to what was streamed (`Counts`), and, where the reads are
  `Stable` (one snapshot, or no write), says that the next page starts where the
  streamed rows end (`Contiguous`): a page that is not the last is full, so the
  start moves by exactly the rows it had. `Unwritten` says that without a write
  the store is still the snapshot. `NextContiguous` is the step of a page: all of
  it, its first rows when the consumer leaves, none when it fails.
* `NoRowTwice`: there no row is yielded twice.

That `TypedQuery` implements `Pages` is checked by TLC only, for it rests on the
recursive `Holds`; with it the theorem is about the whole query.

TLC evaluates these assumptions in the passing runs.

Only model-checked: liveness and everything with fairness or ENABLED (out of
the prover's reach); what `Filters` and `TypedQuery` compute, which is
`FilterMeansCalls`, `RequestsAgree` and `ReadsPages` (recursive operators, and
sequences built by folding). The violations of section 4 are runs, not theorems.

## 6. Plan

What holds data together came first (zero, engine, atomic operations), then what
is concurrent around it (life cycle, loader), then the client's own state (pool,
cache, vectors, typed queries). All of it is in place. What is left:

1. A composition of `Zero` and `EngineLifecycle`: a closed engine whose handle
   is still used leases UIDs (`engine.go:378` comes before 403) and may write
   its zero state into the store of the engine opened next.
2. Several types in `SchemaCache`, and `remapPredicateKeys` with the schema it
   reads.

## 7. Not modelled

* Dgraph itself (store, posting lists, query execution, schema parsing, the
  chunker, the remote cluster) and dgman: modelled as external, by what the
  source here asks of them.
* The text of requests: DQL, JSON, n-quads, the substitution of `uid(var)`. An
  upsert is reduced to the node its query found.
* Values: opaque and comparable. Exempting the empty value from `@unique`
  (`engine.go:479`) is therefore not visible.
* Time: the loader's ticker only logs; Windows' wait in `Close` is left out.
* `NewClient` for `dgraph://` URIs and the order of its options: it opens no engine.
* The loader's assertion on returned UIDs (`live.go:97`): every blank node is mapped
  before, so it cannot fail.
* Typed queries: the errors of a request (`query.go:323`, 344, 449), a detached
  query (`ErrDetachedQuery`) and the empty batch (`multi_query.go:106`) return before
  or instead of an answer and change nothing. `Cascade`, `After`, `Vars`, ordering, raw DQL and queries of a
  `ClientTxn`; the full-text builder. With `WhereEdge` and `Cascade` together
  `NodesAndCount` counts without the cascade (`query.go:604`).
* Embeddings: on a cluster the two mutations of an update are one assignment at
  its commit (`Land`), so that `ClusterAgrees` says nothing of a commit after a failed
  injection, which `process` returns before. A failed embedding on the embedded engine
  (`mutate.go:135`) leaves the text without its vector and is no case of `AloneAgrees`.
  For a policy whose shift leaves the integers the lower bound of `RetriesBackOff`
  rests on the theorem `WaitsBackOff`; the overflowing policy of the run is outside
  `Sane`. The provider's HTTP call, the encoding of vectors, `SimilarTo`.
* `remapPredicateKeys` and the decoding of results.
* Records, defaults, validation, error translation, tracing, configuration
  setters, command line and examples: sequential code over one value, without
  state that outlives a call.
