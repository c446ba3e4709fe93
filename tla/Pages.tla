-------------------------------- MODULE Pages --------------------------------
(* The pages of typed.Query.IterNodes (query.go), whatever the query is: it  *)
(* means a set of records, a page is a piece of those that exist when it is  *)
(* read, in dgraph's order, and a writer inserts and deletes records.        *)
(* TypedQuery EXTENDS this module with the builder calls and the other       *)
(* terminals, which are steps of PagesSpec as far as its variables go.       *)
EXTENDS Integers, Sequences, SequencesExt, FiniteSets

CONSTANTS
    Row,            \* the records
    InOrder(_),     \* dgraph's order of some of them, as a sequence
    Stored,         \* those that are there before the terminal
    defaultPageSize,
    MaxWrites       \* bound: insertions and deletions

ASSUME PagesConstants ==
    /\ Stored \subseteq Row
    /\ \A rows \in SUBSET Row :
          /\ InOrder(rows) \in Seq(rows)
          /\ ToSet(InOrder(rows)) = rows /\ IsInjective(InOrder(rows))
    /\ defaultPageSize \in Nat \ {0}

VARIABLES
    edges, limit, offset, root,     \* of the Query
    meant,          \* ghost: the records that satisfy what each builder call says
    embedded,       \* the engine: it answers from its newest state, whatever the transaction
    live,           \* the records that exist
    writes,
    pc,
    from, remaining, out,
    snapshot        \* the records that existed at the terminal's first request

bounds == <<limit, offset, root>>
paging == <<from, remaining>>
pagesVars == <<bounds, paging, edges, meant, embedded, live, writes, pc, out, snapshot>>

PagesInit ==
    /\ edges = <<>> /\ limit = 0 /\ offset = 0 /\ root = Row
    /\ meant = Row
    /\ embedded \in BOOLEAN
    /\ live = Stored /\ writes = 0
    /\ pc = "build"
    /\ from = 0 /\ remaining = 0 /\ out = <<>>
    /\ snapshot = {}

-----------------------------------------------------------------------------
(* offset and first; without first, all that is left.                        *)
Page(rows, skip, first) ==
    LET n == Len(InOrder(rows))
    IN  SubSeq(InOrder(rows), skip + 1, IF first = 0 \/ skip + first > n THEN n ELSE skip + first)

(* IterNodes: it keeps its own start and count of what is left, and a page   *)
(* can fail, end short, reach the cap, or be left by the consumer.           *)
IterNodes ==
    /\ pc = "ready" /\ pc' = "page"
    /\ from' = offset /\ remaining' = limit
    /\ UNCHANGED <<bounds, edges, meant, embedded, live, writes, out, snapshot>>

size == IF remaining > 0 /\ remaining < defaultPageSize THEN remaining ELSE defaultPageSize

(* The cap reached, or a page shorter than was asked for. *)
EndsEarly(rows) == Len(rows) <= size                      \* mutant of Ends

Ends(rows) == (remaining > 0 /\ remaining - Len(rows) <= 0) \/ Len(rows) < size

(* The transaction gets its snapshot with its first request; one with edges  *)
(* is not in it, and the engine ignores it.                                  *)
Reads == IF from = offset \/ embedded \/ edges # <<>> THEN live ELSE snapshot

(* One page of what a request selects among the records it reads.            *)
NextPage(selected) ==
    /\ pc = "page"
    /\ snapshot' = IF from = offset THEN live ELSE snapshot
    /\ LET rows == Page(selected, from, size)
       IN  \/ /\ out' = out \o rows
              /\ pc' = IF Ends(rows) THEN "streamed" ELSE "page"
              /\ remaining' = IF remaining > 0 THEN remaining - Len(rows) ELSE 0
           \/ \E n \in 1 .. Len(rows) :
                 /\ out' = out \o SubSeq(rows, 1, n)
                 /\ pc' = "left" /\ UNCHANGED remaining
           \/ pc' = "failed" /\ UNCHANGED <<out, remaining>>
    /\ from' = from + defaultPageSize
    /\ UNCHANGED <<bounds, edges, meant, embedded, live, writes>>

(* Another client's insertion or deletion, between two pages; what happened  *)
(* before the terminal is in Stored.                                         *)
Write(r) ==
    /\ pc = "page" /\ writes < MaxWrites
    /\ writes' = writes + 1
    /\ live' = IF r \in live THEN live \ {r} ELSE live \cup {r}
    /\ UNCHANGED <<bounds, paging, edges, meant, embedded, pc, out, snapshot>>

-----------------------------------------------------------------------------
(* The builder calls, as far as the pages depend on them: the constraints    *)
(* and the bounds they leave are anything, what is meant is some records.    *)
Builds ==
    /\ pc = "build" /\ pc' \in {"build", "ready"}
    /\ meant' \in SUBSET Row /\ root' \in SUBSET Row
    /\ limit' \in Nat /\ offset' \in Nat
    /\ UNCHANGED <<paging, embedded, live, writes, out, snapshot>>

(* Another terminal: it answers, or is refused without an answer.            *)
Answers ==
    /\ pc = "ready"
    /\ \/ pc' \in {"nodes", "first", "counted", "executed"}
       \/ pc' \in {"failed", "panicked"} /\ UNCHANGED out
    /\ UNCHANGED <<bounds, paging, edges, meant, embedded, live, writes>>

PagesNext ==
    \/ Builds
    \/ Answers
    \/ IterNodes
    \/ NextPage(meant \cap root \cap Reads)
    \/ \E r \in Row : Write(r)

PagesSpec == PagesInit /\ [][PagesNext]_pagesVars
-----------------------------------------------------------------------------
Wanted(first) == Page(meant \cap root \cap snapshot, offset, first)

Streamed == pc \in {"page", "streamed", "left", "failed"}

IsSnapshot == IsPrefix(out, Wanted(limit)) /\ (pc = "streamed" => out = Wanted(limit))

(* IterNodes streams, up to its limit, only what the calls admit; and in one *)
(* transaction, or while nobody writes, it is the snapshot of the first page *)
(* without a gap or a repetition, to its end if it was not cut off.          *)
StreamsSnapshot ==
    Streamed =>
        /\ ToSet(out) \subseteq meant \cap root
        /\ limit > 0 => Len(out) <= limit
        /\ (~embedded /\ edges = <<>>) \/ writes = 0 => IsSnapshot

(* IterNodes without edges reads a single consistent snapshot: a concurrent  *)
(* writer cannot make it skip or repeat rows (its comment in query.go).      *)
NeverSkipsOrRepeats == Streamed /\ edges = <<>> => IsSnapshot
=============================================================================
