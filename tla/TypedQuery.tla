------------------------------ MODULE TypedQuery ------------------------------
(* typed.Query (query.go) from its builder calls to one terminal: Nodes,     *)
(* First, NodesAndCount, IterNodes with its pages, or a MultiQuery           *)
(* (multi_query.go) that batches it, merged by MergeByID (merge.go), while a *)
(* writer inserts and deletes records.  What a request selects is dgraph's   *)
(* (external).                                                               *)
EXTENDS Filters, Pages

CONSTANTS
    valuesOf,       \* each record's values
    neighboursOf,   \* the values of each neighbour a record's edge leads to
    Clauses,        \* what callers give to filter.Builder: groups of terms
    Alternatives,   \* of OrGroup: the two clauses of a detached query
    Name,           \* legal block names
    BadName,        \* and one that is not
    Limits, Offsets, Roots,
    MaxCalls        \* bound: Filter, OrGroup and WhereEdge calls

ASSUME TypedConstants ==
    /\ Limits \cup Offsets \subseteq Nat
    /\ Roots \subseteq SUBSET Row
    /\ BadName \notin Name

VARIABLES
    filters,        \* of the Query, with edges, limit, offset and root
    sent,           \* the filter last pushed to its dgman query
    calls,
    count,
    names, blocks, answers      \* of the MultiQuery

query == <<filters, edges, sent, meant, calls>>
batch == <<names, blocks, answers>>
vars == <<query, bounds, paging, batch, embedded, live, writes, pc, out, snapshot, count>>

Init ==
    /\ PagesInit
    /\ filters = <<>> /\ sent = Nothing
    /\ calls = 0 /\ count = 0
    /\ names = <<>> /\ blocks = <<>> /\ answers = <<>>

-----------------------------------------------------------------------------
(* The builder.                                                              *)
Calls(rows) ==
    /\ pc = "build" /\ calls < MaxCalls
    /\ calls' = calls + 1
    /\ meant' = meant \cap rows
    /\ UNCHANGED <<bounds, paging, batch, embedded, live, writes, pc, out, snapshot, count>>

addFilter(f) ==
    /\ filters' = IF f.expr = <<>> THEN filters ELSE Append(filters, f)
    /\ sent' = IF f.expr = <<>> THEN sent ELSE combineAnd(filters')
    /\ UNCHANGED edges

Filter(groups) ==
    /\ Calls({r \in Row : Means(groups, valuesOf[r])})
    /\ \/ addFilter(Build(groups))
       \/ Len(groups) = 1 /\ addFilter(Bare(groups[1]))

(* Each alternative is a detached query of two Filter calls; all-empty ones  *)
(* are skipped.                                                              *)
OrGroup(alternatives) ==
    LET given == SelectSeq(alternatives, LAMBDA a : a[1] # <<>> \/ a[2] # <<>>)
    IN  /\ Calls({r \in Row : given = <<>> \/ \E a \in ToSet(given) :
                                Means(a[1], valuesOf[r]) /\ Means(a[2], valuesOf[r])})
        /\ addFilter(OrFragment([i \in DOMAIN alternatives |->
                        <<Build(alternatives[i][1]), Build(alternatives[i][2])>>]))

WhereEdge(groups) ==
    /\ Calls({r \in Row : \E values \in neighboursOf[r] : Means(groups, values)})
    /\ edges' = Append(edges, Build(groups))
    /\ UNCHANGED <<filters, sent>>

(* Limit, Offset, UID and RootFunc overwrite: the last of each counts.       *)
Bound(l, o, s) ==
    /\ pc = "build" /\ pc' = "ready"
    /\ limit' = l /\ offset' = o /\ root' = s
    /\ UNCHANGED <<query, paging, batch, embedded, live, writes, out, snapshot, count>>

Compose ==
    \/ \E c \in Clauses : Filter(c) \/ (c # <<>> /\ WhereEdge(c))
    \/ \E a, b \in Alternatives : OrGroup(<<a, b>>)

-----------------------------------------------------------------------------
(* What one request selects among these records: the var block, and the data *)
(* block that consumes it.                                                   *)
InRoot(rows) == rows \cap root

matched(rows) ==
    LET body == edgeMatchBody(edges)
    IN  {r \in InRoot(rows) :
            \A b \in ToSet(body.blocks) :
               \E values \in neighboursOf[r] : Holds(b, body.params, values, FALSE)}

(* edgeBlocks pushes the uid() term with the filters; else they were pushed. *)
DataFilter ==
    IF edges = <<>> THEN sent
    ELSE LET user == combineAnd(filters)
         IN  IF user.expr = <<>> THEN [expr |-> <<Matched>>, params |-> <<>>]
             ELSE [user EXCEPT !.expr = <<Group(user.expr), And, Matched>>]

Selected(rows) ==
    {r \in InRoot(rows) : Holds(DataFilter.expr, DataFilter.params, valuesOf[r], r \in matched(rows))}

(* NodesAndCount: edgeCountBlock applies the filters again (dgman does so    *)
(* without edges).                                                           *)
Counted(rows) ==
    LET user == combineAnd(filters)
    IN  Cardinality({r \in matched(rows) : Holds(user.expr, user.params, valuesOf[r], FALSE)})

Once(terminal, first) ==
    /\ pc = "ready" /\ pc' = terminal
    /\ out' = Page(Selected(live), offset, first)
    /\ count' = Counted(live)
    /\ snapshot' = live
    /\ UNCHANGED <<query, bounds, paging, batch, embedded, live, writes>>

Nodes == Once("nodes", limit)
First == Once("first", 1)
NodesAndCount == Once("counted", limit)

-----------------------------------------------------------------------------
(* IterNodes, page after page of what the query selects, and the writer.     *)
(* The page of a query with edges is not given to runEdge.                   *)
IteratePushed ==                                          \* mutant of Iterate
    /\ \/ IterNodes
       \/ NextPage({r \in InRoot(Reads) : Holds(sent.expr, sent.params, valuesOf[r], FALSE)})
       \/ \E r \in Row : Write(r)
    /\ UNCHANGED <<query, batch, count>>

Iterate ==
    /\ IterNodes \/ NextPage(Selected(Reads)) \/ \E r \in Row : Write(r)
    /\ UNCHANGED <<query, batch, count>>

-----------------------------------------------------------------------------
(* MultiQuery.  "this" is the Query above, "plain" another with no calls.    *)
AddShared(name, q) ==                                     \* mutant of Add
    /\ pc = "ready" /\ Len(names) < 2
    /\ IF name \notin Name \/ name \in DOMAIN blocks
         THEN pc' = "panicked" /\ UNCHANGED <<names, blocks>>
         ELSE /\ names' = Append(names, name)
              /\ blocks' = [n \in DOMAIN blocks \cup {name} |-> IF n = name THEN q ELSE blocks[n]]
              /\ UNCHANGED pc
    /\ UNCHANGED <<query, bounds, paging, embedded, live, writes, out, snapshot, count, answers>>

Add(name, q) ==
    /\ pc = "ready" /\ Len(names) < 2
    /\ IF name \notin Name \/ name \in DOMAIN blocks \/ q \in Range(blocks)
         THEN pc' = "panicked" /\ UNCHANGED <<names, blocks>>
         ELSE /\ names' = Append(names, name)
              /\ blocks' = [n \in DOMAIN blocks \cup {name} |-> IF n = name THEN q ELSE blocks[n]]
              /\ UNCHANGED pc
    /\ UNCHANGED <<query, bounds, paging, embedded, live, writes, out, snapshot, count, answers>>

RowsOf(q, rows) ==
    IF q = "this" THEN Page(Selected(rows), offset, limit) ELSE InOrder(rows)

(* The name of the block a query renders: the last one it was given.         *)
NameOf(q) == names[CHOOSE i \in DOMAIN names :
                      blocks[names[i]] = q /\ \A j \in DOMAIN names : blocks[names[j]] = q => j <= i]

(* The first row with an identifier stays. *)
MergeByID(inputs) ==
    FoldLeft(LAMBDA merged, r : IF Contains(merged, r) THEN merged ELSE Append(merged, r),
             <<>>, FlattenSeq(inputs))

(* One request; a name that is not in the response has no rows.              *)
Execute ==
    /\ pc = "ready" /\ names # <<>>
    /\ IF edges # <<>> /\ "this" \in Range(blocks)
         THEN pc' = "failed" /\ UNCHANGED <<answers, out>>
         ELSE /\ pc' = "executed"
              /\ answers' = [n \in DOMAIN blocks |->
                    IF NameOf(blocks[n]) = n THEN RowsOf(blocks[n], live) ELSE <<>>]
              /\ out' = MergeByID([i \in DOMAIN names |-> answers'[names[i]]])
    /\ snapshot' = live
    /\ UNCHANGED <<query, bounds, paging, embedded, live, writes, count, names, blocks>>

Finished == pc \notin {"build", "ready", "page"} /\ UNCHANGED vars

Next ==
    \/ Compose
    \/ \E l \in Limits, o \in Offsets, s \in Roots : Bound(l, o, s)
    \/ Nodes \/ First \/ NodesAndCount \/ Iterate
    \/ \E n \in Name \cup {BadName}, q \in {"this", "plain"} : Add(n, q)
    \/ Execute
    \/ Finished

Spec == Init /\ [][Next]_vars
-----------------------------------------------------------------------------
(* What is sent selects exactly the records that satisfy each call on its    *)
(* own, with its own parameters, whatever the calls and their order          *)
(* (query.go: every fragment ANDs together and keeps its precedence and      *)
(* placeholders; a record must satisfy every edge constraint).               *)
FilterMeansCalls == pc \in {"build", "ready"} => Selected(Row) = meant \cap root

(* What the pages do depends on the calls only by what they mean: each step  *)
(* of the query is one of Pages, with the records each call admits in place  *)
(* of those the text that is sent selects.                                   *)
ReadsPages == PagesSpec

(* Nodes, First, NodesAndCount and every block of a MultiQuery answer for    *)
(* the query they were made from and for one state of the store; the count   *)
(* is that of the rows without paging; merged, the first block leads and     *)
(* every row is there once.                                                  *)
RequestsAgree ==
    /\ pc = "nodes" => out = Wanted(limit)
    /\ pc = "first" => out = Wanted(1)
    /\ pc = "counted" =>
          out = Wanted(limit) /\ count = Cardinality(meant \cap root \cap snapshot)
    /\ pc = "executed" =>
          /\ DOMAIN answers = ToSet(names)
          /\ \A n \in DOMAIN answers :
                answers[n] = IF blocks[n] = "this" THEN Wanted(limit) ELSE InOrder(snapshot)
          /\ IsInjective(out) /\ IsPrefix(answers[names[1]], out)
          /\ ToSet(out) = UNION {ToSet(answers[n]) : n \in DOMAIN answers}
=============================================================================
