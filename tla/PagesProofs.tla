----------------------------- MODULE PagesProofs -----------------------------
(* Pages for every set of records, order, query, limit, offset, page size    *)
(* and number of writes: what IterNodes streams is the snapshot it promises. *)
EXTENDS Pages, SequenceTheorems, TLAPS

(* What InOrder gives: a sequence of its records. *)
LEMMA Order ==
    ASSUME NEW rows, rows \subseteq Row
    PROVE  /\ InOrder(rows) \in Seq(rows)
           /\ Len(InOrder(rows)) \in Nat
<1>1. InOrder(rows) \in Seq(rows)
    BY PagesConstants
<1>. QED BY <1>1, LenProperties

(* A piece of a sequence, up to a place inside it. *)
LEMMA Piece ==
    ASSUME NEW S, NEW w \in Seq(S), NEW a \in Nat, NEW b \in Int, b <= Len(w)
    PROVE  /\ SubSeq(w, a + 1, b) \in Seq(S)
           /\ Len(SubSeq(w, a + 1, b)) = IF a < b THEN b - a ELSE 0
           /\ b <= a => SubSeq(w, a + 1, b) = <<>>
<1>1. Len(w) \in Nat
    BY LenProperties
<1>2. \A i \in a + 1 .. b : w[i] \in S
    BY <1>1, ElementOfSeq
<1>3. /\ SubSeq(w, a + 1, b) \in Seq(S)
      /\ Len(SubSeq(w, a + 1, b)) = IF a + 1 <= b THEN b - (a + 1) + 1 ELSE 0
    BY <1>2, SubSeqProperties
<1>4. b <= a => SubSeq(w, a + 1, b) = <<>>
    BY SubSeqEmpty
<1>. QED BY <1>3, <1>4

(* Two pieces, the second beginning where the first ends. *)
LEMMA Pieces ==
    ASSUME NEW S, NEW w \in Seq(S), NEW a \in Nat, NEW b \in Nat, NEW c \in Int,
           a <= b, a = b \/ b <= Len(w), b <= c, c <= Len(w) \/ b = c
    PROVE  SubSeq(w, a + 1, b) \o SubSeq(w, b + 1, c) = SubSeq(w, a + 1, c)
<1>1. Len(w) \in Nat
    BY LenProperties
<1>2. CASE b <= Len(w)
    BY <1>1, <1>2, ConcatAdjacentSubSeq
<1>3. CASE b > Len(w)
    <2>1. a = b /\ b = c
        BY <1>1, <1>3
    <2>2. SubSeq(w, a + 1, b) = <<>>
        BY <2>1, SubSeqEmpty
    <2>3. <<>> \o <<>> = <<>>
        BY ConcatEmptySeq, EmptySeq
    <2>. QED BY <2>1, <2>2, <2>3
<1>. QED BY <1>1, <1>2, <1>3

(* The first rows of a piece. *)
LEMMA FirstOfPiece ==
    ASSUME NEW S, NEW w \in Seq(S), NEW a \in Nat, NEW b \in Nat, NEW m \in Nat,
           b <= Len(w), 1 <= m, m <= b - a
    PROVE  SubSeq(SubSeq(w, a + 1, b), 1, m) = SubSeq(w, a + 1, a + m)
<1>1. Len(w) \in Nat
    BY LenProperties
<1>2. /\ a + 1 \in 1 .. Len(w) /\ b \in 1 .. Len(w)
      /\ 1 \in 1 .. b - (a + 1) + 1 /\ m \in 1 .. b - (a + 1) + 1
    BY <1>1
<1>3. SubSeq(SubSeq(w, a + 1, b), 1, m) = SubSeq(w, (a + 1) + 1 - 1, (a + 1) + m - 1)
    BY <1>2, SubSeqOfSubSeq
<1>4. (a + 1) + 1 - 1 = a + 1 /\ (a + 1) + m - 1 = a + m
    OBVIOUS
<1>. QED BY <1>3, <1>4

(* The beginning of a piece is a prefix of it. *)
LEMMA Beginning ==
    ASSUME NEW S, NEW w \in Seq(S), NEW a \in Nat, NEW b \in Nat, NEW c \in Int,
           a <= b, b <= c \/ a = b, c <= Len(w)
    PROVE  IsPrefix(SubSeq(w, a + 1, b), SubSeq(w, a + 1, c))
<1>. DEFINE s == SubSeq(w, a + 1, b)
            t == SubSeq(w, a + 1, c)
<1>1. Len(w) \in Nat
    BY LenProperties
<1>2. t \in Seq(S) /\ Len(t) = IF a < c THEN c - a ELSE 0
    BY Piece
<1>3. CASE a = b
    <2>1. s = <<>> /\ Len(s) = 0
        BY <1>3, SubSeqEmpty, EmptySeq
    <2>2. SubSeq(s, 1, Len(s)) = <<>> /\ SubSeq(t, 1, Len(s)) = <<>>
        BY <2>1, SubSeqEmpty
    <2>3. Len(s) <= Len(t)
        BY <1>2, <2>1
    <2>. QED BY <2>2, <2>3 DEF IsPrefix
<1>4. CASE a < b
    <2>1. b <= c /\ b <= Len(w)
        BY <1>1, <1>4
    <2>2. s \in Seq(S) /\ Len(s) = b - a
        BY <1>4, <2>1, Piece
    <2>3. SubSeq(s, 1, Len(s)) = s
        BY <2>2, SubSeqFull
    <2>4. b - a \in Nat /\ 1 <= b - a /\ b - a <= c - a /\ c \in Nat /\ a + (b - a) = b
        BY <1>4, <2>1
    <2>5. SubSeq(t, 1, b - a) = s
        BY <2>4, FirstOfPiece
    <2>6. Len(s) <= Len(t)
        BY <1>2, <1>4, <2>1, <2>2
    <2>. QED BY <2>2, <2>3, <2>5, <2>6 DEF IsPrefix
<1>. QED BY <1>3, <1>4

-----------------------------------------------------------------------------
(* The inductive invariant.                                                  *)
Stages == {"build", "ready", "page", "streamed", "left",
           "nodes", "first", "counted", "executed", "failed", "panicked"}

Typed ==
    /\ limit \in Nat /\ offset \in Nat /\ writes \in Nat
    /\ meant \subseteq Row /\ root \subseteq Row
    /\ pc \in Stages

Meant == meant \cap root

(* What is streamed is meant, and within the limit. *)
Admitted == Streamed => out \in Seq(Meant) /\ (limit > 0 => Len(out) <= limit)

(* Between two pages: nothing is streamed before the first, and what is left *)
(* of the limit is what was not streamed.                                    *)
Counts ==
    pc = "page" =>
        /\ from \in Nat /\ from >= offset
        /\ from = offset => out = <<>>
        /\ remaining = IF limit = 0 THEN 0 ELSE limit - Len(out)
        /\ limit > 0 => remaining > 0

(* The reads agree with the snapshot of the first page.                      *)
Stable == (~embedded /\ edges = <<>>) \/ writes = 0

Unwritten == pc = "page" /\ writes = 0 /\ from # offset => live = snapshot

Shown == InOrder(Meant \cap snapshot)

(* Then the next page starts where the rows that were streamed end.          *)
Contiguous ==
    pc = "page" /\ Stable /\ from # offset =>
        from <= Len(Shown) /\ out = SubSeq(Shown, offset + 1, from)

Inv ==
    /\ Typed
    /\ pc \in {"build", "ready"} => out = <<>>
    /\ Admitted
    /\ Counts
    /\ Unwritten
    /\ Contiguous
    /\ Streamed /\ Stable => IsSnapshot

-----------------------------------------------------------------------------
(* A page: at most as many rows as were asked for, and all that are left if  *)
(* there are fewer.                                                          *)
LEMMA PageRows ==
    ASSUME NEW rows, rows \subseteq Row, NEW skip \in Nat, NEW first \in Nat, first > 0
    PROVE  LET w == InOrder(rows)
               e == IF skip + first > Len(w) THEN Len(w) ELSE skip + first
           IN  /\ Page(rows, skip, first) = SubSeq(w, skip + 1, e)
               /\ Page(rows, skip, first) \in Seq(rows)
               /\ Len(Page(rows, skip, first)) = IF skip < e THEN e - skip ELSE 0
               /\ Len(Page(rows, skip, first)) <= first
<1>. DEFINE w == InOrder(rows)
            e == IF skip + first > Len(w) THEN Len(w) ELSE skip + first
<1>1. w \in Seq(rows) /\ Len(w) \in Nat
    BY Order
<1>2. e \in Int /\ e <= Len(w) /\ e <= skip + first
    BY <1>1
<1>3. Page(rows, skip, first) = SubSeq(w, skip + 1, e)
    BY DEF Page
<1>4. /\ SubSeq(w, skip + 1, e) \in Seq(rows)
      /\ Len(SubSeq(w, skip + 1, e)) = IF skip < e THEN e - skip ELSE 0
    BY <1>1, <1>2, Piece
<1>5. (IF skip < e THEN e - skip ELSE 0) <= first
    BY <1>2
<1>. QED BY <1>3, <1>4, <1>5

(* What Wanted is, in the snapshot.                                          *)
LEMMA WantedIs ==
    Wanted(limit) = SubSeq(Shown, offset + 1,
                           IF limit = 0 \/ offset + limit > Len(Shown) THEN Len(Shown)
                           ELSE offset + limit)
BY DEF Wanted, Page, Shown, Meant

(* Some first rows of the snapshot are a prefix of what is wanted.           *)
LEMMA FirstRows ==
    ASSUME Typed, NEW k \in Nat, offset <= k, k = offset \/ k <= Len(Shown),
           limit = 0 \/ k - offset <= limit
    PROVE  IsPrefix(SubSeq(Shown, offset + 1, k), Wanted(limit))
<1>. DEFINE e == IF limit = 0 \/ offset + limit > Len(Shown) THEN Len(Shown)
                 ELSE offset + limit
<1>1. Shown \in Seq(Meant \cap snapshot) /\ Len(Shown) \in Nat
    BY Order DEF Typed, Shown, Meant
<1>2. offset \in Nat /\ limit \in Nat
    BY DEF Typed
<1>3. e \in Int /\ e <= Len(Shown) /\ (k <= e \/ offset = k)
    BY <1>1, <1>2
<1>4. Wanted(limit) = SubSeq(Shown, offset + 1, e)
    BY WantedIs
<1>5. IsPrefix(SubSeq(Shown, offset + 1, k), SubSeq(Shown, offset + 1, e))
    BY <1>1, <1>2, <1>3, Beginning
<1>. QED BY <1>4, <1>5

(* Nothing streamed is a prefix of anything wanted.                          *)
LEMMA NothingYet == Typed /\ out = <<>> => IsPrefix(out, Wanted(limit))
<1>. SUFFICES ASSUME Typed, out = <<>> PROVE IsPrefix(out, Wanted(limit))
    OBVIOUS
<1>1. offset \in Nat /\ limit \in Nat
    BY DEF Typed
<1>2. SubSeq(Shown, offset + 1, offset) = <<>>
    BY <1>1, SubSeqEmpty
<1>3. offset <= offset /\ offset - offset <= limit
    BY <1>1
<1>4. IsPrefix(SubSeq(Shown, offset + 1, offset), Wanted(limit))
    BY <1>1, <1>3, FirstRows
<1>. QED BY <1>2, <1>4

-----------------------------------------------------------------------------
(* A page is streamed: all of it, the rows before the consumer left, or none *)
(* when the request failed.                                                  *)
SizeFacts ==
    /\ size \in Nat /\ size > 0 /\ size <= defaultPageSize
    /\ remaining > 0 => size <= remaining
    /\ size < defaultPageSize => remaining = size

LEMMA Sizes == remaining \in Nat => SizeFacts
BY PagesConstants DEF SizeFacts, size

LEMMA NextTyped ==
    ASSUME Inv, NextPage(Meant \cap Reads)
    PROVE  /\ Typed' /\ offset' = offset /\ limit' = limit /\ Meant' = Meant
           /\ Stable' = Stable /\ writes' = writes /\ live' = live
           /\ Streamed /\ Streamed' /\ out \in Seq(Meant)
           /\ from \in Nat /\ from' = from + defaultPageSize /\ from' # offset
           /\ remaining \in Nat /\ SizeFacts
           /\ pc' \notin {"build", "ready"}
<1>1. pc = "page" /\ pc' \in {"page", "streamed", "left", "failed"}
    BY DEF NextPage
<1>2. /\ limit' = limit /\ offset' = offset /\ meant' = meant /\ root' = root
      /\ writes' = writes /\ live' = live /\ edges' = edges /\ embedded' = embedded
    BY DEF NextPage, bounds
<1>3. Typed' /\ Meant' = Meant /\ Stable' = Stable
    BY <1>1, <1>2 DEF Inv, Typed, Stages, Meant, Stable
<1>4. Streamed /\ Streamed'
    BY <1>1 DEF Streamed
<1>5. out \in Seq(Meant) /\ (limit > 0 => Len(out) <= limit)
    BY <1>4 DEF Inv, Admitted
<1>6. Len(out) \in Nat
    BY <1>5, LenProperties
<1>7. offset \in Nat /\ limit \in Nat
    BY DEF Inv, Typed
<1>8. /\ from \in Nat /\ from >= offset
      /\ remaining = IF limit = 0 THEN 0 ELSE limit - Len(out)
    BY <1>1 DEF Inv, Counts
<1>9. remaining \in Nat
    BY <1>5, <1>6, <1>7, <1>8
<1>10. SizeFacts
    BY <1>9, Sizes
<1>11. from' = from + defaultPageSize
    BY DEF NextPage
<1>12. from' # offset
    BY <1>7, <1>8, <1>11, PagesConstants
<1>. QED BY <1>1, <1>2, <1>3, <1>4, <1>5, <1>8, <1>9, <1>10, <1>11, <1>12

(* What it adds is meant and within what is left of the limit.               *)
LEMMA NextAdmitted ==
    ASSUME Inv, NextPage(Meant \cap Reads)
    PROVE  Admitted' /\ Counts' /\ Unwritten'
<1>. DEFINE rows == Page(Meant \cap Reads, from, size)
<1>1. /\ Typed' /\ offset' = offset /\ limit' = limit /\ Meant' = Meant
      /\ writes' = writes /\ live' = live
      /\ Streamed /\ out \in Seq(Meant)
      /\ from \in Nat /\ from' = from + defaultPageSize /\ from' # offset
      /\ remaining \in Nat /\ SizeFacts
    BY NextTyped
<1>2. /\ pc = "page" /\ offset \in Nat /\ limit \in Nat
      /\ limit > 0 => Len(out) <= limit
      /\ from >= offset
      /\ remaining = IF limit = 0 THEN 0 ELSE limit - Len(out)
      /\ limit > 0 => remaining > 0
    BY <1>1 DEF NextPage, Inv, Typed, Counts, Admitted
<1>3. rows \in Seq(Meant) /\ Len(rows) \in Nat /\ Len(rows) <= size
    <2>1. Meant \cap Reads \subseteq Row
        BY DEF Inv, Typed, Meant
    <2>2. rows \in Seq(Meant \cap Reads) /\ Len(rows) <= size
        BY <1>1, <2>1, PageRows DEF SizeFacts
    <2>3. Meant \cap Reads \subseteq Meant
        OBVIOUS
    <2>. QED BY <2>2, <2>3, SeqMonotonic, LenProperties
<1>4. Len(out) \in Nat
    BY <1>1, LenProperties
<1>. HIDE DEF rows
<1>5. PICK added \in Seq(Meant) : out' = out \o added /\ Len(added) <= Len(rows)
    <2>1. CASE out' = out \o rows
        BY <2>1, <1>3
    <2>2. CASE \E n \in 1 .. Len(rows) : out' = out \o SubSeq(rows, 1, n)
        <3>1. PICK n \in 1 .. Len(rows) : out' = out \o SubSeq(rows, 1, n)
            BY <2>2
        <3>2. n \in Int /\ n <= Len(rows) /\ 0 < n
            BY <1>3, <3>1
        <3>3. SubSeq(rows, 0 + 1, n) \in Seq(Meant) /\ Len(SubSeq(rows, 0 + 1, n)) = n
            BY <1>3, <3>2, Piece
        <3>4. SubSeq(rows, 1, n) \in Seq(Meant) /\ Len(SubSeq(rows, 1, n)) <= Len(rows)
            BY <3>2, <3>3
        <3>. USE <3>4
        <3>. WITNESS SubSeq(rows, 1, n) \in Seq(Meant)
        <3>. QED BY <3>1
    <2>3. CASE out' = out
        <3>1. <<>> \in Seq(Meant) /\ Len(<<>>) <= Len(rows)
            BY <1>3, EmptySeq
        <3>2. out \o <<>> = out
            BY <1>1, ConcatEmptySeq
        <3>. WITNESS <<>> \in Seq(Meant)
        <3>. QED BY <2>3, <3>1, <3>2
    <2>. QED BY <2>1, <2>2, <2>3 DEF NextPage, rows
<1>6. /\ out' \in Seq(Meant) /\ Len(out') = Len(out) + Len(added)
      /\ Len(added) \in Nat
    BY <1>1, <1>5, ConcatProperties, LenProperties
<1>7. limit > 0 => Len(out') <= limit
    BY <1>1, <1>2, <1>3, <1>4, <1>5, <1>6 DEF SizeFacts
<1>8. Admitted'
    BY <1>1, <1>6, <1>7 DEF Admitted
<1>9. Counts'
    <2>. SUFFICES ASSUME pc' = "page" PROVE Counts'
        BY DEF Counts
    <2>1. /\ out' = out \o rows /\ ~Ends(rows)
          /\ remaining' = IF remaining > 0 THEN remaining - Len(rows) ELSE 0
        BY DEF NextPage, rows
    <2>2. Len(out') = Len(out) + Len(rows)
        BY <2>1, <1>1, <1>3, ConcatProperties
    <2>3. remaining > 0 => remaining - Len(rows) > 0
        BY <2>1, <1>1, <1>3 DEF Ends
    <2>4. remaining' = IF limit' = 0 THEN 0 ELSE limit' - Len(out')
        BY <1>1, <1>2, <1>3, <1>4, <2>1, <2>2
    <2>5. limit' > 0 => remaining' > 0
        BY <1>1, <1>2, <2>1, <2>3
    <2>6. from' \in Nat /\ from' >= offset'
        BY <1>1, <1>2, PagesConstants
    <2>. QED BY <1>1, <2>4, <2>5, <2>6 DEF Counts
<1>10. Unwritten'
    <2>. SUFFICES ASSUME writes = 0 PROVE live' = snapshot'
        BY <1>1 DEF Unwritten
    <2>1. snapshot' = IF from = offset THEN live ELSE snapshot
        BY DEF NextPage
    <2>2. from # offset => live = snapshot
        BY <1>2 DEF Inv, Unwritten
    <2>. QED BY <1>1, <2>1, <2>2
<1>. QED BY <1>8, <1>9, <1>10

(* The page continues the snapshot, and the last one reaches its end.        *)
LEMMA NextContiguous ==
    ASSUME Inv, NextPage(Meant \cap Reads), Stable
    PROVE  Contiguous' /\ IsSnapshot'
<1>. DEFINE rows == Page(Meant \cap Reads, from, size)
            w == InOrder(Meant \cap Reads)
            n == Len(w)
            e == IF from + size > n THEN n ELSE from + size
<1>1. /\ Typed' /\ offset' = offset /\ limit' = limit /\ Meant' = Meant
      /\ from \in Nat /\ from' = from + defaultPageSize /\ from' # offset
      /\ remaining \in Nat /\ SizeFacts
      /\ Streamed /\ out \in Seq(Meant)
    BY NextTyped
<1>2. /\ pc = "page" /\ offset \in Nat /\ limit \in Nat
      /\ limit > 0 => Len(out) <= limit
      /\ from >= offset /\ (from = offset => out = <<>>)
      /\ remaining = IF limit = 0 THEN 0 ELSE limit - Len(out)
      /\ limit > 0 => remaining > 0
    BY <1>1 DEF NextPage, Inv, Typed, Counts, Admitted
<1>3. Meant \cap Reads \subseteq Row
    BY DEF Inv, Typed, Meant
<1>4. w \in Seq(Meant \cap Reads) /\ n \in Nat
    BY <1>3, Order
<1>5. /\ rows = SubSeq(w, from + 1, e) /\ rows \in Seq(Meant \cap Reads)
      /\ Len(rows) = (IF from < e THEN e - from ELSE 0) /\ Len(rows) <= size
    BY <1>1, <1>3, PageRows DEF SizeFacts
(* What this page reads is the snapshot.                                     *)
<1>6. snapshot' = IF from = offset THEN live ELSE snapshot
    BY DEF NextPage
<1>7. Reads = snapshot'
    <2>1. CASE from = offset
        BY <2>1, <1>6 DEF Reads
    <2>2. CASE from # offset
        <3>1. writes = 0 => live = snapshot
            BY <2>2, <1>2 DEF Inv, Unwritten
        <3>. QED BY <2>2, <1>6, <3>1 DEF Reads, Stable
    <2>. QED BY <2>1, <2>2
<1>8. Shown' = w
    BY <1>1, <1>7 DEF Shown
<1>9. (from = offset \/ from <= n) /\ out = SubSeq(w, offset + 1, from)
    <2>1. CASE from = offset
        <3>1. SubSeq(w, offset + 1, offset) = <<>>
            BY <1>2, SubSeqEmpty
        <3>. QED BY <2>1, <3>1, <1>2
    <2>2. CASE from # offset
        <3>1. from <= Len(Shown) /\ out = SubSeq(Shown, offset + 1, from)
            BY <2>2, <1>2 DEF Inv, Contiguous
        <3>2. Shown = w
            BY <2>2, <1>6, <1>7 DEF Shown
        <3>. QED BY <3>1, <3>2
    <2>. QED BY <2>1, <2>2
<1>10. Len(out) = from - offset
    <2>1. CASE from = offset
        BY <2>1, <1>2, EmptySeq
    <2>2. CASE from # offset
        <3>1. from <= Len(w) /\ offset < from
            BY <2>2, <1>1, <1>2, <1>9
        <3>2. Len(SubSeq(w, offset + 1, from)) = from - offset
            BY <3>1, <1>1, <1>2, <1>4, Piece
        <3>. QED BY <3>2, <1>9
    <2>. QED BY <2>1, <2>2
<1>. DEFINE last == IF limit = 0 \/ offset + limit > n THEN n ELSE offset + limit
<1>11. (Wanted(limit))' = SubSeq(w, offset + 1, last)
    <2>1. (Wanted(limit))' = SubSeq(Shown', offset' + 1,
                IF limit' = 0 \/ offset' + limit' > Len(Shown') THEN Len(Shown')
                ELSE offset' + limit')
        BY DEF Wanted, Page, Shown, Meant
    <2>. QED BY <2>1, <1>1, <1>8
<1>12. ASSUME NEW j \in Nat, offset <= j, j = offset \/ j <= n,
              limit = 0 \/ j - offset <= limit, out' = SubSeq(w, offset + 1, j)
       PROVE  IsPrefix(out', (Wanted(limit))')
    <2>1. last \in Int /\ last <= n /\ (j <= last \/ offset = j)
        BY <1>2, <1>4, <1>12
    <2>. HIDE DEF last, n, w
    <2>2. IsPrefix(SubSeq(w, offset + 1, j), SubSeq(w, offset + 1, last))
        BY <2>1, <1>2, <1>4, <1>12, Beginning DEF n
    <2>. QED BY <2>2, <1>11, <1>12
<1>13. from \in Nat /\ e \in Int /\ n \in Nat /\ e <= n /\ Len(rows) \in Nat
    BY <1>1, <1>4, <1>5 DEF SizeFacts
<1>. DEFINE k == IF from <= e THEN e ELSE from
<1>14. /\ n = Len(w)
       /\ e = IF from + size > n THEN n ELSE from + size
       /\ last = IF limit = 0 \/ offset + limit > n THEN n ELSE offset + limit
       /\ k = IF from <= e THEN e ELSE from
    OBVIOUS
<1>. HIDE DEF rows, w, n, e, last, k
(* All of the page.                                                          *)
<1>15. /\ k \in Nat /\ offset <= k /\ (k = offset \/ k <= n) /\ k - from = Len(rows)
       /\ limit = 0 \/ k - offset <= limit
    <2>1. remaining > 0 => Len(rows) <= remaining
        BY <1>1, <1>5, <1>13 DEF SizeFacts
    <2>2. k \in Nat /\ offset <= k /\ k - from = Len(rows)
        BY <1>2, <1>5, <1>13, <1>14
    <2>3. k = offset \/ k <= n
        BY <1>2, <1>9, <1>13, <1>14
    <2>4. limit = 0 \/ k - offset <= limit
        BY <1>2, <1>10, <1>13, <2>1, <2>2
    <2>. QED BY <2>2, <2>3, <2>4
<1>16. out \o rows = SubSeq(w, offset + 1, k)
    <2>1. CASE from <= e
        <3>1. /\ offset <= from /\ (offset = from \/ from <= Len(w))
              /\ from <= e /\ (e <= Len(w) \/ from = e)
            BY <2>1, <1>2, <1>9, <1>13, <1>14
        <3>2. SubSeq(w, offset + 1, from) \o SubSeq(w, from + 1, e) = SubSeq(w, offset + 1, e)
            BY <3>1, <1>2, <1>4, <1>13, Pieces
        <3>3. k = e
            BY <2>1, <1>14
        <3>. QED BY <3>2, <3>3, <1>5, <1>9
    <2>2. CASE e < from
        <3>1. rows = <<>>
            BY <2>2, <1>5, <1>13, SubSeqEmpty
        <3>2. out \o <<>> = out
            BY <1>1, ConcatEmptySeq
        <3>3. k = from
            BY <2>2, <1>13, <1>14
        <3>. QED BY <3>1, <3>2, <3>3, <1>9
    <2>3. from <= e \/ e < from
        BY <1>13
    <2>. QED BY <2>1, <2>2, <2>3
<1>17. ASSUME out' = out \o rows
       PROVE  IsPrefix(out', (Wanted(limit))')
    BY <1>12, <1>15, <1>16, <1>17
<1>18. CASE pc' = "page"
    <2>1. out' = out \o rows /\ ~Ends(rows)
        BY <1>18 DEF NextPage, rows
    <2>2. Len(rows) = size /\ (remaining > 0 => size < remaining)
        BY <2>1, <1>1, <1>5, <1>13 DEF Ends, SizeFacts
    <2>3. size = defaultPageSize
        BY <2>2, <1>1, PagesConstants DEF SizeFacts
    <2>4. k = from' /\ k <= n /\ offset' = offset
        BY <2>2, <2>3, <1>1, <1>2, <1>13, <1>15, PagesConstants
    <2>5. from' <= Len(Shown') /\ out' = SubSeq(Shown', offset' + 1, from')
        BY <2>1, <2>4, <1>8, <1>14, <1>16
    <2>6. Contiguous'
        BY <2>5 DEF Contiguous
    <2>7. IsSnapshot'
        BY <2>1, <1>17, <1>18 DEF IsSnapshot
    <2>. QED BY <2>6, <2>7
<1>19. CASE pc' = "streamed"
    <2>1. out' = out \o rows /\ Ends(rows)
        BY <1>19 DEF NextPage, rows
    <2>2. k = last \/ (k <= offset /\ last <= offset)
        <3>1. remaining > 0 /\ Len(rows) = remaining => limit > 0 /\ k = offset + limit
            BY <1>2, <1>10, <1>13, <1>15
        <3>2. Len(rows) < size => n <= from + size /\ e = n
            BY <1>1, <1>5, <1>13, <1>14 DEF SizeFacts
        <3>3. (remaining > 0 /\ Len(rows) = remaining) \/ Len(rows) < size
            BY <2>1, <1>1, <1>5, <1>13 DEF Ends, SizeFacts
        <3>4. CASE remaining > 0 /\ Len(rows) = remaining
            BY <3>1, <3>4, <1>2, <1>5, <1>13, <1>14, <1>15
        <3>5. CASE Len(rows) < size
            <4>1. limit > 0 => n < offset + limit \/ n = offset + limit
                BY <3>2, <3>5, <1>1, <1>2, <1>10, <1>13 DEF SizeFacts
            <4>2. last = n
                BY <4>1, <1>2, <1>13, <1>14
            <4>3. k = n \/ (k = from /\ n < from)
                BY <3>2, <3>5, <1>13, <1>14
            <4>. QED BY <4>2, <4>3, <1>2, <1>9, <1>13
        <3>. QED BY <3>3, <3>4, <3>5
    <2>3. SubSeq(w, offset + 1, k) = SubSeq(w, offset + 1, last)
        <3>1. CASE k = last
            BY <3>1
        <3>2. CASE k <= offset /\ last <= offset
            <4>1. k \in Int /\ last \in Int
                BY <1>2, <1>13, <1>14, <1>15
            <4>2. SubSeq(w, offset + 1, k) = <<>> /\ SubSeq(w, offset + 1, last) = <<>>
                BY <3>2, <4>1, <1>2, SubSeqEmpty
            <4>. QED BY <4>2
        <3>. QED BY <2>2, <3>1, <3>2
    <2>4. out' = (Wanted(limit))'
        BY <2>1, <2>3, <1>11, <1>16
    <2>. QED BY <2>1, <2>4, <1>17, <1>19 DEF IsSnapshot, Contiguous
(* The rows before the consumer left.                                        *)
<1>20. CASE pc' = "left"
    <2>1. PICK m \in 1 .. Len(rows) : out' = out \o SubSeq(rows, 1, m)
        BY <1>20 DEF NextPage, rows
    <2>2. /\ from < e /\ e - from = Len(rows) /\ m \in Int /\ 1 <= m /\ m <= e - from
        BY <2>1, <1>5, <1>13
    <2>3. SubSeq(rows, 1, m) = SubSeq(w, from + 1, from + m)
        <3>1. m \in Nat /\ e \in Nat /\ e <= Len(w)
            BY <2>2, <1>13, <1>14
        <3>2. SubSeq(SubSeq(w, from + 1, e), 1, m) = SubSeq(w, from + 1, from + m)
            BY <2>2, <3>1, <1>4, <1>13, FirstOfPiece
        <3>. QED BY <3>2, <1>5
    <2>. DEFINE to == from + m
    <2>4. to \in Nat /\ from <= to /\ to <= n /\ to <= Len(w)
        BY <2>2, <1>13, <1>14
    <2>5. offset <= to /\ (limit = 0 \/ to - offset <= limit)
        BY <2>2, <2>4, <1>2, <1>13, <1>15
    <2>6. out' = out \o SubSeq(w, from + 1, to)
        BY <2>1, <2>3
    <2>. HIDE DEF to
    <2>7. offset <= from /\ (offset = from \/ from <= Len(w))
        BY <1>2, <1>9, <1>14
    <2>8. SubSeq(w, offset + 1, from) \o SubSeq(w, from + 1, to) = SubSeq(w, offset + 1, to)
        BY <2>4, <2>7, <1>2, <1>4, <1>13, Pieces
    <2>9. out' = SubSeq(w, offset + 1, to)
        BY <2>6, <2>8, <1>9
    <2>10. IsPrefix(out', (Wanted(limit))')
        BY <2>4, <2>5, <2>9, <1>12
    <2>. QED BY <2>10, <1>20 DEF IsSnapshot, Contiguous
(* None, when the request failed.                                            *)
<1>21. CASE pc' = "failed"
    <2>1. out' = out
        BY <1>21 DEF NextPage, rows
    <2>2. from = offset \/ from <= n
        BY <1>9
    <2>3. limit = 0 \/ from - offset <= limit
        BY <1>2, <1>10
    <2>4. IsPrefix(out', (Wanted(limit))')
        BY <2>1, <2>2, <2>3, <1>2, <1>9, <1>12, <1>13
    <2>. QED BY <2>4, <1>21 DEF IsSnapshot, Contiguous
<1>22. pc' \in {"page", "streamed", "left", "failed"}
    BY DEF NextPage, rows
<1>. QED BY <1>18, <1>19, <1>20, <1>21, <1>22

-----------------------------------------------------------------------------
(* Where nothing is streamed, there is nothing to be wrong.                  *)
LEMMA Empty ==
    ASSUME Typed, out = <<>>
    PROVE  Admitted /\ IsPrefix(out, Wanted(limit))
<1>1. <<>> \in Seq(Meant) /\ Len(<<>>) = 0
    BY EmptySeq
<1>2. limit \in Nat
    BY DEF Typed
<1>. QED BY <1>1, <1>2, NothingYet DEF Admitted

LEMMA InvInit == PagesInit => Inv
<1>. SUFFICES ASSUME PagesInit PROVE Inv
    OBVIOUS
<1>. QED BY DEF PagesInit, Inv, Typed, Stages, Admitted, Counts, Unwritten, Contiguous, Streamed

LEMMA BuildsInv == Inv /\ Builds => Inv'
<1>. SUFFICES ASSUME Inv, Builds PROVE Inv'
    OBVIOUS
<1>1. Typed' /\ pc' \in {"build", "ready"} /\ out' = out /\ pc = "build" /\ out = <<>>
    BY DEF Inv, Builds, Typed, Stages
<1>2. ~Streamed' /\ pc' # "page"
    BY <1>1 DEF Streamed
<1>. QED BY <1>1, <1>2 DEF Inv, Admitted, Counts, Unwritten, Contiguous

LEMMA AnswersInv == Inv /\ Answers => Inv'
<1>. SUFFICES ASSUME Inv, Answers PROVE Inv'
    OBVIOUS
<1>1. Typed' /\ pc' \notin {"build", "ready", "page", "streamed"} /\ out = <<>>
    BY DEF Inv, Answers, Typed, Stages, bounds
<1>2. Counts' /\ Unwritten' /\ Contiguous'
    BY <1>1 DEF Counts, Unwritten, Contiguous
<1>3. CASE ~Streamed'
    BY <1>1, <1>2, <1>3 DEF Inv, Admitted
<1>4. CASE Streamed'
    <2>1. out' = <<>>
        BY <1>1, <1>4 DEF Answers, Streamed
    <2>2. (Typed /\ out = <<>> => Admitted /\ IsPrefix(out, Wanted(limit)))'
        BY Empty, PTL
    <2>3. Admitted' /\ (IsPrefix(out, Wanted(limit)))'
        BY <1>1, <2>1, <2>2
    <2>. QED BY <1>1, <1>2, <2>3 DEF Inv, IsSnapshot
<1>. QED BY <1>3, <1>4

LEMMA IterNodesInv == Inv /\ IterNodes => Inv'
<1>. SUFFICES ASSUME Inv, IterNodes PROVE Inv'
    OBVIOUS
<1>1. /\ Typed' /\ pc' = "page" /\ out' = <<>>
      /\ from' = offset' /\ remaining' = limit' /\ offset' \in Nat /\ limit' \in Nat
    BY DEF Inv, IterNodes, Typed, Stages, bounds
<1>2. (Typed /\ out = <<>> => Admitted /\ IsPrefix(out, Wanted(limit)))'
    BY Empty, PTL
<1>3. Admitted' /\ IsSnapshot'
    BY <1>1, <1>2 DEF IsSnapshot
<1>4. Len(out') = 0
    BY <1>1, EmptySeq
<1>5. Counts'
    <2>1. remaining' = limit' /\ limit' \in Nat
        BY <1>1
    <2>2. remaining' = IF limit' = 0 THEN 0 ELSE limit' - Len(out')
        <3>1. limit' - Len(out') = limit' - 0
            BY <1>4
        <3>2. \A i \in Nat : i - 0 = i
            OBVIOUS
        <3>. QED BY <2>1, <3>1, <3>2
    <2>3. from' \in Nat /\ from' >= offset' /\ (limit' > 0 => remaining' > 0)
        BY <1>1
    <2>. QED BY <2>2, <2>3, <1>1 DEF Counts
<1>6. Unwritten' /\ Contiguous'
    BY <1>1 DEF Unwritten, Contiguous
<1>. QED BY <1>1, <1>3, <1>5, <1>6 DEF Inv

LEMMA NextPageInv == Inv /\ NextPage(Meant \cap Reads) => Inv'
<1>. SUFFICES ASSUME Inv, NextPage(Meant \cap Reads) PROVE Inv'
    OBVIOUS
<1>1. Typed' /\ Stable' = Stable /\ pc' \notin {"build", "ready"}
    BY NextTyped
<1>2. Admitted' /\ Counts' /\ Unwritten'
    BY NextAdmitted
<1>3. Stable => Contiguous' /\ IsSnapshot'
    BY NextContiguous
<1>4. ~Stable => Contiguous'
    BY <1>1 DEF Contiguous
<1>. QED BY <1>1, <1>2, <1>3, <1>4 DEF Inv

(* A write comes between two pages: it leaves what was streamed, and the     *)
(* snapshot; only reads that keep to the snapshot stay stable.               *)
LEMMA WriteInv == ASSUME NEW r \in Row PROVE Inv /\ Write(r) => Inv'
<1>. SUFFICES ASSUME Inv, Write(r) PROVE Inv'
    OBVIOUS
<1>1. /\ pc' = pc /\ out' = out /\ snapshot' = snapshot /\ from' = from
      /\ remaining' = remaining /\ limit' = limit /\ offset' = offset
      /\ meant' = meant /\ root' = root /\ writes' = writes + 1
      /\ edges' = edges /\ embedded' = embedded
    BY DEF Write, bounds, paging
<1>2. writes' \in Nat /\ writes' # 0
    BY <1>1 DEF Inv, Typed
<1>3. Typed' /\ Meant' = Meant /\ Shown' = Shown /\ Streamed' = Streamed
    BY <1>1, <1>2 DEF Inv, Typed, Meant, Shown, Streamed
<1>4. Stable' => Stable
    BY <1>1, <1>2 DEF Stable
<1>5. Admitted' /\ Counts'
    BY <1>1, <1>3 DEF Inv, Admitted, Counts
<1>6. Unwritten' /\ Contiguous'
    BY <1>1, <1>2, <1>3, <1>4 DEF Inv, Unwritten, Contiguous
<1>7. (Streamed /\ Stable => IsSnapshot)'
    BY <1>1, <1>3, <1>4 DEF Inv, IsSnapshot, Wanted
<1>. QED BY <1>1, <1>3, <1>5, <1>6, <1>7 DEF Inv

LEMMA Stuttering == Inv /\ UNCHANGED pagesVars => Inv'
<1>. SUFFICES ASSUME Inv, UNCHANGED pagesVars PROVE Inv'
    OBVIOUS
<1>1. /\ limit' = limit /\ offset' = offset /\ root' = root
      /\ from' = from /\ remaining' = remaining /\ edges' = edges /\ meant' = meant
      /\ embedded' = embedded /\ live' = live /\ writes' = writes /\ pc' = pc
      /\ out' = out /\ snapshot' = snapshot
    BY DEF pagesVars, bounds, paging
<1>. QED BY <1>1 DEF Inv, Typed, Meant, Admitted, Counts, Stable, Unwritten, Shown, Contiguous,
                     Streamed, IsSnapshot, Wanted

LEMMA InvStep == Inv /\ [PagesNext]_pagesVars => Inv'
<1>. SUFFICES ASSUME Inv, [PagesNext]_pagesVars PROVE Inv'
    OBVIOUS
<1>1. CASE Builds
    BY <1>1, BuildsInv
<1>2. CASE Answers
    BY <1>2, AnswersInv
<1>3. CASE IterNodes
    BY <1>3, IterNodesInv
<1>4. CASE NextPage(meant \cap root \cap Reads)
    BY <1>4, NextPageInv DEF Meant
<1>5. CASE \E r \in Row : Write(r)
    BY <1>5, WriteInv
<1>6. CASE UNCHANGED pagesVars
    BY <1>6, Stuttering
<1>. QED BY <1>1, <1>2, <1>3, <1>4, <1>5, <1>6 DEF PagesNext

LEMMA InvHolds == PagesSpec => []Inv
<1>. QED BY InvInit, InvStep, PTL DEF PagesSpec

(* For every query, order of the results, bounds and interleaving with other *)
(* clients' writes, what IterNodes yields is within its limit and meant; and *)
(* where its requests see one snapshot, or nobody writes, it is that         *)
(* snapshot's rows from the offset on, none missing and none twice.          *)
THEOREM PagesAreTheSnapshot == PagesSpec => []StreamsSnapshot
<1>1. Inv => StreamsSnapshot
    <2>. SUFFICES ASSUME Inv, Streamed PROVE StreamsSnapshot
        BY DEF StreamsSnapshot
    <2>1. out \in Seq(Meant) /\ (limit > 0 => Len(out) <= limit)
        BY DEF Inv, Admitted
    <2>2. ToSet(out) \subseteq Meant
        <3>1. DOMAIN out = 1 .. Len(out)
            BY <2>1, LenProperties
        <3>. QED BY <2>1, <3>1, ElementOfSeq DEF ToSet
    <2>3. Stable => IsSnapshot
        BY DEF Inv
    <2>. QED BY <2>1, <2>2, <2>3 DEF StreamsSnapshot, Stable, Meant
<1>. QED BY <1>1, InvHolds, PTL

(* There, no row is yielded twice: the order of the results repeats none.    *)
THEOREM NoRowTwice == PagesSpec => [](Streamed /\ Stable => IsInjective(out))
<1>1. ASSUME Inv, Streamed, Stable
      PROVE  IsInjective(out)
    <2>. DEFINE e == IF limit = 0 \/ offset + limit > Len(Shown) THEN Len(Shown)
                     ELSE offset + limit
    <2>1. Shown \in Seq(Meant \cap snapshot) /\ Len(Shown) \in Nat /\ IsInjective(Shown)
        <3>1. Meant \cap snapshot \in SUBSET Row
            BY <1>1 DEF Inv, Typed, Meant
        <3>. QED BY <3>1, Order, PagesConstants DEF Shown
    <2>2. out \in Seq(Meant) /\ Len(out) \in Nat /\ DOMAIN out = 1 .. Len(out)
        BY <1>1, LenProperties DEF Inv, Admitted
    <2>3. offset \in Nat /\ limit \in Nat
        BY <1>1 DEF Inv, Typed
    <2>4. e \in Int /\ e <= Len(Shown)
        BY <2>1, <2>3
    <2>5. Wanted(limit) = SubSeq(Shown, offset + 1, e)
        BY WantedIs
    <2>. HIDE DEF e
    <2>6. /\ Len(out) <= Len(Wanted(limit))
          /\ SubSeq(out, 1, Len(out)) = SubSeq(Wanted(limit), 1, Len(out))
        BY <1>1 DEF Inv, IsSnapshot, IsPrefix
    <2>7. Len(Wanted(limit)) = IF offset < e THEN e - offset ELSE 0
        BY <2>1, <2>3, <2>4, <2>5, Piece
    <2>8. ASSUME NEW i \in 1 .. Len(out)
          PROVE  out[i] = Shown[offset + i] /\ offset + i \in 1 .. Len(Shown)
        <3>1. offset < e /\ i \in Int /\ 1 <= i /\ i <= e - offset
            BY <2>2, <2>3, <2>4, <2>6, <2>7
        <3>2. SubSeq(out, 1, Len(out))[i] = out[i]
            BY <2>2, SubSeqFull
        <3>3. SubSeq(Wanted(limit), 1, Len(out))[i] = Wanted(limit)[i]
            BY <2>2
        <3>4. Wanted(limit)[i] = Shown[offset + i]
            BY <2>3, <2>4, <2>5, <3>1
        <3>5. offset + i \in 1 .. Len(Shown)
            BY <2>1, <2>3, <2>4, <3>1
        <3>. QED BY <3>2, <3>3, <3>4, <3>5, <2>6
    <2>9. ASSUME NEW i \in 1 .. Len(out), NEW j \in 1 .. Len(out), out[i] = out[j]
          PROVE  i = j
        <3>1. Shown[offset + i] = Shown[offset + j]
            BY <2>8, <2>9
        <3>2. offset + i = offset + j
            BY <3>1, <2>1, <2>8, LenProperties DEF IsInjective
        <3>. QED BY <3>2, <2>2, <2>3
    <2>. QED BY <2>2, <2>9 DEF IsInjective
<1>. QED BY <1>1, InvHolds, PTL
=============================================================================
