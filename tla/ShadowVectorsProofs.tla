-------------------------- MODULE ShadowVectorsProofs --------------------------
(* Proofs about ShadowVectors: with any number of writers, texts, thresholds *)
(* and retry policies, and whatever fails, a cluster shows each text with    *)
(* its vector, and an Update that runs alone leaves its text with its vector *)
(* on either backend; and for any width of durations the delays WithRetry    *)
(* draws lie between the backoff and the cap.                                *)
EXTENDS ShadowVectors, FiniteSetTheorems, WellFoundedInduction, TLAPS

-----------------------------------------------------------------------------
(* Induction over the naturals, for a set instead of a predicate: of the     *)
(* intervals 0 .. n that end outside S one would be the smallest.            *)
LEMMA Induction ==
    ASSUME NEW S, 0 \in S, \A n \in Nat : n \in S => n + 1 \in S
    PROVE  Nat \subseteq S
<1> SUFFICES ASSUME NEW m \in Nat, m \notin S PROVE FALSE
    OBVIOUS
<1> DEFINE I == 0 .. m
           Upto(n) == 0 .. n
           T == {Upto(n) : n \in I \ S}
<1>1. IsFiniteSet(I)
    BY FS_Interval
<1>2. T \subseteq SUBSET I /\ T # {}
    OBVIOUS
<1>3. T \subseteq FiniteSubsetsOf(I)
    BY <1>1, <1>2, FS_Subset DEF FiniteSubsetsOf
<1>4. \E t \in T : \A u \in T : ~(<<u, t>> \in StrictSubsetOrdering(I))
    <2> HIDE DEF T, I
    <2> QED BY <1>1, <1>2, <1>3, FS_StrictSubsetOrderingWellFounded, WFMin
<1>5. PICK x \in I \ S : \A y \in I \ S : ~(<<Upto(y), Upto(x)>> \in StrictSubsetOrdering(I))
    BY <1>4
<1>6. x - 1 \in I \ S
    OBVIOUS
<1>7. /\ Upto(x - 1) \in SUBSET I /\ Upto(x) \in SUBSET I
      /\ Upto(x - 1) \subseteq Upto(x) /\ Upto(x - 1) # Upto(x)
    BY <1>6
<1> QED BY <1>5, <1>6, <1>7 DEF StrictSubsetOrdering

(* The function that doubles exists: its beginnings do, and agree.           *)
LEMMA Doubling ==
    PowerOfTwo = [n \in Nat |-> IF n = 0 THEN 1 ELSE 2 * PowerOfTwo[n - 1]]
<1> DEFINE Doubles(g, n) == g[0] = 1 /\ \A i \in 1 .. n : g[i] = 2 * g[i - 1]
           S == {n \in Nat : \E g \in [0 .. n -> Nat] : Doubles(g, n)}
           R == {n \in Nat : \A g, h : Doubles(g, n) /\ Doubles(h, n) => g[n] = h[n]}
<1>1. Nat \subseteq S
    <2>1. 0 \in S
        <3>1. [i \in 0 .. 0 |-> 1] \in [0 .. 0 -> Nat] /\ Doubles([i \in 0 .. 0 |-> 1], 0)
            OBVIOUS
        <3> QED BY <3>1
    <2>2. ASSUME NEW n \in Nat, n \in S PROVE n + 1 \in S
        <3>1. PICK g \in [0 .. n -> Nat] : Doubles(g, n)
            BY <2>2
        <3> DEFINE h == [i \in 0 .. n + 1 |-> IF i = n + 1 THEN 2 * g[n] ELSE g[i]]
        <3>2. h \in [0 .. n + 1 -> Nat]
            OBVIOUS
        <3>3. \A i \in 0 .. n : h[i] = g[i]
            OBVIOUS
        <3>4. h[n + 1] = 2 * g[n]
            OBVIOUS
        <3>5. Doubles(h, n + 1)
            <4> HIDE DEF h
            <4>1. h[0] = 1
                BY <3>1, <3>3
            <4>2. ASSUME NEW i \in 1 .. n + 1 PROVE h[i] = 2 * h[i - 1]
                <5>1. i - 1 \in 0 .. n
                    OBVIOUS
                <5>2. i # n + 1 => i \in 1 .. n
                    OBVIOUS
                <5> QED BY <3>1, <3>3, <3>4, <5>1, <5>2
            <4> QED BY <4>1, <4>2
        <3>6. n + 1 \in Nat
            OBVIOUS
        <3> HIDE DEF Doubles, h
        <3> QED BY <3>2, <3>5, <3>6
    <2> HIDE DEF S
    <2> QED BY <2>1, <2>2, Induction
<1>2. Nat \subseteq R
    <2>1. 0 \in R
        OBVIOUS
    <2>2. ASSUME NEW n \in Nat, n \in R PROVE n + 1 \in R
        <3> SUFFICES ASSUME NEW g, NEW h, Doubles(g, n + 1), Doubles(h, n + 1)
                     PROVE  g[n + 1] = h[n + 1]
            OBVIOUS
        <3>1. Doubles(g, n) /\ Doubles(h, n)
            OBVIOUS
        <3>2. g[n] = h[n]
            BY <2>2, <3>1
        <3> QED BY <3>2
    <2> HIDE DEF R
    <2> QED BY <2>1, <2>2, Induction
<1> DEFINE G(n) == CHOOSE g \in [0 .. n -> Nat] : Doubles(g, n)
           f == [n \in Nat |-> G(n)[n]]
<1>3. ASSUME NEW n \in Nat PROVE G(n) \in [0 .. n -> Nat] /\ Doubles(G(n), n)
    <2>1. \E g \in [0 .. n -> Nat] : Doubles(g, n)
        BY <1>1
    <2> HIDE DEF Doubles
    <2> QED BY <2>1, Zenon
<1>4. ASSUME NEW n \in Nat PROVE f[n] = IF n = 0 THEN 1 ELSE 2 * f[n - 1]
    <2> HIDE DEF G
    <2>1. CASE n = 0
        BY <1>3, <2>1
    <2>2. CASE n # 0
        <3>1. n - 1 \in Nat /\ Doubles(G(n), n) /\ Doubles(G(n - 1), n - 1)
            <4>1. n - 1 \in Nat
                BY <2>2
            <4> HIDE DEF Doubles
            <4> QED BY <1>3, <4>1
        <3>2. Doubles(G(n), n - 1)
            BY <3>1
        <3>3. G(n)[n - 1] = G(n - 1)[n - 1]
            BY <1>2, <3>1, <3>2
        <3>4. G(n)[n] = 2 * G(n)[n - 1]
            BY <3>1, <2>2
        <3> QED BY <2>2, <3>1, <3>3, <3>4
    <2> QED BY <2>1, <2>2
<1>5. f = [n \in Nat |-> IF n = 0 THEN 1 ELSE 2 * f[n - 1]]
    <2> HIDE DEF f
    <2>1. f = [n \in Nat |-> f[n]]
        BY DEF f
    <2> QED BY <1>4, <2>1
<1>6. \E g : g = [n \in Nat |-> IF n = 0 THEN 1 ELSE 2 * g[n - 1]]
    <2> HIDE DEF f
    <2> QED BY <1>5
<1> QED BY <1>6, Zenon DEF PowerOfTwo

LEMMA Powers ==
    /\ PowerOfTwo[0] = 1
    /\ \A n \in Nat : PowerOfTwo[n] \in Nat \ {0} /\ PowerOfTwo[n + 1] = 2 * PowerOfTwo[n]
<1>1. PowerOfTwo[0] = 1
    BY Doubling
<1>2. \A n \in Nat : PowerOfTwo[n + 1] = 2 * PowerOfTwo[n]
    BY Doubling
<1> DEFINE S == {n \in Nat : PowerOfTwo[n] \in Nat \ {0}}
<1>3. 0 \in S /\ \A n \in Nat : n \in S => n + 1 \in S
    BY <1>1, <1>2
<1>4. Nat \subseteq S
    <2> HIDE DEF S
    <2> QED BY <1>3, Induction
<1> QED BY <1>1, <1>2, <1>4

LEMMA PowersMultiply ==
    ASSUME NEW m \in Nat, NEW n \in Nat
    PROVE  PowerOfTwo[m + n] = PowerOfTwo[m] * PowerOfTwo[n]
<1> DEFINE S == {k \in Nat : PowerOfTwo[m + k] = PowerOfTwo[m] * PowerOfTwo[k]}
<1>1. 0 \in S
    BY Powers
<1>2. ASSUME NEW k \in Nat, k \in S PROVE k + 1 \in S
    <2>1. PowerOfTwo[(m + k) + 1] = 2 * PowerOfTwo[m + k] /\ PowerOfTwo[k + 1] = 2 * PowerOfTwo[k]
        BY Powers
    <2>2. (m + k) + 1 = m + (k + 1)
        OBVIOUS
    <2>3. PowerOfTwo[m] \in Nat /\ PowerOfTwo[k] \in Nat
        BY Powers
    <2> QED BY <1>2, <2>1, <2>2, <2>3
<1>3. Nat \subseteq S
    <2> HIDE DEF S
    <2> QED BY <1>1, <1>2, Induction
<1> QED BY <1>3

-----------------------------------------------------------------------------
(* The machine's integers.                                                   *)
Top == PowerOfTwo[Width - 1]

LEMMA Tops ==
    /\ Width - 1 \in Nat /\ Top \in Nat \ {0}
    /\ PowerOfTwo[Width] = 2 * Top
<1>1. Width - 1 \in Nat /\ (Width - 1) + 1 = Width
    BY RetryConstants
<1> QED BY <1>1, Powers DEF Top

LEMMA WrapTyped ==
    ASSUME NEW x \in Int
    PROVE  /\ Wrap(x) \in Int
           /\ \E q \in Int : Wrap(x) = x - q * (2 * Top)
<1> DEFINE m == 2 * Top
<1>1. m \in Nat /\ m > 0 /\ Top \in Nat
    BY Tops
<1>2. Wrap(x) = ((x + Top) % m) - Top
    BY Tops DEF Wrap, Top
<1> HIDE DEF m
<1>3. \A y \in Int : \E q \in Int : y % m = y - m * q
    BY <1>1
<1>4. PICK q \in Int : (x + Top) % m = (x + Top) - m * q
    BY <1>1, <1>3
<1>5. Wrap(x) = x - q * m
    BY <1>1, <1>2, <1>4
<1> QED BY <1>1, <1>5 DEF m

LEMMA WrapFits ==
    ASSUME NEW x \in Nat, x < Top
    PROVE  Wrap(x) = x
<1> DEFINE m == 2 * Top
<1>1. m \in Nat /\ m > 0 /\ Top \in Nat /\ x + Top < m
    BY Tops
<1>2. Wrap(x) = ((x + Top) % m) - Top
    BY Tops DEF Wrap, Top
<1> HIDE DEF m
<1>3. \A y \in Nat : y < m => y % m = y
    BY <1>1
<1> QED BY <1>1, <1>2, <1>3

(* A shift that leaves the integers and comes back positive has only the     *)
(* bits above the shift.                                                     *)
LEMMA ShiftWraps ==
    ASSUME NEW b \in Nat, NEW n \in Nat, n < Width - 1, Shifted(b, n) > 0
    PROVE  Shifted(b, n) >= PowerOfTwo[n]
<1> DEFINE u == PowerOfTwo[n]
           v == PowerOfTwo[Width - n]
<1>1. Width - n \in Nat /\ Width = n + (Width - n)
    BY RetryConstants
<1>2. u \in Nat \ {0} /\ v \in Nat
    BY <1>1, Powers
<1>3. 2 * Top = u * v
    BY <1>1, PowersMultiply, Tops
<1> HIDE DEF u, v
<1>4. b * u \in Int
    BY <1>2
<1>5. PICK q \in Int : Wrap(b * u) = b * u - q * (u * v)
    BY <1>3, <1>4, WrapTyped
<1>6. Shifted(b, n) = Wrap(b * u)
    BY DEF Shifted, u
<1>7. b * u - q * (u * v) = u * (b - q * v)
    BY <1>2
<1> DEFINE k == b - q * v
<1>8. k \in Int /\ u * k > 0
    BY <1>2, <1>5, <1>6, <1>7
<1>9. Shifted(b, n) = u * k
    BY <1>5, <1>6, <1>7
<1> HIDE DEF k
<1>10. k >= 1
    BY <1>2, <1>8
<1>11. u * k >= u
    BY <1>2, <1>8, <1>10
<1> QED BY <1>9, <1>11 DEF u

(* What a delay may be, for any policy and any random number.                *)
LEMMA DelayBounds ==
    ASSUME NEW p \in Policies, NEW n \in Nat, NEW t \in delay(p, n)
    PROVE  /\ t <= p.MaxDelay
           /\ Sane(p) => t >= Backoff(p, n)
<1> DEFINE exp == Shifted(p.BaseDelay, n)
           d == IF n < Width - 1 /\ exp > 0 /\ exp < p.MaxDelay THEN exp ELSE p.MaxDelay
           x(extra) == Wrap(d + extra)
<1>1. p.BaseDelay \in Nat /\ p.MaxDelay \in Nat /\ p.Jitter \in Nat
    BY RetryConstants
<1>2. PowerOfTwo[n] \in Nat \ {0} /\ Top \in Nat
    BY Powers, Tops
<1>3. exp \in Int
    BY <1>1, <1>2, WrapTyped DEF Shifted
<1>4. PICK extra \in Extra(d, p.Jitter) : t = IF x(extra) > p.MaxDelay THEN p.MaxDelay ELSE x(extra)
    BY DEF delay
<1>5. d \in Nat /\ d <= p.MaxDelay
    <2> HIDE DEF exp
    <2> QED BY <1>1, <1>3
<1> HIDE DEF d
<1>6. extra \in Nat /\ extra <= (d * p.Jitter) \div 100
    <2>1. d * p.Jitter \in Nat
        BY <1>1, <1>5
    <2> QED BY <2>1 DEF Extra
<1>7. x(extra) \in Int
    BY <1>5, <1>6, WrapTyped
<1>8. t <= p.MaxDelay
    <2> HIDE DEF x
    <2> QED BY <1>1, <1>4, <1>7
<1>9. ASSUME Sane(p) PROVE t >= Backoff(p, n)
    <2>1. x(extra) = d + extra
        <3>1. d * p.Jitter <= p.MaxDelay * p.Jitter
            BY <1>1, <1>5
        <3>2. (d * p.Jitter) \div 100 <= (p.MaxDelay * p.Jitter) \div 100
            <4>1. \A i, j \in Nat : i <= j => i \div 100 <= j \div 100
                OBVIOUS
            <4>2. d * p.Jitter \in Nat /\ p.MaxDelay * p.Jitter \in Nat
                BY <1>1, <1>5
            <4> QED BY <3>1, <4>1, <4>2
        <3>3. p.MaxDelay + (p.MaxDelay * p.Jitter) \div 100 < Top
            BY <1>9 DEF Sane, Top
        <3>4. (d * p.Jitter) \div 100 \in Nat /\ (p.MaxDelay * p.Jitter) \div 100 \in Nat
            <4>1. \A i \in Nat : i \div 100 \in Nat
                OBVIOUS
            <4>2. d * p.Jitter \in Nat /\ p.MaxDelay * p.Jitter \in Nat
                BY <1>1, <1>5
            <4> QED BY <4>1, <4>2
        <3>5. d + extra \in Nat /\ d + extra < Top
            BY <1>1, <1>2, <1>5, <1>6, <3>2, <3>3, <3>4
        <3> QED BY <3>5, WrapFits
    <2>2. d >= Backoff(p, n)
        <3> DEFINE full == p.BaseDelay * PowerOfTwo[n]
        <3>1. full \in Nat /\ Backoff(p, n) = IF full < p.MaxDelay THEN full ELSE p.MaxDelay
            BY <1>1, <1>2 DEF Backoff
        <3>2. CASE ~(n < Width - 1 /\ exp > 0 /\ exp < p.MaxDelay)
            BY <1>1, <3>1, <3>2 DEF d
        <3>3. CASE (n < Width - 1 /\ exp > 0 /\ exp < p.MaxDelay) /\ full < Top
            <4>1. exp = full
                BY <3>1, <3>3, WrapFits DEF Shifted
            <4>2. d = exp
                BY <3>3 DEF d
            <4> QED BY <1>1, <3>1, <4>1, <4>2
        <3>4. CASE (n < Width - 1 /\ exp > 0 /\ exp < p.MaxDelay) /\ full >= Top
            <4>1. exp >= PowerOfTwo[n]
                BY <1>1, <3>4, ShiftWraps
            <4>2. p.BaseDelay * p.MaxDelay <= p.BaseDelay * PowerOfTwo[n] /\ p.BaseDelay > 0
                BY <1>1, <1>2, <1>9, <3>1, <3>4 DEF Sane, Top
            <4>3. p.MaxDelay <= PowerOfTwo[n]
                BY <1>1, <1>2, <4>2
            <4> HIDE DEF exp
            <4> QED BY <1>1, <1>2, <1>3, <3>4, <4>1, <4>3
        <3>5. full < Top \/ full >= Top
            BY <1>2, <3>1
        <3> QED BY <3>2, <3>3, <3>4, <3>5
    <2>3. Backoff(p, n) \in Nat /\ Backoff(p, n) <= p.MaxDelay
        <3> DEFINE full == p.BaseDelay * PowerOfTwo[n]
        <3>1. full \in Nat /\ Backoff(p, n) = IF full < p.MaxDelay THEN full ELSE p.MaxDelay
            BY <1>1, <1>2 DEF Backoff
        <3> QED BY <1>1, <3>1
    <2> HIDE DEF x
    <2> QED BY <1>1, <1>4, <1>5, <1>6, <1>7, <2>1, <2>2, <2>3
<1> QED BY <1>8, <1>9

-----------------------------------------------------------------------------
USE ShadowConstants

Statement == {"idle", "write", "inject", "commit", "backoff"}

WritersTyped ==
    /\ embedded \in BOOLEAN
    /\ kind \in [Writer -> {"update", "stage", "ensure"}]
    /\ input \in [Writer -> Text \cup {NoText}]
    /\ pc \in [Writer -> Statement]
    /\ outcome \in [Writer -> {"none", "ok", "error", "aborted"}]

(* A call has no result before it returns, ...                               *)
Pending == \A w \in Writer : pc[w] # "idle" => outcome[w] = "none"

(* ... one that is not crowded is the only one, ...                          *)
Solitary ==
    \A w \in Writer \ crowded : pc[w] # "idle" => \A v \in Writer \ {w} : pc[v] = "idle"

(* ... and on the embedded engine it finds in the store what it wrote.       *)
OwnText ==
    embedded => \A w \in Writer \ crowded :
        kind[w] = "update" /\ input[w] # NoText =>
            /\ pc[w] \in {"inject", "commit"} => text = input[w]
            /\ pc[w] = "commit" => vector = VectorOf(input[w])

Inv == WritersTyped /\ Pending /\ Solitary /\ OwnText /\ ClusterAgrees

(* WithRetry counts its retries up to the policy's last, and gives up there. *)
Counted ==
    /\ policy \in Policies
    /\ attempt \in [Writer -> Nat]
    /\ \A w \in Writer :
          /\ attempt[w] <= maxRetries(policy)
          /\ pc[w] = "backoff" => attempt[w] < maxRetries(policy)
          /\ outcome[w] = "aborted" => attempt[w] = maxRetries(policy)

(* What AloneAgrees says of a step. *)
Agrees ==
    \A w \in Writer \ crowded :
        pc[w] # "idle" /\ kind[w] = "update" =>
           IF input[w] = NoText THEN UNCHANGED <<text, vector>>
           ELSE pc[w] = "commit" /\ outcome'[w] = "ok" =>
                   text' = input[w] /\ vector' = VectorOf(input[w])

-----------------------------------------------------------------------------
LEMMA Initially == Init => Inv
<1> SUFFICES ASSUME Init PROVE Inv
  OBVIOUS
<1>1. WritersTyped
  BY DEF Init, WritersTyped, Statement
<1>2. Pending /\ Solitary /\ OwnText
  BY DEF Init, Pending, Solitary, OwnText
<1>3. ClusterAgrees
  BY DEF Init, ClusterAgrees, VectorOf
<1> QED  BY <1>1, <1>2, <1>3 DEF Inv

LEMMA BeginStep ==
    ASSUME Inv, NEW w \in Writer, Begin(w)
    PROVE  Inv' /\ Agrees
<1> USE DEF Inv
<1>1. /\ pc[w] = "idle" /\ pc' = [pc EXCEPT ![w] = "write"]
      /\ \E k \in {"update", "stage", "ensure"}, t \in Text \cup {NoText} :
            kind' = [kind EXCEPT ![w] = k] /\ input' = [input EXCEPT ![w] = t]
      /\ outcome' = [outcome EXCEPT ![w] = "none"]
      /\ crowded' = IF Active = {} THEN crowded \ {w} ELSE crowded \cup Active \cup {w}
      /\ UNCHANGED <<embedded, text, vector, bare>>
  BY DEF Begin, Goto, settings, record
<1>2. /\ pc'[w] = "write" /\ outcome'[w] = "none"
      /\ \A v \in Writer \ {w} : /\ pc'[v] = pc[v] /\ kind'[v] = kind[v]
                                /\ input'[v] = input[v] /\ outcome'[v] = outcome[v]
  BY <1>1 DEF WritersTyped
<1>3. WritersTyped'
  BY <1>1 DEF WritersTyped, Statement
<1>4. Pending'
  BY <1>2 DEF Pending
<1>5. \A v \in Writer \ crowded' : v # w => pc[v] = "idle"
  BY <1>1 DEF Active
<1>6. Solitary'
  BY <1>1, <1>2, <1>5 DEF Solitary, Active
<1>7. OwnText'
  BY <1>1, <1>2, <1>5 DEF OwnText
<1>8. ClusterAgrees' /\ Agrees
  BY <1>1, <1>2 DEF ClusterAgrees, Agrees, Pending, VectorOf
<1> QED  BY <1>3, <1>4, <1>6, <1>7, <1>8

(* What every step of a call leaves alone. *)
LEMMA OthersStay ==
    ASSUME Inv, NEW w \in Writer, Step(w)
    PROVE  /\ UNCHANGED <<embedded, kind, input, crowded>>
           /\ pc[w] # "idle" /\ WritersTyped' /\ Pending' /\ Solitary'
           /\ \A v \in Writer \ {w} : pc'[v] = pc[v] /\ outcome'[v] = outcome[v]
<1> USE DEF Inv
<1>1. UNCHANGED <<embedded, kind, input, crowded>> /\ pc[w] # "idle"
  BY DEF Step, Write, Inject, Commit, Abort, Wait, settings, call
<1>2. \/ \E s \in {"write", "inject", "commit", "backoff"} : Goto(w, s) /\ UNCHANGED outcome
      \/ \E result \in {"ok", "error", "aborted"} : Ends(w, result)
  BY DEF Step, Write, Inject, Commit, Abort, Wait
<1>3. \E s \in Statement, result \in {"none", "ok", "error", "aborted"} :
          /\ pc' = [pc EXCEPT ![w] = s] /\ outcome' = [outcome EXCEPT ![w] = result]
          /\ s # "idle" => result = "none"
  <2>1. ASSUME NEW s \in {"write", "inject", "commit", "backoff"}, Goto(w, s), UNCHANGED outcome
        PROVE  /\ pc' = [pc EXCEPT ![w] = s] /\ outcome' = [outcome EXCEPT ![w] = "none"]
               /\ s \in Statement
    BY <1>1, <2>1 DEF Goto, WritersTyped, Pending, Statement
  <2>2. ASSUME NEW result \in {"ok", "error", "aborted"}, Ends(w, result)
        PROVE  /\ pc' = [pc EXCEPT ![w] = "idle"] /\ outcome' = [outcome EXCEPT ![w] = result]
               /\ "idle" \in Statement
    BY <2>2 DEF Ends, Goto, Statement
  <2> QED  BY <1>2, <2>1, <2>2
<1>4. WritersTyped'
  BY <1>1, <1>3 DEF WritersTyped
<1>5. \A v \in Writer \ {w} : pc'[v] = pc[v] /\ outcome'[v] = outcome[v]
  BY <1>3 DEF WritersTyped
<1>6. Pending'
  BY <1>3, <1>5 DEF WritersTyped, Pending
<1>7. Solitary'
  BY <1>1, <1>5 DEF Solitary
<1> QED  BY <1>1, <1>4, <1>5, <1>6, <1>7

LEMMA CallStep ==
    ASSUME Inv, NEW w \in Writer, Step(w)
    PROVE  Inv' /\ Agrees
<1> USE DEF Inv
<1>1. /\ UNCHANGED <<embedded, kind, input, crowded>>
      /\ pc[w] # "idle" /\ WritersTyped' /\ Pending' /\ Solitary'
      /\ \A v \in Writer \ {w} : pc'[v] = pc[v] /\ outcome'[v] = outcome[v]
  BY OthersStay
<1>2. \A v \in Writer \ crowded : v # w => pc[v] = "idle"
  BY <1>1 DEF Solitary
<1>3. CASE Write(w)
  <2>1. /\ pc[w] = "write" /\ pc'[w] \in {"idle", "inject", "commit"}
        /\ pc'[w] = "commit" => kind[w] # "update"
        /\ UNCHANGED record \/ (embedded /\ SetText(w))
        /\ embedded /\ pc'[w] # "idle" => SetText(w)
    BY <1>3 DEF Write, Goto, Ends, WritersTyped
  <2>2. OwnText'
    BY <1>1, <1>2, <2>1 DEF OwnText, SetText
  <2>3. ClusterAgrees' /\ Agrees
    BY <1>1, <1>2, <2>1 DEF ClusterAgrees, Agrees, SetText, record, VectorOf
  <2> QED  BY <1>1, <2>2, <2>3
<1>4. CASE Inject(w)
  <2>1. /\ pc[w] = "inject" /\ pc'[w] \in {"idle", "commit"}
        /\ UNCHANGED record \/ (embedded /\ input[w] # NoText /\ SetVector(w))
        /\ embedded /\ pc'[w] = "commit" /\ input[w] # NoText => SetVector(w)
    BY <1>4 DEF Inject, Goto, Ends, WritersTyped
  <2>2. OwnText'
    BY <1>1, <1>2, <2>1 DEF OwnText, SetVector
  <2>3. ClusterAgrees' /\ Agrees
    BY <1>1, <1>2, <2>1 DEF ClusterAgrees, Agrees, SetVector, record, VectorOf
  <2> QED  BY <1>1, <2>2, <2>3
<1>5. CASE Commit(w)
  <2>1. /\ pc[w] = "commit" /\ pc'[w] = "idle"
        /\ UNCHANGED record \/ (~embedded /\ Land(w))
        /\ ~embedded /\ outcome'[w] = "ok" => Land(w)
    BY <1>5 DEF Commit, Goto, Ends, WritersTyped
  <2>2. OwnText'
    BY <1>1, <1>2, <2>1 DEF OwnText
  <2>3. ClusterAgrees'
    BY <1>1, <2>1 DEF ClusterAgrees, Land, record, VectorOf
  <2>4. Agrees
    BY <1>1, <1>2, <2>1 DEF Agrees, OwnText, Land, record
  <2> QED  BY <1>1, <2>2, <2>3, <2>4
<1>6. CASE Abort(w) \/ Wait(w)
  <2>1. UNCHANGED record /\ pc'[w] \in {"idle", "backoff", "write"}
        /\ (pc[w] = "commit" => outcome'[w] # "ok")
    BY <1>6 DEF Abort, Wait, Goto, Ends, WritersTyped, Pending
  <2>2. OwnText'
    BY <1>1, <1>2, <2>1 DEF OwnText
  <2>3. ClusterAgrees' /\ Agrees
    BY <1>1, <1>2, <2>1 DEF ClusterAgrees, Agrees, record, VectorOf
  <2> QED  BY <1>1, <2>2, <2>3
<1> QED  BY <1>3, <1>4, <1>5, <1>6 DEF Step

LEMMA Inductive == Inv /\ [Next]_vars => Inv' /\ (Agrees \/ UNCHANGED vars)
<1> SUFFICES ASSUME Inv, [Next]_vars PROVE Inv' /\ (Agrees \/ UNCHANGED vars)
  OBVIOUS
<1>1. CASE Next
  BY <1>1, BeginStep, CallStep DEF Next
<1>2. CASE UNCHANGED vars
  BY <1>2
  DEF vars, settings, record, call, Inv, WritersTyped, Pending, Solitary, OwnText,
      ClusterAgrees, VectorOf
<1> QED  BY <1>1, <1>2

(* On a cluster no reader ever sees a text with the vector of another        *)
(* (process injects the vectors before the commit), whatever is retried.     *)
THEOREM ClusterVectorsAgree == Spec => []ClusterAgrees
<1>1. Inv => ClusterAgrees
  BY DEF Inv
<1>2. Inv /\ [Next]_vars => Inv'
  BY Inductive
<1> QED  BY Initially, <1>1, <1>2, PTL DEF Spec

(* An Update nobody overlaps leaves its own text and vector when it returns  *)
(* nil, and nothing when its field is not set (injectShadowVectors).         *)
THEOREM LoneUpdatesAgree == Spec => AloneAgrees
<1>1. Inv /\ [Next]_vars => Inv'
  BY Inductive
<1>2. Inv /\ [Next]_vars => [Agrees]_vars
  BY Inductive
<1> QED  BY Initially, <1>1, <1>2, PTL DEF Spec, AloneAgrees, Agrees

LEMMA CountedStep ==
    ASSUME Inv, Counted, [Next]_vars
    PROVE  Counted'
<1> USE DEF Inv
<1>1. maxRetries(policy) \in Nat
    BY RetryConstants DEF Counted, maxRetries
<1>2. ASSUME NEW w \in Writer, Begin(w) PROVE Counted'
    <2>1. /\ policy' = policy /\ attempt' = [attempt EXCEPT ![w] = 0]
          /\ pc' = [pc EXCEPT ![w] = "write"] /\ outcome' = [outcome EXCEPT ![w] = "none"]
        BY <1>2 DEF Begin, Goto, settings
    <2> QED BY <1>1, <2>1 DEF Counted, WritersTyped
<1>3. ASSUME NEW w \in Writer, Step(w) PROVE Counted'
    <2>1. /\ UNCHANGED policy /\ pc[w] # "idle" /\ outcome[w] = "none"
          /\ \A v \in Writer \ {w} : pc'[v] = pc[v] /\ outcome'[v] = outcome[v]
        BY <1>3, OthersStay DEF Pending, Step, Write, Inject, Commit, Abort, Wait, settings
    <2>2. CASE Write(w) \/ Inject(w) \/ Commit(w)
        <3>1. attempt' = attempt /\ pc'[w] # "backoff" /\ outcome'[w] # "aborted"
            BY <2>1, <2>2 DEF Write, Inject, Commit, Ends, Goto, WritersTyped
        <3> QED BY <2>1, <3>1 DEF Counted
    <2>3. CASE Abort(w)
        <3>1. /\ attempt' = attempt
              /\ \/ /\ attempt[w] < maxRetries(policy)
                    /\ outcome'[w] = "none"
                 \/ ~(attempt[w] < maxRetries(policy)) /\ pc'[w] = "idle"
            BY <2>1, <2>3 DEF Abort, Ends, Goto, WritersTyped
        <3> QED BY <1>1, <2>1, <3>1 DEF Counted
    <2>4. CASE Wait(w)
        <3>1. /\ pc[w] = "backoff" /\ pc'[w] # "backoff" /\ outcome'[w] # "aborted"
              /\ attempt' = attempt \/ attempt' = [attempt EXCEPT ![w] = attempt[w] + 1]
            BY <2>1, <2>4 DEF Wait, Ends, Goto, WritersTyped
        <3> QED BY <1>1, <2>1, <3>1 DEF Counted
    <2> QED BY <1>3, <2>2, <2>3, <2>4 DEF Step
<1>4. CASE UNCHANGED vars
    BY <1>4 DEF vars, settings, Counted
<1> QED BY <1>2, <1>3, <1>4 DEF Next

(* RetriesBackOff: WithRetry gives up only after the policy's last retry,    *)
(* and no wait is longer than the cap or, for a policy that stays within     *)
(* the integers, shorter than the exponential backoff (delay).               *)
THEOREM WaitsBackOff == Spec => []RetriesBackOff
<1>1. Init => Counted
    <2>1. \A p \in Policies : maxRetries(p) \in Nat
        BY RetryConstants DEF maxRetries
    <2> QED BY <2>1 DEF Init, Counted
<1>2. Inv /\ Counted /\ [Next]_vars => Inv' /\ Counted'
    BY Inductive, CountedStep
<1>3. Counted => RetriesBackOff
    <2> SUFFICES ASSUME Counted, NEW w \in Writer
                 PROVE  /\ outcome[w] = "aborted" => attempt[w] = maxRetries(policy)
                        /\ \A d \in delay(policy, attempt[w]) :
                              /\ d <= policy.MaxDelay
                              /\ Sane(policy) => d >= Backoff(policy, attempt[w])
        BY DEF RetriesBackOff
    <2>1. policy \in Policies /\ attempt[w] \in Nat
        BY DEF Counted
    <2> QED BY <2>1, DelayBounds DEF Counted
<1> QED BY Initially, <1>1, <1>2, <1>3, PTL DEF Spec
=============================================================================
