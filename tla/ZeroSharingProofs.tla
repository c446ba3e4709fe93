-------------------------- MODULE ZeroSharingProofs --------------------------
(* Proofs about ZeroSharing: with the locks that the calls of an engine take *)
(* no identifier leaves zero twice and the store covers every one, for any   *)
(* lease sizes, statement by statement and across crashes; and for           *)
(* timestamps and namespaces the first holds under a live load too.          *)
EXTENDS ZeroSharing, SequenceTheorems, TLAPS

(* Namespaces are created one at a time: two CreateNamespace do not exclude  *)
(* each other.                                                               *)
Locked == \A g, h \in Shared : g = h

Locking == Exclusive \cup Shared

Kind == {"UID", "Ts"}
AnyKind == {"UID", "Ts", "Ns"}
Bounds == [max : [Kind -> Nat], ns : Nat]
Counters == [min : [Kind -> Nat], max : [Kind -> Nat], ns : Nat]
Statement == {"begin", "lease", "marshal", "commit", "read", "increment", "loop", "return"}

SharingTyped ==
    /\ z \in Counters /\ zs \in Bounds
    /\ calls \in [Goroutine -> Seq(AnyKind)]
    /\ at \in [Goroutine -> Statement]
    /\ seen \in [Goroutine -> Nat]
    /\ snapshot \in [Goroutine -> Bounds]
    /\ issued \in [AnyKind -> SUBSET Nat]

-----------------------------------------------------------------------------
(* First, while no data is loaded.  Zero between two calls: the store holds  *)
(* its bounds, and everything handed out is below its counters.              *)
InStep == zs.max = z.max /\ zs.ns = z.ns
Ordered(k) == z.min[k] <= z.max[k] /\ \A id \in issued[k] : id < z.min[k]
NamespacesOrdered == \A id \in issued["Ns"] : id <= z.ns
AtRest == InStep /\ Ordered("UID") /\ Ordered("Ts") /\ NamespacesOrdered

(* In a call of g the counter may be ahead of what was handed out by the one *)
(* identifier that g is to return.                                           *)
TookUID(g) ==
    /\ z.min["UID"] = seen[g] + 1 /\ seen[g] <= z.max["UID"]
    /\ \A id \in issued["UID"] : id < seen[g]
TookNamespace(g) ==
    /\ z.ns = seen[g] + 1
    /\ \A id \in issued["Ns"] : id <= seen[g]

InNextTs(g) ==
    /\ Ordered("UID") /\ Ordered("Ts") /\ NamespacesOrdered
    /\ at[g] \in {"begin", "lease", "marshal", "commit", "read", "increment"}
    /\ at[g] \notin {"begin", "lease"} => z.min["Ts"] < z.max["Ts"]
    /\ at[g] = "increment" => seen[g] = z.min["Ts"]

InNextUIDs(g) ==
    /\ Ordered("Ts") /\ NamespacesOrdered
    /\ at[g] \in {"begin", "increment", "loop", "lease", "marshal", "commit"}
    /\ IF at[g] \in {"begin", "increment"} THEN Ordered("UID") ELSE TookUID(g)
    /\ at[g] = "increment" => seen[g] = z.min["UID"]

InNextNamespace(g) ==
    /\ Ordered("UID") /\ Ordered("Ts")
    /\ at[g] \in {"begin", "increment", "marshal", "commit", "return"}
    /\ IF at[g] \in {"begin", "increment"} THEN NamespacesOrdered ELSE TookNamespace(g)
    /\ at[g] = "increment" => seen[g] = z.ns

InCall(g) ==
    /\ Head(calls[g]) = "Ts" => InNextTs(g)
    /\ Head(calls[g]) = "UID" => InNextUIDs(g)
    /\ Head(calls[g]) = "Ns" => InNextNamespace(g)
    /\ at[g] \notin {"marshal", "commit"} => InStep
    /\ at[g] = "commit" => snapshot[g] = ZeroStateOf(z)

BoundsCover ==
    /\ \A k \in {"UID", "Ts"} : \A id \in issued[k] : id < zs.max[k]
    /\ \A id \in issued["Ns"] : id <= zs.ns

OneAtATime ==
    \A g, h \in Goroutine : calls[g] # << >> /\ calls[h] # << >> => g = h

SharingInv ==
    /\ SharingTyped /\ BoundsCover /\ twice = {} /\ OneAtATime
    /\ \A g \in Unlocked : calls[g] = << >>
    /\ (\A g \in Goroutine : calls[g] = << >>) => AtRest
    /\ \A g \in Goroutine : calls[g] # << >> => InCall(g)
-----------------------------------------------------------------------------
(* What a lease and a new zero do to the counters.                           *)
LEMMA LeasedCounters ==
    ASSUME NEW zz \in Counters, NEW k \in Kind
    PROVE  /\ Leased(zz, k) \in Counters
           /\ Leased(zz, k).min = zz.min /\ Leased(zz, k).ns = zz.ns
           /\ \A j \in Kind \ {k} : Leased(zz, k).max[j] = zz.max[j]
           /\ Leased(zz, k).max[k] >= zz.max[k]
           /\ Leased(zz, k).max[k] > zz.min[k]
<1>1. LeaseAtATime[k] \in Nat \ {0}
    BY SharingConstants DEF LeaseAtATime, Kind
<1>2. zz.min[k] \in Nat /\ zz.max[k] \in Nat /\ zz.max \in [Kind -> Nat]
    BY DEF Counters
<1> DEFINE sum == zz.max[k] + (zz.min[k] + LeaseAtATime[k])
<1>3. sum \in Nat /\ sum >= zz.max[k] /\ sum > zz.min[k]
    BY <1>1, <1>2
<1>4. Leased(zz, k) = [zz EXCEPT !.max = [zz.max EXCEPT ![k] = sum]]
    BY <1>1, <1>2 DEF Leased
<1> HIDE DEF sum
<1>5. [zz.max EXCEPT ![k] = sum] \in [Kind -> Nat]
    BY <1>2, <1>3
<1> QED BY <1>2, <1>3, <1>4, <1>5 DEF Counters

LEMMA NewZeroCounters ==
    ASSUME NEW s \in Bounds
    PROVE  /\ NewZero(s) \in Counters
           /\ NewZero(s).min = s.max /\ NewZero(s).ns = s.ns
           /\ \A k \in Kind : NewZero(s).max[k] >= s.max[k]
<1> DEFINE zero == [min |-> s.max, max |-> s.max, ns |-> s.ns]
           one == Leased(zero, "UID")
<1>1. zero \in Counters /\ "UID" \in Kind /\ "Ts" \in Kind
    BY DEF Counters, Bounds, Kind
<1>2. zero.min = s.max /\ zero.max = s.max /\ zero.ns = s.ns
    OBVIOUS
<1> HIDE DEF zero
<1>3. /\ one \in Counters /\ one.min = s.max /\ one.ns = s.ns
      /\ one.max["Ts"] = s.max["Ts"] /\ one.max["UID"] >= s.max["UID"]
    BY <1>1, <1>2, LeasedCounters DEF Kind
<1> HIDE DEF one
<1>4. /\ Leased(one, "Ts") \in Counters
      /\ Leased(one, "Ts").min = s.max /\ Leased(one, "Ts").ns = s.ns
      /\ Leased(one, "Ts").max["UID"] >= s.max["UID"]
      /\ Leased(one, "Ts").max["Ts"] >= s.max["Ts"]
    BY <1>1, <1>3, LeasedCounters DEF Kind
<1> QED BY <1>4 DEF NewZero, one, zero, Kind

(* The bounds of a zero are what it writes. *)
LEMMA BoundsOf ==
    ASSUME NEW zz \in Counters
    PROVE  /\ ZeroStateOf(zz) \in Bounds
           /\ ZeroStateOf(zz).max = zz.max /\ ZeroStateOf(zz).ns = zz.ns
BY DEF ZeroStateOf, Counters, Bounds

(* A call has done its first statements in whatever state zero rests.        *)
LEMMA RestBegins ==
    ASSUME NEW g \in Goroutine, AtRest, at[g] = "begin"
    PROVE  InCall(g)
BY DEF AtRest, InCall, InNextTs, InNextUIDs, InNextNamespace

-----------------------------------------------------------------------------
(* A statement of the only goroutine in a call, within the call ...          *)
LEMMA Proceeds ==
    ASSUME SharingInv, NEW g \in Goroutine, calls[g] # << >>, NEW s \in Statement,
           Goto(g, s), Nothing,
           z' \in Counters, zs' \in Bounds,
           seen' \in [Goroutine -> Nat], snapshot' \in [Goroutine -> Bounds],
           BoundsCover', InCall(g)'
    PROVE  SharingInv'
<1>1. SharingTyped'
    BY DEF SharingInv, SharingTyped, Goto, Nothing
<1>2. twice' = {} /\ OneAtATime'
    BY DEF SharingInv, OneAtATime, Goto, Nothing
<1>3. \A h \in Goroutine : calls'[h] # << >> => h = g
    BY DEF SharingInv, OneAtATime, Goto
<1>4. \A h \in Unlocked : calls'[h] = << >>
    BY DEF SharingInv, Goto
<1> QED BY <1>1, <1>2, <1>3, <1>4 DEF SharingInv, Goto

(* ... and its last one, in which the identifier is handed out.              *)
LEMMA Returns ==
    ASSUME SharingInv, NEW g \in Goroutine, calls[g] # << >>,
           NEW k \in AnyKind, NEW id \in Nat, id \notin issued[k], Return(g, k, id),
           UNCHANGED <<zs, seen, snapshot>>, z' \in Counters,
           AtRest', BoundsCover'
    PROVE  SharingInv'
<1>1. /\ issued' \in [AnyKind -> SUBSET Nat]
      /\ at' \in [Goroutine -> Statement] /\ at'[g] = "begin"
    BY DEF SharingInv, SharingTyped, Return, Statement
<1>2. /\ calls' \in [Goroutine -> Seq(AnyKind)]
      /\ \A h \in Goroutine \ {g} : calls'[h] = calls[h]
    <2>1. Tail(calls[g]) \in Seq(AnyKind)
        BY HeadTailProperties DEF SharingInv, SharingTyped
    <2> QED BY <2>1 DEF SharingInv, SharingTyped, Return
<1>3. SharingTyped'
    BY <1>1, <1>2 DEF SharingInv, SharingTyped
<1>4. \A h \in Goroutine : calls'[h] # << >> => h = g
    BY <1>2 DEF SharingInv, OneAtATime
<1>5. twice' = {} /\ OneAtATime'
    BY <1>4 DEF SharingInv, OneAtATime, Return
<1>6. InCall(g)'
    BY <1>1, RestBegins DEF AtRest, InCall, InNextTs, InNextUIDs, InNextNamespace
<1>7. \A h \in Unlocked : calls'[h] = << >>
    BY <1>2 DEF SharingInv, Goroutine
<1> QED BY <1>3, <1>4, <1>5, <1>6, <1>7 DEF SharingInv

LEMMA Typing ==
    ASSUME SharingInv, NEW g \in Goroutine
    PROVE  /\ z \in Counters /\ zs \in Bounds
           /\ z.min \in [Kind -> Nat] /\ z.max \in [Kind -> Nat] /\ z.ns \in Nat
           /\ seen[g] \in Nat /\ snapshot[g] \in Bounds
           /\ seen \in [Goroutine -> Nat] /\ snapshot \in [Goroutine -> Bounds]
           /\ at \in [Goroutine -> Statement]
           /\ issued \in [AnyKind -> SUBSET Nat]
           /\ BoundsCover
BY DEF SharingInv, SharingTyped, Counters

(* The lease, the snapshot and the commit, which the three calls share.      *)
LEMMA LeaseSafe ==
    ASSUME SharingInv, NEW g \in Goroutine, NEW k \in Kind,
           NEW covered \in {"read", "loop"}, k = "Ts" <=> covered = "read",
           LeaseStep(g, k, covered)
    PROVE  SharingInv'
<1>1. /\ calls[g] # << >> /\ Head(calls[g]) = k /\ at[g] = "lease"
      /\ UNCHANGED <<zs, seen, snapshot>> /\ Nothing
    BY DEF LeaseStep, At
<1>2. InCall(g) /\ BoundsCover'
    BY <1>1 DEF SharingInv, BoundsCover, Nothing
<1>3. CASE Covered(z, k)
    <2>1. Goto(g, covered) /\ z' = z
        BY <1>3 DEF LeaseStep
    <2>2. at'[g] = covered /\ Head(calls'[g]) = k /\ calls' = calls
        BY <1>1, <2>1, Typing DEF Goto
    <2>3. z.min[k] < z.max[k]
        <3>1. LeaseAtATime[k] \in Nat \ {0}
            BY SharingConstants DEF LeaseAtATime, Kind
        <3> QED BY <1>3, <3>1, Typing DEF Covered
    <2>4. InCall(g)'
        BY <1>1, <1>2, <2>1, <2>2, <2>3
        DEF InCall, InNextTs, InNextUIDs, InStep, Ordered, NamespacesOrdered, TookUID, Nothing, Kind
    <2>5. covered \in Statement
        BY DEF Statement
    <2> QED BY <1>1, <1>2, <2>1, <2>4, <2>5, Proceeds, Typing
<1>4. CASE ~Covered(z, k)
    <2>1. Goto(g, "marshal") /\ z' = Leased(z, k)
        BY <1>4 DEF LeaseStep
    <2>2. at'[g] = "marshal" /\ Head(calls'[g]) = k /\ calls' = calls
        BY <1>1, <2>1, Typing DEF Goto
    <2>3. /\ z' \in Counters /\ z'.min = z.min /\ z'.ns = z.ns
          /\ \A j \in Kind \ {k} : z'.max[j] = z.max[j]
          /\ z'.max[k] >= z.max[k] /\ z'.max[k] > z.min[k]
          /\ z'.max \in [Kind -> Nat]
        BY <2>1, Typing, LeasedCounters DEF Counters
    <2>4. InCall(g)'
        <3>1. /\ Ordered("UID") => Ordered("UID")'
              /\ Ordered("Ts") => Ordered("Ts")'
              /\ TookUID(g) => TookUID(g)'
              /\ NamespacesOrdered => NamespacesOrdered'
            BY <1>1, <2>3, Typing DEF Ordered, TookUID, NamespacesOrdered, Nothing, Kind
        <3> QED BY <1>1, <1>2, <2>2, <2>3, <3>1 DEF InCall, InNextTs, InNextUIDs, Kind
    <2>5. "marshal" \in Statement
        BY DEF Statement
    <2> QED BY <1>1, <1>2, <2>1, <2>3, <2>4, <2>5, Proceeds, Typing
<1> QED BY <1>3, <1>4

LEMMA MarshalSafe ==
    ASSUME SharingInv, NEW g \in Goroutine, NEW k \in AnyKind, Marshal(g, k)
    PROVE  SharingInv'
<1>1. /\ calls[g] # << >> /\ at[g] = "marshal"
      /\ UNCHANGED <<zs, z, seen>> /\ Nothing /\ Goto(g, "commit")
      /\ snapshot' = [snapshot EXCEPT ![g] = ZeroStateOf(z)]
    BY DEF Marshal, At
<1>2. InCall(g) /\ BoundsCover'
    BY <1>1 DEF SharingInv, BoundsCover, Nothing
<1>3. snapshot' \in [Goroutine -> Bounds] /\ snapshot'[g] = ZeroStateOf(z)
    BY <1>1, Typing, BoundsOf
<1>4. at'[g] = "commit" /\ calls' = calls
    BY <1>1, Typing DEF Goto
<1>5. InCall(g)'
    BY <1>1, <1>2, <1>3, <1>4
    DEF InCall, InNextTs, InNextUIDs, InNextNamespace, Ordered, NamespacesOrdered, TookUID,
        TookNamespace, Nothing, ZeroStateOf
<1>6. "commit" \in Statement
    BY DEF Statement
<1> QED BY <1>1, <1>2, <1>3, <1>5, <1>6, Proceeds, Typing

LEMMA CommitSafe ==
    ASSUME SharingInv, NEW g \in Goroutine, NEW k \in AnyKind,
           NEW after,
           <<k, after>> \in {<<"Ts", "read">>, <<"UID", "loop">>, <<"Ns", "return">>},
           Commit(g, k, after)
    PROVE  SharingInv'
<1>1. /\ calls[g] # << >> /\ Head(calls[g]) = k /\ at[g] = "commit"
      /\ zs' = snapshot[g]
      /\ UNCHANGED <<z, seen, snapshot>> /\ Nothing /\ Goto(g, after)
    BY DEF Commit, Committed, At
<1>2. InCall(g)
    BY <1>1 DEF SharingInv
<1>3. zs' = ZeroStateOf(z) /\ zs' \in Bounds /\ zs'.max = z.max /\ zs'.ns = z.ns
    BY <1>1, <1>2, Typing, BoundsOf DEF InCall
<1>4. k \in {"Ts", "UID", "Ns"} /\ after \in Statement
    BY DEF AnyKind, Statement
<1>5. at'[g] = after /\ calls' = calls
    BY <1>1, Typing DEF Goto
<1>6. BoundsCover'
    <2>1. /\ \A id \in issued["UID"] : id \in Nat /\ id < z.max["UID"]
          /\ \A id \in issued["Ts"] : id \in Nat /\ id < z.max["Ts"]
          /\ \A id \in issued["Ns"] : id <= z.ns
        BY <1>1, <1>2, <1>4, Typing
        DEF InCall, InNextTs, InNextUIDs, InNextNamespace, Ordered, NamespacesOrdered, TookUID,
            TookNamespace, Kind, AnyKind
    <2> QED BY <1>1, <1>3, <2>1 DEF BoundsCover, Nothing
<1>7. InCall(g)'
    <2>1. InStep'
        BY <1>1, <1>3 DEF InStep
    <2> QED BY <1>1, <1>2, <1>4, <1>5, <2>1
        DEF InCall, InNextTs, InNextUIDs, InNextNamespace, Ordered, NamespacesOrdered, TookUID,
            TookNamespace, Nothing
<1> QED BY <1>1, <1>3, <1>4, <1>6, <1>7, Proceeds, Typing

-----------------------------------------------------------------------------
(* The three calls.                                                          *)
LEMMA NextTsSafe ==
    ASSUME SharingInv, NEW g \in Goroutine, NextTs(g)
    PROVE  SharingInv'
<1>1. CASE LeaseStep(g, "Ts", "read") \/ Marshal(g, "Ts") \/ Commit(g, "Ts", "read")
    BY <1>1, LeaseSafe, MarshalSafe, CommitSafe DEF Kind, AnyKind
<1>2. CASE /\ At(g, "Ts", "begin") \/ At(g, "Ts", "read")
           /\ \/ Goto(g, "lease") /\ at[g] = "begin" /\ UNCHANGED seen
              \/ Goto(g, "read") /\ UNCHANGED seen /\ z.min["Ts"] < z.max["Ts"]
              \/ Goto(g, "increment") /\ Read(g, z.min["Ts"]) /\ at[g] = "read"
           /\ UNCHANGED <<zs, z, snapshot>> /\ Nothing
    <2>1. calls[g] # << >> /\ Head(calls[g]) = "Ts" /\ UNCHANGED calls
        BY <1>2 DEF At, Goto
    <2>2. InCall(g) /\ BoundsCover'
        BY <1>2, <2>1 DEF SharingInv, BoundsCover, Nothing
    <2>3. PICK s \in {"lease", "read", "increment"} : Goto(g, s)
        BY <1>2
    <2>4. at'[g] = s
        BY <2>3, Typing DEF Goto
    <2>5. seen' \in [Goroutine -> Nat] /\ (Read(g, z.min["Ts"]) => seen'[g] = z.min["Ts"])
        <3>1. z.min["Ts"] \in Nat
            BY Typing DEF Kind
        <3> QED BY <1>2, <3>1, Typing DEF Read
    <2>6. /\ s \in {"read", "increment"} => z.min["Ts"] < z.max["Ts"]
          /\ s = "increment" => seen'[g] = z.min["Ts"]
        BY <1>2, <2>1, <2>2, <2>3, <2>4, <2>5, Typing DEF Goto, InCall, InNextTs
    <2>7. InCall(g)'
        <3>1. at[g] \in {"begin", "read"}
            BY <1>2 DEF At
        <3> QED BY <1>2, <2>1, <2>2, <2>3, <2>4, <2>6, <3>1
            DEF InCall, InNextTs, InStep, Ordered, NamespacesOrdered, Nothing
    <2>8. s \in Statement
        BY DEF Statement
    <2> QED BY <1>2, <2>1, <2>2, <2>3, <2>5, <2>7, <2>8, Proceeds, Typing
<1>3. CASE /\ At(g, "Ts", "increment")
           /\ Increment(g, "Ts")
           /\ Return(g, "Ts", seen[g])
           /\ UNCHANGED <<zs, seen, snapshot>>
    <2>1. calls[g] # << >> /\ Head(calls[g]) = "Ts" /\ at[g] = "increment"
        BY <1>3 DEF At
    <2>2. InNextTs(g) /\ InStep /\ seen[g] = z.min["Ts"] /\ z.min["Ts"] < z.max["Ts"]
        BY <2>1 DEF SharingInv, InCall, InNextTs
    <2>3. z.min["Ts"] \in Nat /\ z.max["Ts"] \in Nat /\ z.min \in [Kind -> Nat]
        BY Typing DEF Kind
    <2>4. z' = [z EXCEPT !.min = [z.min EXCEPT !["Ts"] = z.min["Ts"] + 1]]
        BY <1>3, <2>2 DEF Increment
    <2>5. /\ z' \in Counters /\ z'.max = z.max /\ z'.ns = z.ns
          /\ z'.min["UID"] = z.min["UID"] /\ z'.min["Ts"] = z.min["Ts"] + 1
        BY <2>3, <2>4, Typing DEF Counters, Kind
    <2>6. /\ issued'["Ts"] = issued["Ts"] \cup {seen[g]}
          /\ issued'["UID"] = issued["UID"] /\ issued'["Ns"] = issued["Ns"]
          /\ issued["Ts"] \subseteq Nat
        BY <1>3, Typing DEF Return, AnyKind
    <2>7. AtRest'
        BY <1>3, <2>2, <2>3, <2>5, <2>6
        DEF AtRest, InNextTs, InStep, Ordered, NamespacesOrdered
    <2>8. BoundsCover'
        BY <1>3, <2>2, <2>5, <2>6, Typing DEF BoundsCover, InStep, Kind
    <2>9. seen[g] \in Nat /\ seen[g] \notin issued["Ts"] /\ "Ts" \in AnyKind
        BY <2>2, <2>3, <2>6 DEF InNextTs, Ordered, AnyKind
    <2> QED BY <1>3, <2>1, <2>5, <2>7, <2>8, <2>9, Returns
<1>4. /\ At(g, "Ts", "begin") => at[g] = "begin"
      /\ At(g, "Ts", "read") => at[g] = "read"
      /\ z.min["Ts"] < z.max["Ts"] \/ z.min["Ts"] >= z.max["Ts"]
    BY Typing DEF At, Kind
<1> QED BY <1>1, <1>2, <1>3, <1>4 DEF NextTs

LEMMA NextUIDsSafe ==
    ASSUME SharingInv, NEW g \in Goroutine, NextUIDs(g)
    PROVE  SharingInv'
<1>1. CASE LeaseStep(g, "UID", "loop") \/ Marshal(g, "UID") \/ Commit(g, "UID", "loop")
    BY <1>1, LeaseSafe, MarshalSafe, CommitSafe DEF Kind, AnyKind
<1>2. CASE /\ At(g, "UID", "begin")
           /\ Read(g, z.min["UID"])
           /\ Goto(g, "increment")
           /\ UNCHANGED <<zs, z, snapshot>> /\ Nothing
    <2>1. /\ calls[g] # << >> /\ Head(calls[g]) = "UID" /\ at[g] = "begin" /\ UNCHANGED calls
          /\ at'[g] = "increment"
        BY <1>2, Typing DEF At, Goto
    <2>2. InCall(g) /\ BoundsCover'
        BY <1>2, <2>1 DEF SharingInv, BoundsCover, Nothing
    <2>3. seen' \in [Goroutine -> Nat] /\ seen'[g] = z.min["UID"]
        <3>1. z.min["UID"] \in Nat
            BY Typing DEF Kind
        <3> QED BY <1>2, <3>1, Typing DEF Read
    <2>4. InCall(g)'
        BY <1>2, <2>1, <2>2, <2>3
        DEF InCall, InNextUIDs, InStep, Ordered, NamespacesOrdered, Nothing
    <2> QED BY <1>2, <2>1, <2>2, <2>3, <2>4, Proceeds, Typing DEF Statement
<1>3. CASE /\ At(g, "UID", "increment")
           /\ Increment(g, "UID")
           /\ Goto(g, "loop")
           /\ UNCHANGED <<zs, seen, snapshot>> /\ Nothing
    <2>1. /\ calls[g] # << >> /\ Head(calls[g]) = "UID" /\ at[g] = "increment" /\ UNCHANGED calls
          /\ at'[g] = "loop"
        BY <1>3, Typing DEF At, Goto
    <2>2. InCall(g) /\ BoundsCover'
        BY <1>3, <2>1 DEF SharingInv, BoundsCover, Nothing
    <2>3. InNextUIDs(g) /\ InStep /\ seen[g] = z.min["UID"] /\ Ordered("UID")
        BY <2>1, <2>2 DEF InCall, InNextUIDs
    <2>4. z.min["UID"] \in Nat /\ z.max["UID"] \in Nat /\ z.min \in [Kind -> Nat]
        BY Typing DEF Kind
    <2>5. z' = [z EXCEPT !.min = [z.min EXCEPT !["UID"] = z.min["UID"] + 1]]
        BY <1>3, <2>3 DEF Increment
    <2>6. /\ z' \in Counters /\ z'.max = z.max /\ z'.ns = z.ns
          /\ z'.min["Ts"] = z.min["Ts"] /\ z'.min["UID"] = z.min["UID"] + 1
        BY <2>4, <2>5, Typing DEF Counters, Kind
    <2>7. TookUID(g)'
        BY <1>3, <2>3, <2>4, <2>6 DEF TookUID, Ordered, Nothing
    <2>8. InCall(g)'
        BY <1>3, <2>1, <2>3, <2>6, <2>7
        DEF InCall, InNextUIDs, InStep, Ordered, NamespacesOrdered, Nothing
    <2> QED BY <1>3, <2>1, <2>2, <2>6, <2>8, Proceeds, Typing DEF Statement
<1>4. CASE /\ At(g, "UID", "loop")
           /\ Goto(g, "lease")
           /\ UNCHANGED <<zs, z, seen, snapshot>> /\ Nothing
    <2>1. /\ calls[g] # << >> /\ Head(calls[g]) = "UID" /\ at[g] = "loop" /\ UNCHANGED calls
          /\ at'[g] = "lease"
        BY <1>4, Typing DEF At, Goto
    <2>2. InCall(g) /\ BoundsCover'
        BY <1>4, <2>1 DEF SharingInv, BoundsCover, Nothing
    <2>3. InCall(g)'
        BY <1>4, <2>1, <2>2
        DEF InCall, InNextUIDs, InStep, Ordered, NamespacesOrdered, TookUID, Nothing
    <2> QED BY <1>4, <2>1, <2>2, <2>3, Proceeds, Typing DEF Statement
<1>5. CASE /\ At(g, "UID", "loop")
           /\ z.min["UID"] < z.max["UID"]
           /\ Return(g, "UID", seen[g])
           /\ UNCHANGED <<zs, z, seen, snapshot>>
    <2>1. calls[g] # << >> /\ Head(calls[g]) = "UID" /\ at[g] = "loop"
        BY <1>5 DEF At
    <2>2. InNextUIDs(g) /\ InStep /\ TookUID(g)
        BY <2>1 DEF SharingInv, InCall, InNextUIDs
    <2>3. z.min["UID"] \in Nat /\ z.max["UID"] \in Nat /\ seen[g] \in Nat
        BY Typing DEF Kind
    <2>4. /\ issued'["UID"] = issued["UID"] \cup {seen[g]}
          /\ issued'["Ts"] = issued["Ts"] /\ issued'["Ns"] = issued["Ns"]
          /\ issued["UID"] \subseteq Nat
        BY <1>5, Typing DEF Return, AnyKind
    <2>5. AtRest'
        BY <1>5, <2>2, <2>3, <2>4
        DEF AtRest, InNextUIDs, InStep, Ordered, NamespacesOrdered, TookUID
    <2>6. BoundsCover'
        BY <1>5, <2>2, <2>3, <2>4, Typing DEF BoundsCover, InStep, TookUID, Kind
    <2>7. seen[g] \notin issued["UID"] /\ "UID" \in AnyKind
        BY <2>2, <2>3, <2>4 DEF TookUID, AnyKind
    <2> QED BY <1>5, <2>1, <2>3, <2>5, <2>6, <2>7, Returns, Typing
<1> QED BY <1>1, <1>2, <1>3, <1>4, <1>5 DEF NextUIDs

LEMMA NextNamespaceSafe ==
    ASSUME SharingInv, NEW g \in Goroutine, NextNamespace(g)
    PROVE  SharingInv'
<1>1. CASE Marshal(g, "Ns") \/ Commit(g, "Ns", "return")
    BY <1>1, MarshalSafe, CommitSafe DEF AnyKind
<1>2. CASE /\ At(g, "Ns", "begin")
           /\ Read(g, z.ns)
           /\ Goto(g, "increment")
           /\ UNCHANGED <<zs, z, snapshot>> /\ Nothing
    <2>1. /\ calls[g] # << >> /\ Head(calls[g]) = "Ns" /\ at[g] = "begin" /\ UNCHANGED calls
          /\ at'[g] = "increment"
        BY <1>2, Typing DEF At, Goto
    <2>2. InCall(g) /\ BoundsCover'
        BY <1>2, <2>1 DEF SharingInv, BoundsCover, Nothing
    <2>3. seen' \in [Goroutine -> Nat] /\ seen'[g] = z.ns
        BY <1>2, Typing DEF Read
    <2>4. InCall(g)'
        BY <1>2, <2>1, <2>2, <2>3
        DEF InCall, InNextNamespace, InStep, Ordered, NamespacesOrdered, Nothing
    <2> QED BY <1>2, <2>1, <2>2, <2>3, <2>4, Proceeds, Typing DEF Statement
<1>3. CASE /\ At(g, "Ns", "increment")
           /\ z' = [z EXCEPT !.ns = seen[g] + 1]
           /\ Goto(g, "marshal")
           /\ UNCHANGED <<zs, seen, snapshot>> /\ Nothing
    <2>1. /\ calls[g] # << >> /\ Head(calls[g]) = "Ns" /\ at[g] = "increment" /\ UNCHANGED calls
          /\ at'[g] = "marshal"
        BY <1>3, Typing DEF At, Goto
    <2>2. InCall(g) /\ BoundsCover'
        BY <1>3, <2>1 DEF SharingInv, BoundsCover, Nothing
    <2>3. z' \in Counters /\ z'.max = z.max /\ z'.min = z.min /\ z'.ns = seen[g] + 1
        BY <1>3, Typing DEF Counters
    <2>4. InCall(g)'
        BY <1>3, <2>1, <2>2, <2>3
        DEF InCall, InNextNamespace, Ordered, NamespacesOrdered, TookNamespace, Nothing
    <2> QED BY <1>3, <2>1, <2>2, <2>3, <2>4, Proceeds, Typing DEF Statement
<1>4. CASE /\ At(g, "Ns", "return")
           /\ Return(g, "Ns", z.ns)
           /\ UNCHANGED <<zs, z, seen, snapshot>>
    <2>1. calls[g] # << >> /\ Head(calls[g]) = "Ns" /\ at[g] = "return"
        BY <1>4 DEF At
    <2>2. InNextNamespace(g) /\ InStep /\ TookNamespace(g)
        BY <2>1 DEF SharingInv, InCall, InNextNamespace
    <2>3. z.ns \in Nat /\ seen[g] \in Nat
        BY Typing
    <2>4. /\ issued'["Ns"] = issued["Ns"] \cup {z.ns}
          /\ issued'["Ts"] = issued["Ts"] /\ issued'["UID"] = issued["UID"]
          /\ issued["Ns"] \subseteq Nat
        BY <1>4, Typing DEF Return, AnyKind
    <2>5. AtRest'
        BY <1>4, <2>2, <2>3, <2>4
        DEF AtRest, InNextNamespace, InStep, Ordered, NamespacesOrdered, TookNamespace
    <2>6. BoundsCover'
        BY <1>4, <2>2, <2>3, <2>4, Typing DEF BoundsCover, InStep, Kind
    <2>7. z.ns \notin issued["Ns"] /\ "Ns" \in AnyKind
        BY <2>2, <2>3, <2>4 DEF TookNamespace, AnyKind
    <2> QED BY <1>4, <2>1, <2>3, <2>5, <2>6, <2>7, Returns, Typing
<1> QED BY <1>1, <1>2, <1>3, <1>4 DEF NextNamespace

-----------------------------------------------------------------------------
(* Nobody without a lock asks for anything but UIDs.                         *)
LEMMA RequestsTyped ==
    ASSUME NEW g \in Goroutine, NEW request \in Requests(g)
    PROVE  /\ request \in Seq(AnyKind)
           /\ g \in Unlocked => request \in Seq({"UID"})
<1>1. "Ts" \in AnyKind /\ "UID" \in AnyKind /\ "Ns" \in AnyKind
    BY DEF AnyKind
<1>2. /\ <<"Ts">> \in Seq(AnyKind) /\ <<"UID">> \in Seq(AnyKind)
      /\ <<"Ts", "Ts">> \in Seq(AnyKind) /\ <<"Ts", "Ns">> \in Seq(AnyKind)
      /\ <<"UID", "Ts", "Ts">> \in Seq(AnyKind) /\ <<"UID">> \in Seq({"UID"})
    BY <1>1
<1>3. CASE g \in Locking
    <2>1. request \in {<<"Ts">>, <<"Ts", "Ts">>, <<"UID", "Ts", "Ts">>, <<"Ts", "Ns">>}
        BY <1>3, SharingConstants DEF Requests, Locking
    <2> QED BY <1>2, <1>3, <2>1, SharingConstants DEF Locking
<1>4. CASE g \notin Locking
    <2>1. request = <<"UID">>
        BY <1>4 DEF Requests, Locking, Goroutine
    <2> QED BY <1>2, <2>1
<1> QED BY <1>3, <1>4

(* Under the locks whoever enters is alone.                                  *)
LEMMA EnterSafe ==
    ASSUME Locked, SharingInv, NEW g \in Locking, Enter(g)
    PROVE  SharingInv'
<1>1. /\ calls[g] = << >> /\ MayEnter(g)
      /\ at' = [at EXCEPT ![g] = "begin"]
      /\ UNCHANGED <<zs, z, seen, snapshot, issued, twice>>
    BY DEF Enter
<1>2. g \in Goroutine /\ g \notin Unlocked /\ \A h \in Goroutine : calls[h] = << >>
    BY <1>1, SharingConstants DEF SharingInv, Locked, Locking, MayEnter, Busy, Goroutine
<1>3. PICK request \in Requests(g) : calls' = [calls EXCEPT ![g] = request]
    BY DEF Enter
<1>4. request \in Seq(AnyKind)
    BY <1>2, <1>3, RequestsTyped
<1>5. /\ calls' \in [Goroutine -> Seq(AnyKind)]
      /\ \A h \in Goroutine : calls'[h] # << >> => h = g
      /\ \A h \in Unlocked : calls'[h] = << >>
    BY <1>2, <1>3, <1>4 DEF SharingInv, SharingTyped, Goroutine
<1>6. at' \in [Goroutine -> Statement] /\ at'[g] = "begin"
    BY <1>1, <1>2 DEF SharingInv, SharingTyped, Statement
<1>7. SharingTyped' /\ BoundsCover' /\ twice' = {} /\ OneAtATime'
    BY <1>1, <1>5, <1>6
    DEF SharingInv, SharingTyped, BoundsCover, OneAtATime
<1>8. AtRest'
    BY <1>1, <1>2 DEF SharingInv, AtRest, InStep, Ordered, NamespacesOrdered
<1>9. InCall(g)'
    BY <1>6, <1>8 DEF AtRest, InCall, InNextTs, InNextUIDs, InNextNamespace
<1> QED BY <1>5, <1>7, <1>8, <1>9 DEF SharingInv

(* A process that starts from the store starts above everything handed out.  *)
LEMMA RestartSafe == SharingInv /\ Restart => SharingInv'
<1> SUFFICES ASSUME SharingInv, Restart PROVE SharingInv'
    OBVIOUS
<1>1. /\ z' = NewZero(zs) /\ zs' = ZeroStateOf(z') /\ zs \in Bounds
      /\ calls' = [g \in Goroutine |-> << >>]
      /\ UNCHANGED <<at, seen, snapshot, issued, twice>>
    BY DEF Restart, SharingInv, SharingTyped
<1>2. /\ z' \in Counters /\ z'.min = zs.max /\ z'.ns = zs.ns
      /\ \A k \in Kind : z'.max[k] >= zs.max[k]
      /\ zs' \in Bounds /\ zs'.max = z'.max /\ zs'.ns = z'.ns
    BY <1>1, NewZeroCounters, BoundsOf
<1>3. << >> \in Seq(AnyKind)
    OBVIOUS
<1>4. SharingTyped' /\ twice' = {} /\ OneAtATime'
    BY <1>1, <1>2, <1>3 DEF SharingInv, SharingTyped, OneAtATime
<1>5. /\ \A k \in Kind : zs.max[k] \in Nat /\ z'.max[k] \in Nat
      /\ \A k \in Kind : \A id \in issued[k] : id \in Nat /\ id < zs.max[k]
      /\ \A id \in issued["Ns"] : id <= zs.ns
    BY <1>1, <1>2
    DEF SharingInv, SharingTyped, BoundsCover, Bounds, Counters, Kind, AnyKind
<1>6. AtRest'
    BY <1>1, <1>2, <1>5 DEF AtRest, InStep, Ordered, NamespacesOrdered, Kind
<1>7. BoundsCover'
    BY <1>1, <1>2, <1>5 DEF BoundsCover, Kind
<1> QED BY <1>1, <1>4, <1>6, <1>7 DEF SharingInv, Goroutine

LEMMA SharingInitially == Init => SharingInv
<1> SUFFICES ASSUME Init PROVE SharingInv
    OBVIOUS
<1> DEFINE first == [max |-> [UID |-> initialUID, Ts |-> initialTs], ns |-> 0]
<1>1. first \in Bounds
    <2>1. [UID |-> initialUID, Ts |-> initialTs] \in [Kind -> Nat]
        BY SharingConstants DEF Kind
    <2> QED BY <2>1 DEF Bounds
<1> HIDE DEF first
<1>2. /\ FirstZero \in Counters
      /\ \A k \in Kind : FirstZero.max[k] >= FirstZero.min[k]
    BY <1>1, NewZeroCounters DEF FirstZero, first
<1>3. /\ z \in Counters /\ zs \in Bounds /\ InStep
      /\ \A k \in Kind : z.min[k] \in Nat /\ z.max[k] \in Nat /\ z.min[k] <= z.max[k]
    BY <1>2, BoundsOf DEF Init, InStep, Counters
<1>4. /\ issued["UID"] = {} /\ issued["Ts"] = {} /\ issued["Ns"] = {}
      /\ issued \in [AnyKind -> SUBSET Nat]
    BY DEF Init, AnyKind
<1>5. << >> \in Seq(AnyKind)
    OBVIOUS
<1>6. SharingTyped
    BY <1>3, <1>4, <1>5 DEF Init, SharingTyped, Statement
<1>7. AtRest
    BY <1>3, <1>4 DEF AtRest, Ordered, NamespacesOrdered, Kind
<1>8. BoundsCover /\ twice = {} /\ OneAtATime
    BY <1>4 DEF Init, BoundsCover, OneAtATime
<1>9. \A g \in Goroutine : calls[g] = << >>
    BY DEF Init
<1> QED BY <1>6, <1>7, <1>8, <1>9 DEF SharingInv, Goroutine

-----------------------------------------------------------------------------
(* What is left of it while data files are mapped, by goroutines that lease  *)
(* UIDs at any time: timestamps and namespaces are taken under the mutex.    *)
TakingNamespace(g) ==
    calls[g] # << >> /\ Head(calls[g]) = "Ns" /\ at[g] \notin {"begin", "increment"}

InLoadedCall(g) ==
    /\ At(g, "Ts", "increment") => seen[g] = z.min["Ts"]
    /\ At(g, "Ns", "increment") => seen[g] = z.ns
    /\ TakingNamespace(g) => TookNamespace(g)

TimestampsBelow == \A id \in issued["Ts"] : id < z.min["Ts"]

LoadedInv ==
    /\ SharingTyped /\ twice \subseteq {"UID"}
    /\ \A g, h \in Locking : calls[g] # << >> /\ calls[h] # << >> => g = h
    /\ \A g \in Unlocked : calls[g] \in Seq({"UID"})
    /\ TimestampsBelow
    /\ (\A g \in Locking : ~TakingNamespace(g)) => NamespacesOrdered
    /\ \A g \in Locking : InLoadedCall(g)

LEMMA LoadBegins == SharingInv => LoadedInv
<1> SUFFICES ASSUME SharingInv PROVE LoadedInv
    OBVIOUS
<1>1. << >> \in Seq({"UID"})
    OBVIOUS
<1>2. /\ SharingTyped /\ twice \subseteq {"UID"}
      /\ \A g, h \in Locking : calls[g] # << >> /\ calls[h] # << >> => g = h
      /\ \A g \in Unlocked : calls[g] \in Seq({"UID"})
    BY <1>1 DEF SharingInv, OneAtATime, Locking, Goroutine
<1>3. ASSUME NEW g \in Goroutine, calls[g] # << >>
      PROVE  /\ Ordered("Ts") /\ (TakingNamespace(g) \/ NamespacesOrdered) /\ InLoadedCall(g)
             /\ g \in Locking
    <2>1. Head(calls[g]) \in AnyKind
        BY <1>3, HeadTailProperties DEF SharingInv, SharingTyped
    <2>2. InCall(g) /\ g \in Locking
        BY <1>3 DEF SharingInv, Locking, Goroutine
    <2> QED BY <1>3, <2>1, <2>2
        DEF AnyKind, InCall, InNextTs, InNextUIDs, InNextNamespace, InLoadedCall,
            TakingNamespace, At
<1>4. Ordered("Ts") /\ ((\A g \in Locking : ~TakingNamespace(g)) => NamespacesOrdered)
    BY <1>3 DEF SharingInv, AtRest
<1>5. \A g \in Locking : InLoadedCall(g)
    <2>1. ASSUME NEW g \in Locking, calls[g] = << >> PROVE InLoadedCall(g)
        BY <2>1 DEF InLoadedCall, At, TakingNamespace
    <2> QED BY <1>3, <2>1 DEF Locking, Goroutine
<1> QED BY <1>2, <1>4, <1>5 DEF LoadedInv, TimestampsBelow, Ordered

(* A counter set to any value, which is what a racing increment does.        *)
LEMMA CounterSet ==
    ASSUME NEW zz \in Counters, NEW k \in Kind, NEW v \in Nat
    PROVE  LET set == [zz EXCEPT !.min[k] = v]
           IN  /\ set \in Counters /\ set.ns = zz.ns /\ set.min[k] = v
               /\ \A j \in Kind \ {k} : set.min[j] = zz.min[j]
<1> DEFINE min == [zz.min EXCEPT ![k] = v]
<1>1. zz.min \in [Kind -> Nat]
    BY DEF Counters
<1>2. min \in [Kind -> Nat] /\ min[k] = v /\ \A j \in Kind \ {k} : min[j] = zz.min[j]
    BY <1>1
<1>3. [zz EXCEPT !.min[k] = v] = [zz EXCEPT !.min = min]
    OBVIOUS
<1> HIDE DEF min
<1> QED BY <1>2, <1>3 DEF Counters

LEMMA LoadedTyping ==
    ASSUME LoadedInv, NEW g \in Goroutine
    PROVE  /\ z \in Counters /\ zs \in Bounds
           /\ z.min \in [Kind -> Nat] /\ z.max \in [Kind -> Nat] /\ z.ns \in Nat
           /\ seen[g] \in Nat /\ snapshot[g] \in Bounds
           /\ seen \in [Goroutine -> Nat] /\ snapshot \in [Goroutine -> Bounds]
           /\ at \in [Goroutine -> Statement]
           /\ issued \in [AnyKind -> SUBSET Nat]
           /\ g \notin Locking /\ calls[g] # << >> => Head(calls[g]) = "UID"
<1>1. g \notin Locking /\ calls[g] # << >> => Head(calls[g]) \in {"UID"}
    BY HeadTailProperties DEF LoadedInv, Locking, Goroutine
<1> QED BY <1>1 DEF LoadedInv, SharingTyped, Counters

(* A statement of a goroutine within a call ...                              *)
LEMMA LoadedProceeds ==
    ASSUME LoadedInv, NEW g \in Goroutine, calls[g] # << >>, NEW s \in Statement,
           Goto(g, s), Nothing,
           z' \in Counters, zs' \in Bounds, snapshot' \in [Goroutine -> Bounds],
           seen' \in [Goroutine -> Nat], \A h \in Goroutine \ {g} : seen'[h] = seen[h],
           z'.min["Ts"] = z.min["Ts"],
           g \notin Locking => z'.ns = z.ns,
           g \in Locking => /\ InLoadedCall(g)'
                            /\ TakingNamespace(g)' \/ NamespacesOrdered'
    PROVE  LoadedInv'
<1>1. SharingTyped' /\ UNCHANGED <<calls, issued, twice>>
    BY DEF LoadedInv, SharingTyped, Goto, Nothing
<1>2. TimestampsBelow'
    BY <1>1 DEF LoadedInv, TimestampsBelow
<1>3. \A h \in Goroutine \ {g} : at'[h] = at[h]
    BY LoadedTyping DEF Goto
<1>4. CASE g \in Locking
    <2>1. \A h \in Locking : h # g => calls'[h] = << >>
        BY <1>1, <1>4 DEF LoadedInv
    <2>2. \A h \in Locking : h # g => InLoadedCall(h)'
        BY <2>1 DEF InLoadedCall, At, TakingNamespace
    <2> QED BY <1>1, <1>2, <1>4, <2>2 DEF LoadedInv
<1>5. CASE g \notin Locking
    <2>1. \A h \in Locking : /\ TakingNamespace(h)' <=> TakingNamespace(h)
                             /\ InLoadedCall(h)'
        BY <1>1, <1>3, <1>5
        DEF LoadedInv, InLoadedCall, At, TakingNamespace, TookNamespace, Locking, Goroutine
    <2>2. NamespacesOrdered => NamespacesOrdered'
        BY <1>1, <1>5 DEF NamespacesOrdered
    <2> QED BY <1>1, <1>2, <2>1, <2>2 DEF LoadedInv
<1> QED BY <1>4, <1>5

(* ... and its last one.                                                     *)
LEMMA LoadedReturns ==
    ASSUME LoadedInv, NEW g \in Goroutine, calls[g] # << >>,
           NEW k \in AnyKind, NEW id \in Nat, k # "UID" => id \notin issued[k],
           Return(g, k, id), UNCHANGED <<zs, seen, snapshot>>, z' \in Counters,
           TimestampsBelow',
           g \notin Locking => k = "UID" /\ z' = z,
           g \in Locking => NamespacesOrdered'
    PROVE  LoadedInv'
<1>1. /\ issued' \in [AnyKind -> SUBSET Nat]
      /\ at' \in [Goroutine -> Statement] /\ at'[g] = "begin"
      /\ \A h \in Goroutine \ {g} : at'[h] = at[h]
    BY DEF LoadedInv, SharingTyped, Return, Statement
<1>2. /\ calls' \in [Goroutine -> Seq(AnyKind)] /\ calls'[g] = Tail(calls[g])
      /\ \A h \in Goroutine \ {g} : calls'[h] = calls[h]
    <2>1. Tail(calls[g]) \in Seq(AnyKind)
        BY HeadTailProperties DEF LoadedInv, SharingTyped
    <2> QED BY <2>1 DEF LoadedInv, SharingTyped, Return
<1>3. SharingTyped' /\ twice' \subseteq {"UID"}
    BY <1>1, <1>2 DEF LoadedInv, SharingTyped, Return
<1>4. \A h \in Unlocked : calls'[h] \in Seq({"UID"})
    <2>1. g \in Unlocked => Tail(calls[g]) \in Seq({"UID"})
        BY HeadTailProperties DEF LoadedInv
    <2> QED BY <1>2, <2>1 DEF LoadedInv, Goroutine
<1>5. \A i, j \in Locking : calls'[i] # << >> /\ calls'[j] # << >> => i = j
    BY <1>2 DEF LoadedInv, Locking, Goroutine
<1>6. ~TakingNamespace(g)' /\ InLoadedCall(g)'
    BY <1>1 DEF InLoadedCall, At, TakingNamespace
<1>7. CASE g \in Locking
    <2>1. \A h \in Locking : h # g => calls'[h] = << >>
        BY <1>2, <1>7 DEF LoadedInv, Locking, Goroutine
    <2>2. \A h \in Locking : h # g => InLoadedCall(h)'
        BY <2>1 DEF InLoadedCall, At, TakingNamespace
    <2> QED BY <1>3, <1>4, <1>5, <1>6, <1>7, <2>2 DEF LoadedInv
<1>8. CASE g \notin Locking
    <2>1. z' = z /\ issued'["Ns"] = issued["Ns"]
        BY <1>8 DEF LoadedInv, SharingTyped, Return, AnyKind
    <2>2. \A h \in Locking : /\ TakingNamespace(h)' <=> TakingNamespace(h)
                             /\ InLoadedCall(h)'
        BY <1>1, <1>2, <1>8, <2>1
        DEF LoadedInv, InLoadedCall, At, TakingNamespace, TookNamespace, Locking, Goroutine
    <2>3. NamespacesOrdered => NamespacesOrdered'
        BY <2>1 DEF NamespacesOrdered
    <2> QED BY <1>3, <1>4, <1>5, <2>2, <2>3 DEF LoadedInv
<1> QED BY <1>7, <1>8

(* The lease, the snapshot and the commit: whatever they race with, they     *)
(* change neither counter.                                                   *)
LEMMA LeaseLoaded ==
    ASSUME LoadedInv, NEW g \in Goroutine, NEW k \in Kind, NEW covered \in {"read", "loop"},
           LeaseStep(g, k, covered)
    PROVE  LoadedInv'
<1>1. /\ calls[g] # << >> /\ Head(calls[g]) = k /\ k # "Ns"
      /\ UNCHANGED <<zs, seen, snapshot>> /\ Nothing
    BY DEF LeaseStep, At, Kind
<1>2. PICK s \in {"read", "loop", "marshal"} : Goto(g, s)
    BY DEF LeaseStep
<1>3. z' \in Counters /\ z'.min = z.min /\ z'.ns = z.ns
    BY LoadedTyping, LeasedCounters DEF LeaseStep
<1>4. s \in Statement /\ at'[g] = s /\ calls' = calls
    BY <1>2, LoadedTyping DEF Statement, Goto
<1>5. ~TakingNamespace(g) /\ ~TakingNamespace(g)' /\ InLoadedCall(g)'
    BY <1>1, <1>2, <1>4 DEF TakingNamespace, InLoadedCall, At
<1>6. g \in Locking => NamespacesOrdered'
    <2>1. g \in Locking => NamespacesOrdered
        BY <1>1, <1>5 DEF LoadedInv, TakingNamespace
    <2> QED BY <1>1, <1>3, <2>1 DEF NamespacesOrdered, Nothing
<1> QED BY <1>1, <1>2, <1>3, <1>4, <1>5, <1>6, LoadedProceeds, LoadedTyping

LEMMA MarshalLoaded ==
    ASSUME LoadedInv, NEW g \in Goroutine, NEW k \in AnyKind, Marshal(g, k)
    PROVE  LoadedInv'
<1>1. /\ calls[g] # << >> /\ at[g] = "marshal"
      /\ UNCHANGED <<zs, z, seen>> /\ Nothing /\ Goto(g, "commit")
    BY DEF Marshal, At
<1>2. snapshot' \in [Goroutine -> Bounds]
    BY LoadedTyping, BoundsOf DEF Marshal
<1>3. "commit" \in Statement /\ at'[g] = "commit" /\ calls' = calls
    BY <1>1, LoadedTyping DEF Statement, Goto
<1>4. g \in Locking => InLoadedCall(g)' /\ (TakingNamespace(g)' \/ NamespacesOrdered')
    <2>1. g \in Locking => InLoadedCall(g) /\ (TakingNamespace(g) \/ NamespacesOrdered)
        BY <1>1 DEF LoadedInv, TakingNamespace
    <2> QED BY <1>1, <1>3, <2>1
        DEF InLoadedCall, At, TakingNamespace, TookNamespace, NamespacesOrdered, Nothing
<1> QED BY <1>1, <1>2, <1>3, <1>4, LoadedProceeds, LoadedTyping

LEMMA CommitLoaded ==
    ASSUME LoadedInv, NEW g \in Goroutine, NEW k \in AnyKind,
           NEW after \in {"read", "loop", "return"}, Commit(g, k, after)
    PROVE  LoadedInv'
<1>1. /\ calls[g] # << >> /\ at[g] = "commit" /\ zs' = snapshot[g]
      /\ UNCHANGED <<z, seen, snapshot>> /\ Nothing /\ Goto(g, after)
    BY DEF Commit, Committed, At
<1>2. after \in Statement /\ at'[g] = after /\ calls' = calls
    BY <1>1, LoadedTyping DEF Statement, Goto
<1>3. g \in Locking => InLoadedCall(g)' /\ (TakingNamespace(g)' \/ NamespacesOrdered')
    <2>1. g \in Locking => InLoadedCall(g) /\ (TakingNamespace(g) \/ NamespacesOrdered)
        BY <1>1 DEF LoadedInv, TakingNamespace
    <2> QED BY <1>1, <1>2, <2>1
        DEF InLoadedCall, At, TakingNamespace, TookNamespace, NamespacesOrdered, Nothing
<1> QED BY <1>1, <1>2, <1>3, LoadedProceeds, LoadedTyping

(* The three calls.                                                          *)
LEMMA NextTsLoaded ==
    ASSUME LoadedInv, NEW g \in Goroutine, NextTs(g)
    PROVE  LoadedInv'
<1>1. /\ calls[g] # << >> /\ Head(calls[g]) = "Ts" /\ g \in Locking
      /\ ~TakingNamespace(g) /\ NamespacesOrdered
    <2>1. calls[g] # << >> /\ Head(calls[g]) = "Ts"
        BY DEF NextTs, LeaseStep, Marshal, Commit, At
    <2> QED BY <2>1, LoadedTyping DEF LoadedInv, TakingNamespace
<1>2. CASE LeaseStep(g, "Ts", "read") \/ Marshal(g, "Ts") \/ Commit(g, "Ts", "read")
    BY <1>2, LeaseLoaded, MarshalLoaded, CommitLoaded DEF Kind, AnyKind
<1>3. CASE /\ \/ Goto(g, "lease") /\ UNCHANGED seen
              \/ Goto(g, "read") /\ UNCHANGED seen
              \/ Goto(g, "increment") /\ Read(g, z.min["Ts"])
           /\ UNCHANGED <<zs, z, snapshot>> /\ Nothing
    <2>1. PICK s \in {"lease", "read", "increment"} : Goto(g, s)
        BY <1>3
    <2>2. s \in Statement /\ at'[g] = s /\ calls' = calls
        BY <2>1, LoadedTyping DEF Statement, Goto
    <2>3. /\ seen' \in [Goroutine -> Nat]
          /\ \A h \in Goroutine \ {g} : seen'[h] = seen[h]
          /\ s = "increment" => seen'[g] = z.min["Ts"]
        <3>1. z.min["Ts"] \in Nat
            BY LoadedTyping DEF Kind
        <3>2. Goto(g, "lease") \/ Goto(g, "read") => s # "increment"
            BY <2>1, <2>2, LoadedTyping DEF Goto
        <3> QED BY <1>3, <3>1, <3>2, LoadedTyping DEF Read
    <2>4. InLoadedCall(g)' /\ NamespacesOrdered'
        BY <1>1, <1>3, <2>2, <2>3
        DEF InLoadedCall, At, TakingNamespace, NamespacesOrdered, Nothing
    <2> QED BY <1>1, <1>3, <2>1, <2>2, <2>3, <2>4, LoadedProceeds, LoadedTyping
<1>4. CASE /\ At(g, "Ts", "increment")
           /\ Increment(g, "Ts")
           /\ Return(g, "Ts", seen[g])
           /\ UNCHANGED <<zs, seen, snapshot>>
    <2>1. z.min["Ts"] \in Nat /\ z.min \in [Kind -> Nat] /\ seen[g] = z.min["Ts"]
        BY <1>1, <1>4, LoadedTyping DEF LoadedInv, InLoadedCall, Kind
    <2>2. z' = [z EXCEPT !.min["Ts"] = z.min["Ts"] + 1]
        BY <1>4, <2>1 DEF Increment
    <2>3. z' \in Counters /\ z'.ns = z.ns /\ z'.min["Ts"] = z.min["Ts"] + 1
        <3>1. z \in Counters /\ z.min["Ts"] + 1 \in Nat /\ "Ts" \in Kind
            BY <2>1, LoadedTyping DEF Kind
        <3> QED BY <2>2, <3>1, CounterSet
    <2>4. /\ issued'["Ts"] = issued["Ts"] \cup {seen[g]} /\ issued'["Ns"] = issued["Ns"]
          /\ issued["Ts"] \subseteq Nat
        BY <1>4, LoadedTyping DEF Return, AnyKind
    <2>5. TimestampsBelow' /\ seen[g] \notin issued["Ts"]
        BY <2>1, <2>3, <2>4 DEF LoadedInv, TimestampsBelow
    <2>6. NamespacesOrdered' /\ "Ts" \in AnyKind
        BY <1>1, <2>3, <2>4 DEF NamespacesOrdered, AnyKind
    <2> QED BY <1>1, <1>4, <2>1, <2>3, <2>5, <2>6, LoadedReturns
<1> QED BY <1>2, <1>3, <1>4 DEF NextTs

(* A UID may be lost or handed out twice: any base will do.                  *)
LEMMA NextUIDsLoaded ==
    ASSUME LoadedInv, NEW g \in Goroutine, NextUIDs(g)
    PROVE  LoadedInv'
<1>1. /\ calls[g] # << >> /\ Head(calls[g]) = "UID" /\ ~TakingNamespace(g)
      /\ g \in Locking => NamespacesOrdered
    <2>1. calls[g] # << >> /\ Head(calls[g]) = "UID"
        BY DEF NextUIDs, LeaseStep, Marshal, Commit, At
    <2> QED BY <2>1 DEF LoadedInv, TakingNamespace
<1>2. CASE LeaseStep(g, "UID", "loop") \/ Marshal(g, "UID") \/ Commit(g, "UID", "loop")
    BY <1>2, LeaseLoaded, MarshalLoaded, CommitLoaded DEF Kind, AnyKind
<1>3. CASE /\ Goto(g, "increment") \/ Goto(g, "loop") \/ Goto(g, "lease")
           /\ Read(g, z.min["UID"]) \/ UNCHANGED seen
           /\ Increment(g, "UID") \/ UNCHANGED z
           /\ UNCHANGED <<zs, snapshot>> /\ Nothing
    <2>1. PICK s \in {"increment", "loop", "lease"} : Goto(g, s)
        BY <1>3
    <2>2. s \in Statement /\ at'[g] = s /\ calls' = calls
        BY <2>1, LoadedTyping DEF Statement, Goto
    <2>3. z.min["UID"] \in Nat /\ seen[g] \in Nat /\ z.min \in [Kind -> Nat]
        BY LoadedTyping DEF Kind
    <2>4. seen' \in [Goroutine -> Nat] /\ \A h \in Goroutine \ {g} : seen'[h] = seen[h]
        BY <1>3, <2>3, LoadedTyping DEF Read
    <2>5. z' \in Counters /\ z'.ns = z.ns /\ z'.min["Ts"] = z.min["Ts"]
        <3>1. CASE Increment(g, "UID")
            <4>1. PICK base \in Nat : z' = [z EXCEPT !.min["UID"] = base + 1]
                BY <2>3, <3>1 DEF Increment
            <4>2. z \in Counters /\ base + 1 \in Nat
                BY LoadedTyping
            <4>3. "UID" \in Kind /\ "Ts" \in Kind \ {"UID"}
                BY DEF Kind
            <4> QED BY <4>1, <4>2, <4>3, CounterSet
        <3> QED BY <1>3, <3>1, LoadedTyping
    <2>6. InLoadedCall(g)' /\ (g \in Locking => NamespacesOrdered')
        BY <1>1, <1>3, <2>2, <2>5
        DEF InLoadedCall, At, TakingNamespace, NamespacesOrdered, Nothing
    <2> QED BY <1>1, <1>3, <2>1, <2>2, <2>4, <2>5, <2>6, LoadedProceeds, LoadedTyping
<1>4. CASE /\ At(g, "UID", "loop")
           /\ z.min["UID"] < z.max["UID"]
           /\ Return(g, "UID", seen[g])
           /\ UNCHANGED <<zs, z, seen, snapshot>>
    <2>1. issued'["Ts"] = issued["Ts"] /\ issued'["Ns"] = issued["Ns"] /\ "UID" \in AnyKind
        BY <1>4, LoadedTyping DEF Return, AnyKind
    <2>2. TimestampsBelow' /\ (g \in Locking => NamespacesOrdered')
        BY <1>1, <1>4, <2>1 DEF LoadedInv, TimestampsBelow, NamespacesOrdered
    <2>3. seen[g] \in Nat /\ z' \in Counters
        BY <1>4, LoadedTyping
    <2> QED BY <1>1, <1>4, <2>1, <2>2, <2>3, LoadedReturns
<1> QED BY <1>2, <1>3, <1>4 DEF NextUIDs

LEMMA NextNamespaceLoaded ==
    ASSUME LoadedInv, NEW g \in Goroutine, NextNamespace(g)
    PROVE  LoadedInv'
<1>1. /\ calls[g] # << >> /\ Head(calls[g]) = "Ns" /\ g \in Locking
      /\ TakingNamespace(g) \/ NamespacesOrdered
    <2>1. calls[g] # << >> /\ Head(calls[g]) = "Ns"
        BY DEF NextNamespace, Marshal, Commit, At
    <2> QED BY <2>1, LoadedTyping DEF LoadedInv, TakingNamespace
<1>2. CASE Marshal(g, "Ns") \/ Commit(g, "Ns", "return")
    BY <1>2, MarshalLoaded, CommitLoaded DEF AnyKind
<1>3. CASE /\ At(g, "Ns", "begin")
           /\ Read(g, z.ns)
           /\ Goto(g, "increment")
           /\ UNCHANGED <<zs, z, snapshot>> /\ Nothing
    <2>1. "increment" \in Statement /\ at'[g] = "increment" /\ calls' = calls
        BY <1>3, LoadedTyping DEF Statement, Goto
    <2>2. /\ seen' \in [Goroutine -> Nat] /\ seen'[g] = z.ns
          /\ \A h \in Goroutine \ {g} : seen'[h] = seen[h]
        BY <1>3, LoadedTyping DEF Read
    <2>3. InLoadedCall(g)' /\ NamespacesOrdered'
        BY <1>1, <1>3, <2>1, <2>2
        DEF InLoadedCall, At, TakingNamespace, NamespacesOrdered, Nothing
    <2> QED BY <1>1, <1>3, <2>1, <2>2, <2>3, LoadedProceeds, LoadedTyping
<1>4. CASE /\ At(g, "Ns", "increment")
           /\ z' = [z EXCEPT !.ns = seen[g] + 1]
           /\ Goto(g, "marshal")
           /\ UNCHANGED <<zs, seen, snapshot>> /\ Nothing
    <2>1. "marshal" \in Statement /\ at'[g] = "marshal" /\ calls' = calls
        BY <1>4, LoadedTyping DEF Statement, Goto
    <2>2. seen[g] = z.ns /\ NamespacesOrdered
        BY <1>1, <1>4 DEF LoadedInv, InLoadedCall, At, TakingNamespace
    <2>3. z' \in Counters /\ z'.min = z.min /\ z'.ns = seen[g] + 1
        <3>1. z \in Counters /\ seen[g] + 1 \in Nat
            BY LoadedTyping
        <3> QED BY <1>4, <3>1 DEF Counters
    <2>4. InLoadedCall(g)' /\ TakingNamespace(g)'
        BY <1>1, <1>4, <2>1, <2>2, <2>3
        DEF InLoadedCall, At, TakingNamespace, TookNamespace, NamespacesOrdered, Nothing
    <2> QED BY <1>1, <1>4, <2>1, <2>3, <2>4, LoadedProceeds, LoadedTyping
<1>5. CASE /\ At(g, "Ns", "return")
           /\ Return(g, "Ns", z.ns)
           /\ UNCHANGED <<zs, z, seen, snapshot>>
    <2>1. z.ns \in Nat /\ seen[g] \in Nat /\ z' \in Counters /\ "Ns" \in AnyKind
        BY <1>5, LoadedTyping DEF AnyKind
    <2>2. TookNamespace(g)
        BY <1>1, <1>5 DEF LoadedInv, InLoadedCall, At, TakingNamespace
    <2>3. /\ issued'["Ns"] = issued["Ns"] \cup {z.ns} /\ issued'["Ts"] = issued["Ts"]
          /\ issued["Ns"] \subseteq Nat
        BY <1>5, LoadedTyping DEF Return, AnyKind
    <2>4. NamespacesOrdered' /\ TimestampsBelow' /\ z.ns \notin issued["Ns"]
        BY <1>5, <2>1, <2>2, <2>3
        DEF LoadedInv, NamespacesOrdered, TimestampsBelow, TookNamespace
    <2> QED BY <1>1, <1>5, <2>1, <2>4, LoadedReturns
<1> QED BY <1>2, <1>3, <1>4, <1>5 DEF NextNamespace

LEMMA EnterLoaded ==
    ASSUME Locked, LoadedInv, NEW g \in Goroutine, Enter(g)
    PROVE  LoadedInv'
<1>1. /\ calls[g] = << >> /\ MayEnter(g)
      /\ at' = [at EXCEPT ![g] = "begin"]
      /\ UNCHANGED <<zs, z, seen, snapshot, issued, twice>>
    BY DEF Enter
<1>2. PICK request \in Requests(g) : calls' = [calls EXCEPT ![g] = request]
    BY DEF Enter
<1>3. /\ calls' \in [Goroutine -> Seq(AnyKind)]
      /\ \A h \in Unlocked : calls'[h] \in Seq({"UID"})
      /\ \A h \in Goroutine \ {g} : calls'[h] = calls[h]
    BY <1>2, RequestsTyped DEF LoadedInv, SharingTyped, Goroutine
<1>4. /\ at' \in [Goroutine -> Statement] /\ at'[g] = "begin"
      /\ \A h \in Goroutine \ {g} : at'[h] = at[h]
    BY <1>1 DEF LoadedInv, SharingTyped, Statement
<1>5. SharingTyped' /\ twice' \subseteq {"UID"} /\ TimestampsBelow'
    BY <1>1, <1>3, <1>4 DEF LoadedInv, SharingTyped, TimestampsBelow
<1>6. \A i, j \in Locking : calls'[i] # << >> /\ calls'[j] # << >> => i = j
    <2>1. g \in Locking => \A h \in Locking : calls[h] = << >>
        BY <1>1 DEF Locked, Locking, MayEnter, Busy
    <2> QED BY <1>3, <2>1 DEF LoadedInv, Locking, Goroutine
<1>7. ~TakingNamespace(g) /\ ~TakingNamespace(g)' /\ InLoadedCall(g)'
    BY <1>1, <1>4 DEF TakingNamespace, InLoadedCall, At
<1>8. \A h \in Locking : h # g => /\ TakingNamespace(h)' <=> TakingNamespace(h)
                                  /\ InLoadedCall(h)'
    BY <1>1, <1>3, <1>4
    DEF LoadedInv, InLoadedCall, At, TakingNamespace, TookNamespace, Locking, Goroutine
<1>9. NamespacesOrdered => NamespacesOrdered'
    BY <1>1 DEF NamespacesOrdered
<1> QED BY <1>3, <1>5, <1>6, <1>7, <1>8, <1>9 DEF LoadedInv

-----------------------------------------------------------------------------
(* SharingInv holds until a file is mapped, LoadedInv from then on until the *)
(* process is started again: of what it finds in the store nothing is known. *)
Inv ==
    /\ load = "none" => SharingInv
    /\ load = "ran" => LoadedInv

LEMMA InvStep == Locked /\ Inv /\ [Next]_vars => Inv'
<1> SUFFICES ASSUME Locked, Inv, [Next]_vars PROVE Inv'
    OBVIOUS
<1>1. ASSUME NEW g \in Goroutine, Enter(g) PROVE Inv'
    <2>1. /\ g \in Unlocked /\ load = "none" => load' = "ran"
          /\ g \notin Unlocked \/ load # "none" => load' = load
        BY <1>1 DEF Enter
    <2>2. load = "none" /\ g \in Locking => SharingInv'
        BY <1>1, EnterSafe DEF Inv
    <2>3. load = "none" \/ load = "ran" => LoadedInv'
        BY <1>1, EnterLoaded, LoadBegins DEF Inv
    <2> QED BY <2>1, <2>2, <2>3 DEF Inv, Locking, Goroutine
<1>2. ASSUME NEW g \in Goroutine, Step(g) PROVE Inv'
    <2>1. load' = load
        BY <1>2 DEF Step
    <2>2. load = "none" => SharingInv'
        BY <1>2, NextTsSafe, NextUIDsSafe, NextNamespaceSafe DEF Inv, Step
    <2>3. load = "ran" => LoadedInv'
        BY <1>2, NextTsLoaded, NextUIDsLoaded, NextNamespaceLoaded DEF Inv, Step
    <2> QED BY <2>1, <2>2, <2>3 DEF Inv
<1>3. CASE Restart
    BY <1>3, RestartSafe DEF Inv, Restart
<1>4. CASE UNCHANGED vars
    <2>1. /\ load' = load /\ SharingTyped' = SharingTyped /\ BoundsCover' = BoundsCover
          /\ twice' = twice /\ OneAtATime' = OneAtATime /\ calls' = calls /\ AtRest' = AtRest
        BY <1>4
        DEF vars, SharingTyped, BoundsCover, OneAtATime, AtRest, InStep, Ordered, NamespacesOrdered
    <2>2. \A g \in Goroutine : InCall(g)' = InCall(g)
        BY <1>4
        DEF vars, InCall, InNextTs, InNextUIDs, InNextNamespace, InStep, Ordered,
            NamespacesOrdered, TookUID, TookNamespace
    <2>3. SharingInv => SharingInv'
        BY <2>1, <2>2 DEF SharingInv
    <2>4. LoadedInv => LoadedInv'
        BY <1>4, <2>1
        DEF vars, LoadedInv, TimestampsBelow, NamespacesOrdered, InLoadedCall, At,
            TakingNamespace, TookNamespace
    <2> QED BY <2>1, <2>3, <2>4 DEF Inv
<1> QED BY <1>1, <1>2, <1>3, <1>4 DEF Next, Finished

LEMMA InvHolds == Locked => (Spec => []Inv)
<1> SUFFICES ASSUME Locked PROVE Spec => []Inv
    OBVIOUS
<1>1. Init => Inv
    BY SharingInitially DEF Init, Inv
<1>2. Inv /\ [Next]_vars => Inv'
    BY InvStep
<1> QED BY <1>1, <1>2, PTL DEF Spec

(* NoIdentifierTwice: zero has no lock, but as long as its callers exclude   *)
(* each other no UID, timestamp or namespace ID is handed out twice, with a  *)
(* crash between any two statements of a call; and while files are mapped,   *)
(* by any number of goroutines, timestamps and namespaces still are not.     *)
THEOREM IssuedOnce == Locked => (Spec => []NoIdentifierTwice)
<1>1. Inv => NoIdentifierTwice
    BY DEF Inv, SharingInv, LoadedInv, NoIdentifierTwice
<1> QED BY <1>1, InvHolds, PTL

(* StoreCoversIssued: until a file is mapped the store's bounds are, at      *)
(* every statement, above all that was handed out, also between the snapshot *)
(* of a lease and its commit.                                                *)
THEOREM StoreCovers == Locked => (Spec => []StoreCoversIssued)
<1>1. Inv => StoreCoversIssued
    BY DEF Inv, SharingInv, BoundsCover, StoreCoversIssued
<1> QED BY <1>1, InvHolds, PTL

=============================================================================
