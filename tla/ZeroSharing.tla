----------------------------- MODULE ZeroSharing -----------------------------
(* One zero used by several goroutines.  zero.go has no lock of its own; who *)
(* is kept apart from whom is decided by its callers: mutate, alterSchema    *)
(* and dropPredicate hold Engine.mutex exclusively, CreateNamespace holds it *)
(* shared, LeaseUIDs (live.go, under the mutex of its loader) takes neither. *)
(* The calls are run statement by statement, with the store write split into *)
(* the snapshot of the bounds and its commit, and a crash can come between   *)
(* any two.  Overflow and failing writes are module Zero's subject.          *)
EXTENDS Integers, Sequences

CONSTANTS
    Exclusive, Shared, Unlocked,    \* the goroutines, by how they lock
    initialUID, initialTs,
    leaseUIDAtATime, leaseTsAtATime,
    MaxTurns                        \* bound: requests and restarts

ASSUME SharingConstants ==
    /\ {initialUID, initialTs, leaseUIDAtATime, leaseTsAtATime} \subseteq Nat \ {0}
    /\ MaxTurns \in Nat
    /\ Unlocked \cap (Exclusive \cup Shared) = {}

Goroutine == Exclusive \cup Shared \cup Unlocked

VARIABLES
    zs,       \* store: the zero state [max, ns]
    z,        \* engine.z
    calls,    \* the zero calls each goroutine still has to make; << >> is idle
    at,       \* its statement in the first of them
    seen,     \* the counter value it read last
    snapshot, \* the zero state it is about to commit
    issued,   \* ghost: every identifier handed out
    twice,    \* ghost: the kinds of which one was handed out twice
    load,     \* ghost: whether a data file was mapped ("ran") and, since, a process
              \* was started from the store ("restarted")
    turns

vars == <<zs, z, calls, at, seen, snapshot, issued, twice, load, turns>>

LeaseAtATime == [UID |-> leaseUIDAtATime, Ts |-> leaseTsAtATime]

(* leaseUIDs and leaseTs do nothing while a full lease is left; otherwise    *)
(* max += min + LeaseAtATime.                                                *)
CoveredAtMax(zz, k) == zz.min[k] <= zz.max[k]                       \* mutant
Covered(zz, k) == zz.min[k] + LeaseAtATime[k] <= zz.max[k]

Leased(zz, k) == [zz EXCEPT !.max[k] = @ + zz.min[k] + LeaseAtATime[k]]

ZeroStateOf(zz) == [max |-> zz.max, ns |-> zz.ns]

NewZero(s) ==
    Leased(Leased([min |-> s.max, max |-> s.max, ns |-> s.ns], "UID"), "Ts")

FirstZero == NewZero([max |-> [UID |-> initialUID, Ts |-> initialTs], ns |-> 0])

Init ==
    /\ z = FirstZero
    /\ zs = ZeroStateOf(FirstZero)
    /\ calls = [g \in Goroutine |-> << >>]
    /\ at = [g \in Goroutine |-> "begin"]
    /\ seen = [g \in Goroutine |-> 0]
    /\ snapshot = [g \in Goroutine |-> zs]
    /\ issued = [UID |-> {}, Ts |-> {}, Ns |-> {}]
    /\ twice = {}
    /\ load = "none"
    /\ turns = 0

Busy(G) == {g \in G : calls[g] # << >>}

-----------------------------------------------------------------------------
(* Engine.mutex, a sync.RWMutex, and what each kind of caller asks of zero.  *)
MayEnterUnlocked(g) == TRUE                               \* mutant of MayEnter
MayEnter(g) ==
    /\ g \in Exclusive => Busy(Exclusive \cup Shared) = {}
    /\ g \in Shared => Busy(Exclusive) = {}

Requests(g) ==
    CASE g \in Exclusive -> {<<"Ts">>, <<"Ts", "Ts">>, <<"UID", "Ts", "Ts">>}
      [] g \in Shared    -> {<<"Ts", "Ns">>}
      [] g \in Unlocked  -> {<<"UID">>}

Enter(g) ==
    /\ turns < MaxTurns
    /\ calls[g] = << >>
    /\ MayEnter(g)
    /\ \E request \in Requests(g) : calls' = [calls EXCEPT ![g] = request]
    /\ at' = [at EXCEPT ![g] = "begin"]
    /\ load' = IF g \in Unlocked /\ load = "none" THEN "ran" ELSE load
    /\ turns' = turns + 1
    /\ UNCHANGED <<zs, z, seen, snapshot, issued, twice>>

-----------------------------------------------------------------------------
(* At(g, k, s): g is at statement s of a call for an identifier of kind k.   *)
At(g, k, s) == calls[g] # << >> /\ Head(calls[g]) = k /\ at[g] = s

Goto(g, s) == at' = [at EXCEPT ![g] = s] /\ UNCHANGED calls

Read(g, value) == seen' = [seen EXCEPT ![g] = value]

Return(g, k, id) ==
    /\ issued' = [issued EXCEPT ![k] = @ \cup {id}]
    /\ twice' = IF id \in issued[k] THEN twice \cup {k} ELSE twice
    /\ calls' = [calls EXCEPT ![g] = Tail(@)]
    /\ at' = [at EXCEPT ![g] = "begin"]

Nothing == UNCHANGED <<issued, twice>>

(* A counter read twice by one statement sequence without a lock may be read *)
(* at either moment: base is the value seen before or the one there now.     *)
Increment(g, k) ==
    \E base \in {seen[g], z.min[k]} : z' = [z EXCEPT !.min[k] = base + 1]

(* leaseTs and leaseUIDs up to the write. *)
LeaseStep(g, k, covered) ==
    /\ At(g, k, "lease")
    /\ IF Covered(z, k)
         THEN Goto(g, covered) /\ UNCHANGED z
         ELSE Goto(g, "marshal") /\ z' = Leased(z, k)
    /\ UNCHANGED <<zs, seen, snapshot>> /\ Nothing

(* writeZeroState reads the three bounds and marshals them ... *)
Marshal(g, k) ==
    /\ At(g, k, "marshal")
    /\ snapshot' = [snapshot EXCEPT ![g] = ZeroStateOf(z)]
    /\ Goto(g, "commit")
    /\ UNCHANGED <<zs, z, seen>> /\ Nothing

(* ... and commits what it marshalled, always at version zeroStateTs: the    *)
(* commit that comes last is the one that stays.                             *)
NotCommitted(g) == zs' = zs                               \* mutant of Committed
Committed(g) == zs' = snapshot[g]

Commit(g, k, after) ==
    /\ At(g, k, "commit")
    /\ Committed(g)
    /\ Goto(g, after)
    /\ UNCHANGED <<z, seen, snapshot>> /\ Nothing

NextTs(g) ==
    \/ /\ At(g, "Ts", "begin")
       /\ Goto(g, IF z.min["Ts"] >= z.max["Ts"] THEN "lease" ELSE "read")
       /\ UNCHANGED <<zs, z, seen, snapshot>> /\ Nothing
    \/ LeaseStep(g, "Ts", "read")
    \/ Marshal(g, "Ts")
    \/ Commit(g, "Ts", "read")
    \/ /\ At(g, "Ts", "read")
       /\ Read(g, z.min["Ts"])
       /\ Goto(g, "increment")
       /\ UNCHANGED <<zs, z, snapshot>> /\ Nothing
    \/ /\ At(g, "Ts", "increment")
       /\ Increment(g, "Ts")
       /\ Return(g, "Ts", seen[g])
       /\ UNCHANGED <<zs, seen, snapshot>>

NextUIDs(g) ==
    \/ /\ At(g, "UID", "begin")
       /\ Read(g, z.min["UID"])
       /\ Goto(g, "increment")
       /\ UNCHANGED <<zs, z, snapshot>> /\ Nothing
    \/ /\ At(g, "UID", "increment")
       /\ Increment(g, "UID")
       /\ Goto(g, "loop")
       /\ UNCHANGED <<zs, seen, snapshot>> /\ Nothing
    \/ /\ At(g, "UID", "loop")
       /\ z.min["UID"] >= z.max["UID"]
       /\ Goto(g, "lease")
       /\ UNCHANGED <<zs, z, seen, snapshot>> /\ Nothing
    \/ LeaseStep(g, "UID", "loop")
    \/ Marshal(g, "UID")
    \/ Commit(g, "UID", "loop")
    \/ /\ At(g, "UID", "loop")
       /\ z.min["UID"] < z.max["UID"]
       /\ Return(g, "UID", seen[g])
       /\ UNCHANGED <<zs, z, seen, snapshot>>

(* The number returned is read again after the write. *)
NextNamespace(g) ==
    \/ /\ At(g, "Ns", "begin")
       /\ Read(g, z.ns)
       /\ Goto(g, "increment")
       /\ UNCHANGED <<zs, z, snapshot>> /\ Nothing
    \/ /\ At(g, "Ns", "increment")
       /\ z' = [z EXCEPT !.ns = seen[g] + 1]
       /\ Goto(g, "marshal")
       /\ UNCHANGED <<zs, seen, snapshot>> /\ Nothing
    \/ Marshal(g, "Ns")
    \/ Commit(g, "Ns", "return")
    \/ /\ At(g, "Ns", "return")
       /\ Return(g, "Ns", z.ns)
       /\ UNCHANGED <<zs, z, seen, snapshot>>

Step(g) == (NextTs(g) \/ NextUIDs(g) \/ NextNamespace(g)) /\ UNCHANGED <<load, turns>>

(* The process dies and the next one opens the store (Engine.reset). *)
Restart ==
    /\ turns < MaxTurns
    /\ z' = NewZero(zs)
    /\ zs' = ZeroStateOf(z')
    /\ calls' = [g \in Goroutine |-> << >>]
    /\ load' = IF load = "ran" THEN "restarted" ELSE load
    /\ turns' = turns + 1
    /\ UNCHANGED <<at, seen, snapshot, issued, twice>>

Finished == turns = MaxTurns /\ Busy(Goroutine) = {} /\ UNCHANGED vars

Next == (\E g \in Goroutine : Enter(g) \/ Step(g)) \/ Restart \/ Finished

Spec == Init /\ [][Next]_vars /\ \A g \in Goroutine : WF_vars(Step(g))
-----------------------------------------------------------------------------
(* While no data is loaded no UID, timestamp or namespace ID leaves zero     *)
(* twice, not even across a crash: the locks its callers take are what this  *)
(* rests on.  LeaseUIDs takes none; within one process it costs UIDs only.   *)
NoIdentifierTwice ==
    /\ load = "none" => twice = {}
    /\ load = "ran" => twice \subseteq {"UID"}

(* CreateNamespace gives every caller a namespace of its own.                *)
NamespacesDistinct == "Ns" \notin twice

(* Whatever has been handed out lies below the bound in the store, so that a *)
(* process that starts from the store after a crash starts above it.  With a *)
(* load this is not so: of two snapshots the older one may be committed last.*)
StoreCoversIssued ==
    load = "none" =>
        /\ \A k \in {"UID", "Ts"} : \A id \in issued[k] : id < zs.max[k]
        /\ \A id \in issued["Ns"] : id <= zs.ns

(* A call into zero comes back: the refill loop of nextUIDs ends, whoever    *)
(* else is leasing at the same time.                                         *)
CallsReturn == \A g \in Goroutine : calls[g] # << >> ~> calls[g] = << >>
=============================================================================
