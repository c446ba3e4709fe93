----------------------------- MODULE ZeroProofs -----------------------------
(* Proofs about Zero for every lease size, word size and bound: the counters *)
(* stay in their word, the persisted lease covers what was handed out, and   *)
(* each kind of identifier implements IdOracle.                              *)
EXTENDS Zero, TLAPS

USE ZeroConstants

AfterRead == {"leaseUIDs", "leaseTs", "initialSchema", "loadSchema"}

Counters(zz) == \A k \in Kind : Initial[k] <= zz.min[k] /\ zz.min[k] <= zz.max[k]

-----------------------------------------------------------------------------
(* The inductive invariant, by concern. *)

CountersOrdered ==
    ~wrapped => /\ Counters(z)
                /\ Counters(nz)
                /\ \A k \in Kind : Initial[k] <= zs.max[k]

(* The store holds what the zero being built, or in use, would write. *)
StoreInStep ==
    /\ phase \in AfterRead => zs.max = nz.max /\ zs.ns = nz.ns
    /\ phase = "open" /\ ~unsynced => zs.max = z.max /\ zs.ns = z.ns
    /\ unsynced => phase = "open"

DropForgets == dropping => phase # "open" /\ grant = Nothing

(* Everything handed out is below the counter it came from. *)
GrantsBelowCounters ==
    trusted => \A k \in Kind :
        /\ phase = "open" => grant[k].hi < z.min[k]
        /\ phase \in AfterRead => grant[k].hi < nz.min[k]

NamespacesBelowCounter ==
    phase = "open" => grant["Ns"].hi <= z.ns

Safe == /\ CountersOrdered
        /\ StoreInStep
        /\ DropForgets
        /\ GrantsBelowCounters
        /\ NamespacesBelowCounter
        /\ LeaseCoversGrants
        /\ NamespacesCovered

IInv == TypeOK /\ Safe

-----------------------------------------------------------------------------
(* What a lease does to the record of counters. *)

(* uint64 addition stays a word, and is plain addition when it does not      *)
(* overflow (zero.go: max += min + leaseAtATime).                            *)
LEMMA AddWord ==
    ASSUME NEW a \in Word, NEW b \in Word
    PROVE  /\ Add(a, b) \in Word
           /\ ~Overflows(a, b) => Add(a, b) = a + b
  BY DEF Word, Add, Overflows

(* The lease sizes and the first identifiers of zero.go are words. *)
LEMMA LeaseWord ==
    /\ Kind = {"UID", "Ts"}
    /\ \A k \in Kind : LeaseAtATime[k] \in Word /\ LeaseAtATime[k] > 0
    /\ \A k \in Kind : Initial[k] \in Word /\ Initial[k] > 0
    /\ Initial \in [Kind -> Word]
  BY DEF Kind, LeaseAtATime, Initial, Word

(* The blocks handed out before anything was handed out are typed. *)
LEMMA NothingTyped == Nothing \in [{"UID", "Ts", "Ns"} -> Block]
  <1>1. initialUID - 1 \in Nat /\ initialTs - 1 \in Nat
    OBVIOUS
  <1>2. ASSUME NEW n \in Nat
        PROVE  [lo |-> n, hi |-> n, again |-> FALSE] \in Block
    BY DEF Block
  <1>3. /\ Nothing["UID"] \in Block /\ Nothing["Ts"] \in Block /\ Nothing["Ns"] \in Block
        /\ Nothing = [k \in {"UID", "Ts", "Ns"} |-> Nothing[k]]
    BY <1>1, <1>2 DEF Nothing
  <1> QED BY <1>3

(* leaseUIDs and leaseTs keep a record of counters typed; without overflow   *)
(* the new bound is the plain sum of the code, the rest stays as it was.     *)
LEMMA LeasedRecord ==
    ASSUME NEW zz \in ZeroRecord, NEW k \in Kind
    PROVE  /\ Leased(zz, k) \in ZeroRecord
           /\ Leased(zz, k).min = zz.min
           /\ Leased(zz, k).ns = zz.ns
           /\ \A j \in Kind \ {k} : Leased(zz, k).max[j] = zz.max[j]
           /\ ~LeaseOverflows(zz, k) =>
                Leased(zz, k).max[k] = zz.max[k] + zz.min[k] + LeaseAtATime[k]
  <1>1. /\ zz.min \in [Kind -> Word] /\ zz.max \in [Kind -> Word]
        /\ zz.min[k] \in Word /\ zz.max[k] \in Word /\ LeaseAtATime[k] \in Word
    BY LeaseWord DEF ZeroRecord
  <1> DEFINE more == Add(zz.min[k], LeaseAtATime[k])
  <1>2. more \in Word /\ Add(zz.max[k], more) \in Word
    BY <1>1, AddWord
  <1>3. Leased(zz, k) = [zz EXCEPT !.max = [zz.max EXCEPT ![k] = Add(zz.max[k], more)]]
    BY DEF Leased
  <1>4. [zz.max EXCEPT ![k] = Add(zz.max[k], more)] \in [Kind -> Word]
    BY <1>1, <1>2
  <1> HIDE DEF more
  <1>5. Leased(zz, k) = [min |-> zz.min, ns |-> zz.ns,
                         max |-> [zz.max EXCEPT ![k] = Add(zz.max[k], more)]]
    BY <1>3 DEF ZeroRecord
  <1>6. /\ Leased(zz, k) \in ZeroRecord
        /\ Leased(zz, k).min = zz.min
        /\ Leased(zz, k).ns = zz.ns
        /\ \A j \in Kind \ {k} : Leased(zz, k).max[j] = zz.max[j]
        /\ Leased(zz, k).max[k] = Add(zz.max[k], more)
    BY <1>1, <1>4, <1>5 DEF ZeroRecord
  <1>7. ~LeaseOverflows(zz, k) =>
          Add(zz.max[k], more) = zz.max[k] + zz.min[k] + LeaseAtATime[k]
    <2> SUFFICES ASSUME ~LeaseOverflows(zz, k)
                 PROVE  Add(zz.max[k], more) = zz.max[k] + zz.min[k] + LeaseAtATime[k]
      OBVIOUS
    <2>1. more = zz.min[k] + LeaseAtATime[k]
      BY <1>1, AddWord DEF LeaseOverflows, more
    <2>2. Add(zz.max[k], more) = zz.max[k] + more
      BY <1>1, <1>2, AddWord DEF LeaseOverflows, more
    <2> QED BY <2>1, <2>2, <1>1 DEF Word
  <1> QED BY <1>6, <1>7

(* A handed-out block of a running engine keeps the record typed and in      *)
(* order, with or without a refill.                                          *)
LEMMA MovedRecord ==
    ASSUME NEW zz \in ZeroRecord, NEW k \in Kind, NEW n \in Word
    PROVE  LET moved == [zz EXCEPT !.min[k] = n]
           IN  /\ moved \in ZeroRecord
               /\ moved.max = zz.max
               /\ moved.ns = zz.ns
               /\ moved.min[k] = n
               /\ \A j \in Kind \ {k} : moved.min[j] = zz.min[j]
  <1> DEFINE moved == [zz EXCEPT !.min[k] = n]
  <1>1. zz.min \in [Kind -> Word] /\ zz.max \in [Kind -> Word]
    BY DEF ZeroRecord
  <1>2. moved = [min |-> [zz.min EXCEPT ![k] = n], max |-> zz.max, ns |-> zz.ns]
    BY DEF ZeroRecord
  <1> HIDE DEF moved
  <1>3. /\ moved \in ZeroRecord
        /\ moved.max = zz.max
        /\ moved.ns = zz.ns
        /\ moved.min[k] = n
        /\ \A j \in Kind \ {k} : moved.min[j] = zz.min[j]
    BY <1>1, <1>2 DEF ZeroRecord
  <1> QED BY <1>3 DEF moved

-----------------------------------------------------------------------------
(* Type correctness. *)

(* The counters of a process that has not read the store are typed, and in   *)
(* order.                                                                    *)
LEMMA FirstZero == /\ NewZeroFrom(NoZeroState) \in ZeroRecord
                   /\ Counters(NewZeroFrom(NoZeroState))
  <1>1. Initial \in [Kind -> Word]
    BY ZeroConstants DEF Initial, Kind, Word
  <1>2. \A k \in Kind : Initial[k] \in Nat
    BY <1>1 DEF Word
  <1>3. NewZeroFrom(NoZeroState) = [min |-> Initial, max |-> Initial, ns |-> 0]
    BY DEF NewZeroFrom, NoZeroState
  <1>4. 0 \in 0 .. MaxNamespaces
    BY ZeroConstants
  <1> QED BY <1>1, <1>2, <1>3, <1>4 DEF ZeroRecord, Counters

(* The process starts with typed counters. *)
LEMMA InitTyped == Init => TypeOK
  <1>1. /\ NoZeroState \in [present : BOOLEAN, max : [Kind -> Word], ns : 0 .. MaxNamespaces]
        /\ NewZeroFrom(NoZeroState) \in ZeroRecord
    BY LeaseWord DEF NoZeroState, NewZeroFrom, ZeroRecord
  <1>2. Init => FlagsTyped
    BY DEF Init, FlagsTyped
  <1>3. Init => CountersTyped
    BY <1>1, NothingTyped DEF Init, CountersTyped, Word
  <1> QED BY <1>2, <1>3 DEF TypeOK

(* Noting a block handed out keeps the blocks typed and the other kinds as   *)
(* they were; a block above the one before it is not marked.                 *)
LEMMA GrantNoted ==
    ASSUME grant \in [{"UID", "Ts", "Ns"} -> Block],
           NEW k \in {"UID", "Ts", "Ns"}, NEW lo \in Nat, NEW hi \in Nat,
           Granted(k, lo, hi)
    PROVE  /\ grant' \in [{"UID", "Ts", "Ns"} -> Block]
           /\ grant'[k].lo = lo /\ grant'[k].hi = hi
           /\ lo > grant[k].hi => ~grant'[k].again
           /\ \A j \in {"UID", "Ts", "Ns"} \ {k} : grant'[j] = grant[j]
  <1> DEFINE b == lo <= grant[k].hi
             new == [lo |-> lo, hi |-> hi, again |-> b]
  <1>1. new \in Block /\ new.lo = lo /\ new.hi = hi /\ new.again = b
    <2>1. b \in BOOLEAN
      OBVIOUS
    <2> HIDE DEF b
    <2> QED BY <2>1, Zenon DEF Block
  <1>2. grant' = [grant EXCEPT ![k] = new]
    BY DEF Granted
  <1> HIDE DEF new
  <1>3. grant' \in [{"UID", "Ts", "Ns"} -> Block] /\ grant'[k] = new
        /\ \A j \in {"UID", "Ts", "Ns"} \ {k} : grant'[j] = grant[j]
    BY <1>1, <1>2
  <1>4. lo > grant[k].hi => ~b
    <2>1. grant[k].hi \in Nat
      BY DEF Block
    <2> QED BY <2>1
  <1> QED BY <1>1, <1>3, <1>4, Zenon

(* What writeZeroState writes is a typed zero state. *)
LEMMA ZeroStateTyped ==
    ASSUME NEW zz \in ZeroRecord
    PROVE  ZeroStateOf(zz) \in [present : BOOLEAN, max : [Kind -> Word], ns : 0 .. MaxNamespaces]
  BY DEF ZeroRecord, ZeroStateOf

(* No step of reset, of an allocation or of a stop breaks the type of a      *)
(* flag.                                                                     *)
LEMMA FlagsStayTyped == TypeOK /\ [Next]_vars => FlagsTyped'
  <1> SUFFICES ASSUME FlagsTyped, CountersTyped, [Next]_vars PROVE FlagsTyped'
    BY DEF TypeOK
  <1> USE DEF FlagsTyped, store, ghosts
  <1>1. CASE NewEngine
    BY <1>1 DEF NewEngine
  <1>2. CASE DropAll
    BY <1>2 DEF DropAll
  <1>3. CASE ReadZeroState
    <2>1. restart' \in BOOLEAN
      BY <1>3 DEF ReadZeroState, CountersTyped
    <2> QED BY <1>3, <2>1 DEF ReadZeroState
  <1>4. ASSUME NEW k, NEW next, ResetLease(k, next)
        PROVE  FlagsTyped'
    BY <1>4 DEF ResetLease
  <1>5. CASE LeaseUIDsOfNewZero
    BY <1>5, <1>4 DEF LeaseUIDsOfNewZero
  <1>6. CASE LeaseTsOfNewZero
    BY <1>6, <1>4 DEF LeaseTsOfNewZero
  <1>7. CASE ApplyInitialSchema
    BY <1>7 DEF ApplyInitialSchema
  <1>8. CASE LoadSchema
    BY <1>8 DEF LoadSchema
  <1>9. CASE ResetFails
    BY <1>9 DEF ResetFails
  <1>10. CASE NextTs
    BY <1>10 DEF NextTs, Keep, LeaseWritten, LeaseFails
  <1>11. ASSUME NEW lo, NEW hi, MoveUIDs(lo, hi), Keep
         PROVE  FlagsTyped'
    BY <1>11 DEF MoveUIDs, Keep, LeaseWritten, LeaseFails
  <1>12. ASSUME NEW val \in 0 .. MaxNum, NextUIDs(val) \/ BumpUIDs(val)
         PROVE  FlagsTyped'
    BY <1>11, <1>12 DEF NextUIDs, BumpUIDs
  <1>13. CASE NextNamespace
    BY <1>13 DEF NextNamespace, Keep, LeaseWritten
  <1>14. CASE Stop
    BY <1>14 DEF Stop
  <1>15. CASE UNCHANGED vars
    BY <1>15 DEF vars
  <1> QED
    BY <1>1, <1>2, <1>3, <1>5, <1>6, <1>7, <1>8, <1>9, <1>10, <1>12, <1>13, <1>14, <1>15
    DEF Next, Reset

(* The steps of Engine.reset keep the counters typed, wrap-around of a lease *)
(* included.                                                                 *)
LEMMA ResetCountersTyped == CountersTyped /\ Reset => CountersTyped'
  <1> SUFFICES ASSUME CountersTyped, Reset PROVE CountersTyped'
    OBVIOUS
  <1> USE DEF CountersTyped, store, ghosts
  <1>1. CASE NewEngine
    BY <1>1 DEF NewEngine
  <1>2. CASE DropAll
    BY <1>2, LeaseWord, NothingTyped DEF DropAll, NoZeroState
  <1>3. CASE ReadZeroState
    <2>1. NewZeroFrom(zs) \in ZeroRecord
      BY DEF NewZeroFrom, ZeroRecord
    <2>2. zs.max["Ts"] \in Word /\ zs.max["UID"] \in Word
      BY DEF Kind
    <2>3. maxAssigned' \in Word /\ maxUID' \in Word
      BY <1>3, <2>2 DEF ReadZeroState, Before, Higher, Word
    <2> QED BY <1>3, <2>1, <2>3 DEF ReadZeroState
  <1>4. ASSUME NEW k \in Kind, NEW next \in {"leaseTs", "initialSchema", "loadSchema"},
               ResetLease(k, next)
        PROVE  CountersTyped'
    BY <1>4, LeasedRecord, ZeroStateTyped DEF ResetLease
  <1>5. CASE LeaseUIDsOfNewZero
    BY <1>5, <1>4 DEF LeaseUIDsOfNewZero, Kind
  <1>6. CASE LeaseTsOfNewZero
    BY <1>6, <1>4 DEF LeaseTsOfNewZero, Kind
  <1>7. CASE ApplyInitialSchema
    BY <1>7 DEF ApplyInitialSchema
  <1>8. CASE LoadSchema
    BY <1>8 DEF LoadSchema
  <1>9. CASE ResetFails
    BY <1>9 DEF ResetFails
  <1> QED BY <1>1, <1>2, <1>3, <1>5, <1>6, <1>7, <1>8, <1>9 DEF Reset

(* A refill that stays in the word keeps the record typed. *)
LEMMA RunningCountersTyped ==
    ASSUME CountersTyped, Next, ~Reset, ~Stop
    PROVE  CountersTyped'
  <1> USE DEF CountersTyped
  <1>1. /\ z.min \in [Kind -> Word] /\ z.max \in [Kind -> Word]
        /\ z.ns \in 0 .. MaxNamespaces
        /\ "UID" \in Kind /\ "Ts" \in Kind
        /\ z.min["UID"] \in Word /\ z.min["Ts"] \in Word
    BY DEF ZeroRecord, Kind
  <1>2. ASSUME NEW zz \in ZeroRecord, LeaseFails(zz), Keep
        PROVE  CountersTyped'
    BY <1>2 DEF LeaseFails, Keep
  <1>3. CASE NextTs
    <2>1. ASSUME NEW zz \in ZeroRecord, zz.min["Ts"] + 1 \in Word, HandTs(zz)
          PROVE  z' \in ZeroRecord /\ maxAssigned' \in Word /\ maxUID' \in Word
                 /\ grant' \in [{"UID", "Ts", "Ns"} -> Block]
      <3>1. zz.min["Ts"] \in Word
        BY <1>1 DEF ZeroRecord
      <3>2. z' = [zz EXCEPT !.min["Ts"] = zz.min["Ts"] + 1]
        BY <2>1 DEF HandTs
      <3>3. z' \in ZeroRecord
        BY <1>1, <2>1, <3>2, MovedRecord
      <3>4. maxAssigned' \in Word /\ maxUID' \in Word
        BY <2>1, <3>1 DEF HandTs, Higher, Word
      <3>5. grant' \in [{"UID", "Ts", "Ns"} -> Block]
        BY <2>1, <3>1, GrantNoted DEF HandTs, Word
      <3> QED BY <3>3, <3>4, <3>5
    <2>2. z.min["Ts"] + 1 \in Word
      <3>1. z.min["Ts"] \in Word /\ z.max["Ts"] \in Word
        BY <1>1 DEF ZeroRecord
      <3>2. CASE z.min["Ts"] < z.max["Ts"]
        BY <3>1, <3>2 DEF Word
      <3>3. CASE ~LeaseOverflows(z, "Ts")
        BY <1>1, <3>1, <3>3, LeaseWord DEF LeaseOverflows, Overflows, Word
      <3> QED BY <1>3, <3>2, <3>3 DEF NextTs, Renews
    <2>3. Leased(z, "Ts") \in ZeroRecord /\ Leased(z, "Ts").min["Ts"] + 1 \in Word
      BY <1>1, <2>2, LeasedRecord
    <2>4. CASE HandTs(z) /\ UNCHANGED <<zs, unsynced>>
      BY <1>3, <2>1, <2>2, <2>4 DEF NextTs, Keep
    <2>5. CASE HandTs(Leased(z, "Ts")) /\ LeaseWritten(Leased(z, "Ts"))
      BY <1>3, <2>1, <2>3, <2>5, ZeroStateTyped DEF NextTs, Keep, LeaseWritten
    <2>6. CASE LeaseFails(Leased(z, "Ts"))
      BY <1>2, <1>3, <2>3, <2>6 DEF NextTs
    <2> QED BY <1>3, <2>4, <2>5, <2>6 DEF NextTs
  <1>4. ASSUME NEW lo \in Nat, NEW hi \in Int, hi + 1 >= 0, MoveUIDs(lo, hi), Keep
        PROVE  CountersTyped'
    <2> DEFINE zz == [z EXCEPT !.min["UID"] = hi + 1]
    <2>1. hi + 1 \in Word
      BY <1>4 DEF MoveUIDs, Word
    <2>2. zz \in ZeroRecord
      BY <1>1, <2>1, MovedRecord
    <2>3. Leased(zz, "UID") \in ZeroRecord
      BY <1>1, <2>2, LeasedRecord
    <2>4. ASSUME NEW y \in ZeroRecord, HandUIDs(lo, hi, y)
          PROVE  z' \in ZeroRecord /\ maxAssigned' \in Word /\ maxUID' \in Word
                 /\ grant' \in [{"UID", "Ts", "Ns"} -> Block]
      <3>1. y.min["UID"] \in Word
        BY <1>1 DEF ZeroRecord
      <3>2. maxAssigned' \in Word /\ maxUID' \in Word
        BY <2>4, <3>1 DEF HandUIDs, Before, Word
      <3>3. grant' \in [{"UID", "Ts", "Ns"} -> Block]
        <4>1. CASE lo <= hi
          <5>1. hi \in Nat /\ Granted("UID", lo, hi)
            BY <1>4, <2>4, <4>1 DEF HandUIDs
          <5> QED BY <1>4, <5>1, GrantNoted
        <4>2. CASE ~(lo <= hi)
          BY <2>4, <4>2 DEF HandUIDs
        <4> QED BY <4>1, <4>2
      <3> QED BY <2>4, <3>2, <3>3 DEF HandUIDs
    <2>5. CASE HandUIDs(lo, hi, zz) /\ UNCHANGED <<zs, unsynced>>
      BY <1>4, <2>2, <2>4, <2>5 DEF Keep
    <2>6. CASE HandUIDs(lo, hi, Leased(zz, "UID")) /\ LeaseWritten(Leased(zz, "UID"))
      BY <1>4, <2>3, <2>4, <2>6, ZeroStateTyped DEF Keep, LeaseWritten
    <2>7. CASE LeaseFails(Leased(zz, "UID"))
      BY <1>2, <1>4, <2>3, <2>7
    <2> QED BY <1>4, <2>5, <2>6, <2>7 DEF MoveUIDs
  <1>5. ASSUME NEW val \in 0 .. MaxNum, NextUIDs(val)
        PROVE  CountersTyped'
    <2>1. /\ z.min["UID"] \in Nat /\ z.min["UID"] + val - 1 \in Int
          /\ (z.min["UID"] + val - 1) + 1 >= 0
      BY <1>1 DEF Word
    <2> QED BY <1>4, <1>5, <2>1 DEF NextUIDs
  <1>6. ASSUME NEW val \in 0 .. MaxNum, BumpUIDs(val)
        PROVE  CountersTyped'
    <2>1. /\ z.min["UID"] \in Nat /\ Higher(z.min["UID"], val) \in Int
          /\ Higher(z.min["UID"], val) + 1 >= 0
      BY <1>1 DEF Word, Higher
    <2> QED BY <1>4, <1>6, <2>1 DEF BumpUIDs
  <1>7. CASE NextNamespace
    <2> DEFINE zz == [z EXCEPT !.ns = @ + 1]
    <2>1. zz \in ZeroRecord /\ zz.ns \in Nat
      BY <1>1, <1>7 DEF NextNamespace, ZeroRecord
    <2>2. z' \in ZeroRecord
      BY <1>7, <2>1 DEF NextNamespace
    <2>3. zs' \in [present : BOOLEAN, max : [Kind -> Word], ns : 0 .. MaxNamespaces]
      BY <1>7, <2>1, ZeroStateTyped DEF NextNamespace, LeaseWritten
    <2>4. grant' \in [{"UID", "Ts", "Ns"} -> Block]
      BY <1>7, <2>1, GrantNoted DEF NextNamespace
    <2> QED BY <1>7, <2>2, <2>3, <2>4 DEF NextNamespace, Keep
  <1> QED BY <1>3, <1>5, <1>6, <1>7 DEF Next

(* Type correctness is inductive by itself. *)
LEMMA TypeStep == TypeOK /\ [Next]_vars => TypeOK'
  <1> SUFFICES ASSUME TypeOK, [Next]_vars PROVE CountersTyped'
    BY FlagsStayTyped DEF TypeOK
  <1>1. CASE Stop
    <2>1. z' \in ZeroRecord /\ nz' \in ZeroRecord
      BY <1>1, FirstZero DEF Stop
    <2>2. maxAssigned' \in Word /\ maxUID' \in Word
      BY <1>1, LeaseWord DEF Stop, Word
    <2> QED BY <1>1, <2>1, <2>2 DEF Stop, store, TypeOK, CountersTyped
  <1>2. CASE UNCHANGED vars
    BY <1>2 DEF vars, TypeOK, CountersTyped
  <1> QED BY <1>1, <1>2, RunningCountersTyped, ResetCountersTyped DEF TypeOK

(* zero.go: every counter is a machine word in every reachable state, after  *)
(* whatever failures and restarts.                                           *)
THEOREM TypeCorrect == Spec => []TypeOK
  BY InitTyped, TypeStep, PTL DEF Spec

-----------------------------------------------------------------------------
(* The persisted lease covers what was handed out. *)

(* The invariant on leases holds before the first open. *)
LEMMA InitSafe == Init => Safe
  BY DEF Init, Safe, CountersOrdered, StoreInStep, DropForgets, GrantsBelowCounters,
         NamespacesBelowCounter, LeaseCoversGrants, NamespacesCovered, Counters,
         NoZeroState, NewZeroFrom, Nothing, Kind, Initial, AfterRead

(* Facts about typed counters that the arithmetic of the steps needs. *)
LEMMA Typed ==
    ASSUME TypeOK
    PROVE  /\ \A k \in Kind : /\ z.min[k] \in Nat /\ z.max[k] \in Nat
                              /\ nz.min[k] \in Nat /\ nz.max[k] \in Nat
                              /\ zs.max[k] \in Nat
                              /\ grant[k].lo \in Nat /\ grant[k].hi \in Nat
                              /\ Initial[k] \in Nat /\ LeaseAtATime[k] \in Nat
                              /\ LeaseAtATime[k] > 0
           /\ grant["Ns"].hi \in Nat /\ z.ns \in Nat /\ nz.ns \in Nat /\ zs.ns \in Nat
  BY LeaseWord DEF TypeOK, CountersTyped, ZeroRecord, Block, Word, Kind

(* The steps of Engine.reset keep it: newZero starts at the persisted bounds *)
(* and renews the leases from there.                                         *)
LEMMA ResetSafe ==
    ASSUME TypeOK, Safe, Reset
    PROVE  Safe'
  <1> USE DEF Safe, CountersOrdered, StoreInStep, DropForgets, GrantsBelowCounters,
              NamespacesBelowCounter, LeaseCoversGrants, NamespacesCovered, trusted
  <1>1. CASE NewEngine
    BY <1>1 DEF NewEngine, store, ghosts, Counters, AfterRead
  <1>2. CASE DropAll
    BY <1>2, Typed DEF DropAll, NoZeroState, Nothing, Counters, Kind, Initial, AfterRead
  <1>3. CASE ReadZeroState
    BY <1>3, Typed DEF ReadZeroState, NewZeroFrom, store, ghosts, Counters, AfterRead
  <1>4. ASSUME NEW k \in Kind, NEW next \in {"leaseTs", "initialSchema", "loadSchema"},
               phase \in AfterRead, ResetLease(k, next)
        PROVE  Safe'
    <2>1. CASE ~NeedsLease(nz, k)
      BY <1>4, <2>1, Typed DEF ResetLease, Counters, AfterRead
    <2>2. CASE NeedsLease(nz, k)
      <3>1. /\ nz' = Leased(nz, k)
            /\ zs' = ZeroStateOf(nz')
            /\ wrapped' = (wrapped \/ LeaseOverflows(nz, k))
            /\ phase' = next
            /\ UNCHANGED <<dropping, z, grant, unsynced, lost>>
        BY <1>4, <2>2 DEF ResetLease
      <3>2. /\ nz'.min = nz.min /\ nz'.ns = nz.ns
            /\ \A j \in Kind \ {k} : nz'.max[j] = nz.max[j]
            /\ ~wrapped' => nz'.max[k] = nz.max[k] + nz.min[k] + LeaseAtATime[k]
        <4>1. nz \in ZeroRecord
          BY DEF TypeOK, CountersTyped
        <4>2. ~wrapped' => ~wrapped /\ ~LeaseOverflows(nz, k)
          BY <3>1
        <4> QED BY <3>1, <4>1, <4>2, LeasedRecord
      <3>3. zs'.max = nz'.max /\ zs'.ns = nz'.ns
        BY <3>1 DEF ZeroStateOf
      <3>4. ~wrapped' => ~wrapped /\ \A j \in Kind : nz'.max[j] \in Nat /\ nz'.max[j] >= nz.max[j]
        <4>1. ~wrapped' => nz'.max[k] \in Nat /\ nz'.max[k] >= nz.max[k]
          BY <3>2, Typed
        <4>2. \A j \in Kind \ {k} : nz'.max[j] \in Nat /\ nz'.max[j] >= nz.max[j]
          BY <3>2, Typed
        <4>3. ~wrapped' => ~wrapped
          BY <3>1
        <4> QED BY <4>1, <4>2, <4>3
      <3>5. CountersOrdered'
        <4> SUFFICES ASSUME ~wrapped', NEW j \in Kind
                     PROVE  /\ Initial[j] <= z.min[j] /\ z.min[j] <= z.max[j]
                            /\ Initial[j] <= nz.min[j] /\ nz.min[j] <= nz'.max[j]
                            /\ Initial[j] <= nz'.max[j]
          BY <3>1, <3>2, <3>3 DEF Counters
        <4> QED BY <3>4, Typed DEF Counters
      <3>6. StoreInStep' /\ DropForgets'
        BY <1>4, <3>1, <3>3 DEF AfterRead
      <3>7. GrantsBelowCounters' /\ NamespacesBelowCounter'
        BY <1>4, <3>1, <3>2 DEF AfterRead
      <3>8. LeaseCoversGrants'
        <4> SUFFICES ASSUME trusted', ~unsynced', NEW j \in Kind
                     PROVE  grant[j].hi < nz'.max[j]
          BY <3>1, <3>3
        <4>1. trusted /\ ~unsynced
          BY <3>1
        <4>2. grant[j].hi < zs.max[j] /\ zs.max[j] = nz.max[j]
          BY <1>4, <4>1
        <4> QED BY <3>4, <4>2, Typed
      <3>9. NamespacesCovered'
        BY <1>4, <3>1, <3>2, <3>3 DEF AfterRead
      <3> QED BY <3>5, <3>6, <3>7, <3>8, <3>9
    <2> QED BY <2>1, <2>2
  <1>5. CASE LeaseUIDsOfNewZero
    BY <1>4, <1>5 DEF LeaseUIDsOfNewZero, Kind, AfterRead
  <1>6. CASE LeaseTsOfNewZero
    BY <1>4, <1>6 DEF LeaseTsOfNewZero, Kind, AfterRead
  <1>7. CASE ApplyInitialSchema
    BY <1>7 DEF ApplyInitialSchema, ghosts, Counters, AfterRead
  <1>8. CASE LoadSchema
    BY <1>8 DEF LoadSchema, store, ghosts, Counters, AfterRead
  <1>9. CASE ResetFails
    BY <1>9, Typed DEF ResetFails, store, Nothing, Counters, Kind, Initial, AfterRead
  <1> QED BY <1>1, <1>2, <1>3, <1>5, <1>6, <1>7, <1>8, <1>9 DEF Reset

(* A step of a running engine leaves the counters at or above where they     *)
(* were, in memory and, if it wrote, in the store.                           *)
LEMMA RunningSafe ==
    ASSUME TypeOK, TypeOK', Safe, phase = "open", Keep,
           NEW zz \in ZeroRecord, z' = zz,
           ~wrapped, Counters(zz), zz.ns >= z.ns,
           \A j \in Kind : zz.min[j] >= z.min[j] /\ zz.max[j] >= z.max[j],
           \/ unsynced' = TRUE /\ UNCHANGED zs
           \/ unsynced' = FALSE /\ zs' = ZeroStateOf(zz)
           \/ UNCHANGED <<zs, unsynced>> /\ zz.max = z.max /\ zz.ns = z.ns,
           \A j \in Kind : grant'[j] = grant[j] \/ grant'[j].hi < zz.min[j],
           \/ grant'["Ns"] = grant["Ns"]
           \/ grant'["Ns"].hi <= zz.ns /\ zs' = ZeroStateOf(zz)
    PROVE  Safe'
  <1> USE DEF Safe, CountersOrdered, StoreInStep, DropForgets, GrantsBelowCounters,
              NamespacesBelowCounter, LeaseCoversGrants, NamespacesCovered, trusted
  <1>1. /\ \A j \in Kind : zz.min[j] \in Nat /\ zz.max[j] \in Nat
        /\ zz.ns \in Nat
        /\ phase' = "open" /\ ~wrapped' /\ dropping' = dropping /\ nz' = nz /\ lost' = lost
    BY DEF ZeroRecord, Word, Keep
  <1>2. ~dropping
    OBVIOUS
  <1>3. zs' = ZeroStateOf(zz) => zs'.max = zz.max /\ zs'.ns = zz.ns
    BY DEF ZeroStateOf
  <1>4. CountersOrdered'
    <2>1. \A j \in Kind : Initial[j] <= zs'.max[j]
      BY <1>1, <1>3, Typed DEF Counters
    <2> QED BY <1>1, <2>1 DEF Counters
  <1>5. StoreInStep'
    BY <1>1, <1>3 DEF AfterRead
  <1>6. DropForgets'
    BY <1>1, <1>2
  <1>7. GrantsBelowCounters'
    <2> SUFFICES ASSUME ~lost, NEW j \in Kind
                 PROVE  grant'[j].hi < zz.min[j]
      BY <1>1 DEF AfterRead
    <2>1. grant[j].hi < z.min[j]
      OBVIOUS
    <2> QED BY <1>1, <2>1, Typed
  <1>8. NamespacesBelowCounter' /\ NamespacesCovered'
    <2>1. zs'.ns >= zs.ns \/ (zs'.ns = zz.ns)
      BY <1>3, Typed
    <2>2. grant["Ns"].hi <= z.ns /\ grant["Ns"].hi <= zs.ns
      OBVIOUS
    <2> QED BY <1>1, <1>3, <2>1, <2>2, Typed
  <1>9. LeaseCoversGrants'
    <2> SUFFICES ASSUME ~lost, ~unsynced', NEW j \in Kind
                 PROVE  grant'[j].hi < zs'.max[j]
      BY <1>1
    <2>1. zs'.max[j] = zz.max[j]
      BY <1>3
    <2>2. grant'[j].hi < zz.min[j]
      BY <1>1, <1>7
    <2>3. zz.min[j] <= zz.max[j]
      BY DEF Counters
    <2>4. grant'[j].hi \in Nat
      BY DEF TypeOK, CountersTyped, Block, Kind
    <2> QED BY <1>1, <2>1, <2>2, <2>3, <2>4
  <1> QED BY <1>4, <1>5, <1>6, <1>7, <1>8, <1>9

(* A lease renewed within the word keeps the counters of a record below      *)
(* their bounds and at or above where they were.                             *)
LEMMA LeaseKeepsOrder ==
    ASSUME NEW zz \in ZeroRecord, NEW k \in Kind, Counters(zz), ~LeaseOverflows(zz, k)
    PROVE  /\ Leased(zz, k) \in ZeroRecord
           /\ Counters(Leased(zz, k))
           /\ Leased(zz, k).ns = zz.ns
           /\ \A j \in Kind : /\ Leased(zz, k).min[j] = zz.min[j]
                              /\ Leased(zz, k).max[j] >= zz.max[j]
           /\ Leased(zz, k).max[k] > zz.min[k]
  <1>1. \A j \in Kind : /\ zz.min[j] \in Nat /\ zz.max[j] \in Nat
                        /\ LeaseAtATime[j] \in Nat /\ LeaseAtATime[j] > 0
                        /\ Initial[j] \in Nat
    BY LeaseWord DEF ZeroRecord, Word
  <1>2. /\ Leased(zz, k).min = zz.min
        /\ Leased(zz, k).max[k] = zz.max[k] + zz.min[k] + LeaseAtATime[k]
        /\ \A j \in Kind \ {k} : Leased(zz, k).max[j] = zz.max[j]
        /\ Leased(zz, k) \in ZeroRecord /\ Leased(zz, k).ns = zz.ns
    BY LeasedRecord
  <1>3. \A j \in Kind : Leased(zz, k).max[j] >= zz.max[j]
    BY <1>1, <1>2
  <1>4. \A j \in Kind : Leased(zz, k).min[j] <= Leased(zz, k).max[j]
    <2> SUFFICES ASSUME NEW j \in Kind PROVE zz.min[j] <= Leased(zz, k).max[j]
      BY <1>2
    <2>1. CASE j = k
      BY <1>1, <1>2, <2>1
    <2>2. CASE j # k
      BY <1>2, <2>2 DEF Counters
    <2> QED BY <2>1, <2>2
  <1>5. Leased(zz, k).max[k] > zz.min[k]
    BY <1>1, <1>2
  <1> QED BY <1>2, <1>3, <1>4, <1>5 DEF Counters

(* nextTs keeps the invariant, whichever way the write of its lease ends. *)
LEMMA NextTsSafe == TypeOK /\ TypeOK' /\ Safe /\ NextTs => Safe'
  <1> SUFFICES ASSUME TypeOK, TypeOK', Safe, NextTs PROVE Safe'
    OBVIOUS
  <1>1. /\ phase = "open" /\ Keep /\ ~wrapped
        /\ "Ts" \in Kind /\ z \in ZeroRecord /\ Counters(z)
    BY DEF NextTs, Kind, TypeOK, CountersTyped, Safe, CountersOrdered
  <1>2. ASSUME NEW y \in ZeroRecord, Counters(y), y.min = z.min, y.ns = z.ns,
               y.min["Ts"] < y.max["Ts"],
               \A j \in Kind : y.max[j] >= z.max[j],
               HandTs(y),
               \/ UNCHANGED <<zs, unsynced>> /\ y = z
               \/ LeaseWritten(y)
        PROVE  Safe'
    <2> DEFINE zz == [y EXCEPT !.min["Ts"] = y.min["Ts"] + 1]
    <2>1. y.min["Ts"] + 1 \in Word
      BY <1>1, <1>2 DEF ZeroRecord, Word
    <2>2. /\ zz \in ZeroRecord /\ zz.max = y.max /\ zz.ns = y.ns
          /\ zz.min["Ts"] = y.min["Ts"] + 1
          /\ \A j \in Kind \ {"Ts"} : zz.min[j] = y.min[j]
      BY <1>1, <2>1, MovedRecord
    <2>3. z' = zz
      BY <1>2 DEF HandTs
    <2> HIDE DEF zz
    <2>4. \A j \in Kind : /\ y.min[j] \in Nat /\ y.max[j] \in Nat /\ z.max[j] \in Nat
                          /\ Initial[j] \in Nat
      BY Typed DEF ZeroRecord, Word
    <2>5. Counters(zz)
      BY <1>2, <2>2, <2>4 DEF Counters
    <2>6. \A j \in Kind : zz.min[j] >= z.min[j] /\ zz.max[j] >= z.max[j]
      BY <1>2, <2>2, <2>4
    <2>7. \/ unsynced' = FALSE /\ zs' = ZeroStateOf(zz)
          \/ UNCHANGED <<zs, unsynced>> /\ zz.max = z.max /\ zz.ns = z.ns
      BY <1>2, <2>2 DEF LeaseWritten, ZeroStateOf
    <2>8. /\ \A j \in Kind : grant'[j] = grant[j] \/ grant'[j].hi < zz.min[j]
          /\ grant'["Ns"] = grant["Ns"]
      BY <1>2, <2>2, <2>4 DEF HandTs, Granted, Kind, TypeOK, CountersTyped
    <2>9. zz.ns >= z.ns
      BY <1>2, <2>2, Typed
    <2> QED BY <1>1, <2>2, <2>3, <2>5, <2>6, <2>7, <2>8, <2>9, RunningSafe
  <1>3. ASSUME Renews(z, "Ts")
        PROVE  /\ Leased(z, "Ts") \in ZeroRecord /\ Counters(Leased(z, "Ts"))
               /\ Leased(z, "Ts").ns = z.ns /\ Leased(z, "Ts").min = z.min
               /\ \A j \in Kind : Leased(z, "Ts").max[j] >= z.max[j]
               /\ Leased(z, "Ts").max["Ts"] > z.min["Ts"]
    BY <1>1, <1>3, LeaseKeepsOrder, LeasedRecord DEF Renews
  <1>4. CASE z.min["Ts"] < z.max["Ts"] /\ HandTs(z) /\ UNCHANGED <<zs, unsynced>>
    BY <1>1, <1>2, <1>4, Typed
  <1>5. CASE Renews(z, "Ts") /\ HandTs(Leased(z, "Ts")) /\ LeaseWritten(Leased(z, "Ts"))
    <2>1. Leased(z, "Ts").min["Ts"] < Leased(z, "Ts").max["Ts"]
      BY <1>1, <1>3, <1>5, Typed DEF ZeroRecord, Word
    <2> QED BY <1>2, <1>3, <1>5, <2>1
  <1>6. CASE Renews(z, "Ts") /\ LeaseFails(Leased(z, "Ts"))
    <2>1. /\ z' = Leased(z, "Ts") /\ unsynced' = TRUE /\ UNCHANGED <<zs, grant>>
      BY <1>6 DEF LeaseFails
    <2>2. Leased(z, "Ts").ns >= z.ns /\ \A j \in Kind : Leased(z, "Ts").min[j] >= z.min[j]
      BY <1>3, <1>6, Typed
    <2> QED BY <1>1, <1>3, <1>6, <2>1, <2>2, RunningSafe
  <1> QED BY <1>4, <1>5, <1>6 DEF NextTs

(* So does the part nextUIDs has in common for both of its modes. *)
LEMMA MoveUIDsSafe ==
    ASSUME TypeOK, TypeOK', Safe, phase = "open", Keep, NEW hi \in Int,
           hi + 1 >= z.min["UID"], MoveUIDs(z.min["UID"], hi)
    PROVE  Safe'
  <1> DEFINE zz == [z EXCEPT !.min["UID"] = hi + 1]
             full == Leased(zz, "UID")
  <1>1. /\ ~wrapped /\ hi + 1 \in Word
        /\ "UID" \in Kind /\ z \in ZeroRecord /\ Counters(z)
    BY Typed DEF MoveUIDs, Kind, TypeOK, CountersTyped, Safe, CountersOrdered, Word
  <1>2. /\ zz \in ZeroRecord /\ zz.max = z.max /\ zz.ns = z.ns
        /\ zz.min["UID"] = hi + 1
        /\ \A j \in Kind \ {"UID"} : zz.min[j] = z.min[j]
    BY <1>1, MovedRecord
  <1>3. \/ zz.min["UID"] < zz.max["UID"] /\ HandUIDs(z.min["UID"], hi, zz) /\ UNCHANGED <<zs, unsynced>>
        \/ Renews(zz, "UID") /\ HandUIDs(z.min["UID"], hi, full) /\ LeaseWritten(full)
        \/ Renews(zz, "UID") /\ LeaseFails(full)
    BY DEF MoveUIDs
  <1>4. ASSUME Renews(zz, "UID")
        PROVE  /\ full \in ZeroRecord /\ full.ns = z.ns /\ full.min = zz.min
               /\ full.max["UID"] = z.max["UID"] + hi + 1 + leaseUIDAtATime
               /\ \A j \in Kind \ {"UID"} : full.max[j] = z.max[j]
    <2>1. LeaseAtATime["UID"] = leaseUIDAtATime
      BY DEF LeaseAtATime
    <2>2. z.max["UID"] \in Nat
      BY <1>1, Typed
    <2>3. /\ full \in ZeroRecord /\ full.ns = zz.ns /\ full.min = zz.min
          /\ full.max["UID"] = zz.max["UID"] + zz.min["UID"] + LeaseAtATime["UID"]
          /\ \A j \in Kind \ {"UID"} : full.max[j] = zz.max[j]
      BY <1>1, <1>2, <1>4, LeasedRecord DEF Renews
    <2> HIDE DEF zz, full
    <2> QED BY <1>1, <1>2, <2>1, <2>2, <2>3
  <1> HIDE DEF zz, full
  <1>5. \A j \in Kind : zz.min[j] >= z.min[j]
    BY <1>2, Typed
  <1>6. ASSUME Renews(zz, "UID")
        PROVE  /\ Counters(full)
               /\ \A j \in Kind : full.min[j] >= z.min[j] /\ full.max[j] >= z.max[j]
    <2> SUFFICES ASSUME NEW j \in Kind
                 PROVE  /\ Initial[j] <= full.min[j] /\ full.min[j] <= full.max[j]
                        /\ full.min[j] >= z.min[j] /\ full.max[j] >= z.max[j]
      BY DEF Counters
    <2>1. /\ Initial[j] <= z.min[j] /\ z.min[j] <= z.max[j]
          /\ Initial[j] \in Nat /\ z.min[j] \in Nat /\ z.max[j] \in Nat
      BY <1>1, Typed DEF Counters
    <2>2. CASE j = "UID"
      BY <1>2, <1>4, <1>6, <2>1, <2>2
    <2>3. CASE j # "UID"
      BY <1>2, <1>4, <1>6, <2>1, <2>3
    <2> QED BY <2>2, <2>3
  <1>7. ASSUME NEW y \in ZeroRecord, y.min = zz.min, HandUIDs(z.min["UID"], hi, y)
        PROVE  /\ z' = y
               /\ grant'["Ns"] = grant["Ns"]
               /\ \A j \in Kind : grant'[j] = grant[j] \/ grant'[j].hi < y.min[j]
    <2>1. CASE z.min["UID"] <= hi
      BY <1>1, <1>2, <1>7, <2>1 DEF HandUIDs, Granted, Kind, TypeOK, CountersTyped
    <2>2. CASE ~(z.min["UID"] <= hi)
      BY <1>7, <2>2 DEF HandUIDs
    <2> QED BY <2>1, <2>2
  <1>8. CASE zz.min["UID"] < zz.max["UID"] /\ HandUIDs(z.min["UID"], hi, zz) /\ UNCHANGED <<zs, unsynced>>
    <2>1. Counters(zz)
      <3> SUFFICES ASSUME NEW j \in Kind
                   PROVE  Initial[j] <= zz.min[j] /\ zz.min[j] <= zz.max[j]
        BY DEF Counters
      <3>1. /\ Initial[j] <= z.min[j] /\ z.min[j] <= z.max[j]
            /\ Initial[j] \in Nat /\ z.min[j] \in Nat /\ z.max[j] \in Nat
        BY <1>1, Typed DEF Counters
      <3>2. CASE j = "UID"
        BY <1>2, <1>8, <3>1, <3>2
      <3>3. CASE j # "UID"
        BY <1>2, <3>1, <3>3
      <3> QED BY <3>2, <3>3
    <2>2. zz.ns >= z.ns /\ \A j \in Kind : zz.max[j] >= z.max[j]
      BY <1>2, Typed
    <2> QED BY <1>1, <1>2, <1>5, <1>7, <1>8, <2>1, <2>2, RunningSafe
  <1>9. Renews(zz, "UID") => full.ns >= z.ns
    BY <1>4, Typed
  <1>10. CASE Renews(zz, "UID") /\ HandUIDs(z.min["UID"], hi, full) /\ LeaseWritten(full)
    BY <1>1, <1>4, <1>6, <1>7, <1>9, <1>10, RunningSafe DEF LeaseWritten
  <1>11. CASE Renews(zz, "UID") /\ LeaseFails(full)
    <2>1. /\ z' = full /\ unsynced' = TRUE /\ UNCHANGED <<zs, grant>>
      BY <1>11 DEF LeaseFails
    <2> QED BY <1>1, <1>4, <1>6, <1>9, <1>11, <2>1, RunningSafe
  <1> QED BY <1>3, <1>8, <1>10, <1>11

(* nextUIDs keeps the invariant, asked for a number of UIDs or to bump to    *)
(* one.                                                                      *)
LEMMA NextUIDsSafe ==
    ASSUME TypeOK, TypeOK', Safe, NEW val \in 0 .. MaxNum, NextUIDs(val) \/ BumpUIDs(val)
    PROVE  Safe'
  <1>1. z.min["UID"] \in Nat
    BY Typed DEF Kind
  <1>2. CASE NextUIDs(val)
    <2>1. z.min["UID"] + val - 1 \in Int /\ (z.min["UID"] + val - 1) + 1 >= z.min["UID"]
      BY <1>1
    <2> QED BY <1>2, <2>1, MoveUIDsSafe DEF NextUIDs
  <1>3. CASE BumpUIDs(val)
    <2>1. Higher(z.min["UID"], val) \in Int /\ Higher(z.min["UID"], val) + 1 >= z.min["UID"]
      BY <1>1 DEF Higher
    <2> QED BY <1>3, <2>1, MoveUIDsSafe DEF BumpUIDs
  <1> QED BY <1>2, <1>3

(* A namespace ID is the one grant that is written before it is returned; a  *)
(* wrapped word does not matter to it, so this step is proved on its own.    *)
LEMMA NextNamespaceSafe == TypeOK /\ Safe /\ NextNamespace => Safe'
  <1> SUFFICES ASSUME TypeOK, Safe, NextNamespace PROVE Safe'
    OBVIOUS
  <1> USE DEF Safe, CountersOrdered, StoreInStep, DropForgets, GrantsBelowCounters,
              NamespacesBelowCounter, LeaseCoversGrants, NamespacesCovered, trusted
  <1>1. /\ phase = "open" /\ phase' = "open"
        /\ UNCHANGED <<dropping, nz, lost, wrapped>>
        /\ ~dropping
    BY DEF NextNamespace, Keep
  <1>2. z'.min = z.min /\ z'.max = z.max /\ z'.ns = z.ns + 1
    BY DEF NextNamespace, TypeOK, CountersTyped, ZeroRecord
  <1>3. \/ /\ zs'.max = z.max /\ zs'.ns = z.ns + 1 /\ unsynced' = FALSE
           /\ grant' = [grant EXCEPT !["Ns"] =
                      [lo |-> z.ns + 1, hi |-> z.ns + 1, again |-> (z.ns + 1 <= grant["Ns"].hi)]]
        \/ unsynced' = TRUE /\ UNCHANGED <<zs, grant>>
    BY <1>2 DEF NextNamespace, LeaseWritten, Granted, ZeroStateOf
  <1>4. \A k \in Kind : grant'[k] = grant[k]
    BY <1>3 DEF Kind, TypeOK, CountersTyped
  <1>5. CountersOrdered'
    <2>1. ~wrapped => \A k \in Kind : Initial[k] <= zs'.max[k]
      BY <1>3, Typed DEF Counters
    <2> QED BY <1>1, <1>2, <2>1 DEF Counters
  <1>6. StoreInStep' /\ DropForgets' /\ GrantsBelowCounters'
    BY <1>1, <1>2, <1>3, <1>4 DEF AfterRead
  <1>7. NamespacesBelowCounter' /\ NamespacesCovered'
    BY <1>1, <1>2, <1>3, Typed DEF TypeOK, CountersTyped
  <1>8. LeaseCoversGrants'
    <2> SUFFICES ASSUME trusted, ~unsynced', NEW k \in Kind
                 PROVE  grant[k].hi < zs'.max[k]
      BY <1>1, <1>4
    <2>1. grant[k].hi < z.min[k] /\ z.min[k] <= z.max[k] /\ zs'.max[k] = z.max[k]
      BY <1>1, <1>3 DEF Counters
    <2> QED BY <2>1, Typed
  <1> QED BY <1>5, <1>6, <1>7, <1>8

(* Close and a crash keep it: what was only in memory is marked as lost. *)
LEMMA StopSafe == TypeOK /\ Safe /\ Stop => Safe'
  <1> SUFFICES ASSUME TypeOK, Safe, Stop PROVE Safe'
    OBVIOUS
  <1> USE DEF Safe, CountersOrdered, StoreInStep, DropForgets, GrantsBelowCounters,
              NamespacesBelowCounter, LeaseCoversGrants, NamespacesCovered, trusted
  <1>1. /\ phase' = "down" /\ dropping' = FALSE /\ unsynced' = FALSE
        /\ UNCHANGED <<zs, grant, wrapped>>
        /\ z' = NewZeroFrom(NoZeroState) /\ nz' = NewZeroFrom(NoZeroState)
    BY DEF Stop, store
  <1>2. lost' = (lost \/ unsynced)
    BY DEF Stop
  <1>3. CountersOrdered' /\ NamespacesCovered'
    BY <1>1, FirstZero DEF Counters
  <1>4. StoreInStep' /\ DropForgets' /\ GrantsBelowCounters' /\ NamespacesBelowCounter'
    BY <1>1 DEF AfterRead
  <1>5. trusted' => trusted /\ ~unsynced
    BY <1>1, <1>2 DEF TypeOK, FlagsTyped
  <1>6. LeaseCoversGrants'
    BY <1>1, <1>5
  <1> QED BY <1>3, <1>4, <1>6

(* Every step of zero.go keeps the inductive invariant. *)
LEMMA IInvInductive == IInv /\ [Next]_vars => IInv'
  <1> SUFFICES ASSUME TypeOK, Safe, [Next]_vars, TypeOK' PROVE Safe'
    BY TypeStep DEF IInv
  <1>1. CASE UNCHANGED vars
    BY <1>1 DEF vars, Safe, CountersOrdered, StoreInStep, DropForgets, GrantsBelowCounters,
         NamespacesBelowCounter, LeaseCoversGrants, NamespacesCovered, trusted, Counters
  <1> QED
    BY <1>1, ResetSafe, NextTsSafe, NextUIDsSafe, NextNamespaceSafe, StopSafe DEF Next

(* The inductive invariant holds in every reachable state. *)
LEMMA Invariance == Spec => []IInv
  <1>1. Init => IInv
    BY InitTyped, InitSafe DEF IInv
  <1> QED BY <1>1, IInvInductive, PTL DEF Spec

(* zero.go, leaseUIDs and leaseTs: what the store promises the next process  *)
(* covers every UID and timestamp handed out, for every lease and word size, *)
(* unless the last write of the lease failed, a lease was lost or wrapped.   *)
THEOREM LeaseCovers == Spec => []LeaseCoversGrants
  <1>1. IInv => LeaseCoversGrants
    BY DEF IInv, Safe
  <1> QED BY <1>1, Invariance, PTL

(* zero.go nextNamespace: the store covers every namespace ID handed out,    *)
(* whatever writes fail.                                                     *)
THEOREM NamespaceIDsCovered == Spec => []NamespacesCovered
  <1>1. IInv => NamespacesCovered
    BY DEF IInv, Safe
  <1> QED BY <1>1, Invariance, PTL

(* engine.go query: the timestamp an open engine reads at is not below any   *)
(* it handed out for a commit, in this process or an earlier one.            *)
THEOREM ReadsCoverCommits == Spec => []ReadsSeeCommits
  <1>1. IInv => ReadsSeeCommits
    <2> SUFFICES ASSUME IInv, phase = "open", trusted
                 PROVE  grant["Ts"].hi <= readTs
      BY DEF ReadsSeeCommits
    <2>1. "Ts" \in Kind /\ grant["Ts"].hi < z.min["Ts"]
      BY DEF IInv, Safe, GrantsBelowCounters, Kind
    <2>2. grant["Ts"].hi \in Nat /\ z.min["Ts"] \in Nat
      BY <2>1, Typed DEF IInv
    <2> QED BY <2>1, <2>2 DEF readTs, Before
  <1> QED BY <1>1, Invariance, PTL

-----------------------------------------------------------------------------
(* What a serving engine relies on beside its counters: the oracle, the      *)
(* worker and the initial schema, through resets that stop half way.         *)

(* posting.Oracle knows every timestamp below the counter that is in use or  *)
(* about to be; during a DropAll the old zero's as well, which the engine    *)
(* goes back to when a step of the reset fails.                              *)
OracleAhead ==
    ~wrapped =>
        /\ phase = "open" \/ dropping => z.min["Ts"] <= maxAssigned + 1
        /\ phase \in AfterRead => nz.min["Ts"] <= maxAssigned + 1

(* So does the worker the UIDs: those handed out, and at least the reserved  *)
(* ones, which is what a failed DropAll leaves handed out.                   *)
WorkerAhead ==
    ~wrapped =>
        /\ phase \in AfterRead \cup {"open"} \/ dropping => initialUID <= maxUID + 1
        /\ ~lost /\ phase \in AfterRead \cup {"open"} => grant["UID"].hi <= maxUID

(* A store with a zero state has the initial schema, except between the      *)
(* first lease of a fresh store and the step that applies it.                *)
SchemaInStep ==
    /\ phase = "leaseUIDs" => (restart <=> zs.present)
    /\ phase \in AfterRead /\ restart => zs.present
    /\ ~interrupted /\ zs.present => schema0 \/ (~restart /\ phase \in {"leaseTs", "initialSchema"})
    /\ ~interrupted /\ phase \in {"loadSchema", "open"} => schema0

ServingInv == OracleAhead /\ WorkerAhead /\ SchemaInStep

(* The step to a counter's next value, and what is told of it.               *)
LEMMA TimestampTold ==
    ASSUME IInv, NextTs
    PROVE  \/ z'.min["Ts"] = z.min["Ts"] /\ maxAssigned' = maxAssigned
           \/ /\ z'.min["Ts"] = z.min["Ts"] + 1
              /\ maxAssigned' = Higher(maxAssigned, z.min["Ts"])
  <1>1. z \in ZeroRecord /\ "Ts" \in Kind
    BY DEF IInv, TypeOK, CountersTyped, Kind
  <1>2. Leased(z, "Ts").min = z.min /\ Leased(z, "Ts") \in ZeroRecord
    BY <1>1, LeasedRecord
  <1>3. ASSUME NEW y \in ZeroRecord, y.min = z.min, HandTs(y)
        PROVE  /\ z'.min["Ts"] = z.min["Ts"] + 1
               /\ maxAssigned' = Higher(maxAssigned, z.min["Ts"])
    BY <1>1, <1>3 DEF HandTs, ZeroRecord
  <1> QED BY <1>1, <1>2, <1>3 DEF NextTs, LeaseFails

(* nextUIDs tells the worker of every UID it hands out. *)
LEMMA UIDsTold ==
    ASSUME IInv, NEW val \in 0 .. MaxNum, NextUIDs(val) \/ BumpUIDs(val)
    PROVE  /\ phase = "open" /\ ~wrapped /\ Keep
           /\ z'.min["Ts"] = z.min["Ts"] /\ maxAssigned' = maxAssigned
           /\ \/ UNCHANGED <<grant, maxUID>>
              \/ /\ initialUID <= maxUID' + 1
                 /\ ~lost => grant'["UID"].hi <= maxUID'
  <1>1. /\ z \in ZeroRecord /\ "UID" \in Kind /\ "Ts" \in Kind /\ z.min["UID"] \in Nat
        /\ initialUID \in Nat /\ grant["UID"].hi \in Nat
        /\ grant \in [{"UID", "Ts", "Ns"} -> Block]
    BY Typed DEF IInv, TypeOK, CountersTyped, Kind
  <1>2. PICK hi \in Int : hi + 1 >= z.min["UID"] /\ MoveUIDs(z.min["UID"], hi)
    <2>1. z.min["UID"] + val - 1 \in Int /\ Higher(z.min["UID"], val) \in Int
      BY <1>1 DEF Higher
    <2> QED BY <1>1, <2>1 DEF NextUIDs, BumpUIDs, Higher
  <1>3. phase = "open" /\ ~wrapped /\ Keep /\ hi + 1 \in Word
    BY <1>1, <1>2 DEF NextUIDs, BumpUIDs, MoveUIDs, Word
  <1>4. initialUID <= z.min["UID"] /\ (~lost => grant["UID"].hi < z.min["UID"])
    BY <1>1, <1>3 DEF IInv, Safe, CountersOrdered, Counters, GrantsBelowCounters, trusted, Initial
  <1> DEFINE zz == [z EXCEPT !.min["UID"] = hi + 1]
  <1>5. /\ zz \in ZeroRecord /\ zz.min["UID"] = hi + 1 /\ zz.min["Ts"] = z.min["Ts"]
        /\ Leased(zz, "UID").min = zz.min
    <2>1. zz \in ZeroRecord /\ zz.min["UID"] = hi + 1 /\ zz.min["Ts"] = z.min["Ts"]
      BY <1>1, <1>3, MovedRecord DEF Kind
    <2> QED BY <1>1, <2>1, LeasedRecord
  <1>6. \/ HandUIDs(z.min["UID"], hi, zz)
        \/ HandUIDs(z.min["UID"], hi, Leased(zz, "UID"))
        \/ LeaseFails(Leased(zz, "UID"))
    BY <1>2 DEF MoveUIDs
  <1> HIDE DEF zz
  <1>7. ASSUME NEW y, y.min = zz.min, HandUIDs(z.min["UID"], hi, y)
        PROVE  /\ z'.min["Ts"] = z.min["Ts"] /\ maxAssigned' = maxAssigned
               /\ initialUID <= maxUID' + 1
               /\ ~lost => grant'["UID"].hi <= maxUID'
    <2>1. maxUID' = hi
      BY <1>1, <1>2, <1>4, <1>5, <1>7 DEF HandUIDs, Before
    <2>2. ~lost => grant'["UID"].hi <= hi
      <3>1. CASE z.min["UID"] <= hi
        <4>1. hi \in Nat /\ Granted("UID", z.min["UID"], hi)
          BY <1>1, <1>7, <3>1 DEF HandUIDs
        <4>2. grant'["UID"].hi = hi
          BY <1>1, <4>1, GrantNoted
        <4> QED BY <4>2
      <3>2. CASE ~(z.min["UID"] <= hi)
        <4>1. grant' = grant
          BY <1>7, <3>2 DEF HandUIDs
        <4> QED BY <1>1, <1>2, <1>4, <4>1
      <3> QED BY <3>1, <3>2
    <2> QED BY <1>1, <1>2, <1>4, <1>5, <1>7, <2>1, <2>2 DEF HandUIDs
  <1>8. CASE LeaseFails(Leased(zz, "UID"))
    BY <1>3, <1>5, <1>8 DEF LeaseFails
  <1> QED BY <1>3, <1>5, <1>6, <1>7, <1>8

(* Every step of zero.go keeps the oracle ahead of readTs.                   *)
LEMMA OracleStep == IInv /\ OracleAhead /\ [Next]_vars => OracleAhead'
  <1> SUFFICES ASSUME IInv, OracleAhead, [Next]_vars PROVE OracleAhead'
    OBVIOUS
  <1> USE DEF OracleAhead, store, ghosts, AfterRead
  <1>1. /\ maxAssigned \in Nat /\ z.min["Ts"] \in Nat /\ nz.min["Ts"] \in Nat
        /\ zs.max["Ts"] \in Nat /\ (~wrapped => zs.max["Ts"] > 0)
        /\ (dropping => phase # "open") /\ nz \in ZeroRecord /\ "Ts" \in Kind
    BY Typed, LeaseWord
    DEF IInv, Safe, TypeOK, CountersTyped, Word, Kind, CountersOrdered, DropForgets
  <1>2. CASE NewEngine \/ DropAll \/ ApplyInitialSchema \/ LoadSchema \/ ResetFails \/ Stop
    BY <1>1, <1>2 DEF NewEngine, DropAll, ApplyInitialSchema, LoadSchema, ResetFails, Stop
  <1>3. CASE ReadZeroState
    BY <1>1, <1>3 DEF ReadZeroState, NewZeroFrom, Higher, Before
  <1>4. ASSUME NEW k \in Kind, NEW next \in {"leaseTs", "initialSchema", "loadSchema"},
               phase \in AfterRead, ResetLease(k, next)
        PROVE  OracleAhead'
    <2>1. nz'.min = nz.min
      BY <1>1, <1>4, LeasedRecord DEF ResetLease
    <2>2. /\ phase' = next /\ (~wrapped' => ~wrapped)
          /\ UNCHANGED <<dropping, z, maxAssigned>>
      BY <1>4 DEF ResetLease
    <2> QED BY <1>4, <2>1, <2>2
  <1>5. CASE LeaseUIDsOfNewZero \/ LeaseTsOfNewZero
    BY <1>4, <1>5 DEF LeaseUIDsOfNewZero, LeaseTsOfNewZero, Kind
  <1>6. CASE NextTs
    BY <1>1, <1>6, TimestampTold DEF NextTs, Keep, Higher
  <1>7. ASSUME NEW val \in 0 .. MaxNum, NextUIDs(val) \/ BumpUIDs(val)
        PROVE  OracleAhead'
    BY <1>7, UIDsTold DEF Keep
  <1>8. CASE NextNamespace
    <2>1. z'.min = z.min
      BY <1>8 DEF NextNamespace, IInv, TypeOK, CountersTyped, ZeroRecord
    <2> QED BY <1>8, <2>1 DEF NextNamespace, Keep
  <1>9. CASE UNCHANGED vars
    BY <1>9 DEF vars
  <1> QED BY <1>2, <1>3, <1>5, <1>6, <1>7, <1>8, <1>9 DEF Next, Reset

(* Every step keeps the worker's bound above the UIDs handed out.            *)
LEMMA WorkerStep == IInv /\ WorkerAhead /\ [Next]_vars => WorkerAhead'
  <1> SUFFICES ASSUME IInv, WorkerAhead, [Next]_vars PROVE WorkerAhead'
    OBVIOUS
  <1> USE DEF WorkerAhead, store, ghosts, AfterRead
  <1>1. /\ maxUID \in Nat /\ zs.max["UID"] \in Nat /\ grant["UID"].hi \in Nat
        /\ initialUID \in Nat
        /\ (~wrapped => zs.max["UID"] >= initialUID)
        /\ (~wrapped /\ ~lost /\ ~unsynced => grant["UID"].hi < zs.max["UID"])
        /\ (unsynced => phase = "open")
        /\ (dropping => phase # "open" /\ grant["UID"].hi = initialUID - 1)
        /\ "UID" \in Kind
    BY Typed
    DEF IInv, Safe, TypeOK, CountersTyped, Word, Kind, CountersOrdered, DropForgets,
        LeaseCoversGrants, StoreInStep, trusted, Nothing, Initial
  <1>2. CASE NewEngine \/ ApplyInitialSchema \/ LoadSchema \/ Stop
    BY <1>1, <1>2 DEF NewEngine, ApplyInitialSchema, LoadSchema, Stop
  <1>3. CASE DropAll
    BY <1>1, <1>3 DEF DropAll, Nothing
  <1>4. CASE ResetFails
    <2>1. /\ UNCHANGED <<wrapped, maxUID, grant>> /\ ~dropping'
          /\ phase' = IF dropping THEN "open" ELSE "down"
      BY <1>4 DEF ResetFails
    <2> QED BY <1>1, <2>1
  <1>5. CASE ReadZeroState
    BY <1>1, <1>5 DEF ReadZeroState, Before
  <1>6. CASE LeaseUIDsOfNewZero \/ LeaseTsOfNewZero
    BY <1>6 DEF LeaseUIDsOfNewZero, LeaseTsOfNewZero, ResetLease
  <1>7. CASE NextTs
    <2>1. grant'["UID"] = grant["UID"] /\ maxUID' = maxUID
      BY <1>7
      DEF NextTs, HandTs, LeaseFails, Granted, IInv, TypeOK, CountersTyped
    <2> QED BY <1>7, <2>1 DEF NextTs, Keep
  <1>8. ASSUME NEW val \in 0 .. MaxNum, NextUIDs(val) \/ BumpUIDs(val)
        PROVE  WorkerAhead'
    <2>1. phase = "open" /\ ~wrapped /\ phase' = "open" /\ lost' = lost
      BY <1>8, UIDsTold DEF Keep
    <2>2. /\ initialUID <= maxUID' + 1
          /\ ~lost => grant'["UID"].hi <= maxUID'
      <3>1. CASE UNCHANGED <<grant, maxUID>>
        <4>1. grant' = grant /\ maxUID' = maxUID
          BY <3>1
        <4>2. initialUID <= maxUID + 1 /\ (~lost => grant["UID"].hi <= maxUID)
          BY <2>1
        <4> QED BY <4>1, <4>2
      <3>2. CASE /\ initialUID <= maxUID' + 1
                 /\ ~lost => grant'["UID"].hi <= maxUID'
        BY <3>2
      <3> QED BY <1>8, <3>1, <3>2, UIDsTold
    <2> QED BY <2>1, <2>2
  <1>9. CASE NextNamespace
    <2>1. grant'["UID"] = grant["UID"]
      BY <1>9 DEF NextNamespace, Granted, IInv, TypeOK, CountersTyped
    <2> QED BY <1>9, <2>1 DEF NextNamespace, Keep
  <1>10. CASE UNCHANGED vars
    BY <1>10 DEF vars
  <1> QED BY <1>2, <1>3, <1>4, <1>5, <1>6, <1>7, <1>8, <1>9, <1>10 DEF Next, Reset

(* Every step keeps the initial schema with the zero state. *)
LEMMA SchemaStep == TypeOK /\ SchemaInStep /\ [Next]_vars => SchemaInStep'
  <1> SUFFICES ASSUME TypeOK, SchemaInStep, [Next]_vars PROVE SchemaInStep'
    OBVIOUS
  <1> USE DEF SchemaInStep, store, ghosts, AfterRead
  <1>1. /\ zs.present \in BOOLEAN /\ FlagsTyped
    BY DEF TypeOK, CountersTyped
  <1>2. CASE NewEngine
    BY <1>1, <1>2 DEF NewEngine
  <1>3. CASE DropAll
    BY <1>3 DEF DropAll, NoZeroState
  <1>4. CASE ReadZeroState
    BY <1>1, <1>4 DEF ReadZeroState
  <1>5. ASSUME NEW k, NEW next, ResetLease(k, next)
        PROVE  /\ zs' = zs \/ zs'.present
               /\ phase' = next /\ UNCHANGED <<schema0, restart, interrupted>>
    BY <1>5 DEF ResetLease, ZeroStateOf
  <1>6. CASE LeaseUIDsOfNewZero
    BY <1>1, <1>5, <1>6 DEF LeaseUIDsOfNewZero
  <1>7. CASE LeaseTsOfNewZero
    BY <1>1, <1>5, <1>7 DEF LeaseTsOfNewZero
  <1>8. CASE ApplyInitialSchema \/ LoadSchema
    BY <1>1, <1>8 DEF ApplyInitialSchema, LoadSchema
  <1>9. CASE ResetFails
    BY <1>1, <1>9 DEF ResetFails, FlagsTyped
  <1>10. CASE Stop
    BY <1>1, <1>10 DEF Stop, FlagsTyped
  <1>11. ASSUME phase = "open", Keep
         PROVE  SchemaInStep'
    BY <1>1, <1>11 DEF Keep
  <1>12. CASE NextTs \/ NextNamespace \/ \E val \in 0 .. MaxNum : NextUIDs(val) \/ BumpUIDs(val)
    BY <1>11, <1>12 DEF NextTs, NextNamespace, NextUIDs, BumpUIDs
  <1>13. CASE UNCHANGED vars
    BY <1>13 DEF vars
  <1> QED
    BY <1>2, <1>3, <1>4, <1>6, <1>7, <1>8, <1>9, <1>10, <1>12, <1>13 DEF Next, Reset

LEMMA Serving == Spec => []ServingInv
  <1>1. Init => ServingInv
    BY DEF Init, ServingInv, OracleAhead, WorkerAhead, SchemaInStep, AfterRead, NoZeroState
  <1>2. IInv /\ ServingInv /\ [Next]_vars => ServingInv'
    BY OracleStep, WorkerStep, SchemaStep DEF ServingInv, IInv
  <1> QED BY <1>1, <1>2, Invariance, PTL DEF Spec

(* engine.go query: an open engine never waits for the timestamp it reads    *)
(* at, for the oracle has been told of it; also after a DropAll that failed  *)
(* at any step and went back to the zero it had.                             *)
THEOREM ReadsNeverWait == Spec => []ReadTsAssigned
  <1>1. IInv /\ ServingInv => ReadTsAssigned
    <2> SUFFICES ASSUME IInv, ServingInv, phase = "open", ~wrapped
                 PROVE  readTs <= maxAssigned
      BY DEF ReadTsAssigned
    <2>1. /\ z.min["Ts"] \in Nat /\ z.min["Ts"] > 0 /\ maxAssigned \in Nat
          /\ z.min["Ts"] <= maxAssigned + 1
      BY Typed, LeaseWord
      DEF IInv, Safe, CountersOrdered, Counters, TypeOK, CountersTyped, Word, Kind,
          ServingInv, OracleAhead
    <2> QED BY <2>1 DEF readTs, Before
  <1> QED BY <1>1, Invariance, Serving, PTL

(* zero.go newZero and nextUIDs (SetMaxUID): the worker admits every UID     *)
(* that was handed out, in this process or an earlier one.                   *)
THEOREM WorkerAdmits == Spec => []UIDsAdmitted
  <1>1. ServingInv => UIDsAdmitted
    BY DEF ServingInv, WorkerAhead, UIDsAdmitted, trusted
  <1> QED BY <1>1, Serving, PTL

(* engine.go reset: an open engine has the initial schema, whatever opens    *)
(* failed or stopped before it, but for two causes not made good since: a    *)
(* fresh reset that stopped between its first lease write and the schema,    *)
(* and a DropAll that failed.  The code does lose the schema in both.        *)
THEOREM SchemaBeforeServing == Spec => []InitialSchemaPresent
  <1>1. ServingInv => InitialSchemaPresent
    BY DEF ServingInv, SchemaInStep, InitialSchemaPresent
  <1> QED BY <1>1, Serving, PTL

-----------------------------------------------------------------------------
(* Zero implements an oracle of increasing identifiers for each kind. *)

Above(k) == /\ grant'[k].lo > grant[k].hi
            /\ grant'[k].hi >= grant'[k].lo
            /\ ~grant'[k].again

(* What one step does to the blocks handed out: nothing, forget them all, or *)
(* hand out one block above the last of its kind.                            *)
LEMMA GrantStep ==
    ASSUME IInv, [Next]_vars
    PROVE  /\ trusted' => trusted \/ grant' = Nothing
           /\ \/ grant' = grant
              \/ grant' = Nothing
              \/ trusted' = trusted /\ wrapped' = wrapped /\
                 \E k \in {"UID", "Ts", "Ns"} :
                   /\ \A j \in {"UID", "Ts", "Ns"} \ {k} : grant'[j] = grant[j]
                   /\ k = "Ns" \/ trusted => Above(k)
  <1> USE DEF IInv, Safe, trusted
  <1>1. /\ grant \in [{"UID", "Ts", "Ns"} -> Block]
        /\ \A k \in Kind : phase = "open" /\ trusted => grant[k].hi < z.min[k]
        /\ phase = "open" => grant["Ns"].hi <= z.ns
        /\ z \in ZeroRecord /\ Kind = {"UID", "Ts"}
        /\ z.ns \in Nat /\ \A k \in Kind : z.min[k] \in Nat
    BY Typed DEF TypeOK, CountersTyped, GrantsBelowCounters, NamespacesBelowCounter, Kind
  <1>2. CASE Reset
    <2>1. CASE DropAll
      BY <2>1 DEF DropAll
    <2>2. ASSUME NEW k, NEW next, ResetLease(k, next)
          PROVE  grant' = grant /\ (trusted' => trusted)
      BY <2>2 DEF ResetLease
    <2>3. CASE Reset /\ ~DropAll
      <3>1. CASE LeaseUIDsOfNewZero \/ LeaseTsOfNewZero
        BY <2>2, <3>1 DEF LeaseUIDsOfNewZero, LeaseTsOfNewZero
      <3>2. CASE NewEngine \/ ReadZeroState \/ ApplyInitialSchema \/ LoadSchema \/ ResetFails
        <4>1. UNCHANGED <<grant, lost, wrapped>>
          BY <3>2 DEF NewEngine, ReadZeroState, ApplyInitialSchema, LoadSchema, ResetFails, ghosts
        <4> QED BY <4>1
      <3> QED BY <2>3, <3>1, <3>2 DEF Reset
    <2> QED BY <1>2, <2>1, <2>3
  <1>3. CASE NextTs
    <2>1. ASSUME NEW y, y.min = z.min, HandTs(y)
          PROVE  /\ \A j \in {"UID", "Ts", "Ns"} \ {"Ts"} : grant'[j] = grant[j]
                 /\ trusted => Above("Ts")
      <3>1. Granted("Ts", z.min["Ts"], z.min["Ts"])
        BY <2>1 DEF HandTs
      <3>2. trusted => grant["Ts"].hi < z.min["Ts"]
        BY <1>1, <1>3 DEF NextTs
      <3> QED BY <1>1, <3>1, <3>2, GrantNoted DEF Above
    <2>2. Leased(z, "Ts").min = z.min
      BY <1>1, LeasedRecord
    <2>3. trusted' = trusted /\ wrapped' = wrapped
      BY <1>3 DEF NextTs, Keep
    <2>4. CASE HandTs(z) \/ HandTs(Leased(z, "Ts"))
      BY <2>1, <2>2, <2>3, <2>4
    <2>5. CASE LeaseFails(Leased(z, "Ts"))
      BY <2>3, <2>5 DEF LeaseFails
    <2> QED BY <1>3, <2>4, <2>5 DEF NextTs
  <1>4. ASSUME NEW hi \in Int, phase = "open", Keep, MoveUIDs(z.min["UID"], hi)
        PROVE  /\ trusted' = trusted /\ wrapped' = wrapped
               /\ \/ grant' = grant
                  \/ /\ \A j \in {"UID", "Ts", "Ns"} \ {"UID"} : grant'[j] = grant[j]
                     /\ trusted => Above("UID")
    <2>1. \/ grant' = grant
          \/ Granted("UID", z.min["UID"], hi) /\ z.min["UID"] <= hi
      BY <1>4 DEF MoveUIDs, HandUIDs, LeaseFails
    <2>2. trusted => grant["UID"].hi < z.min["UID"]
      BY <1>1, <1>4
    <2>3. trusted' = trusted /\ wrapped' = wrapped
      BY <1>4 DEF Keep
    <2>4. CASE Granted("UID", z.min["UID"], hi) /\ z.min["UID"] <= hi
      BY <1>1, <2>2, <2>3, <2>4, GrantNoted DEF Above
    <2> QED BY <2>1, <2>3, <2>4
  <1>5. ASSUME NEW val \in 0 .. MaxNum, NextUIDs(val) \/ BumpUIDs(val)
        PROVE  /\ trusted' = trusted /\ wrapped' = wrapped
               /\ \/ grant' = grant
                  \/ /\ \A j \in {"UID", "Ts", "Ns"} \ {"UID"} : grant'[j] = grant[j]
                     /\ trusted => Above("UID")
    <2>1. z.min["UID"] + val - 1 \in Int /\ Higher(z.min["UID"], val) \in Int
      BY <1>1 DEF Higher
    <2> QED BY <1>4, <1>5, <2>1 DEF NextUIDs, BumpUIDs
  <1>6. CASE NextNamespace
    <2>1. trusted' = trusted /\ wrapped' = wrapped
      BY <1>6 DEF NextNamespace, Keep
    <2>2. \/ grant' = grant
          \/ Granted("Ns", z.ns + 1, z.ns + 1)
      <3>1. [z EXCEPT !.ns = @ + 1].ns = z.ns + 1
        BY <1>1 DEF ZeroRecord
      <3> QED BY <1>6, <3>1 DEF NextNamespace
    <2>3. CASE Granted("Ns", z.ns + 1, z.ns + 1)
      <3>1. phase = "open"
        BY <1>6 DEF NextNamespace
      <3>2. z.ns + 1 > grant["Ns"].hi
        BY <1>1, <3>1, Typed
      <3> QED BY <1>1, <2>1, <2>3, <3>2, GrantNoted DEF Above
    <2> QED BY <2>1, <2>2, <2>3
  <1>7. CASE Stop
    BY <1>7 DEF Stop, TypeOK, FlagsTyped
  <1>8. CASE UNCHANGED vars
    BY <1>8 DEF vars
  <1> QED BY <1>2, <1>3, <1>5, <1>6, <1>7, <1>8 DEF Next

(* zero.go nextUIDs: the blocks of UIDs of a store increase from one call to *)
(* the next and across restarts, so no UID is handed out twice.              *)
THEOREM UIDsImplementOracle == Spec => UIDsIncrease
  <1>1. Init => UIDOracle!Init
    BY DEF Init, Nothing, UIDOracle!Init, UIDOracle!Nothing, trusted
  <1>2. IInv /\ [Next]_vars => [UIDOracle!Next]_(UIDOracle!vars)
    <2> SUFFICES ASSUME IInv, [Next]_vars PROVE [UIDOracle!Next]_(UIDOracle!vars)
      OBVIOUS
    <2> USE DEF UIDOracle!Next, UIDOracle!Hand, UIDOracle!Forget, UIDOracle!LoseTrust,
                UIDOracle!vars, UIDOracle!Nothing
    <2>1. trusted \in BOOLEAN /\ trusted' \in BOOLEAN
      BY DEF trusted
    <2>2. CASE grant' = Nothing
      BY <2>1, <2>2 DEF Nothing
    <2>3. CASE grant' # Nothing /\ trusted
      BY <2>1, <2>3, GrantStep DEF Above
    <2>4. CASE grant' # Nothing /\ ~trusted
      BY <2>1, <2>4, GrantStep
    <2> QED BY <2>2, <2>3, <2>4
  <1> QED BY <1>1, <1>2, Invariance, PTL DEF Spec, UIDsIncrease, UIDOracle!Spec

(* zero.go nextTs: timestamps increase from one transaction to the next and  *)
(* across restarts, so a commit never falls below an earlier one.            *)
THEOREM TimestampsImplementOracle == Spec => TimestampsIncrease
  <1>1. Init => TsOracle!Init
    BY DEF Init, Nothing, TsOracle!Init, TsOracle!Nothing, trusted
  <1>2. IInv /\ [Next]_vars => [TsOracle!Next]_(TsOracle!vars)
    <2> SUFFICES ASSUME IInv, [Next]_vars PROVE [TsOracle!Next]_(TsOracle!vars)
      OBVIOUS
    <2> USE DEF TsOracle!Next, TsOracle!Hand, TsOracle!Forget, TsOracle!LoseTrust,
                TsOracle!vars, TsOracle!Nothing
    <2>1. trusted \in BOOLEAN /\ trusted' \in BOOLEAN
      BY DEF trusted
    <2>2. CASE grant' = Nothing
      BY <2>1, <2>2 DEF Nothing
    <2>3. CASE grant' # Nothing /\ trusted
      BY <2>1, <2>3, GrantStep DEF Above
    <2>4. CASE grant' # Nothing /\ ~trusted
      BY <2>1, <2>4, GrantStep
    <2> QED BY <2>2, <2>3, <2>4
  <1> QED BY <1>1, <1>2, Invariance, PTL DEF Spec, TimestampsIncrease, TsOracle!Spec

(* zero.go nextNamespace: namespace IDs increase across failed writes, lost  *)
(* leases and restarts alike, so no two namespaces of a store share one.     *)
THEOREM NamespaceIDsImplementOracle == Spec => NamespaceIDsIncrease
  <1>1. Init => NsOracle!Init
    BY DEF Init, Nothing, NsOracle!Init, NsOracle!Nothing
  <1>2. IInv /\ [Next]_vars => [NsOracle!Next]_(NsOracle!vars)
    <2> SUFFICES ASSUME IInv, [Next]_vars PROVE [NsOracle!Next]_(NsOracle!vars)
      OBVIOUS
    <2> USE DEF NsOracle!Next, NsOracle!Hand, NsOracle!Forget, NsOracle!LoseTrust,
                NsOracle!vars, NsOracle!Nothing
    <2>2. CASE grant' = Nothing
      BY <2>2 DEF Nothing
    <2>3. CASE grant' # Nothing
      BY <2>3, GrantStep DEF Above
    <2> QED BY <2>2, <2>3
  <1> QED BY <1>1, <1>2, Invariance, PTL DEF Spec, NamespaceIDsIncrease, NsOracle!Spec
=============================================================================
