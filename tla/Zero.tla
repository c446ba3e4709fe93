-------------------------------- MODULE Zero --------------------------------
(* zero.go: the embedded stand-in for Dgraph Zero.  It hands out node UIDs,  *)
(* transaction timestamps and namespace IDs from in-memory counters and      *)
(* persists an upper bound of each (the lease) in the store, so that a new   *)
(* process starts above everything the old one handed out.  Engine.reset     *)
(* (engine.go) builds a zero when an engine is opened and again in DropAll,  *)
(* step by step; a stop (crash or Close) can come between any two steps, and *)
(* every store access of it can fail.                                        *)
EXTENDS Integers

CONSTANTS
    initialUID, initialTs,              \* 2 and 3 in zero.go
    leaseUIDAtATime, leaseTsAtATime,    \* 10000 and 10000
    WordSize,                           \* 2^64: the counters are uint64
    MaxNum,                             \* bound: the largest num.Val asked for
    MaxNamespaces,                      \* bound: namespaces ever created
    StoreFails                          \* may a store access return an error?

ASSUME ZeroConstants ==
    /\ {initialUID, initialTs} \subseteq Nat \ {0}
    /\ {leaseUIDAtATime, leaseTsAtATime} \subseteq Nat \ {0}
    /\ WordSize \in Nat
    /\ initialUID < WordSize /\ initialTs < WordSize
    /\ leaseUIDAtATime < WordSize /\ leaseTsAtATime < WordSize
    /\ MaxNum \in Nat /\ MaxNum < WordSize
    /\ MaxNamespaces \in Nat
    /\ StoreFails \in BOOLEAN

VARIABLES
    zs,           \* store: the zero state record; absent after a wipe
    schema0,      \* store: the initial schema of namespace 0 is applied
    phase,        \* where the process is: down, a step of reset, or open
    dropping,     \* reset was called by DropAll, not by NewEngine
    restart,      \* newZero found a zero state in the store
    z,            \* engine.z
    nz,           \* the zero newZero is building
    maxAssigned,  \* posting.Oracle's highest assigned timestamp (external)
    maxUID,       \* the worker's highest UID (external)
    grant,        \* ghost: the block of each kind handed out last
    unsynced,     \* ghost: a store write of the lease failed and none succeeded since
    lost,         \* ghost: the process stopped while unsynced
    wrapped,      \* ghost: a counter left its machine word
    interrupted   \* ghost: a reset stopped between its first lease write and the
                  \* initial schema, or a DropAll failed, and no reset applied it since

store == <<zs, schema0>>
ghosts == <<grant, unsynced, lost, wrapped, interrupted>>
vars == <<zs, schema0, phase, dropping, restart, z, nz, maxAssigned, maxUID,
          grant, unsynced, lost, wrapped, interrupted>>

Kind == {"UID", "Ts"}

Initial == [UID |-> initialUID, Ts |-> initialTs]
LeaseAtATime == [UID |-> leaseUIDAtATime, Ts |-> leaseTsAtATime]

Word == 0 .. WordSize - 1

(* uint64 addition of two words. *)
Overflows(a, b) == a + b >= WordSize
AddUnbounded(a, b) == a + b                               \* mutant of Add
Add(a, b) == IF Overflows(a, b) THEN a + b - WordSize ELSE a + b

(* a - 1 in uint64. *)
Before(a) == IF a = 0 THEN WordSize - 1 ELSE a - 1

NoZeroState == [present |-> FALSE, max |-> Initial, ns |-> 0]
NewZeroWithoutNs(s) == [min |-> s.max, max |-> s.max, ns |-> 0]     \* mutant
NewZeroFrom(s) == [min |-> s.max, max |-> s.max, ns |-> s.ns]

Nothing == [UID |-> [lo |-> initialUID - 1, hi |-> initialUID - 1, again |-> FALSE],
            Ts  |-> [lo |-> initialTs - 1, hi |-> initialTs - 1, again |-> FALSE],
            Ns  |-> [lo |-> 0, hi |-> 0, again |-> FALSE]]

Higher(a, b) == IF a >= b THEN a ELSE b

-----------------------------------------------------------------------------
(* leaseUIDs and leaseTs: nothing to do while a full lease is left;          *)
(* otherwise max += min + LeaseAtATime, then all three bounds are written.   *)
(* The in-memory max keeps its new value when the write fails.               *)
NeedsLease(zz, k) == Add(zz.min[k], LeaseAtATime[k]) > zz.max[k]

Leased(zz, k) ==
    [zz EXCEPT !.max[k] = Add(@, Add(zz.min[k], LeaseAtATime[k]))]

LeaseOverflows(zz, k) ==
    \/ Overflows(zz.min[k], LeaseAtATime[k])
    \/ Overflows(zz.max[k], Add(zz.min[k], LeaseAtATime[k]))

ZeroStateOfMin(zz) == [present |-> TRUE, max |-> zz.min, ns |-> zz.ns]  \* mutant
ZeroStateOf(zz) == [present |-> TRUE, max |-> zz.max, ns |-> zz.ns]

readTs == Before(z.min["Ts"])

Init ==
    /\ zs = NoZeroState
    /\ schema0 = FALSE
    /\ phase = "down"
    /\ dropping = FALSE
    /\ restart = FALSE
    /\ z = NewZeroFrom(NoZeroState)
    /\ nz = NewZeroFrom(NoZeroState)
    /\ maxAssigned = 0
    /\ maxUID = 0
    /\ grant = Nothing
    /\ unsynced = FALSE
    /\ lost = FALSE
    /\ wrapped = FALSE
    /\ interrupted = FALSE

-----------------------------------------------------------------------------
(* Engine.reset: newZero's read and two leases, then the initial schema of a *)
(* fresh store, then the schema is loaded and engine.z is replaced.          *)

NewEngine ==
    /\ phase = "down"
    /\ phase' = "readZeroState"
    /\ dropping' = FALSE
    /\ UNCHANGED <<store, restart, z, nz, maxAssigned, maxUID, ghosts>>

(* DropAll: the ALL mutation deletes every key of the store, the zero state  *)
(* among them; the identifiers handed out so far name nothing any more.      *)
DropAll ==
    /\ phase = "open"
    /\ zs' = NoZeroState
    /\ schema0' = FALSE
    /\ phase' = "readZeroState"
    /\ dropping' = TRUE
    /\ grant' = Nothing
    /\ unsynced' = FALSE
    /\ lost' = FALSE
    /\ interrupted' = FALSE
    /\ UNCHANGED <<restart, z, nz, maxAssigned, maxUID, wrapped>>

ReadZeroState ==
    /\ phase = "readZeroState"
    /\ phase' = "leaseUIDs"
    /\ restart' = zs.present
    /\ nz' = NewZeroFrom(zs)
    /\ maxAssigned' = Higher(maxAssigned, Before(zs.max["Ts"]))
    /\ maxUID' = Before(zs.max["UID"])
    /\ UNCHANGED <<store, dropping, z, ghosts>>

ResetLease(k, next) ==
    /\ IF NeedsLease(nz, k)
         THEN /\ nz' = Leased(nz, k)
              /\ zs' = ZeroStateOf(nz')
              /\ wrapped' = (wrapped \/ LeaseOverflows(nz, k))
         ELSE UNCHANGED <<nz, zs, wrapped>>
    /\ phase' = next
    /\ UNCHANGED <<schema0, dropping, restart, z, maxAssigned, maxUID,
                   grant, unsynced, lost, interrupted>>

LeaseUIDsOfNewZero ==
    phase = "leaseUIDs" /\ ResetLease("UID", "leaseTs")

LeaseTsNoSchemaOnDrop ==                                  \* mutant
    /\ phase = "leaseTs"
    /\ ResetLease("Ts", IF restart \/ dropping THEN "loadSchema" ELSE "initialSchema")

LeaseTsOfNewZero ==
    /\ phase = "leaseTs"
    /\ ResetLease("Ts", IF restart THEN "loadSchema" ELSE "initialSchema")

ApplyInitialSchema ==
    /\ phase = "initialSchema"
    /\ phase' = "loadSchema"
    /\ schema0' = TRUE
    /\ interrupted' = FALSE
    /\ UNCHANGED <<zs, dropping, restart, z, nz, maxAssigned, maxUID,
                   grant, unsynced, lost, wrapped>>

LoadSchema ==
    /\ phase = "loadSchema"
    /\ phase' = "open"
    /\ dropping' = FALSE
    /\ z' = nz
    /\ UNCHANGED <<store, restart, nz, maxAssigned, maxUID, ghosts>>

(* A step of reset returns its error: NewEngine hands out no engine, DropAll *)
(* returns to an engine that still holds the zero it had before.             *)
ResetFails ==
    /\ StoreFails
    /\ phase \in {"readZeroState", "leaseUIDs", "leaseTs", "initialSchema", "loadSchema"}
    /\ phase' = IF dropping THEN "open" ELSE "down"
    /\ dropping' = FALSE
    /\ unsynced' = dropping
    /\ interrupted' = \/ interrupted
                      \/ dropping
                      \/ (~restart /\ phase \in {"leaseTs", "initialSchema"})
    /\ UNCHANGED <<store, restart, z, nz, maxAssigned, maxUID, grant, lost, wrapped>>

-----------------------------------------------------------------------------
(* The counters of an open engine.  A renewal whose sum leaves the machine   *)
(* word needs 2^63 identifiers handed out by one process: a running engine   *)
(* renews only within the word (Renews), and the model follows the overflow  *)
(* where restarts reach it, in ResetLease; after one the counters of this    *)
(* process rest.  Hand-outs within the lease always go on.                   *)

Keep == UNCHANGED <<schema0, phase, dropping, restart, nz, lost, wrapped, interrupted>>

Renews(zz, k) == zz.min[k] >= zz.max[k] /\ ~LeaseOverflows(zz, k)

(* again marks a block that is not above the one before it, so that handing  *)
(* out the same block twice is a step of its own and no stutter.             *)
Granted(k, lo, hi) ==
    grant' = [grant EXCEPT ![k] = [lo |-> lo, hi |-> hi, again |-> (lo <= grant[k].hi)]]

WrittenBeforeLease(zz) ==                                 \* mutant of LeaseWritten
    /\ zs' = ZeroStateOf(z)
    /\ unsynced' = FALSE

LeaseWritten(zz) ==
    /\ zs' = ZeroStateOf(zz)
    /\ unsynced' = FALSE

(* The error return of nextTs and nextUIDs: zz stays in memory all the same. *)
LeaseFails(zz) ==
    /\ StoreFails
    /\ z' = zz
    /\ unsynced' = TRUE
    /\ UNCHANGED <<zs, grant, maxAssigned, maxUID>>

(* nextTs: the lease is renewed first when it is used up, then min is handed *)
(* out and the oracle is told.                                               *)
HandTsUntold(zz) ==                                       \* mutant of HandTs
    /\ z' = [zz EXCEPT !.min["Ts"] = @ + 1]
    /\ Granted("Ts", zz.min["Ts"], zz.min["Ts"])
    /\ UNCHANGED <<maxAssigned, maxUID>>

HandTs(zz) ==
    /\ z' = [zz EXCEPT !.min["Ts"] = @ + 1]
    /\ Granted("Ts", zz.min["Ts"], zz.min["Ts"])
    /\ maxAssigned' = Higher(maxAssigned, zz.min["Ts"])
    /\ UNCHANGED maxUID

NextTs ==
    /\ phase = "open"
    /\ ~wrapped
    /\ \/ /\ z.min["Ts"] < z.max["Ts"]
          /\ HandTs(z)
          /\ UNCHANGED <<zs, unsynced>>
       \/ /\ Renews(z, "Ts")
          /\ \/ HandTs(Leased(z, "Ts")) /\ LeaseWritten(Leased(z, "Ts"))
             \/ LeaseFails(Leased(z, "Ts"))
    /\ Keep

(* nextUIDs: the counter moves past the block first, then the lease is       *)
(* renewed if the counter reached it (once: within the word the loop in the  *)
(* code has a single pass); an error of that write hands nothing out.        *)
HandUIDsMaxFirst(lo, hi, zz) ==                           \* mutant of HandUIDs
    /\ z' = zz
    /\ IF lo <= hi THEN Granted("UID", lo, hi) ELSE UNCHANGED grant
    /\ maxUID' = Before(z.min["UID"])
    /\ UNCHANGED maxAssigned

HandUIDs(lo, hi, zz) ==
    /\ z' = zz
    /\ IF lo <= hi THEN Granted("UID", lo, hi) ELSE UNCHANGED grant
    /\ maxUID' = Before(zz.min["UID"])
    /\ UNCHANGED maxAssigned

MoveUIDs(lo, hi) ==
    LET zz == [z EXCEPT !.min["UID"] = hi + 1]
    IN  /\ hi + 1 < WordSize
        /\ ~wrapped
        /\ \/ /\ zz.min["UID"] < zz.max["UID"]
              /\ HandUIDs(lo, hi, zz)
              /\ UNCHANGED <<zs, unsynced>>
           \/ /\ Renews(zz, "UID")
              /\ \/ HandUIDs(lo, hi, Leased(zz, "UID")) /\ LeaseWritten(Leased(zz, "UID"))
                 \/ LeaseFails(Leased(zz, "UID"))

NextUIDs(val) ==
    /\ phase = "open"
    /\ MoveUIDs(z.min["UID"], z.min["UID"] + val - 1)
    /\ Keep

BumpUIDs(val) ==
    /\ phase = "open"
    /\ MoveUIDs(z.min["UID"], Higher(z.min["UID"], val))
    /\ Keep

(* nextNamespace: the increment stays when the write fails, the next success *)
(* returns the number after it.                                              *)
NextNamespace ==
    /\ phase = "open"
    /\ z.ns < MaxNamespaces
    /\ LET zz == [z EXCEPT !.ns = @ + 1]
       IN  /\ z' = zz
           /\ \/ Granted("Ns", zz.ns, zz.ns) /\ LeaseWritten(zz)
              \/ StoreFails /\ unsynced' = TRUE /\ UNCHANGED <<zs, grant>>
    /\ Keep
    /\ UNCHANGED <<maxAssigned, maxUID>>

(* Close or a crash: what was only in memory is gone. *)
Stop ==
    /\ phase # "down"
    /\ phase' = "down"
    /\ dropping' = FALSE
    /\ maxAssigned' = 0
    /\ maxUID' = 0
    /\ lost' = (lost \/ unsynced)
    /\ unsynced' = FALSE
    /\ interrupted' = \/ interrupted
                      \/ (~restart /\ phase \in {"leaseTs", "initialSchema"})
    /\ z' = NewZeroFrom(NoZeroState)
    /\ nz' = NewZeroFrom(NoZeroState)
    /\ restart' = FALSE
    /\ UNCHANGED <<store, grant, wrapped>>

Reset == \/ NewEngine \/ DropAll \/ ReadZeroState
         \/ LeaseUIDsOfNewZero \/ LeaseTsOfNewZero
         \/ ApplyInitialSchema \/ LoadSchema \/ ResetFails

Next ==
    \/ Reset
    \/ NextTs
    \/ \E val \in 0 .. MaxNum : NextUIDs(val) \/ BumpUIDs(val)
    \/ NextNamespace
    \/ Stop

Spec == Init /\ [][Next]_vars
-----------------------------------------------------------------------------
ZeroRecord == [min : [Kind -> Word], max : [Kind -> Word], ns : 0 .. MaxNamespaces]

Block == [lo : Nat, hi : Nat, again : BOOLEAN]

FlagsTyped ==
    /\ schema0 \in BOOLEAN
    /\ dropping \in BOOLEAN
    /\ restart \in BOOLEAN
    /\ unsynced \in BOOLEAN
    /\ lost \in BOOLEAN
    /\ wrapped \in BOOLEAN
    /\ interrupted \in BOOLEAN

CountersTyped ==
    /\ zs \in [present : BOOLEAN, max : [Kind -> Word], ns : 0 .. MaxNamespaces]
    /\ phase \in {"down", "readZeroState", "leaseUIDs", "leaseTs",
                  "initialSchema", "loadSchema", "open"}
    /\ z \in ZeroRecord
    /\ nz \in ZeroRecord
    /\ maxAssigned \in Word
    /\ maxUID \in Word
    /\ grant \in [{"UID", "Ts", "Ns"} -> Block]

(* Every counter of zero.go stays a machine word and the process is always   *)
(* at a step of reset, open or down.                                         *)
TypeOK == FlagsTyped /\ CountersTyped

trusted == ~lost /\ ~wrapped

(* The lease of zero.go in one sentence: while the last store write of an    *)
(* open engine succeeded, and always when the process is down, everything    *)
(* handed out lies below what the store promises the next process to start   *)
(* at, whatever writes failed before and wherever a reset was cut short.     *)
LeaseCoversGrants ==
    trusted /\ ~unsynced => \A k \in Kind : grant[k].hi < zs.max[k]

(* A namespace ID, unlike a UID or a timestamp, is returned only after its   *)
(* own write: it is covered whatever failed, also across lost leases.        *)
NamespacesCovered == grant["Ns"].hi <= zs.ns

(* An open engine reads at readTs; every timestamp handed out so far, so     *)
(* every commit, is at or below it, across restarts (engine.go query).       *)
ReadsSeeCommits == phase = "open" /\ trusted => grant["Ts"].hi <= readTs

(* What TestRestart asserts of any restart: a reopened engine reads what was *)
(* committed before.  No store access fails in the run that checks it.       *)
ReopenReadsCommits == phase = "open" => grant["Ts"].hi <= readTs

(* A query at readTs would wait for the oracle to reach it: it never has to. *)
ReadTsAssigned == phase = "open" /\ ~wrapped => readTs <= maxAssigned

(* A UID an open engine has handed out is one the worker admits in a         *)
(* mutation (SetMaxUID), also after a DropAll that failed half way.          *)
UIDsAdmitted == phase = "open" /\ trusted => grant["UID"].hi <= maxUID

(* engine.go reset applies the initial schema only to a store without a zero *)
(* state: an open engine has it, however many opens failed or crashed before *)
(* their first lease write or after the schema, also after a DropAll and     *)
(* after a DropAll cut short and opened again.  The two ways to lose it that *)
(* the code does have are excepted, until a later reset applies it: a fresh  *)
(* reset stopped between its first lease write and the schema, which every   *)
(* later open takes for a restart, and an engine whose DropAll failed.       *)
InitialSchemaPresent == phase = "open" /\ ~interrupted => schema0

UIDOracle == INSTANCE IdOracle
    WITH First <- initialUID, grant <- grant["UID"], trusted <- trusted
TsOracle == INSTANCE IdOracle
    WITH First <- initialTs, grant <- grant["Ts"], trusted <- trusted
NsOracle == INSTANCE IdOracle
    WITH First <- 1, grant <- grant["Ns"], trusted <- TRUE

(* nextUIDs, nextTs and nextNamespace each implement an oracle of increasing *)
(* identifiers: no crash, failed write or cut-short reset hands one out a    *)
(* second time as long as no lease was lost and no counter wrapped; for      *)
(* namespace IDs without any such condition.                                 *)
UIDsIncrease == UIDOracle!Spec
TimestampsIncrease == TsOracle!Spec
NamespaceIDsIncrease == NsOracle!Spec
=============================================================================
