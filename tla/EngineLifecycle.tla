--------------------------- MODULE EngineLifecycle ---------------------------
(* Opening and closing the embedded engine.  One process-wide flag           *)
(* (singleton) admits one engine; the store and the hooks an engine uses are *)
(* process-wide too.  engine.go: NewEngine, Close, Shutdown; client.go:      *)
(* NewClient for a file:// URI, which keeps every client it made in a map.   *)
(* Goroutines run them statement by statement where another one can see it.  *)
EXTENDS Integers, FiniteSets

CONSTANTS
    Goroutine,
    Key,                  \* client.key(): a URI together with its options
    NoKey, NoOne,
    Shutdowns,            \* do the callers use Shutdown?
    MaxEngines            \* bound: engines whose storage was initialised

ASSUME LifecycleConstants ==
    /\ NoKey \notin Key
    /\ NoOne \notin Goroutine
    /\ Shutdowns \in BOOLEAN
    /\ MaxEngines \in Nat

None == 0
Engine == 1 .. MaxEngines

VARIABLES
    singleton,     \* the process-wide flag
    activeEngine,
    store,         \* the engine that initialised worker.State's store; None when disposed
    hooksOf,       \* the engine hooks.Enable routes to
    isOpen,
    mutex,         \* the holder of each engine's mutex
    clientMap,     \* the engine of the client made for a key
    mapLock,       \* the holder of clientMapLock
    made,          \* engines made so far
    handles,       \* engines a caller was given
    pc, eng, key,  \* of each goroutine: its statement, its engine, its client key
    shutting,      \* it is inside Shutdown
    stale,         \* ghost: NewClient returned a client whose engine is closed
    panicked,      \* ghost: Close panicked
    overlapped     \* ghost: a call has begun while another one was in progress

process == <<singleton, activeEngine, store, hooksOf, clientMap, mapLock>>
engines == <<isOpen, mutex, made, handles>>
locals == <<pc, eng, key, shutting>>
ghosts == <<stale, panicked>>
vars == <<singleton, activeEngine, store, hooksOf, clientMap, mapLock, isOpen,
          mutex, made, handles, pc, eng, key, shutting, stale, panicked, overlapped>>

Init ==
    /\ singleton = FALSE
    /\ activeEngine = None
    /\ store = None
    /\ hooksOf = None
    /\ isOpen = [e \in Engine |-> FALSE]
    /\ mutex = [e \in Engine |-> NoOne]
    /\ clientMap = [k \in Key |-> None]
    /\ mapLock = NoOne
    /\ made = 0
    /\ handles = {}
    /\ pc = [g \in Goroutine |-> "idle"]
    /\ eng = [g \in Goroutine |-> None]
    /\ key = [g \in Goroutine |-> NoKey]
    /\ shutting = [g \in Goroutine |-> FALSE]
    /\ stale = FALSE /\ panicked = FALSE /\ overlapped = FALSE

Goto(g, s) == pc' = [pc EXCEPT ![g] = s]

(* The return of NewEngine with an error, and of Close: to the caller, to    *)
(* NewClient, which then unlocks its map and returns, or to Shutdown.        *)
Return(g) ==
    /\ Goto(g, IF shutting[g] THEN "clearActive" ELSE "idle")
    /\ key' = [key EXCEPT ![g] = NoKey]
    /\ mapLock' = IF mapLock = g THEN NoOne ELSE mapLock

-----------------------------------------------------------------------------
(* NewEngine.                                                                *)

CallNewEngine(g) ==
    /\ pc[g] = "idle"
    /\ Goto(g, "admit")
    /\ UNCHANGED <<process, engines, eng, key, shutting, ghosts>>

AdmitAlways(g) ==                                         \* mutant of Admit
    /\ pc[g] = "admit"
    /\ singleton' = TRUE
    /\ Goto(g, "validate")
    /\ UNCHANGED <<activeEngine, store, hooksOf, clientMap, mapLock, engines,
                   eng, key, shutting, ghosts>>

(* singleton.CompareAndSwap(false, true) *)
Admit(g) ==
    /\ pc[g] = "admit"
    /\ \/ /\ ~singleton
          /\ singleton' = TRUE
          /\ Goto(g, "validate")
          /\ UNCHANGED <<mapLock, key>>
       \/ /\ singleton
          /\ Return(g)
          /\ UNCHANGED singleton
    /\ UNCHANGED <<activeEngine, store, hooksOf, clientMap, engines, eng,
                   shutting, ghosts>>

(* conf.validate returns its error with the flag left set. *)
InvalidConfig(g) ==
    /\ pc[g] = "validate"
    /\ Return(g)
    /\ UNCHANGED <<singleton, activeEngine, store, hooksOf, clientMap, engines,
                   eng, shutting, ghosts>>

(* The packages' process-wide state now belongs to this engine; nobody sees  *)
(* the engine itself before it is published.  The bound on engines is here:  *)
(* once they are used up, every later open fails in validate.                *)
InitStorage(g) ==
    /\ pc[g] = "validate"
    /\ made < MaxEngines
    /\ made' = made + 1
    /\ eng' = [eng EXCEPT ![g] = made']
    /\ isOpen' = [isOpen EXCEPT ![made'] = TRUE]
    /\ store' = made'
    /\ Goto(g, "reset")
    /\ UNCHANGED <<singleton, activeEngine, hooksOf, clientMap, mapLock, mutex,
                   handles, key, shutting, ghosts>>

(* reset fails: again with the flag set, and with the store left open. *)
ResetFails(g) ==
    /\ pc[g] = "reset"
    /\ Return(g)
    /\ UNCHANGED <<singleton, activeEngine, store, hooksOf, clientMap, engines,
                   eng, shutting, ghosts>>

EnableHooks(g) ==
    /\ pc[g] = "reset"
    /\ hooksOf' = eng[g]
    /\ Goto(g, "publish")
    /\ UNCHANGED <<singleton, activeEngine, store, clientMap, mapLock, engines,
                   eng, key, shutting, ghosts>>

Publish(g) ==
    /\ pc[g] = "publish"
    /\ activeEngine' = eng[g]
    /\ handles' = handles \cup {eng[g]}
    /\ Goto(g, IF key[g] = NoKey THEN "idle" ELSE "namespace")
    /\ UNCHANGED <<singleton, store, hooksOf, clientMap, mapLock, isOpen, mutex,
                   made, eng, key, shutting, ghosts>>

-----------------------------------------------------------------------------
(* NewClient waits for clientMapLock, however long its holder's open takes.  *)
CallNewClient(g, k) ==
    /\ pc[g] = "idle"
    /\ key' = [key EXCEPT ![g] = k]
    /\ Goto(g, "lock")
    /\ UNCHANGED <<process, engines, eng, shutting, ghosts>>

(* It holds the lock throughout.  A client found under the key is returned   *)
(* as it is (Close never takes one out of the map); otherwise the directory  *)
(* is missing, or an engine is opened.                                       *)
LockMap(g) ==
    /\ pc[g] = "lock"
    /\ mapLock = NoOne
    /\ \/ /\ stale' = (stale \/ (clientMap[key[g]] # None /\ ~isOpen[clientMap[key[g]]]))
          /\ Return(g)
       \/ /\ clientMap[key[g]] = None
          /\ mapLock' = g
          /\ Goto(g, "admit")
          /\ UNCHANGED <<key, stale>>
    /\ UNCHANGED <<singleton, activeEngine, store, hooksOf, clientMap, engines, eng,
                   shutting, panicked>>

(* The namespace option names an existing namespace, or there is none ... *)
NamespaceFound(g) ==
    /\ pc[g] = "namespace"
    /\ clientMap' = [clientMap EXCEPT ![key[g]] = eng[g]]
    /\ Return(g)
    /\ UNCHANGED <<singleton, activeEngine, store, hooksOf, engines, eng,
                   shutting, ghosts>>

(* ... or it does not: the engine is closed again and the error returned.    *)
NamespaceMissing(g) ==
    /\ pc[g] = "namespace"
    /\ Goto(g, "close")
    /\ UNCHANGED <<process, engines, eng, key, shutting, ghosts>>

-----------------------------------------------------------------------------
(* Close, under the engine's mutex.                                          *)

CallClose(g) ==
    /\ pc[g] = "idle"
    /\ \E e \in handles : eng' = [eng EXCEPT ![g] = e]
    /\ Goto(g, "close")
    /\ UNCHANGED <<process, engines, key, shutting, ghosts>>

AlreadyClosedStaysLocked(g) ==                            \* mutant of AlreadyClosed
    /\ pc[g] = "close"
    /\ mutex[eng[g]] = NoOne
    /\ ~isOpen[eng[g]]
    /\ mutex' = [mutex EXCEPT ![eng[g]] = g]
    /\ Return(g)
    /\ UNCHANGED <<singleton, activeEngine, store, hooksOf, clientMap, isOpen,
                   made, handles, eng, shutting, ghosts>>

AlreadyClosed(g) ==
    /\ pc[g] = "close"
    /\ mutex[eng[g]] = NoOne
    /\ ~isOpen[eng[g]]
    /\ Return(g)
    /\ UNCHANGED <<singleton, activeEngine, store, hooksOf, clientMap, engines,
                   eng, shutting, ghosts>>

LockOpen(g) ==
    /\ pc[g] = "close"
    /\ mutex[eng[g]] = NoOne
    /\ isOpen[eng[g]]
    /\ mutex' = [mutex EXCEPT ![eng[g]] = g]
    /\ Goto(g, "release")
    /\ UNCHANGED <<process, isOpen, made, handles, eng, key, shutting, ghosts>>

(* singleton.CompareAndSwap(true, false) *)
ReleaseSingleton(g) ==
    /\ pc[g] = "release"
    /\ singleton
    /\ singleton' = FALSE
    /\ Goto(g, "markClosed")
    /\ UNCHANGED <<activeEngine, store, hooksOf, clientMap, mapLock, engines,
                   eng, key, shutting, ghosts>>

(* The panic unwinds through the deferred unlocks, and out of Shutdown. *)
NotProperlyOpened(g) ==
    /\ pc[g] = "release"
    /\ ~singleton
    /\ panicked' = TRUE
    /\ mutex' = [mutex EXCEPT ![eng[g]] = NoOne]
    /\ shutting' = [shutting EXCEPT ![g] = FALSE]
    /\ key' = [key EXCEPT ![g] = NoKey]
    /\ mapLock' = IF mapLock = g THEN NoOne ELSE mapLock
    /\ Goto(g, "idle")
    /\ UNCHANGED <<singleton, activeEngine, store, hooksOf, clientMap, isOpen,
                   made, handles, eng, stale>>

MarkClosed(g) ==
    /\ pc[g] = "markClosed"
    /\ isOpen' = [isOpen EXCEPT ![eng[g]] = FALSE]
    /\ Goto(g, "disableHooks")
    /\ UNCHANGED <<process, mutex, made, handles, eng, key, shutting, ghosts>>

DisableHooks(g) ==
    /\ pc[g] = "disableHooks"
    /\ hooksOf' = None
    /\ Goto(g, "dispose")
    /\ UNCHANGED <<singleton, activeEngine, store, clientMap, mapLock, engines,
                   eng, key, shutting, ghosts>>

(* worker.State.Dispose closes whatever store the process has. *)
Dispose(g) ==
    /\ pc[g] = "dispose"
    /\ store' = None
    /\ mutex' = [mutex EXCEPT ![eng[g]] = NoOne]
    /\ Return(g)
    /\ UNCHANGED <<singleton, activeEngine, hooksOf, clientMap, isOpen, made,
                   handles, eng, shutting, ghosts>>

-----------------------------------------------------------------------------
(* Shutdown takes no lock of its own.                                        *)

CallShutdown(g) ==
    /\ Shutdowns
    /\ pc[g] = "idle"
    /\ shutting' = [shutting EXCEPT ![g] = TRUE]
    /\ IF activeEngine # None
         THEN Goto(g, "close") /\ eng' = [eng EXCEPT ![g] = activeEngine]
         ELSE Goto(g, "clearFlag") /\ UNCHANGED eng
    /\ UNCHANGED <<process, engines, key, ghosts>>

ClearActive(g) ==
    /\ pc[g] = "clearActive"
    /\ activeEngine' = None
    /\ Goto(g, "clearFlag")
    /\ UNCHANGED <<singleton, store, hooksOf, clientMap, mapLock, engines, eng,
                   key, shutting, ghosts>>

(* singleton.Store(false), whoever holds the flag by now. *)
ClearFlag(g) ==
    /\ pc[g] = "clearFlag"
    /\ singleton' = FALSE
    /\ shutting' = [shutting EXCEPT ![g] = FALSE]
    /\ Goto(g, "idle")
    /\ UNCHANGED <<activeEngine, store, hooksOf, clientMap, mapLock, engines,
                   eng, key, ghosts>>

Call(g) ==
    /\ \/ CallNewEngine(g)
       \/ \E k \in Key : CallNewClient(g, k)
       \/ CallClose(g)
       \/ CallShutdown(g)
    /\ overlapped' = (overlapped \/ \E h \in Goroutine : pc[h] # "idle")

Statement(g) ==
    \/ Admit(g) \/ InvalidConfig(g) \/ InitStorage(g) \/ ResetFails(g)
    \/ EnableHooks(g) \/ Publish(g)
    \/ LockMap(g) \/ NamespaceFound(g) \/ NamespaceMissing(g)
    \/ AlreadyClosed(g) \/ LockOpen(g) \/ ReleaseSingleton(g) \/ NotProperlyOpened(g)
    \/ MarkClosed(g) \/ DisableHooks(g) \/ Dispose(g)
    \/ ClearActive(g) \/ ClearFlag(g)

Step(g) == Statement(g) /\ UNCHANGED overlapped

Next == \E g \in Goroutine : Call(g) \/ Step(g)

(* A goroutine that can go on is scheduled, and sync.Mutex hands itself to   *)
(* the longest waiter after at most a millisecond (starvation mode): nobody  *)
(* waits for ever at a mutex that keeps being released.                      *)
Acquire(g) == (LockMap(g) \/ AlreadyClosed(g) \/ LockOpen(g)) /\ UNCHANGED overlapped

Spec ==
    /\ Init
    /\ [][Next]_vars
    /\ \A g \in Goroutine : WF_vars(Step(g)) /\ SF_vars(Acquire(g))
-----------------------------------------------------------------------------
(* Never two engines open in one process (the comment on singleton).         *)
OneInstance == Cardinality({e \in handles : isOpen[e]}) <= 1

(* An engine a caller holds open has its own store under it and the hooks    *)
(* point at it, unless that very engine is being closed.                     *)
OpenEngineServes ==
    \A e \in handles : isOpen[e] /\ mutex[e] = NoOne => store = e /\ hooksOf = e

(* Calls that never overlap leave one engine open at most, with its own      *)
(* store under it and the hooks pointing at it, whichever of their steps     *)
(* fail: a half-made engine never shadows the open one, and no Close panics  *)
(* ("not properly opened").                                                  *)
OneAtATime == ~overlapped => OneInstance /\ OpenEngineServes /\ ~panicked

(* NewClient returns a client that can be used.                              *)
ClientsReturnedOpen == ~stale

(* NewEngine, NewClient, Close and Shutdown all return, those that wait for  *)
(* clientMapLock or an engine's mutex too, whatever the other goroutines are *)
(* opening and closing and whichever step of theirs fails.                   *)
CallsReturn == \A g \in Goroutine : pc[g] # "idle" ~> pc[g] = "idle"
=============================================================================
