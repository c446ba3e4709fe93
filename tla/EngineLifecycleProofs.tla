------------------------ MODULE EngineLifecycleProofs ------------------------
(* Calls that never overlap: one engine open at most, whichever step fails,  *)
(* for any number of goroutines, keys and engines.                           *)
EXTENDS EngineLifecycle, FiniteSetTheorems, TLAPS

-----------------------------------------------------------------------------
(* The process between two calls.  Either no engine that a caller was given  *)
(* is open, though the flag may still be set and the store still belong to   *)
(* an engine that was never given out, because an open failed half-way; or   *)
(* one is, and flag, activeEngine, store and hooks are all its own.          *)
NoneOpen == \A e \in handles : ~isOpen[e]

OnlyOpen(e) ==
    /\ e \in handles /\ isOpen[e]
    /\ \A d \in handles : isOpen[d] => d = e
    /\ singleton /\ activeEngine = e /\ store = e /\ hooksOf = e

Settled == NoneOpen \/ \E e \in Engine : OnlyOpen(e)

(* The process during a call of g, by the statement g is at.                 *)
HoldsMutex == {"release", "markClosed", "disableHooks", "dispose"}

Opening(g) ==
    /\ pc[g] \in {"lock", "admit"} => Settled
    /\ pc[g] = "validate" => singleton /\ NoneOpen
    /\ pc[g] \in {"reset", "publish"} =>
          singleton /\ NoneOpen /\ eng[g] \in 1 .. made /\ store = eng[g] /\ isOpen[eng[g]]
    /\ pc[g] = "publish" => hooksOf = eng[g]
    /\ pc[g] = "namespace" => OnlyOpen(eng[g])

Ending(g) ==
    /\ pc[g] = "close" => Settled /\ eng[g] \in handles /\ (shutting[g] => eng[g] = activeEngine)
    /\ pc[g] = "release" => OnlyOpen(eng[g])
    /\ pc[g] = "markClosed" => \A d \in handles : isOpen[d] => d = eng[g]
    /\ pc[g] \in HoldsMutex => eng[g] \in Engine /\ mutex[eng[g]] = g
    /\ pc[g] \in {"disableHooks", "dispose", "clearActive", "clearFlag"} => NoneOpen
    /\ shutting[g] => pc[g] \in HoldsMutex \cup {"close", "clearActive", "clearFlag"}

Statements ==
    HoldsMutex \cup
    {"idle", "lock", "admit", "validate", "reset", "publish", "namespace", "close",
     "clearActive", "clearFlag"}

LifecycleTyped ==
    /\ singleton \in BOOLEAN /\ shutting \in [Goroutine -> BOOLEAN]
    /\ isOpen \in [Engine -> BOOLEAN] /\ mutex \in [Engine -> Goroutine \cup {NoOne}]
    /\ made \in 0 .. MaxEngines /\ handles \subseteq 1 .. made
    /\ activeEngine \in handles \cup {None}
    /\ eng \in [Goroutine -> 0 .. MaxEngines]
    /\ pc \in [Goroutine -> Statements]

MutexHeld ==
    \A e \in Engine : mutex[e] # NoOne => pc[mutex[e]] \in HoldsMutex /\ eng[mutex[e]] = e

(* One goroutine at most is in a call. *)
Apart ==
    /\ LifecycleTyped /\ MutexHeld /\ ~panicked
    /\ \A g, h \in Goroutine : pc[g] # "idle" /\ pc[h] # "idle" => g = h
    /\ (\A g \in Goroutine : pc[g] = "idle") => Settled
    /\ \A g \in Goroutine : pc[g] = "idle" => ~shutting[g]
    /\ \A g \in Goroutine : pc[g] # "idle" => Opening(g) /\ Ending(g)

LifecycleInv == overlapped \in BOOLEAN /\ (~overlapped => Apart)

LEMMA LifecycleInitially == Init => LifecycleInv
<1> SUFFICES ASSUME Init PROVE LifecycleInv
    OBVIOUS
<1>1. MaxEngines \in Nat /\ NoOne \notin Goroutine
    BY LifecycleConstants
<1>2. LifecycleTyped
    <2>1. pc \in [Goroutine -> Statements]
        BY DEF Init, Statements
    <2>2. isOpen \in [Engine -> BOOLEAN] /\ mutex \in [Engine -> Goroutine \cup {NoOne}]
        BY DEF Init
    <2>3. eng \in [Goroutine -> 0 .. MaxEngines] /\ shutting \in [Goroutine -> BOOLEAN]
        BY <1>1 DEF Init, None
    <2>4. /\ singleton \in BOOLEAN /\ made \in 0 .. MaxEngines
          /\ handles \subseteq 1 .. made /\ activeEngine \in handles \cup {None}
        <3>1. singleton \in BOOLEAN /\ activeEngine \in handles \cup {None}
            BY DEF Init
        <3>2. made = 0 /\ handles = {}
            BY DEF Init
        <3> QED BY <1>1, <3>1, <3>2
    <2> QED BY <2>1, <2>2, <2>3, <2>4 DEF LifecycleTyped
<1>3. MutexHeld /\ ~panicked /\ NoneOpen /\ overlapped = FALSE
    BY DEF Init, MutexHeld, NoneOpen
<1>4. \A g \in Goroutine : pc[g] = "idle" /\ ~shutting[g]
    BY DEF Init
<1> QED BY <1>2, <1>3, <1>4 DEF LifecycleInv, Apart, Settled

(* A call or a step of g, the only goroutine in a call.                      *)
LEMMA OneMoves ==
    ASSUME NEW g \in Goroutine, Apart,
           \A h \in Goroutine \ {g} : pc[h] = "idle" /\ pc'[h] = "idle" /\ ~shutting'[h],
           LifecycleTyped', MutexHeld', panicked' = panicked,
           pc'[g] = "idle" => Settled' /\ ~shutting'[g],
           pc'[g] # "idle" => Opening(g)' /\ Ending(g)'
    PROVE  Apart'
<1>1. \A h \in Goroutine : pc'[h] # "idle" => h = g
    OBVIOUS
<1>2. (\A h \in Goroutine : (pc[h] = "idle"))' => Settled'
    OBVIOUS
<1>3. \A h \in Goroutine : pc'[h] = "idle" => ~shutting'[h]
    OBVIOUS
<1>4. \A h \in Goroutine : pc'[h] # "idle" => Opening(h)' /\ Ending(h)'
    BY <1>1
<1> QED BY <1>1, <1>2, <1>3, <1>4 DEF Apart

(* What a step of the only goroutine in a call finds.                        *)
LEMMA Alone ==
    ASSUME NEW g \in Goroutine, Apart, pc[g] # "idle"
    PROVE  /\ \A h \in Goroutine \ {g} : pc[h] = "idle" /\ ~shutting[h]
           /\ \A e \in Engine : mutex[e] # NoOne => mutex[e] = g /\ eng[g] = e
           /\ pc[g] \notin HoldsMutex => \A e \in Engine : mutex[e] = NoOne
BY DEF Apart, MutexHeld, HoldsMutex, LifecycleTyped

LEMMA StatementKeeps ==
    ASSUME NEW g \in Goroutine, Apart, Statement(g)
    PROVE  Apart'
<1> USE DEF Goto
<1>1. pc[g] # "idle"
    BY DEF Statement, Admit, InvalidConfig, InitStorage, ResetFails, EnableHooks, Publish,
       LockMap, NamespaceFound, NamespaceMissing, AlreadyClosed, LockOpen, ReleaseSingleton,
       NotProperlyOpened, MarkClosed, DisableHooks, Dispose, ClearActive, ClearFlag
<1>2. /\ \A h \in Goroutine \ {g} : pc[h] = "idle" /\ ~shutting[h]
      /\ \A e \in Engine : mutex[e] # NoOne => mutex[e] = g /\ eng[g] = e
      /\ pc[g] \notin HoldsMutex => \A e \in Engine : mutex[e] = NoOne
    BY <1>1, Alone
<1>3. LifecycleTyped /\ MutexHeld /\ Opening(g) /\ Ending(g)
    BY <1>1 DEF Apart
<1>4. MaxEngines \in Nat /\ NoOne \notin Goroutine
    BY LifecycleConstants
<1>5. CASE Admit(g)
    <2> USE <1>5 DEF Admit, Return, engines, ghosts
    <2>1. LifecycleTyped'
        BY <1>3 DEF LifecycleTyped, Statements
    <2>2. MutexHeld' /\ panicked' = panicked
        BY <1>2 DEF MutexHeld, HoldsMutex
    <2>3. \A h \in Goroutine \ {g} : pc'[h] = "idle" /\ ~shutting'[h]
        BY <1>2, <1>3 DEF LifecycleTyped
    <2>4. pc'[g] = "idle" => Settled' /\ ~shutting'[g]
        BY <1>3 DEF LifecycleTyped, Opening, Settled, OnlyOpen, NoneOpen
    <2>5. pc'[g] # "idle" => Opening(g)'
        BY <1>3 DEF LifecycleTyped, Opening, Settled, OnlyOpen, NoneOpen
    <2>6. pc'[g] # "idle" => Ending(g)'
        BY <1>3 DEF LifecycleTyped, Ending, HoldsMutex
    <2> QED BY <1>2, <2>1, <2>2, <2>3, <2>4, <2>5, <2>6, OneMoves
<1>6. CASE InvalidConfig(g)
    <2> USE <1>6 DEF InvalidConfig, Return, engines, ghosts
    <2>1. LifecycleTyped'
        BY <1>3 DEF LifecycleTyped, Statements
    <2>2. MutexHeld' /\ panicked' = panicked
        BY <1>3 DEF MutexHeld, HoldsMutex
    <2>3. \A h \in Goroutine \ {g} : pc'[h] = "idle" /\ ~shutting'[h]
        BY <1>2
    <2>4. pc'[g] = "idle" => Settled' /\ ~shutting'[g]
        BY <1>3 DEF Opening, Settled, NoneOpen
    <2>5. pc'[g] # "idle" => Opening(g)'
        BY <1>3 DEF Opening, NoneOpen
    <2>6. pc'[g] # "idle" => Ending(g)'
        BY <1>3 DEF Ending, HoldsMutex
    <2> QED BY <1>2, <2>1, <2>2, <2>3, <2>4, <2>5, <2>6, OneMoves
<1>7. CASE InitStorage(g)
    <2> USE <1>7 DEF InitStorage, ghosts
    <2>1. LifecycleTyped'
        <3>1. made' = made + 1 /\ made' \in 1 .. MaxEngines /\ made' # 0
            BY <1>3, <1>4 DEF LifecycleTyped, Opening
        <3>2. handles' \subseteq 1 .. made' /\ activeEngine' \in handles' \cup {None}
            BY <1>3 DEF LifecycleTyped
        <3>3. eng' \in [Goroutine -> 0 .. MaxEngines]
            BY <1>3, <3>1 DEF LifecycleTyped
        <3>4. isOpen' \in [Engine -> BOOLEAN] /\ mutex' \in [Engine -> Goroutine \cup {NoOne}]
            BY <1>3 DEF LifecycleTyped
        <3>5. pc' \in [Goroutine -> Statements]
            BY <1>3 DEF LifecycleTyped, Statements
        <3> QED BY <1>3, <1>4, <3>1, <3>2, <3>3, <3>4, <3>5 DEF LifecycleTyped
    <2>2. MutexHeld' /\ panicked' = panicked
        BY <1>3 DEF MutexHeld, HoldsMutex
    <2>3. \A h \in Goroutine \ {g} : pc'[h] = "idle" /\ ~shutting'[h]
        BY <1>2
    <2>4. pc'[g] = "idle" => Settled' /\ ~shutting'[g]
        OBVIOUS
    <2>5. pc'[g] # "idle" => Opening(g)'
        <3>1. made \in Nat /\ made < MaxEngines /\ handles \subseteq 1 .. made /\ made' = made + 1
            BY <1>3 DEF LifecycleTyped, Opening
        <3>2. eng'[g] = made' /\ eng'[g] \in 1 .. made' /\ eng'[g] \in Engine
            BY <1>3, <1>4, <3>1 DEF LifecycleTyped, Engine
        <3>3. isOpen'[eng'[g]] /\ store' = eng'[g] /\ pc'[g] = "reset"
            BY <1>3, <3>2 DEF LifecycleTyped
        <3>4. \A e \in handles : isOpen'[e] = isOpen[e]
            <4>1. \A e \in handles : e \in Engine /\ e # made'
                BY <1>4, <3>1 DEF Engine
            <4> QED BY <1>3, <4>1 DEF LifecycleTyped
        <3>5. singleton' /\ NoneOpen'
            BY <1>3, <3>4 DEF Opening, NoneOpen
        <3> QED BY <3>2, <3>3, <3>5 DEF Opening
    <2>6. pc'[g] # "idle" => Ending(g)'
        BY <1>3 DEF Ending, HoldsMutex
    <2> QED BY <1>2, <2>1, <2>2, <2>3, <2>4, <2>5, <2>6, OneMoves
<1>8. CASE ResetFails(g)
    <2> USE <1>8 DEF ResetFails, Return, engines, ghosts
    <2>1. LifecycleTyped'
        BY <1>3 DEF LifecycleTyped, Statements
    <2>2. MutexHeld' /\ panicked' = panicked
        BY <1>3 DEF MutexHeld, HoldsMutex
    <2>3. \A h \in Goroutine \ {g} : pc'[h] = "idle" /\ ~shutting'[h]
        BY <1>2
    <2>4. pc'[g] = "idle" => Settled' /\ ~shutting'[g]
        BY <1>3 DEF Opening, Settled, NoneOpen
    <2>5. pc'[g] # "idle" => Opening(g)'
        BY <1>3 DEF Opening, NoneOpen
    <2>6. pc'[g] # "idle" => Ending(g)'
        BY <1>3 DEF Ending, HoldsMutex
    <2> QED BY <1>2, <2>1, <2>2, <2>3, <2>4, <2>5, <2>6, OneMoves
<1>9. CASE EnableHooks(g)
    <2> USE <1>9 DEF EnableHooks, engines, ghosts
    <2>1. LifecycleTyped'
        BY <1>3 DEF LifecycleTyped, Statements
    <2>2. MutexHeld' /\ panicked' = panicked
        BY <1>3 DEF MutexHeld, HoldsMutex
    <2>3. \A h \in Goroutine \ {g} : pc'[h] = "idle" /\ ~shutting'[h]
        BY <1>2
    <2>4. pc'[g] = "idle" => Settled' /\ ~shutting'[g]
        OBVIOUS
    <2>5. pc'[g] # "idle" => Opening(g)'
        BY <1>3 DEF Opening, NoneOpen
    <2>6. pc'[g] # "idle" => Ending(g)'
        BY <1>3 DEF Ending, HoldsMutex
    <2> QED BY <1>2, <2>1, <2>2, <2>3, <2>4, <2>5, <2>6, OneMoves
<1>10. CASE Publish(g)
    <2> USE <1>10 DEF Publish, ghosts
    <2>1. LifecycleTyped'
        <3>1. eng[g] \in 1 .. made /\ pc'[g] \in Statements
            BY <1>3 DEF Opening, Statements
        <3>2. pc' \in [Goroutine -> Statements]
            BY <1>3 DEF LifecycleTyped, Statements
        <3>3. handles' \subseteq 1 .. made' /\ activeEngine' \in handles' \cup {None}
            BY <1>3, <3>1 DEF LifecycleTyped
        <3> QED BY <1>3, <3>2, <3>3 DEF LifecycleTyped
    <2>2. MutexHeld' /\ panicked' = panicked
        BY <1>3 DEF MutexHeld, HoldsMutex
    <2>3. \A h \in Goroutine \ {g} : pc'[h] = "idle" /\ ~shutting'[h]
        BY <1>2
    <2>4. pc'[g] = "idle" => Settled' /\ ~shutting'[g]
        <3>1. OnlyOpen(eng[g])'
            BY <1>3 DEF Opening, OnlyOpen, NoneOpen
        <3>2. eng'[g] \in Engine
            BY <1>3 DEF LifecycleTyped, Opening, Engine
        <3> QED BY <1>2, <1>3, <3>1, <3>2 DEF LifecycleTyped, Ending, HoldsMutex, Settled
    <2>5. pc'[g] # "idle" => Opening(g)'
        BY <1>3 DEF LifecycleTyped, Opening, OnlyOpen, NoneOpen
    <2>6. pc'[g] # "idle" => Ending(g)'
        BY <1>3 DEF Ending, HoldsMutex
    <2> QED BY <1>2, <2>1, <2>2, <2>3, <2>4, <2>5, <2>6, OneMoves
<1>11. CASE NamespaceFound(g)
    <2> USE <1>11 DEF NamespaceFound, Return, engines, ghosts
    <2>1. LifecycleTyped'
        BY <1>3 DEF LifecycleTyped, Statements
    <2>2. MutexHeld' /\ panicked' = panicked
        BY <1>3 DEF MutexHeld, HoldsMutex
    <2>3. \A h \in Goroutine \ {g} : pc'[h] = "idle" /\ ~shutting'[h]
        BY <1>2
    <2>4. pc'[g] = "idle" => Settled' /\ ~shutting'[g]
        BY <1>3 DEF LifecycleTyped, Opening, Settled, OnlyOpen, Engine
    <2>5. pc'[g] # "idle" => Opening(g)'
        BY <1>3 DEF Opening, OnlyOpen
    <2>6. pc'[g] # "idle" => Ending(g)'
        BY <1>3 DEF Ending, HoldsMutex
    <2> QED BY <1>2, <2>1, <2>2, <2>3, <2>4, <2>5, <2>6, OneMoves
<1>12. CASE NamespaceMissing(g)
    <2> USE <1>12 DEF NamespaceMissing, process, engines, ghosts
    <2>1. LifecycleTyped'
        BY <1>3 DEF LifecycleTyped, Statements
    <2>2. MutexHeld' /\ panicked' = panicked
        BY <1>3 DEF MutexHeld, HoldsMutex
    <2>3. \A h \in Goroutine \ {g} : pc'[h] = "idle" /\ ~shutting'[h]
        BY <1>2
    <2>4. pc'[g] = "idle" => Settled' /\ ~shutting'[g]
        OBVIOUS
    <2>5. pc'[g] # "idle" => Opening(g)'
        BY <1>3 DEF Opening, OnlyOpen
    <2>6. pc'[g] # "idle" => Ending(g)'
        BY <1>3 DEF LifecycleTyped, Opening, Ending, Settled, OnlyOpen, Engine, HoldsMutex
    <2> QED BY <1>2, <2>1, <2>2, <2>3, <2>4, <2>5, <2>6, OneMoves
<1>13. CASE AlreadyClosed(g)
    <2> USE <1>13 DEF AlreadyClosed, Return, engines, ghosts
    <2>1. LifecycleTyped'
        BY <1>3 DEF LifecycleTyped, Statements
    <2>2. MutexHeld' /\ panicked' = panicked
        BY <1>3 DEF MutexHeld
    <2>3. \A h \in Goroutine \ {g} : pc'[h] = "idle" /\ ~shutting'[h]
        BY <1>2
    <2>4. pc'[g] = "idle" => Settled' /\ ~shutting'[g]
        BY <1>3 DEF Ending, Settled, OnlyOpen, NoneOpen
    <2>5. pc'[g] # "idle" => Opening(g)'
        BY DEF Opening
    <2>6. pc'[g] # "idle" => Ending(g)'
        BY <1>3 DEF Ending, Settled, OnlyOpen, NoneOpen, HoldsMutex
    <2> QED BY <1>2, <2>1, <2>2, <2>3, <2>4, <2>5, <2>6, OneMoves
<1>14. CASE LockOpen(g)
    <2> USE <1>14 DEF LockOpen, process, ghosts
    <2>1. LifecycleTyped'
        BY <1>3 DEF LifecycleTyped, Statements, HoldsMutex
    <2>2. MutexHeld' /\ panicked' = panicked
        BY <1>3 DEF MutexHeld, LifecycleTyped, HoldsMutex
    <2>3. \A h \in Goroutine \ {g} : pc'[h] = "idle" /\ ~shutting'[h]
        BY <1>2
    <2>4. pc'[g] = "idle" => Settled' /\ ~shutting'[g]
        OBVIOUS
    <2>5. pc'[g] # "idle" => Opening(g)'
        BY DEF Opening
    <2>6. pc'[g] # "idle" => Ending(g)'
        BY <1>3 DEF LifecycleTyped, Ending, Settled, OnlyOpen, NoneOpen, HoldsMutex
    <2> QED BY <1>2, <2>1, <2>2, <2>3, <2>4, <2>5, <2>6, OneMoves
<1>15. CASE ReleaseSingleton(g)
    <2> USE <1>15 DEF ReleaseSingleton, engines, ghosts
    <2>1. LifecycleTyped'
        BY <1>3 DEF LifecycleTyped, Statements, HoldsMutex
    <2>2. MutexHeld' /\ panicked' = panicked
        BY <1>3 DEF MutexHeld, HoldsMutex
    <2>3. \A h \in Goroutine \ {g} : pc'[h] = "idle" /\ ~shutting'[h]
        BY <1>2
    <2>4. pc'[g] = "idle" => Settled' /\ ~shutting'[g]
        OBVIOUS
    <2>5. pc'[g] # "idle" => Opening(g)'
        BY DEF Opening
    <2>6. pc'[g] # "idle" => Ending(g)'
        BY <1>3 DEF LifecycleTyped, Ending, OnlyOpen, HoldsMutex
    <2> QED BY <1>2, <2>1, <2>2, <2>3, <2>4, <2>5, <2>6, OneMoves
<1>16. CASE NotProperlyOpened(g)
    BY <1>3, <1>16 DEF NotProperlyOpened, Ending, OnlyOpen
<1>17. CASE MarkClosed(g)
    <2> USE <1>17 DEF MarkClosed, process, ghosts
    <2>1. LifecycleTyped'
        BY <1>3 DEF LifecycleTyped, Statements, HoldsMutex
    <2>2. MutexHeld' /\ panicked' = panicked
        BY <1>3 DEF MutexHeld, HoldsMutex
    <2>3. \A h \in Goroutine \ {g} : pc'[h] = "idle" /\ ~shutting'[h]
        BY <1>2
    <2>4. pc'[g] = "idle" => Settled' /\ ~shutting'[g]
        OBVIOUS
    <2>5. pc'[g] # "idle" => Opening(g)'
        BY DEF Opening
    <2>6. pc'[g] # "idle" => Ending(g)'
        BY <1>3 DEF LifecycleTyped, Ending, NoneOpen, HoldsMutex
    <2> QED BY <1>2, <2>1, <2>2, <2>3, <2>4, <2>5, <2>6, OneMoves
<1>18. CASE DisableHooks(g)
    <2> USE <1>18 DEF DisableHooks, engines, ghosts
    <2>1. LifecycleTyped'
        BY <1>3 DEF LifecycleTyped, Statements, HoldsMutex
    <2>2. MutexHeld' /\ panicked' = panicked
        BY <1>3 DEF MutexHeld, HoldsMutex
    <2>3. \A h \in Goroutine \ {g} : pc'[h] = "idle" /\ ~shutting'[h]
        BY <1>2
    <2>4. pc'[g] = "idle" => Settled' /\ ~shutting'[g]
        OBVIOUS
    <2>5. pc'[g] # "idle" => Opening(g)'
        BY DEF Opening
    <2>6. pc'[g] # "idle" => Ending(g)'
        BY <1>3 DEF Ending, NoneOpen, HoldsMutex
    <2> QED BY <1>2, <2>1, <2>2, <2>3, <2>4, <2>5, <2>6, OneMoves
<1>19. CASE Dispose(g)
    <2> USE <1>19 DEF Dispose, Return, ghosts
    <2>1. LifecycleTyped'
        BY <1>3 DEF LifecycleTyped, Statements
    <2>2. MutexHeld' /\ panicked' = panicked
        BY <1>3 DEF MutexHeld, LifecycleTyped
    <2>3. \A h \in Goroutine \ {g} : pc'[h] = "idle" /\ ~shutting'[h]
        BY <1>2
    <2>4. pc'[g] = "idle" => Settled' /\ ~shutting'[g]
        BY <1>3 DEF Ending, Settled, NoneOpen
    <2>5. pc'[g] # "idle" => Opening(g)'
        BY DEF Opening
    <2>6. pc'[g] # "idle" => Ending(g)'
        BY <1>3 DEF LifecycleTyped, Ending, NoneOpen, HoldsMutex
    <2> QED BY <1>2, <2>1, <2>2, <2>3, <2>4, <2>5, <2>6, OneMoves
<1>20. CASE ClearActive(g)
    <2> USE <1>20 DEF ClearActive, engines, ghosts
    <2>1. LifecycleTyped'
        BY <1>3 DEF LifecycleTyped, Statements
    <2>2. MutexHeld' /\ panicked' = panicked
        BY <1>3 DEF MutexHeld, HoldsMutex
    <2>3. \A h \in Goroutine \ {g} : pc'[h] = "idle" /\ ~shutting'[h]
        BY <1>2
    <2>4. pc'[g] = "idle" => Settled' /\ ~shutting'[g]
        OBVIOUS
    <2>5. pc'[g] # "idle" => Opening(g)'
        BY DEF Opening
    <2>6. pc'[g] # "idle" => Ending(g)'
        BY <1>3 DEF Ending, NoneOpen, HoldsMutex
    <2> QED BY <1>2, <2>1, <2>2, <2>3, <2>4, <2>5, <2>6, OneMoves
<1>21. CASE ClearFlag(g)
    <2> USE <1>21 DEF ClearFlag, engines, ghosts
    <2>1. LifecycleTyped'
        BY <1>3 DEF LifecycleTyped, Statements
    <2>2. MutexHeld' /\ panicked' = panicked
        BY <1>3 DEF MutexHeld, HoldsMutex
    <2>3. \A h \in Goroutine \ {g} : pc'[h] = "idle" /\ ~shutting'[h]
        BY <1>2
    <2>4. pc'[g] = "idle" => Settled' /\ ~shutting'[g]
        BY <1>3 DEF LifecycleTyped, Ending, Settled, NoneOpen
    <2>5. pc'[g] # "idle" => Opening(g)'
        BY DEF Opening
    <2>6. pc'[g] # "idle" => Ending(g)'
        BY <1>3 DEF Ending, NoneOpen
    <2> QED BY <1>2, <2>1, <2>2, <2>3, <2>4, <2>5, <2>6, OneMoves
<1>22. CASE LockMap(g)
    <2> USE <1>22 DEF LockMap, Return, engines
    <2>1. LifecycleTyped'
        BY <1>3 DEF LifecycleTyped, Statements
    <2>2. MutexHeld' /\ panicked' = panicked
        BY <1>2 DEF MutexHeld, HoldsMutex
    <2>3. \A h \in Goroutine \ {g} : pc'[h] = "idle" /\ ~shutting'[h]
        BY <1>2, <1>3 DEF LifecycleTyped
    <2>4. Settled'
        BY <1>3 DEF Opening, Settled, OnlyOpen, NoneOpen
    <2>5. ~shutting'[g]
        BY <1>3 DEF Ending, HoldsMutex
    <2>6. pc'[g] \in {"idle", "admit"}
        BY <1>3 DEF LifecycleTyped, Ending, HoldsMutex
    <2>7. pc'[g] # "idle" => Opening(g)' /\ Ending(g)'
        BY <2>4, <2>5, <2>6 DEF Opening, Ending, HoldsMutex
    <2> QED BY <1>2, <2>1, <2>2, <2>3, <2>4, <2>5, <2>7, OneMoves
<1> QED BY <1>5, <1>6, <1>7, <1>8, <1>9, <1>10, <1>11, <1>12, <1>13, <1>14, <1>15, <1>16, <1>17,
       <1>18, <1>19, <1>20, <1>21, <1>22 DEF Statement

(* A call no other one is in progress for.                                   *)
LEMMA CallKeeps ==
    ASSUME NEW g \in Goroutine, LifecycleInv, Call(g), ~overlapped'
    PROVE  Apart'
<1> USE DEF Goto
<1>1. Apart /\ \A h \in Goroutine : pc[h] = "idle"
    BY DEF Call, LifecycleInv
<1>2. LifecycleTyped /\ MutexHeld /\ Settled /\ \A h \in Goroutine : ~shutting[h]
    BY <1>1 DEF Apart
<1>3. \A e \in Engine : mutex[e] = NoOne
    BY <1>1, <1>2 DEF MutexHeld, LifecycleTyped, HoldsMutex
<1>4. MaxEngines \in Nat /\ NoOne \notin Goroutine
    BY LifecycleConstants
<1>5. ASSUME NEW s \in {"lock", "admit"}, Goto(g, s),
             UNCHANGED <<process, engines, eng, shutting, ghosts>>
      PROVE  Apart'
    <2> USE <1>5 DEF process, engines, ghosts
    <2>1. LifecycleTyped'
        BY <1>2 DEF LifecycleTyped, Statements
    <2>2. MutexHeld'
        BY <1>3 DEF MutexHeld
    <2>3. Settled' /\ pc'[g] = s /\ ~shutting'[g]
        BY <1>2 DEF LifecycleTyped, Settled, NoneOpen, OnlyOpen
    <2>4. Opening(g)' /\ Ending(g)'
        BY <2>3 DEF Opening, Ending, HoldsMutex
    <2>5. \A h \in Goroutine \ {g} : pc[h] = "idle" /\ pc'[h] = "idle" /\ ~shutting'[h]
        BY <1>1, <1>2 DEF LifecycleTyped
    <2> QED BY <1>1, <2>1, <2>2, <2>3, <2>4, <2>5, OneMoves
<1>7. CASE CallNewEngine(g)
    BY <1>5, <1>7 DEF CallNewEngine
<1>8. CASE \E k \in Key : CallNewClient(g, k)
    BY <1>5, <1>8 DEF CallNewClient
<1>9. CASE CallClose(g)
    <2> USE <1>9 DEF CallClose, process, engines, ghosts
    <2>1. PICK e \in handles : eng' = [eng EXCEPT ![g] = e]
        OBVIOUS
    <2>2. LifecycleTyped'
        BY <1>2, <1>4, <2>1 DEF LifecycleTyped, Statements
    <2>3. MutexHeld'
        BY <1>3 DEF MutexHeld
    <2>4. Settled' /\ eng'[g] \in handles' /\ pc'[g] = "close" /\ ~shutting'[g]
        BY <1>2, <2>1 DEF LifecycleTyped, Settled, NoneOpen, OnlyOpen
    <2>5. Opening(g)' /\ Ending(g)'
        BY <2>4 DEF Opening, Ending, HoldsMutex
    <2>6. \A h \in Goroutine \ {g} : pc[h] = "idle" /\ pc'[h] = "idle" /\ ~shutting'[h]
        BY <1>1, <1>2 DEF LifecycleTyped
    <2> QED BY <1>1, <2>2, <2>3, <2>4, <2>5, <2>6, OneMoves
<1>10. CASE CallShutdown(g)
    <2> USE <1>10 DEF CallShutdown, process, engines, ghosts
    <2>1. LifecycleTyped'
        BY <1>2, <1>4 DEF LifecycleTyped, Statements, None
    <2>2. MutexHeld'
        BY <1>3 DEF MutexHeld
    <2>3. Settled' /\ shutting'[g]
        BY <1>2 DEF LifecycleTyped, Settled, NoneOpen, OnlyOpen
    <2>4. \A h \in Goroutine \ {g} : pc[h] = "idle" /\ pc'[h] = "idle" /\ ~shutting'[h]
        BY <1>1, <1>2 DEF LifecycleTyped
    <2>5. CASE activeEngine # None
        <3>1. pc'[g] = "close" /\ eng'[g] = activeEngine' /\ eng'[g] \in handles'
            BY <1>2, <2>5 DEF LifecycleTyped
        <3>2. Opening(g)' /\ Ending(g)'
            BY <2>3, <3>1 DEF Opening, Ending, HoldsMutex
        <3> QED BY <1>1, <2>1, <2>2, <2>3, <2>4, <3>1, <3>2, OneMoves
    <2>6. CASE activeEngine = None
        <3>1. pc'[g] = "clearFlag" /\ NoneOpen'
            BY <1>2, <2>6 DEF LifecycleTyped, Settled, NoneOpen, OnlyOpen, None
        <3>2. Opening(g)' /\ Ending(g)'
            BY <2>3, <3>1 DEF Opening, Ending, HoldsMutex
        <3> QED BY <1>1, <2>1, <2>2, <2>3, <2>4, <3>1, <3>2, OneMoves
    <2> QED BY <2>5, <2>6
<1> QED BY <1>7, <1>8, <1>9, <1>10 DEF Call

LEMMA LifecycleStep == LifecycleInv /\ [Next]_vars => LifecycleInv'
<1> SUFFICES ASSUME LifecycleInv, [Next]_vars PROVE LifecycleInv'
    OBVIOUS
<1>1. ASSUME NEW g \in Goroutine, Call(g) PROVE LifecycleInv'
    <2>1. overlapped' \in BOOLEAN
        BY <1>1 DEF Call, LifecycleInv
    <2> QED BY <1>1, <2>1, CallKeeps DEF LifecycleInv
<1>2. ASSUME NEW g \in Goroutine, Step(g) PROVE LifecycleInv'
    BY <1>2, StatementKeeps DEF Step, LifecycleInv
<1>3. CASE UNCHANGED vars
    BY <1>3 DEF vars, LifecycleInv, Apart, LifecycleTyped, MutexHeld, Settled, NoneOpen,
       OnlyOpen, Opening, Ending
<1> QED BY <1>1, <1>2, <1>3 DEF Next

LEMMA LifecycleOneAtATime == LifecycleInv => OneAtATime
<1> SUFFICES ASSUME LifecycleInv, ~overlapped PROVE OneAtATime
    BY DEF OneAtATime
<1>1. Apart
    BY DEF LifecycleInv
<1>2. \A e \in handles : e \in Engine
    BY <1>1, LifecycleConstants DEF Apart, LifecycleTyped, Engine
<1>3. \/ NoneOpen
      \/ \E e \in Engine : OnlyOpen(e)
      \/ \E g \in Goroutine : /\ pc[g] = "markClosed" /\ mutex[eng[g]] = g
                            /\ \A d \in handles : isOpen[d] => d = eng[g]
    <2>1. CASE \A g \in Goroutine : pc[g] = "idle"
        BY <1>1, <2>1 DEF Apart, Settled
    <2>2. CASE \E g \in Goroutine : pc[g] # "idle"
        <3>1. PICK g \in Goroutine : pc[g] # "idle"
            BY <2>2
        <3>2. Opening(g) /\ Ending(g) /\ pc[g] \in Statements
            BY <1>1, <3>1 DEF Apart, LifecycleTyped
        <3>3. CASE pc[g] = "markClosed"
            BY <3>2, <3>3 DEF Ending, HoldsMutex
        <3>4. CASE pc[g] \in {"namespace", "release"}
            BY <1>2, <3>2, <3>4 DEF Opening, Ending, OnlyOpen
        <3>5. CASE pc[g] \notin {"markClosed", "namespace", "release"}
            BY <3>1, <3>2, <3>5 DEF Opening, Ending, Settled, Statements, HoldsMutex
        <3> QED BY <3>3, <3>4, <3>5
    <2> QED BY <2>1, <2>2
<1>4. OneInstance
    <2>1. {e \in handles : isOpen[e]} = {}
              \/ \E e \in Engine : {d \in handles : isOpen[d]} = {e}
        BY <1>2, <1>3 DEF NoneOpen, OnlyOpen
    <2>2. Cardinality({e \in handles : isOpen[e]}) \in {0, 1}
        BY <2>1, FS_EmptySet, FS_Singleton
    <2> QED BY <2>2 DEF OneInstance
<1>5. OpenEngineServes
    BY <1>3, LifecycleConstants DEF OpenEngineServes, NoneOpen, OnlyOpen
<1>6. ~panicked
    BY <1>1 DEF Apart
<1> QED BY <1>4, <1>5, <1>6 DEF OneAtATime

(* OneAtATime: as long as the calls of NewEngine, NewClient, Close and       *)
(* Shutdown follow one another, one engine is open at most, the store and    *)
(* the hooks are its own, and Close never panics, whichever step fails.      *)
THEOREM CallsApartOneEngine == Spec => []OneAtATime
<1>1. Init => LifecycleInv
    BY LifecycleInitially
<1>2. LifecycleInv /\ [Next]_vars => LifecycleInv'
    BY LifecycleStep
<1>3. LifecycleInv => OneAtATime
    BY LifecycleOneAtATime
<1> QED BY <1>1, <1>2, <1>3, PTL DEF Spec

=============================================================================
