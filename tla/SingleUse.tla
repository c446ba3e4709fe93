------------------------------ MODULE SingleUse ------------------------------
(* What GetAndDelete promises (client.go): a record that is put is taken at  *)
(* most once and never comes back, by a caller that gets it in one step, and *)
(* a caller that gets nothing found nothing.                                 *)
CONSTANTS Caller, Record

VARIABLES
    live,      \* the records that can be taken
    answered,  \* the callers that have their answer
    got        \* what each of them got: one record or none

vars == <<live, answered, got>>

Init ==
    /\ live = {}
    /\ answered = {}
    /\ got = [c \in Caller |-> {}]

Put(r) ==
    /\ r \notin live
    /\ \A c \in Caller : r \notin got[c]
    /\ live' = live \cup {r}
    /\ UNCHANGED <<answered, got>>

Answer(c, records) ==
    /\ c \notin answered
    /\ answered' = answered \cup {c}
    /\ got' = [got EXCEPT ![c] = records]
    /\ live' = live \ records

Take(c, r) == r \in live /\ Answer(c, {r})

Miss(c) == live = {} /\ Answer(c, {})

Next ==
    \/ \E r \in Record : Put(r)
    \/ \E c \in Caller : Miss(c) \/ \E r \in Record : Take(c, r)

Spec == Init /\ [][Next]_vars
=============================================================================
