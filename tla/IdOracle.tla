------------------------------ MODULE IdOracle ------------------------------
(* What a caller of zero.go is promised about one kind of identifier: blocks *)
(* of identifiers are handed out in increasing order and never twice, until  *)
(* the data they name is dropped.  trusted is FALSE once something has       *)
(* happened after which the promise is not made (see Zero: a lost lease, a   *)
(* counter that left its machine word).                                      *)
EXTENDS Integers

CONSTANT First      \* the smallest identifier of this kind

VARIABLES
    grant,          \* the block handed out last, lo to hi; again is set on a
                    \* block that is not above the one before it
    trusted

vars == <<grant, trusted>>

Nothing == [lo |-> First - 1, hi |-> First - 1, again |-> FALSE]

Init == grant = Nothing /\ trusted = TRUE

Hand == /\ trusted
        /\ grant'.lo > grant.hi
        /\ grant'.hi >= grant'.lo
        /\ ~grant'.again
        /\ UNCHANGED trusted

Forget == grant' = Nothing /\ trusted' \in BOOLEAN

LoseTrust == trusted' = FALSE

Next == Hand \/ Forget \/ LoseTrust

Spec == Init /\ [][Next]_vars
=============================================================================
