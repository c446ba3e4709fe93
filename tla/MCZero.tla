------------------------------- MODULE MCZero -------------------------------
(* Small instances of Zero: leases of one or two identifiers, renewed within *)
(* a few calls.  The lease more than doubles per open: from 1 to 3, 7 and    *)
(* 15, so in a word of 16 values three processes of a store hand out, or two *)
(* of which one renews, before the next open leaves the word.                *)
EXTENDS Zero
=============================================================================
