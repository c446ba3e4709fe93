------------------------------ MODULE MCEngine ------------------------------
(* A small instance of Engine: two namespaces, two values, two UIDs,       *)
(* batches of two edges and one upsert in progress among other calls.        *)
EXTENDS Engine
=============================================================================
