------------------------------ MODULE MCClient ------------------------------
(* Small instances of Client: goroutines of one client around a pool of one. *)
EXTENDS Client

MCConnection == 1 .. 4
=============================================================================
