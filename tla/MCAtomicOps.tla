---------------------------- MODULE MCAtomicOps ----------------------------
(* Small instances of AtomicOps: two callers of each operation, one key to   *)
(* consume and one to ensure, records inserted meanwhile.                    *)
EXTENDS AtomicOps
=============================================================================
