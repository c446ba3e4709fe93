---------------------------- MODULE MCLiveLoader ----------------------------
(* Small instances of LiveLoader: files that share blank nodes, more nquads  *)
(* than the channels and the buffer hold, more files than slots.             *)
EXTENDS LiveLoader

CONSTANTS x, y

(* The first file fills the buffer once and leaves a rest for its end. *)
SubjectsOfFiles == [f \in File |-> CASE f = 1 -> <<x, y, x>> [] f = 2 -> <<y>> [] OTHER -> <<x>>]
=============================================================================
