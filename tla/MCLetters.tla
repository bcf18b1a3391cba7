------------------------------ MODULE MCLetters ------------------------------
(* Letters on a small instance: a document posted up to twice, and a sync. *)
EXTENDS Letters

CONSTANT s1
=============================================================================
