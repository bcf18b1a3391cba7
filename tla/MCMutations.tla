---------------------------- MODULE MCMutations ----------------------------
(* Mutations on a small instance: two messages, two folders, one flusher.  *)
EXTENDS Mutations, TLC

CONSTANTS m1, m2, inbox, archive, p1

(* Every message has a Message-ID of its own, or none has one.             *)
OwnIds == [m \in Mail |-> m]
NoIds  == [m \in Mail |-> None]

Symmetry == Permutations(Mail)
=============================================================================
