---------------------------- MODULE MCMemorySync ----------------------------
(* Two devices; each sync is named for the device it runs on.              *)
EXTENDS MemorySync

CONSTANTS laptop, desktop, n1

OwnDevice == [s \in {laptop, desktop} |-> s]
Texts     == {1}
=============================================================================
