---------------------------- MODULE OutboxPromise ----------------------------
(***************************************************************************)
(* What the outbox promises of each message, with no table, thread or      *)
(* server in sight: a person's approval may be used for one transmission,  *)
(* or come to nothing, and nothing but a person gives another.             *)
(***************************************************************************)
EXTENDS Integers

CONSTANT Message

VARIABLES
  permits,      (* messages with an approval not yet used                *)
  approvals,    (* approvals given                                       *)
  transmitted   (* times the message was handed to the mail server       *)

promise == <<permits, approvals, transmitted>>

Init ==
  /\ permits = {}
  /\ approvals = [m \in Message |-> 0]
  /\ transmitted = [m \in Message |-> 0]

Approve(m) ==
  /\ m \notin permits
  /\ permits' = permits \cup {m}
  /\ approvals' = [approvals EXCEPT ![m] = @ + 1]
  /\ UNCHANGED transmitted

Transmit(m) ==
  /\ m \in permits
  /\ permits' = permits \ {m}
  /\ transmitted' = [transmitted EXCEPT ![m] = @ + 1]
  /\ UNCHANGED approvals

(* Cancelled, refused, its account removed, or the window closed on it.    *)
Lapse(S) ==
  /\ permits' = permits \ S
  /\ UNCHANGED <<approvals, transmitted>>

Next ==
  \/ \E m \in Message : Approve(m) \/ Transmit(m)
  \/ \E S \in SUBSET Message : Lapse(S)

Spec == Init /\ [][Next]_promise
=============================================================================
