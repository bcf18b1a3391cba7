------------------------------ MODULE MCOutbox ------------------------------
(* Outbox on a small instance: one draft, the scheduler thread and one     *)
(* "Send now" thread.                                                      *)
EXTENDS Outbox

CONSTANTS m1, a1, scheduler, sendNow

OneAccount == [m \in Message |-> a1]
=============================================================================
