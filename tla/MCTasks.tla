------------------------------ MODULE MCTasks ------------------------------
(* One task, of either kind, and two runs at once; the model has no answer *)
(* to the newest message.                                                  *)
EXTENDS Tasks

CONSTANTS t1, r1, r2

NoAnswerTo == {MaxMail}
=============================================================================
