------------------------------- MODULE Tasks -------------------------------
(***************************************************************************)
(* Standing tasks: what core-rpc does to each message that arrives, by     *)
(* rules alone or by asking a model about it.                              *)
(*                                                                         *)
(* A run of the tasks is a thread of its own with a connection of its own: *)
(* one at the end of each sync, and one the window starts after the sync   *)
(* of any account and at a button, without waiting for the one before.     *)
(* What a task has dealt with is in task_seen, which a run reads before    *)
(* it acts and writes after.                                               *)
(*                                                                         *)
(* Every message here is one every task's rules select; a message is its   *)
(* place in the order of arrival.  To deal with one is to queue a change,  *)
(* to leave a proposal, to be refused by the store's rules or told by the  *)
(* model to leave it: all of these count the same here, and what a person  *)
(* makes of them does not.  A smart mailbox's own task looks only at the   *)
(* Inbox, and is otherwise a task as any other.  A sync's run, and sorting *)
(* new mail into a smart mailbox, run tasks without a model.               *)
(***************************************************************************)
EXTENDS Integers, FiniteSets

CONSTANTS
  Task,
  Run,          (* threads that run tasks                                  *)
  None,
  Window,       (* RULE_TASK_WINDOW: how many of the newest a run looks at *)
  Batch,        (* MODEL_TASK_BATCH: how many a run asks about             *)
  Patience,     (* failures of the model in a row that end a run           *)
  Unanswerable, (* messages the model has no usable answer to, ever        *)
  MaxMail,      (* bound: messages                                         *)
  MaxSwitches,  (* bound: how often a person switches a task off or on     *)
  MaxFaults     (* bound: runs that stop, answers that do not come         *)

Mail == 1..MaxMail

ASSUME NoneAssumption  == None \notin Nat
ASSUME RunAssumption   == IsFiniteSet(Run)
ASSUME LimitAssumption == {Window, Batch, Patience} \subseteq Nat \ {0}
ASSUME BoundAssumption == {MaxMail, MaxSwitches, MaxFaults} \subseteq Nat

VARIABLES
  arrived,      (* messages 1..arrived are there                           *)
  (* The task table, and task_seen.                                        *)
  since,        (* messages there when the task was saved; None before     *)
  asks,         (* its action asks a model: reply, or decide               *)
  enabled,
  seen,
  later,        (* saved "from now on only"                                *)
  marking,      (* of those, whose earlier mail is yet to be marked        *)
  (* Each run.                                                             *)
  pc,
  plan,         (* the tasks it read and has yet to run                    *)
  todo,         (* messages it read as not dealt with, a task for each     *)
  dealing,      (* those it marks as seen next                             *)
  failures,     (* of the model, in a row                                  *)
  (* Bounds and history.                                                   *)
  dealt,        (* how often a task dealt with a message                   *)
  early,        (* of later, those a run may take up before it is marked   *)
  switches, faults

tables == <<since, asks, enabled, seen, later, marking>>
run    == <<pc, plan, todo, dealing, failures>>
vars   == <<arrived, tables, run, dealt, early, switches, faults>>

Job == Task \X Mail

TypeOK ==
  /\ arrived \in 0..MaxMail
  /\ since \in [Task -> {None} \cup 0..MaxMail]
  /\ asks \in [Task -> BOOLEAN] /\ enabled \in [Task -> BOOLEAN]
  /\ seen \subseteq Job /\ marking \subseteq later /\ later \subseteq Task
  /\ pc \in [Run -> {"idle", "rules", "act", "ask", "mark"}]
  /\ plan \in [Run -> SUBSET Task]
  /\ todo \in [Run -> SUBSET Job] /\ dealing \in [Run -> SUBSET Job]
  /\ failures \in [Run -> 0..(Patience - 1)]
  /\ dealt \in [Job -> Nat]
  /\ early \subseteq later
  /\ switches \in 0..MaxSwitches /\ faults \in 0..MaxFaults

Init ==
  /\ arrived = 0
  /\ since = [t \in Task |-> None]
  /\ asks = [t \in Task |-> FALSE] /\ enabled = [t \in Task |-> FALSE]
  /\ seen = {} /\ later = {} /\ marking = {}
  /\ pc = [r \in Run |-> "idle"]
  /\ plan = [r \in Run |-> {}]
  /\ todo = [r \in Run |-> {}] /\ dealing = [r \in Run |-> {}]
  /\ failures = [r \in Run |-> 0]
  /\ dealt = [j \in Job |-> 0]
  /\ early = {}
  /\ switches = 0 /\ faults = 0

Arrive ==
  /\ arrived < MaxMail /\ arrived' = arrived + 1
  /\ UNCHANGED <<tables, run, dealt, early, switches, faults>>

-----------------------------------------------------------------------------
(* Saving a task.                                                          *)

(* save_task, of a new task: for the mail already there as well, or from   *)
(* now on only; then what is there is marked, once the task is saved.      *)
Save(t) ==
  /\ since[t] = None /\ since' = [since EXCEPT ![t] = arrived]
  /\ \E model \in BOOLEAN : asks' = [asks EXCEPT ![t] = model]
  /\ enabled' = [enabled EXCEPT ![t] = TRUE]
  /\ \/ later' = later \cup {t} /\ marking' = marking \cup {t}
     \/ UNCHANGED <<later, marking>>
  /\ UNCHANGED <<arrived, seen, run, dealt, early, switches, faults>>

(* Mutant: the newest message is left out.                                 *)
AllButNewest == 1..(arrived - 1)

Existing == 1..arrived

MarkExisting(t) ==
  /\ t \in marking /\ marking' = marking \ {t}
  /\ seen' = seen \cup ({t} \X Existing)
  /\ UNCHANGED <<arrived, since, asks, enabled, later, run, dealt, early, switches, faults>>

(* The program closes in between, or the store refuses: the task stays.    *)
LeftUnmarked(t) ==
  /\ t \in marking /\ marking' = marking \ {t}
  /\ faults < MaxFaults /\ faults' = faults + 1
  /\ early' = early \cup {t}
  /\ UNCHANGED <<arrived, since, asks, enabled, seen, later, run, dealt, switches>>

(* set_task_enabled.                                                       *)
Switch(t) ==
  /\ since[t] # None
  /\ switches < MaxSwitches /\ switches' = switches + 1
  /\ enabled' = [enabled EXCEPT ![t] = ~@]
  /\ UNCHANGED <<arrived, since, asks, seen, later, marking, run, dealt, early, faults>>

-----------------------------------------------------------------------------
(* A run, in thread r.                                                     *)

GoTo(r, step) == pc' = [pc EXCEPT ![r] = step]

Leave(r) ==
  /\ GoTo(r, "idle")
  /\ plan' = [plan EXCEPT ![r] = {}]
  /\ todo' = [todo EXCEPT ![r] = {}] /\ dealing' = [dealing EXCEPT ![r] = {}]
  /\ failures' = [failures EXCEPT ![r] = 0]

Newest(mails, n) == {m \in mails : Cardinality({k \in mails : k > m}) < n}

SeenBy(t) == {m \in Mail : <<t, m>> \in seen}

(* Mutant: what has been dealt with is looked at again.                    *)
Everything(t) == Newest(1..arrived, Window)

(* matching, newest first, without what has been dealt with.               *)
Unseen(t) == Newest(1..arrived, Window) \ SeenBy(t)

(* run_rule_tasks: which tasks there are is read once,                     *)
Start(r) ==
  /\ pc[r] = "idle"
  /\ plan' = [plan EXCEPT ![r] = {t \in Task : enabled[t] /\ ~asks[t]}]
  /\ GoTo(r, "rules")
  /\ UNCHANGED <<arrived, tables, todo, dealing, failures, dealt, early, switches, faults>>

(* and what each has dealt with, when its turn comes.                      *)
ReadUnseen(r) ==
  /\ pc[r] = "rules"
  /\ \E t \in plan[r] :
       /\ plan' = [plan EXCEPT ![r] = @ \ {t}]
       /\ todo' = [todo EXCEPT ![r] = {t} \X Unseen(t)]
       /\ dealing' = [dealing EXCEPT ![r] = {t} \X Unseen(t)]
       /\ early' = early \cup ({t} \cap marking)
  /\ GoTo(r, "act")
  /\ UNCHANGED <<arrived, tables, failures, dealt, switches, faults>>

(* A task's messages from the newest to the oldest.                        *)
Foremost(jobs) == {j \in jobs : \A k \in jobs : k[1] = j[1] => k[2] <= j[2]}

Deals(j) == dealt' = [dealt EXCEPT ![j] = @ + 1]

ActByRule(r) ==
  /\ pc[r] = "act"
  /\ \E j \in Foremost(todo[r]) :
       /\ todo' = [todo EXCEPT ![r] = @ \ {j}]
       /\ Deals(j)
  /\ UNCHANGED <<arrived, tables, pc, plan, dealing, failures, early, switches, faults>>

(* Mutant: the last message of a run is left out.                          *)
AllButLast(r) == dealing[r] \ Foremost(dealing[r])

Marked(r) == dealing[r]

(* mark_task_seen, of all the task was about, refused or not.              *)
MarkRule(r) ==
  /\ pc[r] = "act" /\ todo[r] = {}
  /\ seen' = seen \cup Marked(r)
  /\ dealing' = [dealing EXCEPT ![r] = {}]
  /\ GoTo(r, "rules")
  /\ UNCHANGED <<arrived, since, asks, enabled, later, marking, plan, todo, failures, dealt, early, switches, faults>>

(* The run in a sync, and that of a window without a model, end here;      *)
EndsWithRules(r) ==
  /\ pc[r] = "rules" /\ plan[r] = {}
  /\ Leave(r)
  /\ UNCHANGED <<arrived, tables, dealt, early, switches, faults>>

BatchOf(t) == Newest(Unseen(t), Batch)

(* model_task_jobs: all of them are read before the first is asked about.  *)
ReadJobs(r) ==
  /\ pc[r] = "rules" /\ plan[r] = {}
  /\ LET mine == {t \in Task : enabled[t] /\ asks[t]}
     IN  /\ todo' = [todo EXCEPT ![r] = UNION {{t} \X BatchOf(t) : t \in mine}]
         /\ early' = early \cup (mine \cap marking)
  /\ GoTo(r, "ask")
  /\ UNCHANGED <<arrived, tables, plan, dealing, failures, dealt, switches, faults>>

(* The model answers, and record_model_outcome up to the mark.             *)
Answer(r) ==
  /\ pc[r] = "ask"
  /\ \E j \in Foremost(todo[r]) :
       /\ j[2] \notin Unanswerable
       /\ Deals(j)
       /\ todo' = [todo EXCEPT ![r] = @ \ {j}]
       /\ dealing' = [dealing EXCEPT ![r] = {j}]
  /\ failures' = [failures EXCEPT ![r] = 0]
  /\ GoTo(r, "mark")
  /\ UNCHANGED <<arrived, tables, plan, early, switches, faults>>

MarkAnswered(r) ==
  /\ pc[r] = "mark"
  /\ seen' = seen \cup Marked(r)
  /\ dealing' = [dealing EXCEPT ![r] = {}]
  /\ GoTo(r, "ask")
  /\ UNCHANGED <<arrived, since, asks, enabled, later, marking, plan, todo, failures, dealt, early, switches, faults>>

(* Mutant: the first failure ends the run.                                 *)
AtOnce(n) == n > 0

GivesUp(n) == n >= Patience

(* The model fails on a message, which stays as it was; the third failure  *)
(* in a row ends the run.                                                  *)
ModelFails(r) ==
  /\ pc[r] = "ask"
  /\ \E j \in Foremost(todo[r]) :
       /\ \/ j[2] \in Unanswerable /\ UNCHANGED faults
          \/ j[2] \notin Unanswerable /\ faults < MaxFaults /\ faults' = faults + 1
       /\ IF GivesUp(failures[r] + 1)
          THEN Leave(r)
          ELSE /\ failures' = [failures EXCEPT ![r] = @ + 1]
               /\ todo' = [todo EXCEPT ![r] = @ \ {j}]
               /\ UNCHANGED <<pc, plan, dealing>>
  /\ UNCHANGED <<arrived, tables, dealt, early, switches>>

(* An answer that is no use - no such action, no reply, no such folder -   *)
(* or that the store refuses, before or after it is acted on, leaves the   *)
(* message as it was too, and is no failure of the model.                  *)
Unrecorded(r) ==
  /\ \/ /\ pc[r] = "ask"
        /\ \E j \in Foremost(todo[r]) :
             /\ \/ j[2] \in Unanswerable /\ UNCHANGED faults
                \/ j[2] \notin Unanswerable /\ faults < MaxFaults /\ faults' = faults + 1
             /\ todo' = [todo EXCEPT ![r] = @ \ {j}]
        /\ UNCHANGED dealing
     \/ /\ pc[r] = "mark"
        /\ faults < MaxFaults /\ faults' = faults + 1
        /\ dealing' = [dealing EXCEPT ![r] = {}]
        /\ UNCHANGED todo
  /\ failures' = [failures EXCEPT ![r] = 0]
  /\ GoTo(r, "ask")
  /\ UNCHANGED <<arrived, tables, plan, dealt, early, switches>>

EndsWithJobs(r) ==
  /\ pc[r] = "ask" /\ todo[r] = {}
  /\ Leave(r)
  /\ UNCHANGED <<arrived, tables, dealt, early, switches, faults>>

(* The program closes, or the store refuses.                               *)
Stops(r) ==
  /\ pc[r] # "idle"
  /\ faults < MaxFaults /\ faults' = faults + 1
  /\ Leave(r)
  /\ UNCHANGED <<arrived, tables, dealt, early, switches>>

-----------------------------------------------------------------------------

Steps(r) ==
  \/ Start(r) \/ ReadUnseen(r) \/ ActByRule(r) \/ MarkRule(r)
  \/ ReadJobs(r) \/ Answer(r) \/ MarkAnswered(r) \/ ModelFails(r) \/ Unrecorded(r) \/ EndsWithJobs(r)

Next ==
  \/ Arrive
  \/ \E t \in Task : Save(t) \/ MarkExisting(t) \/ LeftUnmarked(t) \/ Switch(t)
  \/ \E r \in Run : Steps(r) \/ EndsWithRules(r) \/ Stops(r)

Spec == Init /\ [][Next]_vars

(* A window syncs every five minutes, and runs the tasks with a model when *)
(* there is one (not every run ends with its rules); a step of a run ends. *)
FairSpec ==
  /\ Spec
  /\ \A r \in Run : WF_vars(Steps(r)) /\ SF_vars(ReadJobs(r))
  /\ \A t \in Task : WF_vars(MarkExisting(t) \/ LeftUnmarked(t))

-----------------------------------------------------------------------------
(* Properties.                                                             *)

(* "A task deals with each message once."  It does not, once two runs have *)
(* read the same messages: neither heeds what the other marks after that.  *)
DealsOnce == faults = 0 => \A j \in Job : dealt[j] <= 1

(* But each of the runs deals with it once at most, and one that broke off *)
(* between the deed and the mark allows one more.                          *)
OncePerRun == \A j \in Job : dealt[j] <= Cardinality(Run) + faults

(* Mail a task has dealt with, and no run still has in hand from before,   *)
(* no run takes in hand again: not after a person undoes what it did, nor  *)
(* when the task is switched off and on, nor after a run broke off.        *)
InHand(r, j) == j \in todo[r] \cup dealing[r]

SeenIsFinal ==
  [][\A j \in seen :
       (\A r \in Run : ~InHand(r, j)) =>
         j \in seen' /\ dealt'[j] = dealt[j] /\ \A r \in Run : ~InHand(r, j)']_vars

(* "From now on only": a task leaves the mail alone that was there when it *)
(* was saved, but for one a run takes up before that mail is marked.       *)
FromNowOn ==
  \A t \in later \ early : \A m \in 1..since[t] : dealt[<<t, m>>] = 0

(* Messages the model has no answer to hold nothing else up as long as     *)
(* they are fewer than a run asks about and than it bears failures: each   *)
(* message that stays among the newest, of a task that stays on, is dealt  *)
(* with in the end.                                                        *)
EachHasItsTurn ==
  (\A n \in {Batch, Patience} : Cardinality(Unanswerable) < n) =>
    \A t \in Task : \A m \in Mail \ Unanswerable :
      <>[](enabled[t] /\ m \in Newest(1..arrived, Window)) => <>(<<t, m>> \in seen)
=============================================================================
