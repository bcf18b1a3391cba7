------------------------------- MODULE Outbox -------------------------------
(***************************************************************************)
(* Mail waiting to be sent later: the outbox table of core-store, the      *)
(* send_due pass of core-rpc, the scheduler thread and the "Send now"      *)
(* threads of the desktop window, the person, the SMTP server that may     *)
(* take a message and lose its answer, and the closing of the window.      *)
(*                                                                         *)
(* A pass reads the due list once and works through it; every statement    *)
(* on the store is one step, and anything may happen between two of them.  *)
(* The draft is a member of Message, and is its own row.  The order of the *)
(* due list is left out: no property depends on it.                        *)
(***************************************************************************)
EXTENDS Integers

CONSTANTS
  Message,         (* drafts that may be put in the outbox               *)
  Account,         (* registered accounts                                *)
  AccountOf,       (* the account a draft is sent from                   *)
  Sender,          (* threads that run send_due                          *)
  Scheduler,       (* the one that runs it every half minute             *)
  None,            (* "no message in hand"                               *)
  MaxTime,         (* bound: the clock stops here                        *)
  MaxApprovals,    (* bound: approvals given to one message              *)
  MaxCrashes,      (* bound: times the window closes                     *)
  MaxStoreErrors   (* bound: store calls that fail                       *)

ASSUME SchedulerAssumption == Scheduler \in Sender
ASSUME AccountAssumption   == AccountOf \in [Message -> Account]
ASSUME NoneAssumption      == None \notin Message
ASSUME BoundAssumption     ==
  /\ MaxTime \in Nat
  /\ MaxApprovals \in Nat
  /\ MaxCrashes \in Nat
  /\ MaxStoreErrors \in Nat

VARIABLES
  state,      (* outbox.state; "absent" before the INSERT and "removed"  *)
              (* once the account's rows were deleted by cascade         *)
  sendAt,     (* outbox.send_at                                          *)
  accounts,   (* the account table                                       *)
  now,        (* Unix time                                               *)
  window,     (* open, with its threads alive, or closed                 *)
  pc,         (* where each sender stands in send_due                    *)
  due,        (* what is left of the due list each sender read           *)
  hand,       (* the message each sender has claimed                     *)
  delivered,  (* how often the SMTP server took each message             *)
  transmitted, (* how often it was handed to the server, which may take  *)
              (* it late, when send_due has long given up on an answer   *)
  approvals,  (* how often a person asked for it to go: once by          *)
              (* scheduling it, and again by retrying a failed one       *)
  crashes, storeErrors

ledger  == <<state, sendAt, accounts>>
threads == <<pc, due, hand>>
ghosts  == <<delivered, transmitted, approvals>>
world   == <<now, window, crashes, storeErrors>>
vars    == <<ledger, threads, ghosts, world>>

RowState == {"absent", "scheduled", "sending", "sent", "failed",
             "cancelled", "removed"}
Step     == {"idle", "list", "claim", "lookup", "giveup", "submit",
             "recordSent", "recordFailed"}

(* A thread between two passes: the scheduler is about to look again, a    *)
(* "Send now" thread does not exist.                                       *)
Rest(s) == IF s = Scheduler THEN "list" ELSE "idle"

TypeOK ==
  /\ state \in [Message -> RowState]
  /\ sendAt \in [Message -> 0..MaxTime]
  /\ accounts \subseteq Account
  /\ now \in 0..MaxTime
  /\ window \in {"open", "closed"}
  /\ pc \in [Sender -> Step]
  /\ due \in [Sender -> SUBSET Message]
  /\ hand \in [Sender -> Message \cup {None}]
  /\ delivered \in [Message -> Nat]
  /\ transmitted \in [Message -> Nat]
  /\ approvals \in [Message -> Nat]
  /\ crashes \in 0..MaxCrashes
  /\ storeErrors \in 0..MaxStoreErrors

Init ==
  /\ state = [m \in Message |-> "absent"]
  /\ sendAt = [m \in Message |-> 0]
  /\ accounts = Account
  /\ now = 0
  /\ window = "open"
  /\ pc = [s \in Sender |-> Rest(s)]
  /\ due = [s \in Sender |-> {}]
  /\ hand = [s \in Sender |-> None]
  /\ delivered = [m \in Message |-> 0]
  /\ transmitted = [m \in Message |-> 0]
  /\ approvals = [m \in Message |-> 0]
  /\ crashes = 0
  /\ storeErrors = 0

-----------------------------------------------------------------------------
(* The store: the guards of the UPDATE statements.                         *)

(* Mutant: the claim forgets send_at.                                      *)
IsWaiting(m) == state[m] = "scheduled"

IsDue(m) == state[m] = "scheduled" /\ sendAt[m] <= now

(* Mutant: a message in flight may be moved or cancelled too.              *)
NotGone(m) == state[m] \in {"scheduled", "sending", "failed"}

(* cancel_outbox and reschedule_outbox touch only these.                   *)
Withdrawable(m) == state[m] \in {"scheduled", "failed"}

(* An UPDATE of a row that was deleted changes nothing.                    *)
Record(m, outcome) ==
  state' = [state EXCEPT ![m] = IF @ = "removed" THEN @ ELSE outcome]

-----------------------------------------------------------------------------
(* The person, at the window.                                              *)

Schedule(m, t) ==
  /\ window = "open"
  /\ state[m] = "absent"
  /\ AccountOf[m] \in accounts
  /\ state' = [state EXCEPT ![m] = "scheduled"]
  /\ sendAt' = [sendAt EXCEPT ![m] = t]
  /\ approvals' = [approvals EXCEPT ![m] = @ + 1]
  /\ UNCHANGED <<accounts, threads, delivered, transmitted, world>>

(* Moving a waiting message is the approval it already has; retrying a     *)
(* failed one is a new one.                                                *)
Reschedule(m, t) ==
  /\ window = "open"
  /\ Withdrawable(m)
  /\ state[m] = "failed" => approvals[m] < MaxApprovals
  /\ state' = [state EXCEPT ![m] = "scheduled"]
  /\ sendAt' = [sendAt EXCEPT ![m] = t]
  /\ approvals' = [approvals EXCEPT
                     ![m] = IF state[m] = "failed" THEN @ + 1 ELSE @]
  /\ UNCHANGED <<accounts, delivered, transmitted, world>>

Move(m, t) == Reschedule(m, t) /\ UNCHANGED threads

(* "Send now": reschedule to this second, and once that succeeded a        *)
(* send_due on a thread of its own.                                        *)
SendNow(m, s) ==
  /\ s # Scheduler /\ pc[s] = "idle"
  /\ Reschedule(m, now)
  /\ pc' = [pc EXCEPT ![s] = "list"]
  /\ UNCHANGED <<due, hand>>

(* The Cancel button, and Edit, which takes the message out of the outbox  *)
(* before its draft is opened in compose.                                  *)
Cancel(m) ==
  /\ window = "open"
  /\ Withdrawable(m)
  /\ state' = [state EXCEPT ![m] = "cancelled"]
  /\ UNCHANGED <<sendAt, accounts, threads, ghosts, world>>

RemoveAccount(a) ==
  /\ window = "open"
  /\ a \in accounts
  /\ accounts' = accounts \ {a}
  /\ state' = [m \in Message |->
                 IF AccountOf[m] = a /\ state[m] # "absent"
                 THEN "removed" ELSE state[m]]
  /\ UNCHANGED <<sendAt, threads, ghosts, world>>

Person ==
  \/ \E m \in Message, t \in 0..MaxTime : Schedule(m, t) \/ Move(m, t)
  \/ \E m \in Message, s \in Sender : SendNow(m, s)
  \/ \E m \in Message : Cancel(m)
  \/ \E a \in Account : RemoveAccount(a)

-----------------------------------------------------------------------------
(* send_due, on thread s.                                                  *)

At(s, step) == window = "open" /\ pc[s] = step

ReadDue(s) ==
  /\ At(s, "list")
  /\ due' = [due EXCEPT ![s] = {m \in Message : IsDue(m)}]
  /\ pc' = [pc EXCEPT ![s] = "claim"]
  /\ UNCHANGED <<ledger, hand, ghosts, world>>

(* claim_outbox said no: taken, cancelled or moved since the list was read *)
Skip(s, m) ==
  /\ At(s, "claim") /\ m \in due[s]
  /\ ~IsDue(m)
  /\ due' = [due EXCEPT ![s] = @ \ {m}]
  /\ UNCHANGED <<ledger, pc, hand, ghosts, world>>

Claim(s, m) ==
  /\ At(s, "claim") /\ m \in due[s]
  /\ IsDue(m)
  /\ state' = [state EXCEPT ![m] = "sending"]
  /\ due' = [due EXCEPT ![s] = @ \ {m}]
  /\ hand' = [hand EXCEPT ![s] = m]
  /\ pc' = [pc EXCEPT ![s] = "lookup"]
  /\ UNCHANGED <<sendAt, accounts, ghosts, world>>

(* Mutant: the scheduler looks once.                                       *)
EndPassForGood(s) ==
  /\ At(s, "claim") /\ due[s] = {}
  /\ pc' = [pc EXCEPT ![s] = "idle"]
  /\ UNCHANGED <<ledger, due, hand, ghosts, world>>

EndPass(s) ==
  /\ At(s, "claim") /\ due[s] = {}
  /\ pc' = [pc EXCEPT ![s] = Rest(s)]
  /\ UNCHANGED <<ledger, due, hand, ghosts, world>>

(* The account is looked up again; the stored draft may be unreadable.     *)
Lookup(s) ==
  /\ At(s, "lookup")
  /\ \/ /\ AccountOf[hand[s]] \in accounts
        /\ pc' = [pc EXCEPT ![s] = "submit"]
     \/ pc' = [pc EXCEPT ![s] = "giveup"]
  /\ UNCHANGED <<ledger, due, hand, ghosts, world>>

(* Mutant: an error is taken for a success.                                *)
RefusedUnnoticed(s) ==
  /\ At(s, "submit")
  /\ pc' = [pc EXCEPT ![s] = "recordSent"]
  /\ UNCHANGED <<ledger, due, hand, ghosts, world>>

(* Session::send refused to build or submit it, or the server did.         *)
Refused(s) ==
  /\ At(s, "submit")
  /\ pc' = [pc EXCEPT ![s] = "recordFailed"]
  /\ UNCHANGED <<ledger, due, hand, ghosts, world>>

(* The server took the message and said so.                                *)
Accepted(s) ==
  /\ At(s, "submit")
  /\ transmitted' = [transmitted EXCEPT ![hand[s]] = @ + 1]
  /\ delivered' = [delivered EXCEPT ![hand[s]] = @ + 1]
  /\ pc' = [pc EXCEPT ![s] = "recordSent"]
  /\ UNCHANGED <<ledger, due, hand, approvals, world>>

(* The connection broke or SMTP_TIMEOUT passed with the message handed     *)
(* over: an error like any other to send_due.                              *)
NoAnswer(s) ==
  /\ At(s, "submit")
  /\ transmitted' = [transmitted EXCEPT ![hand[s]] = @ + 1]
  /\ pc' = [pc EXCEPT ![s] = "recordFailed"]
  /\ UNCHANGED <<ledger, due, hand, delivered, approvals, world>>

Settle(s, outcome) ==
  /\ Record(hand[s], outcome)
  /\ hand' = [hand EXCEPT ![s] = None]
  /\ pc' = [pc EXCEPT ![s] = "claim"]
  /\ UNCHANGED <<sendAt, accounts, due, ghosts, world>>

(* Mutant: a removed account or an unreadable draft is passed over without *)
(* a word.                                                                 *)
GiveUpSilently(s) ==
  /\ At(s, "giveup")
  /\ hand' = [hand EXCEPT ![s] = None]
  /\ pc' = [pc EXCEPT ![s] = "claim"]
  /\ UNCHANGED <<ledger, due, ghosts, world>>

RecordSent(s)   == At(s, "recordSent") /\ Settle(s, "sent")
RecordFailed(s) == At(s, "recordFailed") /\ Settle(s, "failed")
GiveUp(s)       == At(s, "giveup") /\ Settle(s, "failed")

(* A store call fails.  Everywhere it ends the pass with `?`, and a row    *)
(* that was claimed stays `sending`; only outbox_sent is tried again, and  *)
(* when every try failed the pass goes on.                                 *)
StoreError(s) ==
  /\ window = "open"
  /\ storeErrors < MaxStoreErrors
  /\ \/ /\ \/ pc[s] \in {"list", "lookup", "giveup", "recordSent", "recordFailed"}
           \/ pc[s] = "claim" /\ due[s] # {}
        /\ pc' = [pc EXCEPT ![s] = Rest(s)]
        /\ due' = [due EXCEPT ![s] = {}]
     \/ /\ pc[s] = "recordSent"
        /\ pc' = [pc EXCEPT ![s] = "claim"]
        /\ UNCHANGED due
  /\ hand' = [hand EXCEPT ![s] = None]
  /\ storeErrors' = storeErrors + 1
  /\ UNCHANGED <<ledger, ghosts, now, window, crashes>>

SendDue(s) ==
  \/ ReadDue(s)
  \/ \E m \in Message : Skip(s, m) \/ Claim(s, m)
  \/ EndPass(s)
  \/ Lookup(s) \/ GiveUp(s)
  \/ Refused(s) \/ Accepted(s) \/ NoAnswer(s)
  \/ RecordSent(s) \/ RecordFailed(s)

(* A message no answer was heard for may yet be taken, at any later time.  *)
ServerTakes(m) ==
  /\ delivered[m] < transmitted[m]
  /\ delivered' = [delivered EXCEPT ![m] = @ + 1]
  /\ UNCHANGED <<ledger, threads, transmitted, approvals, world>>

-----------------------------------------------------------------------------
(* The window and the clock.                                               *)

(* However the window closes, its threads end where they stand.            *)
Close ==
  /\ window = "open"
  /\ crashes < MaxCrashes
  /\ window' = "closed"
  /\ crashes' = crashes + 1
  /\ pc' = [s \in Sender |-> Rest(s)]
  /\ due' = [s \in Sender |-> {}]
  /\ hand' = [s \in Sender |-> None]
  /\ UNCHANGED <<ledger, ghosts, now, storeErrors>>

(* Mutant: interrupted sends are tried again on a guess.                   *)
RecoveredToResend == [m \in Message |-> IF state[m] = "sending" THEN "scheduled" ELSE state[m]]

(* What recover_interrupted_sends makes of the table.                      *)
Recovered == [m \in Message |-> IF state[m] = "sending" THEN "failed" ELSE state[m]]

(* The data directory's lock admits one window; it looks after interrupted *)
(* sends before the scheduler starts, and starts even if that look failed. *)
Open ==
  /\ window = "closed"
  /\ window' = "open"
  /\ \/ /\ state' = Recovered
        /\ UNCHANGED storeErrors
     \/ /\ storeErrors < MaxStoreErrors
        /\ storeErrors' = storeErrors + 1
        /\ UNCHANGED state
  /\ UNCHANGED <<sendAt, accounts, threads, ghosts, now, crashes>>

Tick ==
  /\ now < MaxTime
  /\ now' = now + 1
  /\ UNCHANGED <<ledger, threads, ghosts, window, crashes, storeErrors>>

Next ==
  \/ Person
  \/ \E s \in Sender : SendDue(s) \/ StoreError(s)
  \/ \E m \in Message : ServerTakes(m)
  \/ Close \/ Open \/ Tick

Spec == Init /\ [][Next]_vars

(* A thread of an open window goes on, and SMTP_TIMEOUT ends a send that   *)
(* hangs.  Nothing obliges a person to open the window again.              *)
Fairness == \A s \in Sender : WF_vars(SendDue(s))

FairSpec == Spec /\ Fairness

-----------------------------------------------------------------------------
(* Properties.                                                             *)

(* "Sending twice is the one mistake here that cannot be taken back": the  *)
(* server never takes a message more often than a person asked for it to   *)
(* go, whatever threads race for it, however late its answers come, and    *)
(* however often the window closes half-way.                               *)
OneDeliveryPerApproval == \A m \in Message : delivered[m] <= approvals[m]

(* A message listed as waiting still has an approval nothing has used: the *)
(* outbox never offers to send what a pass has sent, or is sending.        *)
WaitingIsUnspent ==
  \A m \in Message : state[m] = "scheduled" => transmitted[m] < approvals[m]

(* A row that says sent is right about it.                                 *)
SentMeansDelivered ==
  \A m \in Message : state[m] = "sent" => delivered[m] > 0

(* A message is handed to the server only while its row says so and its    *)
(* time has come: never once it was cancelled, and never after it was      *)
(* moved to later, even by a pass that read the list before.  A pass that  *)
(* already held it when its account was removed still finishes.            *)
HandedOverInTime ==
  [][\A m \in Message : transmitted'[m] # transmitted[m] =>
       \/ state[m] = "removed"
       \/ state[m] = "sending" /\ sendAt[m] <= now]_vars

(* While the window is open, a message whose time has come does not wait   *)
(* for ever, failing store calls or not.                                   *)
DueIsTried ==
  \A m \in Message :
    (<>[](window = "open")) => (IsDue(m) ~> ~IsDue(m))

(* "A message that fails is left failed with the reason, for a person to   *)
(* reschedule or cancel": a claimed message does not stay claimed while    *)
(* the window is open.  It does when a store call after the claim fails,   *)
(* until the program is started again.                                     *)
ClaimIsSettled ==
  \A m \in Message :
    (<>[](window = "open")) => (state[m] = "sending" ~> state[m] # "sending")

(* The same as long as no store call fails: whatever the server answers,   *)
(* and also when the account is gone or the draft cannot be read.          *)
ClaimIsSettledByStore == ([](storeErrors = 0)) => ClaimIsSettled

(* The outbox implements its promise.                                      *)
Held(m) == \E s \in Sender : hand[s] = m /\ pc[s] \in {"lookup", "submit"}

Permits == {m \in Message : state[m] = "scheduled" \/ Held(m)}

Promise == INSTANCE OutboxPromise WITH permits <- Permits

ImplementsPromise == Promise!Spec
=============================================================================
