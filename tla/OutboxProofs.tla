---------------------------- MODULE OutboxProofs ----------------------------
(***************************************************************************)
(* What MCOutbox checks on two drafts and two threads, for every set of    *)
(* drafts, accounts and threads, and every bound.                          *)
(*                                                                         *)
(* The argument is the claim: an UPDATE with the state in its WHERE clause *)
(* makes one thread the owner of a message, the owner uses up the one      *)
(* approval the row stood for, and a row comes back to `scheduled` only    *)
(* through a person, with an approval more.                                *)
(***************************************************************************)
EXTENDS Outbox, TLAPS

(* Steps of send_due at which a thread owns a message.                     *)
Busy == {"lookup", "giveup", "submit", "recordSent", "recordFailed"}

HandIsBusy == \A s \in Sender : hand[s] # None <=> pc[s] \in Busy

OneOwner == \A s, t \in Sender : hand[s] = hand[t] /\ hand[s] # None => s = t

OwnedIsSending ==
  \A s \in Sender : hand[s] # None => state[hand[s]] \in {"sending", "removed"}

ClosedIsAtRest ==
  window = "closed" => \A s \in Sender : hand[s] = None /\ pc[s] = Rest(s)

Counted ==
  \A m \in Message : delivered[m] <= transmitted[m] /\ transmitted[m] <= approvals[m]

OwnedIsUnspent ==
  \A s \in Sender : pc[s] \in {"lookup", "submit"} =>
    transmitted[hand[s]] < approvals[hand[s]]

AcceptedIsDelivered ==
  \A s \in Sender : pc[s] = "recordSent" => delivered[hand[s]] > 0

SendingIsDue == \A m \in Message : state[m] = "sending" => sendAt[m] <= now

IInv ==
  /\ TypeOK
  /\ HandIsBusy /\ OneOwner /\ OwnedIsSending /\ ClosedIsAtRest
  /\ Counted /\ WaitingIsUnspent /\ OwnedIsUnspent
  /\ AcceptedIsDelivered /\ SentMeansDelivered
  /\ SendingIsDue

-----------------------------------------------------------------------------

(* The constants' assumptions, and the definitions every step needs.       *)
USE SchedulerAssumption, AccountAssumption, NoneAssumption, BoundAssumption
    DEF vars, ledger, threads, ghosts, world, At, IsDue, Rest

(* A counter of something per message, one up.                             *)
LEMMA BumpType ==
  ASSUME NEW f \in [Message -> Nat], NEW x
  PROVE  [f EXCEPT ![x] = @ + 1] \in [Message -> Nat]
<1>1. CASE x \in Message
  BY <1>1
<1>2. CASE x \notin Message
  <2>1. [f EXCEPT ![x] = @ + 1] = f
    BY <1>2
  <2> QED BY <2>1
<1> QED BY <1>1, <1>2

LEMMA TypeNext == TypeOK /\ [Next]_vars => TypeOK'
<1> SUFFICES ASSUME TypeOK, [Next]_vars PROVE TypeOK'
  OBVIOUS
<1> USE DEF TypeOK, RowState, Step
<1>1. ASSUME NEW m \in Message, NEW t \in 0..MaxTime, Schedule(m, t)
      PROVE  TypeOK'
  BY <1>1 DEF Schedule
<1>2. ASSUME NEW m \in Message, NEW t \in 0..MaxTime, Move(m, t)
      PROVE  TypeOK'
  BY <1>2 DEF Move, Reschedule
<1>3. ASSUME NEW m \in Message, NEW s \in Sender, SendNow(m, s)
      PROVE  TypeOK'
  BY <1>3 DEF SendNow, Reschedule
<1>4. ASSUME NEW m \in Message, Cancel(m) PROVE TypeOK'
  BY <1>4 DEF Cancel
<1>5. ASSUME NEW a \in Account, RemoveAccount(a) PROVE TypeOK'
  BY <1>5 DEF RemoveAccount
<1>6. ASSUME NEW s \in Sender, SendDue(s) PROVE TypeOK'
  <2>1. CASE ReadDue(s)
    BY <2>1 DEF ReadDue
  <2>2. ASSUME NEW m \in Message, Skip(s, m) \/ Claim(s, m) PROVE TypeOK'
    BY <2>2 DEF Skip, Claim
  <2>3. CASE EndPass(s) \/ Lookup(s)
    BY <2>3 DEF EndPass, Lookup
  <2>4. CASE Refused(s) \/ NoAnswer(s)
    BY <2>4 DEF Refused, NoAnswer
  <2>5. CASE Accepted(s)
    <3>1. delivered' \in [Message -> Nat] /\ transmitted' \in [Message -> Nat]
      BY <2>5, BumpType DEF Accepted
    <3>2. pc' \in [Sender -> Step]
      BY <2>5 DEF Accepted
    <3>3. UNCHANGED <<ledger, due, hand, approvals, world>>
      BY <2>5 DEF Accepted
    <3> QED BY <3>1, <3>2, <3>3
  <2>6. CASE GiveUp(s) \/ RecordSent(s) \/ RecordFailed(s)
    BY <2>6 DEF GiveUp, RecordSent, RecordFailed, Settle, Record
  <2> QED BY <1>6, <2>1, <2>2, <2>3, <2>4, <2>5, <2>6 DEF SendDue
<1>7. ASSUME NEW s \in Sender, StoreError(s) PROVE TypeOK'
  BY <1>7 DEF StoreError
<1>8. ASSUME NEW m \in Message, ServerTakes(m) PROVE TypeOK'
  BY <1>8 DEF ServerTakes
<1>9. CASE Close
  <2>1. pc' \in [Sender -> Step] /\ due' \in [Sender -> SUBSET Message]
        /\ hand' \in [Sender -> Message \cup {None}]
    BY <1>9 DEF Close
  <2>2. crashes' \in 0..MaxCrashes /\ window' \in {"open", "closed"}
    <3>1. crashes < MaxCrashes /\ crashes' = crashes + 1 /\ window' = "closed"
      BY <1>9 DEF Close
    <3> QED BY <3>1
  <2>3. UNCHANGED <<ledger, ghosts, now, storeErrors>>
    BY <1>9 DEF Close
  <2> QED BY <2>1, <2>2, <2>3
<1>10. CASE Open
  BY <1>10 DEF Open, Recovered
<1>11. CASE Tick
  BY <1>11 DEF Tick
<1>12. CASE UNCHANGED vars
  BY <1>12
<1> QED
  BY <1>1, <1>2, <1>3, <1>4, <1>5, <1>6, <1>7, <1>8, <1>9, <1>10, <1>11, <1>12
  DEF Next, Person

(* Every variable keeps to its type.                                       *)
THEOREM TypeCorrect == Spec => []TypeOK
<1>1. Init => TypeOK
  BY DEF Init, TypeOK, RowState, Step
<1> QED BY <1>1, TypeNext, PTL DEF Spec

-----------------------------------------------------------------------------

LEMMA InitIInv == Init => IInv
<1> SUFFICES ASSUME Init PROVE IInv
  OBVIOUS
<1>1. TypeOK
  BY DEF Init, TypeOK, RowState, Step
<1>2. HandIsBusy /\ OneOwner /\ OwnedIsSending /\ ClosedIsAtRest
  BY DEF Init, HandIsBusy, Busy, OneOwner, OwnedIsSending, ClosedIsAtRest
<1>3. Counted /\ WaitingIsUnspent /\ SentMeansDelivered /\ SendingIsDue
  BY DEF Init, Counted, WaitingIsUnspent, SentMeansDelivered, SendingIsDue
<1>4. OwnedIsUnspent /\ AcceptedIsDelivered
  BY DEF Init, OwnedIsUnspent, AcceptedIsDelivered
<1> QED BY <1>1, <1>2, <1>3, <1>4 DEF IInv

(* What a person does to a row no thread owns.                             *)
LEMMA PersonIInv == ASSUME IInv, Person PROVE IInv'
<1> USE DEF IInv
<1>1. TypeOK'
  BY TypeNext DEF Next
<1>2. ASSUME NEW m \in Message, NEW t \in 0..MaxTime, Schedule(m, t)
      PROVE  IInv'
  <2> USE <1>2 DEF Schedule, TypeOK
  <2>1. HandIsBusy' /\ OneOwner' /\ OwnedIsSending' /\ ClosedIsAtRest'
    BY DEF HandIsBusy, OneOwner, OwnedIsSending, ClosedIsAtRest
  <2>2. Counted' /\ WaitingIsUnspent' /\ SentMeansDelivered'
    BY DEF Counted, WaitingIsUnspent, SentMeansDelivered
  <2>3. OwnedIsUnspent' /\ AcceptedIsDelivered' /\ SendingIsDue'
    BY DEF OwnedIsUnspent, AcceptedIsDelivered, SendingIsDue, HandIsBusy, Busy
  <2> QED BY <1>1, <2>1, <2>2, <2>3
<1>3. ASSUME NEW m \in Message, NEW t \in 0..MaxTime, Reschedule(m, t),
             UNCHANGED <<due, hand>>,
             \/ UNCHANGED pc
             \/ \E s \in Sender : /\ s # Scheduler /\ pc[s] = "idle"
                                  /\ pc' = [pc EXCEPT ![s] = "list"]
      PROVE  IInv'
  <2> USE <1>3 DEF Reschedule, Withdrawable, TypeOK
  <2>1. HandIsBusy' /\ ClosedIsAtRest'
    BY DEF HandIsBusy, ClosedIsAtRest, Busy
  <2>2. OneOwner' /\ OwnedIsSending'
    BY DEF OneOwner, OwnedIsSending
  <2>3. Counted' /\ WaitingIsUnspent'
    BY DEF Counted, WaitingIsUnspent
  <2>4. \A s \in Sender : pc'[s] \in Busy => pc[s] = pc'[s]
    BY DEF Busy
  <2>5. OwnedIsUnspent' /\ AcceptedIsDelivered'
    BY <2>4 DEF OwnedIsUnspent, AcceptedIsDelivered, HandIsBusy, Busy
  <2>6. SentMeansDelivered' /\ SendingIsDue'
    BY DEF SentMeansDelivered, SendingIsDue
  <2> QED BY <1>1, <2>1, <2>2, <2>3, <2>5, <2>6
<1>4. ASSUME NEW m \in Message, Cancel(m) PROVE IInv'
  <2> USE <1>4 DEF Cancel, Withdrawable, TypeOK
  <2>1. HandIsBusy' /\ OneOwner' /\ OwnedIsSending' /\ ClosedIsAtRest'
    BY DEF HandIsBusy, OneOwner, OwnedIsSending, ClosedIsAtRest
  <2>2. Counted' /\ WaitingIsUnspent' /\ SentMeansDelivered'
    BY DEF Counted, WaitingIsUnspent, SentMeansDelivered
  <2>3. OwnedIsUnspent' /\ AcceptedIsDelivered' /\ SendingIsDue'
    BY DEF OwnedIsUnspent, AcceptedIsDelivered, SendingIsDue
  <2> QED BY <1>1, <2>1, <2>2, <2>3
<1>5. ASSUME NEW a \in Account, RemoveAccount(a) PROVE IInv'
  <2> USE <1>5 DEF RemoveAccount, TypeOK
  <2>1. HandIsBusy' /\ OneOwner' /\ OwnedIsSending' /\ ClosedIsAtRest'
    BY DEF HandIsBusy, OneOwner, OwnedIsSending, ClosedIsAtRest
  <2>2. Counted' /\ WaitingIsUnspent' /\ SentMeansDelivered'
    BY DEF Counted, WaitingIsUnspent, SentMeansDelivered
  <2>3. OwnedIsUnspent' /\ AcceptedIsDelivered' /\ SendingIsDue'
    BY DEF OwnedIsUnspent, AcceptedIsDelivered, SendingIsDue
  <2> QED BY <1>1, <2>1, <2>2, <2>3
<1> QED
  <2>1. ASSUME NEW m \in Message, NEW t \in 0..MaxTime, Move(m, t) PROVE IInv'
    BY <2>1, <1>3 DEF Move
  <2>2. ASSUME NEW m \in Message, NEW s \in Sender, SendNow(m, s) PROVE IInv'
    <3>1. now \in 0..MaxTime
      BY DEF TypeOK
    <3> QED BY <2>2, <3>1, <1>3 DEF SendNow
  <2> QED BY <1>2, <2>1, <2>2, <1>4, <1>5 DEF Person

(* The steps of a pass that leave every row alone, and the loss of what a  *)
(* thread held: nobody's hand gains a message.                             *)
LEMMA QuietIInv ==
  ASSUME IInv, NEW s \in Sender,
         ReadDue(s) \/ EndPass(s) \/ Lookup(s) \/ Refused(s) \/ StoreError(s)
           \/ \E m \in Message : Skip(s, m)
  PROVE  IInv'
<1> USE DEF IInv
<1>1. TypeOK'
  BY TypeNext DEF Next, SendDue
<1>2. UNCHANGED <<ledger, ghosts, now, window>>
  BY DEF ReadDue, EndPass, Lookup, Refused, StoreError, Skip
<1>3. \/ UNCHANGED hand
      \/ hand' = [hand EXCEPT ![s] = None]
  BY DEF ReadDue, EndPass, Lookup, Refused, StoreError, Skip
<1>4. window = "open"
  BY DEF ReadDue, EndPass, Lookup, Refused, StoreError, Skip
<1>5. HandIsBusy'
  BY DEF HandIsBusy, Busy, TypeOK,
         ReadDue, EndPass, Lookup, Refused, StoreError, Skip
<1>6. OneOwner' /\ OwnedIsSending' /\ ClosedIsAtRest'
  BY <1>2, <1>3, <1>4 DEF OneOwner, OwnedIsSending, ClosedIsAtRest, TypeOK
<1>7. Counted' /\ WaitingIsUnspent' /\ SentMeansDelivered' /\ SendingIsDue'
  BY <1>2 DEF Counted, WaitingIsUnspent, SentMeansDelivered, SendingIsDue
<1>8. \A t \in Sender :
        /\ pc'[t] \in {"lookup", "submit"} => pc[t] \in {"lookup", "submit"}
        /\ pc'[t] = "recordSent" => pc[t] = "recordSent"
        /\ pc'[t] \in Busy => hand'[t] = hand[t]
  BY DEF Busy, TypeOK,
         ReadDue, EndPass, Lookup, Refused, StoreError, Skip
<1>9. OwnedIsUnspent' /\ AcceptedIsDelivered'
  BY <1>2, <1>8 DEF OwnedIsUnspent, AcceptedIsDelivered, Busy
<1> QED BY <1>1, <1>5, <1>6, <1>7, <1>9

(* The claim: the row was `scheduled`, so nobody owns it, and its approval *)
(* is unspent.                                                             *)
LEMMA ClaimIInv ==
  ASSUME IInv, NEW s \in Sender, NEW m \in Message, Claim(s, m)
  PROVE  IInv'
<1> USE DEF IInv
<1>1. TypeOK'
  BY TypeNext DEF Next, SendDue
<1> USE DEF Claim, TypeOK
<1>2. \A t \in Sender : hand[t] # m
  BY DEF OwnedIsSending
<1>3. HandIsBusy' /\ ClosedIsAtRest'
  BY DEF HandIsBusy, Busy, ClosedIsAtRest
<1>4. OneOwner' /\ OwnedIsSending'
  BY <1>2 DEF OneOwner, OwnedIsSending
<1>5. Counted' /\ WaitingIsUnspent' /\ SentMeansDelivered' /\ SendingIsDue'
  BY DEF Counted, WaitingIsUnspent, SentMeansDelivered, SendingIsDue
<1>6. OwnedIsUnspent' /\ AcceptedIsDelivered'
  BY DEF OwnedIsUnspent, WaitingIsUnspent, AcceptedIsDelivered
<1> QED BY <1>1, <1>3, <1>4, <1>5, <1>6

(* The hand-over: the owner spends the approval and is past `submit`, so   *)
(* it cannot spend another; nobody else owns the message.                  *)
LEMMA HandOverIInv ==
  ASSUME IInv, NEW s \in Sender, Accepted(s) \/ NoAnswer(s)
  PROVE  IInv'
<1> USE DEF IInv
<1>1. TypeOK'
  BY TypeNext DEF Next, SendDue
<1> DEFINE m == hand[s]
<1>2. /\ window = "open" /\ pc[s] = "submit"
      /\ pc' = [pc EXCEPT ![s] = pc'[s]]
      /\ pc'[s] \in {"recordSent", "recordFailed"}
      /\ UNCHANGED <<ledger, due, hand, approvals, world>>
  BY DEF Accepted, NoAnswer, TypeOK
<1>3. m \in Message
  BY <1>2 DEF HandIsBusy, Busy, TypeOK
<1>4. /\ transmitted' = [transmitted EXCEPT ![m] = @ + 1]
      /\ \/ delivered' = [delivered EXCEPT ![m] = @ + 1]
         \/ UNCHANGED delivered /\ pc'[s] = "recordFailed"
  BY DEF Accepted, NoAnswer, TypeOK
<1>5. HandIsBusy' /\ ClosedIsAtRest'
  BY <1>2 DEF HandIsBusy, Busy, ClosedIsAtRest, TypeOK
<1>6. OneOwner' /\ OwnedIsSending' /\ SendingIsDue'
  BY <1>2 DEF OneOwner, OwnedIsSending, SendingIsDue
<1>7. Counted'
  BY <1>2, <1>3, <1>4 DEF Counted, OwnedIsUnspent, TypeOK
<1>8. WaitingIsUnspent' /\ SentMeansDelivered'
  BY <1>2, <1>3, <1>4
  DEF WaitingIsUnspent, SentMeansDelivered, OwnedIsSending, TypeOK
<1>9. \A t \in Sender : t # s /\ pc[t] \in Busy => hand[t] # m
  BY <1>3 DEF OneOwner, HandIsBusy
<1>10. OwnedIsUnspent'
  BY <1>2, <1>3, <1>4, <1>9 DEF OwnedIsUnspent, HandIsBusy, Busy, TypeOK
<1>11. AcceptedIsDelivered'
  BY <1>2, <1>3, <1>4 DEF AcceptedIsDelivered, HandIsBusy, Busy, TypeOK
<1> QED BY <1>1, <1>5, <1>6, <1>7, <1>8, <1>10, <1>11

(* The owner writes down what happened and lets go.                        *)
LEMMA SettleIInv ==
  ASSUME IInv, NEW s \in Sender, RecordSent(s) \/ RecordFailed(s) \/ GiveUp(s)
  PROVE  IInv'
<1> USE DEF IInv
<1>1. TypeOK'
  BY TypeNext DEF Next, SendDue
<1> DEFINE m == hand[s]
<1> USE DEF TypeOK
<1>2. PICK outcome \in {"sent", "failed"} :
        /\ Settle(s, outcome)
        /\ outcome = "sent" => pc[s] = "recordSent"
        /\ pc[s] \in Busy /\ window = "open"
  BY DEF RecordSent, RecordFailed, GiveUp, Busy
<1>3. m \in Message
  BY <1>2 DEF HandIsBusy
<1>4. /\ state' = [state EXCEPT ![m] = IF @ = "removed" THEN @ ELSE outcome]
      /\ hand' = [hand EXCEPT ![s] = None]
      /\ pc' = [pc EXCEPT ![s] = "claim"]
      /\ UNCHANGED <<sendAt, accounts, due, ghosts, world>>
  BY <1>2 DEF Settle, Record
<1>5. HandIsBusy' /\ ClosedIsAtRest'
  BY <1>2, <1>4 DEF HandIsBusy, Busy, ClosedIsAtRest
<1>6. OneOwner' /\ OwnedIsSending'
  BY <1>2, <1>3, <1>4 DEF OneOwner, OwnedIsSending
<1>7. Counted' /\ WaitingIsUnspent' /\ SendingIsDue'
  BY <1>3, <1>4 DEF Counted, WaitingIsUnspent, SendingIsDue
<1>8. SentMeansDelivered'
  BY <1>2, <1>3, <1>4 DEF SentMeansDelivered, AcceptedIsDelivered
<1>9. OwnedIsUnspent' /\ AcceptedIsDelivered'
  BY <1>4 DEF OwnedIsUnspent, AcceptedIsDelivered
<1> QED BY <1>1, <1>5, <1>6, <1>7, <1>8, <1>9

(* The server's late answer, the window closing and opening, the clock.    *)
LEMMA WorldIInv ==
  ASSUME IInv, (\E m \in Message : ServerTakes(m)) \/ Close \/ Open \/ Tick
  PROVE  IInv'
<1> USE DEF IInv
<1>1. TypeOK'
  BY TypeNext DEF Next
<1>2. ASSUME NEW m \in Message, ServerTakes(m) PROVE IInv'
  <2> USE <1>2 DEF ServerTakes, TypeOK
  <2>1. HandIsBusy' /\ OneOwner' /\ OwnedIsSending' /\ ClosedIsAtRest'
    BY DEF HandIsBusy, OneOwner, OwnedIsSending, ClosedIsAtRest
  <2>2. Counted' /\ WaitingIsUnspent' /\ SentMeansDelivered' /\ SendingIsDue'
    BY DEF Counted, WaitingIsUnspent, SentMeansDelivered, SendingIsDue
  <2>3. OwnedIsUnspent' /\ AcceptedIsDelivered'
    BY DEF OwnedIsUnspent, AcceptedIsDelivered, HandIsBusy, Busy
  <2> QED BY <1>1, <2>1, <2>2, <2>3
<1>3. CASE Close
  <2> USE <1>3 DEF Close, TypeOK
  <2>1. HandIsBusy' /\ OneOwner' /\ OwnedIsSending' /\ ClosedIsAtRest'
    BY DEF HandIsBusy, Busy, OneOwner, OwnedIsSending, ClosedIsAtRest
  <2>2. Counted' /\ WaitingIsUnspent' /\ SentMeansDelivered' /\ SendingIsDue'
    BY DEF Counted, WaitingIsUnspent, SentMeansDelivered, SendingIsDue
  <2>3. OwnedIsUnspent' /\ AcceptedIsDelivered'
    BY DEF OwnedIsUnspent, AcceptedIsDelivered
  <2> QED BY <1>1, <2>1, <2>2, <2>3
<1>4. CASE Open
  <2> USE <1>4 DEF Open, Recovered, TypeOK
  <2>1. HandIsBusy' /\ OneOwner' /\ OwnedIsSending' /\ ClosedIsAtRest'
    BY DEF HandIsBusy, OneOwner, OwnedIsSending, ClosedIsAtRest
  <2>2. Counted' /\ WaitingIsUnspent' /\ SentMeansDelivered' /\ SendingIsDue'
    BY DEF Counted, WaitingIsUnspent, SentMeansDelivered, SendingIsDue
  <2>3. OwnedIsUnspent' /\ AcceptedIsDelivered'
    BY DEF OwnedIsUnspent, AcceptedIsDelivered
  <2> QED BY <1>1, <2>1, <2>2, <2>3
<1>5. CASE Tick
  <2> USE <1>5 DEF Tick, TypeOK
  <2>1. HandIsBusy' /\ OneOwner' /\ OwnedIsSending' /\ ClosedIsAtRest'
    BY DEF HandIsBusy, OneOwner, OwnedIsSending, ClosedIsAtRest
  <2>2. Counted' /\ WaitingIsUnspent' /\ SentMeansDelivered' /\ SendingIsDue'
    BY DEF Counted, WaitingIsUnspent, SentMeansDelivered, SendingIsDue
  <2>3. OwnedIsUnspent' /\ AcceptedIsDelivered'
    BY DEF OwnedIsUnspent, AcceptedIsDelivered
  <2> QED BY <1>1, <2>1, <2>2, <2>3
<1> QED BY <1>2, <1>3, <1>4, <1>5

LEMMA StutterIInv == IInv /\ UNCHANGED vars => IInv'
BY DEF IInv, TypeOK, HandIsBusy, OneOwner, OwnedIsSending, ClosedIsAtRest,
       Counted, WaitingIsUnspent, OwnedIsUnspent, AcceptedIsDelivered,
       SentMeansDelivered, SendingIsDue

(* The invariant the rest follows from.                                    *)
THEOREM Invariant == Spec => []IInv
<1>1. IInv /\ [Next]_vars => IInv'
  BY PersonIInv, QuietIInv, ClaimIInv, HandOverIInv, SettleIInv, WorldIInv,
     StutterIInv DEF Next, SendDue
<1> QED BY <1>1, InitIInv, PTL DEF Spec

-----------------------------------------------------------------------------

(* The server never takes a message more often than a person asked for it  *)
(* to go (send_due, claim_outbox, recover_interrupted_sends).              *)
THEOREM NeverTwice == Spec => []OneDeliveryPerApproval
<1>1. IInv => OneDeliveryPerApproval
  <2> SUFFICES ASSUME Counted, TypeOK, NEW m \in Message
               PROVE  delivered[m] <= approvals[m]
    BY DEF IInv, OneDeliveryPerApproval
  <2>1. delivered[m] \in Nat /\ transmitted[m] \in Nat /\ approvals[m] \in Nat
    BY DEF TypeOK
  <2>2. delivered[m] <= transmitted[m] /\ transmitted[m] <= approvals[m]
    BY DEF Counted
  <2> QED BY <2>1, <2>2
<1> QED BY <1>1, Invariant, PTL

(* A row listed as waiting has an approval nothing used (reschedule_outbox *)
(* and recover_interrupted_sends never bring back a spent one).            *)
THEOREM WaitingUnspent == Spec => []WaitingIsUnspent
<1>1. IInv => WaitingIsUnspent
  BY DEF IInv
<1> QED BY <1>1, Invariant, PTL

(* A row that says sent is right about it (outbox_sent).                   *)
THEOREM SentIsTrue == Spec => []SentMeansDelivered
<1>1. IInv => SentMeansDelivered
  BY DEF IInv
<1> QED BY <1>1, Invariant, PTL

(* A message is handed over only while its row is `sending` and its time   *)
(* has come: a cancel that was accepted is final, and so is a move to      *)
(* later, whatever a pass read before (claim_outbox, cancel_outbox).       *)
THEOREM InTime == Spec => HandedOverInTime
<1> DEFINE Timely ==
      \A m \in Message : transmitted'[m] # transmitted[m] =>
        \/ state[m] = "removed"
        \/ state[m] = "sending" /\ sendAt[m] <= now
<1>1. IInv /\ [Next]_vars => [Timely]_vars
  <2> SUFFICES ASSUME IInv, Next PROVE Timely
    OBVIOUS
  <2>1. ASSUME NEW s \in Sender, Accepted(s) \/ NoAnswer(s) PROVE Timely
    <3>1. /\ pc[s] = "submit"
          /\ transmitted' = [transmitted EXCEPT ![hand[s]] = @ + 1]
      BY <2>1 DEF Accepted, NoAnswer
    <3>2. /\ hand[s] \in Message
          /\ \/ state[hand[s]] = "removed"
             \/ state[hand[s]] = "sending" /\ sendAt[hand[s]] <= now
      BY <3>1 DEF IInv, TypeOK, HandIsBusy, Busy, OwnedIsSending, SendingIsDue
    <3> QED BY <3>1, <3>2 DEF IInv, TypeOK
  <2>2. CASE ~ \E s \in Sender : Accepted(s) \/ NoAnswer(s)
    <3>1. UNCHANGED transmitted
      BY <2>2 DEF Next, Person, SendDue, Schedule, Move, SendNow, Reschedule,
           Cancel, RemoveAccount, ReadDue, Skip, Claim, EndPass, Lookup,
           GiveUp, Refused, RecordSent, RecordFailed, Settle, StoreError,
           ServerTakes, Close, Open, Tick
    <3> QED BY <3>1
  <2> QED BY <2>1, <2>2
<1> QED BY <1>1, Invariant, PTL DEF Spec, HandedOverInTime

-----------------------------------------------------------------------------

(* A step that gives no approval, transmits nothing and makes no message   *)
(* permitted is a lapse.                                                   *)
LEMMA NoNewPermit ==
  ASSUME UNCHANGED <<approvals, transmitted>>, Permits' \subseteq Permits
  PROVE  Promise!Next
<1>1. Permits \in SUBSET Message
  BY DEF Permits
<1>2. Permits' = Permits \ (Permits \ Permits')
  OBVIOUS
<1>3. Promise!Lapse(Permits \ Permits')
  BY <1>2 DEF Promise!Lapse
<1> QED BY <1>1, <1>3 DEF Promise!Next

(* Every step of the outbox approves, transmits or lets lapse.             *)
LEMMA StepImplements ==
  ASSUME IInv, Next
  PROVE  [Promise!Next]_(Promise!promise)
<1> USE DEF IInv, TypeOK
<1>1. ASSUME NEW m \in Message, state[m] \in {"absent", "failed"},
             state' = [state EXCEPT ![m] = "scheduled"],
             approvals' = [approvals EXCEPT ![m] = @ + 1],
             UNCHANGED <<hand, transmitted>>,
             \A s \in Sender : pc'[s] \in Busy \/ pc[s] \in Busy => pc'[s] = pc[s]
      PROVE  Promise!Next
  <2>1. m \notin Permits
    BY <1>1 DEF Permits, Held, OwnedIsSending
  <2>2. \A n \in Message : Held(n)' <=> Held(n)
    BY <1>1 DEF Held, Busy
  <2>3. Permits' = Permits \cup {m}
    BY <1>1, <2>2 DEF Permits
  <2>4. Promise!Approve(m)
    BY <1>1, <2>1, <2>3 DEF Promise!Approve
  <2> QED BY <2>4 DEF Promise!Next
<1>2. ASSUME NEW s \in Sender, Accepted(s) \/ NoAnswer(s) PROVE Promise!Next
  <2>1. /\ pc[s] = "submit" /\ UNCHANGED <<state, hand, approvals>>
        /\ transmitted' = [transmitted EXCEPT ![hand[s]] = @ + 1]
        /\ \E p \in {"recordSent", "recordFailed"} : pc' = [pc EXCEPT ![s] = p]
    BY <1>2 DEF Accepted, NoAnswer
  <2>2. hand[s] \in Message /\ state[hand[s]] # "scheduled"
    BY <2>1 DEF HandIsBusy, Busy, OwnedIsSending
  <2>3. hand[s] \in Permits
    BY <2>1, <2>2 DEF Permits, Held
  <2>4. \A n \in Message : Held(n)' <=> Held(n) /\ n # hand[s]
    BY <2>1, <2>2 DEF Held, OneOwner
  <2>5. Permits' = Permits \ {hand[s]}
    BY <2>1, <2>2, <2>4 DEF Permits
  <2>6. Promise!Transmit(hand[s])
    BY <2>1, <2>3, <2>5 DEF Promise!Transmit
  <2> QED BY <2>2, <2>6 DEF Promise!Next
<1>3. ASSUME NEW m \in Message, NEW t \in 0..MaxTime, Schedule(m, t)
      PROVE  Promise!Next
  BY <1>1, <1>3 DEF Schedule
<1>4. ASSUME NEW m \in Message, NEW t \in 0..MaxTime, Reschedule(m, t),
             UNCHANGED hand,
             \A s \in Sender : pc'[s] \in Busy \/ pc[s] \in Busy => pc'[s] = pc[s]
      PROVE  Promise!Next
  <2>1. CASE state[m] = "failed"
    BY <1>1, <1>4, <2>1 DEF Reschedule
  <2>2. CASE state[m] = "scheduled"
    <3>1. UNCHANGED <<state, approvals, transmitted>>
      BY <1>4, <2>2 DEF Reschedule
    <3>2. \A n \in Message : Held(n)' => Held(n)
      BY <1>4 DEF Held, Busy
    <3>3. Permits' \subseteq Permits
      BY <3>1, <3>2 DEF Permits
    <3> QED BY <3>1, <3>3, NoNewPermit
  <2> QED BY <1>4, <2>1, <2>2 DEF Reschedule, Withdrawable
<1>5. ASSUME NEW m \in Message, NEW t \in 0..MaxTime, Move(m, t)
      PROVE  Promise!Next
  BY <1>4, <1>5 DEF Move
<1>6. ASSUME NEW m \in Message, NEW s \in Sender, SendNow(m, s)
      PROVE  Promise!Next
  <2>1. \A u \in Sender : pc'[u] \in Busy \/ pc[u] \in Busy => pc'[u] = pc[u]
    BY <1>6 DEF SendNow, Busy
  <2> QED BY <1>4, <1>6, <2>1 DEF SendNow
<1>7. ASSUME UNCHANGED <<approvals, transmitted>>,
             \A m \in Message : state'[m] = "scheduled" => state[m] = "scheduled",
             \A s \in Sender : pc'[s] \in {"lookup", "submit"} =>
               hand'[s] \in Permits
      PROVE  Promise!Next
  <2>1. Permits' \subseteq Permits
    BY <1>7 DEF Permits, Held
  <2> QED BY <1>7, <2>1, NoNewPermit
<1>8. \A s \in Sender : pc[s] \in {"lookup", "submit"} => hand[s] \in Permits
  BY DEF Permits, Held, HandIsBusy, Busy
<1>9. ASSUME (\E m \in Message : Cancel(m) \/ ServerTakes(m))
               \/ (\E a \in Account : RemoveAccount(a)) \/ Open \/ Tick
      PROVE  Promise!Next
  <2>1. UNCHANGED <<pc, hand, approvals, transmitted>>
    BY <1>9 DEF Cancel, ServerTakes, RemoveAccount, Open, Tick
  <2>2. \A m \in Message : state'[m] = "scheduled" => state[m] = "scheduled"
    BY <1>9 DEF Cancel, ServerTakes, RemoveAccount, Open, Recovered, Tick
  <2> QED BY <2>1, <2>2, <1>7, <1>8
<1>10. CASE Close
  <2>1. /\ UNCHANGED <<state, approvals, transmitted>>
        /\ \A s \in Sender : pc'[s] \notin {"lookup", "submit"}
    BY <1>10 DEF Close
  <2> QED BY <2>1, <1>7
<1>11. ASSUME NEW s \in Sender, NEW m \in Message, Claim(s, m)
       PROVE  Promise!Next
  <2>1. m \in Permits
    BY <1>11 DEF Claim, Permits
  <2>2. \A n \in Message : state'[n] = "scheduled" => state[n] = "scheduled"
    BY <1>11 DEF Claim
  <2>3. \A u \in Sender : pc'[u] \in {"lookup", "submit"} => hand'[u] \in Permits
    BY <1>11, <1>8, <2>1 DEF Claim
  <2>4. UNCHANGED <<approvals, transmitted>>
    BY <1>11 DEF Claim
  <2> QED BY <2>2, <2>3, <2>4, <1>7
<1>12. ASSUME NEW s \in Sender,
              ReadDue(s) \/ EndPass(s) \/ Lookup(s) \/ Refused(s) \/ StoreError(s)
                \/ (\E m \in Message : Skip(s, m))
                \/ RecordSent(s) \/ RecordFailed(s) \/ GiveUp(s)
       PROVE  Promise!Next
  <2> USE DEF ReadDue, EndPass, Lookup, Refused, StoreError, Skip, RecordSent,
              RecordFailed, GiveUp, Settle, Record
  <2>1. UNCHANGED <<approvals, transmitted>>
    BY <1>12
  <2>2. \A n \in Message : state'[n] = "scheduled" => state[n] = "scheduled"
    BY <1>12
  <2>3. \A u \in Sender : pc'[u] \in {"lookup", "submit"} =>
          pc[u] \in {"lookup", "submit"} /\ hand'[u] = hand[u]
    BY <1>12
  <2> QED BY <2>1, <2>2, <2>3, <1>7, <1>8
<1> QED
  BY <1>2, <1>3, <1>5, <1>6, <1>9, <1>10, <1>11, <1>12 DEF Next, Person, SendDue

(* The outbox - table, threads, crashes and a server that may not answer - *)
(* implements its promise: each approval is used for one transmission at   *)
(* most, and only a person gives another.                                  *)
THEOREM Implements == Spec => ImplementsPromise
<1>1. Init => Promise!Init
  <2> SUFFICES ASSUME Init PROVE Promise!Init
    OBVIOUS
  <2>1. Permits = {}
    BY DEF Init, Permits, Held
  <2> QED BY <2>1 DEF Init, Promise!Init
<1>2. IInv /\ [Next]_vars => [Promise!Next]_(Promise!promise)
  <2>1. UNCHANGED vars => UNCHANGED Promise!promise
    BY DEF Promise!promise, Permits, Held
  <2> QED BY <2>1, StepImplements
<1> QED BY <1>1, <1>2, Invariant, PTL DEF Spec, Promise!Spec, ImplementsPromise

=============================================================================
