------------------------------- MODULE Letters -------------------------------
(***************************************************************************)
(* Letters on paper: one document a person posts through LetterXpress,     *)
(* perhaps more than once; the ledger of what went (table letter); asking  *)
(* after a letter and taking it back; and its record in the Sent folder    *)
(* (table letter_filed), filed when it goes or by a later sync.            *)
(*                                                                         *)
(* LetterXpress may take a letter and not be heard, the store may refuse   *)
(* to be written, the window may close; nothing is recovered at the next   *)
(* start.  A letter costs money and cannot be unposted.                    *)
(***************************************************************************)
EXTENDS Integers

CONSTANTS
  MaxLetters,  (* bound: letters begun                                     *)
  Sync,        (* threads that run a sync of the account                   *)
  None,        (* no letter in hand                                        *)
  MaxFaults    (* bound: lost answers, failed store calls, closed windows  *)

Letter == 1..MaxLetters
Status == {"draft", "queue", "done", "canceled"}
Filer  == Letter \cup Sync   (* send_letter files its own letter           *)

ASSUME LetterAssumption ==
  /\ MaxLetters \in Nat /\ MaxFaults \in Nat
  /\ Sync \cap Letter = {} /\ None \notin Letter

VARIABLES
  (* The store.                                                            *)
  state, mode, (* of each letter                                           *)
  known,       (* letters with a job_id                                    *)
  filed,       (* letter_filed                                             *)
  (* The window.                                                           *)
  quote,       (* the sheet's quote, and whether it named earlier letters  *)
  canSend,     (* its Send button                                          *)
  post,        (* send_letter, for each letter                             *)
  inquiry, takeback,          (* refresh_letter, cancel_letter             *)
  step, list, hand,           (* each filer                                *)
  (* Outside.                                                              *)
  job,         (* the letter at LetterXpress                               *)
  copies,      (* records in Sent                                          *)
  (* History.                                                              *)
  warned,      (* letters begun from a quote that named earlier ones       *)
  unheard,     (* letters reported as an error though LetterXpress may     *)
               (* have them                                                *)
  abandoned,   (* letters claimed by a filing that ended without a release *)
  unanswered,  (* APPENDs done and not answered                            *)
  faults

ledger  == <<state, mode, known>>
sheet   == <<quote, canSend>>
asking  == <<inquiry, takeback>>
filing  == <<filed, step, list, hand, copies, unanswered>>
history == <<warned, unheard, abandoned>>
vars    == <<ledger, sheet, asking, filing, history, post, job, faults>>

Mode == {"test", "live"}

TypeOK ==
  /\ state \in [Letter -> {"none", "sending", "sent", "failed", "cancelled"}]
  /\ mode \in [Letter -> Mode]
  /\ known \subseteq Letter
  /\ filed \subseteq Letter
  /\ quote \in {"none", "plain", "warned"}
  /\ canSend \in BOOLEAN
  /\ post \in [Letter -> {"idle", "asked", "answered", "failed", "filing"}]
  /\ inquiry \in [Letter -> {"idle", "open", "canceled"}]
  /\ takeback \in [Letter -> {"idle", "granted"}]
  /\ step \in [Filer -> {"idle", "append", "release"}]
  /\ list \in [Sync -> SUBSET Letter]
  /\ hand \in [Filer -> Letter \cup {None}]
  /\ job \in [Letter -> {"none", "coming"} \cup Status]
  /\ copies \in [Letter -> Nat]
  /\ warned \subseteq Letter
  /\ unheard \subseteq Letter
  /\ abandoned \subseteq Letter
  /\ unanswered \in [Letter -> Nat]
  /\ faults \in 0..MaxFaults

Init ==
  /\ state = [l \in Letter |-> "none"]
  /\ mode = [l \in Letter |-> "test"]
  /\ known = {}
  /\ filed = {}
  /\ quote = "none" /\ canSend = FALSE
  /\ post = [l \in Letter |-> "idle"]
  /\ inquiry = [l \in Letter |-> "idle"]
  /\ takeback = [l \in Letter |-> "idle"]
  /\ step = [f \in Filer |-> "idle"]
  /\ list = [s \in Sync |-> {}]
  /\ hand = [f \in Filer |-> None]
  /\ job = [l \in Letter |-> "none"]
  /\ copies = [l \in Letter |-> 0]
  /\ warned = {} /\ unheard = {} /\ abandoned = {}
  /\ unanswered = [l \in Letter |-> 0]
  /\ faults = 0

Fault == faults < MaxFaults /\ faults' = faults + 1

-----------------------------------------------------------------------------
(* The sheet, and send_letter.                                             *)

(* Mutant: the sheet counts only the letters LetterXpress has confirmed.   *)
ConfirmedBefore == \E l \in Letter : state[l] = "sent"

(* letters_of_document, as showQuote warns of it.                          *)
SentBefore == \E l \in Letter : state[l] \in {"sent", "sending"}

(* The sheet opens, or an option changes.  One closed unsent is one whose  *)
(* quote is not used.                                                      *)
Quote ==
  /\ quote' = IF SentBefore THEN "warned" ELSE "plain"
  /\ canSend' = TRUE
  /\ UNCHANGED <<ledger, asking, filing, history, post, job, faults>>

IsNext(l) == state[l] = "none" /\ \A k \in Letter : k < l => state[k] # "none"

(* The person confirms: the row is written before LetterXpress is asked,   *)
(* in the mode of the setting, which is one or the other at the time.      *)
Begin(l) ==
  /\ IsNext(l)
  /\ quote # "none" /\ canSend
  /\ canSend' = FALSE
  /\ state' = [state EXCEPT ![l] = "sending"]
  /\ \E m \in Mode : mode' = [mode EXCEPT ![l] = m]
  /\ warned' = IF quote = "warned" THEN warned \cup {l} ELSE warned
  /\ post' = [post EXCEPT ![l] = "asked"]
  /\ UNCHANGED <<known, quote, asking, filing, unheard, abandoned, job, faults>>

(* A letter in test mode waits in the Postbox, one in live mode to be      *)
(* printed.                                                                *)
FirstStatus(l) == IF mode[l] = "live" THEN "queue" ELSE "draft"

Accepts(l) ==
  /\ post[l] = "asked"
  /\ job' = [job EXCEPT ![l] = FirstStatus(l)]
  /\ post' = [post EXCEPT ![l] = "answered"]
  /\ UNCHANGED <<ledger, sheet, asking, filing, history, faults>>

Refuses(l) ==
  /\ post[l] = "asked"
  /\ post' = [post EXCEPT ![l] = "failed"]
  /\ UNCHANGED <<ledger, sheet, asking, filing, history, job, faults>>

(* Sixty seconds pass, the connection breaks, or the answer makes no       *)
(* sense: LetterXpress may take the letter now, later or never.            *)
AnswerLost(l) ==
  /\ post[l] = "asked" /\ Fault
  /\ job' = [job EXCEPT ![l] = "coming"]
  /\ post' = [post EXCEPT ![l] = "failed"]
  /\ unheard' = unheard \cup {l}
  /\ UNCHANGED <<ledger, sheet, asking, filing, warned, abandoned>>

TakesLate(l) ==
  /\ job[l] = "coming"
  /\ job' = [job EXCEPT ![l] = FirstStatus(l)]
  /\ UNCHANGED <<ledger, sheet, asking, filing, history, post, faults>>

Prints(l) ==
  /\ job[l] = "queue"
  /\ job' = [job EXCEPT ![l] = "done"]
  /\ UNCHANGED <<ledger, sheet, asking, filing, history, post, faults>>

(* Mutant: what is said last counts.                                       *)
AsSaid(l, status) == IF status = "canceled" THEN "cancelled" ELSE "sent"

(* record_letter_job: a letter taken back stays so.                        *)
Recorded(l, status) ==
  IF state[l] = "cancelled" \/ status = "canceled" THEN "cancelled" ELSE "sent"

Records(l, status) ==
  /\ state' = [state EXCEPT ![l] = Recorded(l, status)]
  /\ known' = known \cup {l}

RecordPosted(l) ==
  /\ post[l] = "answered"
  /\ Records(l, "open")
  /\ post' = [post EXCEPT ![l] = "filing"]
  /\ UNCHANGED <<mode, sheet, asking, filing, history, job, faults>>

(* An error reaches the sheet, which keeps its quote and offers to send.   *)
Reports(l) ==
  /\ post' = [post EXCEPT ![l] = "idle"]
  /\ canSend' = (quote # "none")
  /\ UNCHANGED quote

RecordFailed(l) ==
  /\ post[l] = "failed"
  /\ state' = [state EXCEPT ![l] = "failed"]
  /\ Reports(l)
  /\ UNCHANGED <<mode, known, asking, filing, history, job, faults>>

(* The outcome cannot be written down: the row stays as it was begun.      *)
RecordLost(l) ==
  /\ post[l] \in {"answered", "failed"} /\ Fault
  /\ unheard' = IF post[l] = "answered" THEN unheard \cup {l} ELSE unheard
  /\ Reports(l)
  /\ UNCHANGED <<ledger, asking, filing, warned, abandoned, job>>

-----------------------------------------------------------------------------
(* refresh_letter and cancel_letter: what LetterXpress does and answers,   *)
(* and the answer written down some time later.  letter_job asks for a job *)
(* id; a card on screen may be older than the row.                         *)

(* Bound: one letter is asked about at a time; what is asked about         *)
(* another has no effect on it.                                            *)
OneAtATime(l) ==
  \A k \in Letter \ {l} : inquiry[k] = "idle" /\ takeback[k] = "idle"

(* Of the other answers only that they are another matters.                *)
Answer(status) == IF status = "canceled" THEN status ELSE "open"

AskAfter(l) ==
  /\ l \in known /\ inquiry[l] = "idle" /\ OneAtATime(l)
  /\ inquiry' = [inquiry EXCEPT ![l] = Answer(job[l])]
  /\ UNCHANGED <<ledger, sheet, takeback, filing, history, post, job, faults>>

RecordSaid(l) ==
  /\ inquiry[l] # "idle"
  /\ Records(l, inquiry[l])
  /\ inquiry' = [inquiry EXCEPT ![l] = "idle"]
  /\ UNCHANGED <<mode, sheet, takeback, filing, history, post, job, faults>>

(* LetterXpress lets a job go that is not printed yet.                     *)
MayGo(l) == job[l] \in {"queue", "draft"}

(* Mutant: a no is taken for a yes.                                        *)
TakenForGranted(l) ==
  /\ l \in known /\ takeback[l] = "idle" /\ OneAtATime(l)
  /\ takeback' = [takeback EXCEPT ![l] = "granted"]
  /\ job' = [job EXCEPT ![l] = IF MayGo(l) THEN "canceled" ELSE @]
  /\ UNCHANGED <<ledger, sheet, inquiry, filing, history, post, faults>>

TakeBack(l) ==
  /\ l \in known /\ takeback[l] = "idle" /\ MayGo(l) /\ OneAtATime(l)
  /\ takeback' = [takeback EXCEPT ![l] = "granted"]
  /\ job' = [job EXCEPT ![l] = "canceled"]
  /\ UNCHANGED <<ledger, sheet, inquiry, filing, history, post, faults>>

RecordTakenBack(l) ==
  /\ takeback[l] = "granted"
  /\ state' = [state EXCEPT ![l] = "cancelled"]
  /\ takeback' = [takeback EXCEPT ![l] = "idle"]
  /\ UNCHANGED <<mode, known, sheet, inquiry, filing, history,
                 post, job, faults>>

(* Its answer is lost, or cannot be written down.                          *)
CommandFails(l) ==
  /\ Fault
  /\ \/ /\ inquiry[l] # "idle"
        /\ inquiry' = [inquiry EXCEPT ![l] = "idle"]
        /\ UNCHANGED takeback
     \/ /\ takeback[l] # "idle"
        /\ takeback' = [takeback EXCEPT ![l] = "idle"]
        /\ UNCHANGED inquiry
  /\ UNCHANGED <<ledger, sheet, filing, history, post, job>>

-----------------------------------------------------------------------------
(* Filing the record: file_letter for the letter just posted, file_letters *)
(* for what an account owes.                                               *)

Owed(l) == mode[l] = "live" /\ state[l] = "sent"

(* Mutant: whoever wants to file a letter may.                             *)
MayAlways(l) == TRUE

(* claim_letter_filing: INSERT OR IGNORE, for the one caller that may.     *)
MayClaim(l) == l \notin filed

Takes(f, l) ==
  /\ filed' = filed \cup {l}
  /\ hand' = [hand EXCEPT ![f] = l]
  /\ step' = [step EXCEPT ![f] = "append"]

(* send_letter returns, and the sheet closes.                              *)
Returns(f) == IF f \in Letter THEN quote' = "none" /\ canSend' = FALSE ELSE UNCHANGED sheet

(* The letter just posted.                                                 *)
FileOne(l) ==
  /\ post[l] = "filing"
  /\ post' = [post EXCEPT ![l] = "idle"]
  /\ IF Owed(l) /\ MayClaim(l)
     THEN Takes(l, l) /\ UNCHANGED sheet
     ELSE Returns(l) /\ UNCHANGED <<filed, hand, step>>
  /\ UNCHANGED <<ledger, asking, list, copies, unanswered, history, job, faults>>

(* letters_to_file, read once.                                             *)
FileOwed(s) ==
  /\ step[s] = "idle" /\ list[s] = {}
  /\ list' = [list EXCEPT ![s] = {l \in Letter \ filed : Owed(l)}]
  /\ UNCHANGED <<ledger, sheet, asking, filed, step, hand, copies, unanswered,
                 history, post, job, faults>>

Oldest(s, l) == l \in list[s] /\ \A k \in list[s] : l <= k

Claim(s) ==
  /\ step[s] = "idle"
  /\ \E l \in Letter :
       /\ Oldest(s, l)
       /\ list' = [list EXCEPT ![s] = @ \ {l}]
       /\ IF MayClaim(l) THEN Takes(s, l) ELSE UNCHANGED <<filed, hand, step>>
  /\ UNCHANGED <<ledger, sheet, asking, copies, unanswered, history, post, job, faults>>

Appends(f) ==
  /\ step[f] = "append"
  /\ copies' = [copies EXCEPT ![hand[f]] = @ + 1]
  /\ hand' = [hand EXCEPT ![f] = None]
  /\ step' = [step EXCEPT ![f] = "idle"]
  /\ Returns(f)
  /\ UNCHANGED <<ledger, asking, filed, list, unanswered, history, post, job, faults>>

(* The message cannot be built, the server refuses it, or it is there and  *)
(* the answer is not.                                                      *)
AppendFails(f) ==
  /\ step[f] = "append" /\ Fault
  /\ \/ UNCHANGED <<copies, unanswered>>
     \/ /\ copies' = [copies EXCEPT ![hand[f]] = @ + 1]
        /\ unanswered' = [unanswered EXCEPT ![hand[f]] = @ + 1]
  /\ step' = [step EXCEPT ![f] = "release"]
  /\ UNCHANGED <<ledger, sheet, asking, filed, list, hand, history, post, job>>

(* Mutant: a filing that failed is not given back.                         *)
KeptClaim(f) == filed

GivenBack(f) == filed \ {hand[f]}

(* The claim is given back, or that fails too; the rest of the list waits  *)
(* for another sync.                                                       *)
Release(f) ==
  /\ step[f] = "release"
  /\ \/ filed' = GivenBack(f) /\ UNCHANGED <<abandoned, faults>>
     \/ /\ Fault
        /\ abandoned' = abandoned \cup {hand[f]}
        /\ UNCHANGED filed
  /\ hand' = [hand EXCEPT ![f] = None]
  /\ list' = [s \in Sync |-> IF s = f THEN {} ELSE list[s]]
  /\ step' = [step EXCEPT ![f] = "idle"]
  /\ Returns(f)
  /\ UNCHANGED <<ledger, asking, copies, unanswered, warned, unheard, post, job>>

(* The window closes and is opened again: every thread ends where it is,   *)
(* and what was on its way may still arrive.                               *)
Close ==
  /\ Fault
  /\ quote' = "none" /\ canSend' = FALSE
  /\ job' = [l \in Letter |->
       IF post[l] = "asked" /\ job[l] = "none" THEN "coming" ELSE job[l]]
  /\ post' = [l \in Letter |-> "idle"]
  /\ inquiry' = [l \in Letter |-> "idle"]
  /\ takeback' = [l \in Letter |-> "idle"]
  /\ step' = [f \in Filer |-> "idle"]
  /\ list' = [s \in Sync |-> {}]
  /\ hand' = [f \in Filer |-> None]
  /\ abandoned' = abandoned \cup {hand[f] : f \in {g \in Filer : step[g] # "idle"}}
  /\ UNCHANGED <<ledger, filed, copies, unanswered, warned, unheard>>

-----------------------------------------------------------------------------
Posting(l) ==
  \/ Begin(l) \/ Accepts(l) \/ Refuses(l) \/ AnswerLost(l)
  \/ RecordPosted(l) \/ RecordFailed(l) \/ RecordLost(l)

Asking(l) ==
  \/ AskAfter(l) \/ RecordSaid(l) \/ TakeBack(l) \/ RecordTakenBack(l)
  \/ CommandFails(l)

Filing(f) == Appends(f) \/ AppendFails(f) \/ Release(f)

Next ==
  \/ Quote \/ Close
  \/ \E l \in Letter : Posting(l) \/ Asking(l) \/ TakesLate(l) \/ Prints(l) \/ FileOne(l)
  \/ \E s \in Sync : FileOwed(s) \/ Claim(s)
  \/ \E f \in Filer : Filing(f)

Spec == Init /\ [][Next]_vars

(* A sync comes round every five minutes, and a filing is answered or      *)
(* given up.                                                               *)
FairSpec ==
  /\ Spec
  /\ \A s \in Sync : WF_vars(FileOwed(s) \/ Claim(s))
  /\ \A f \in Filer : WF_vars(Filing(f))
  /\ \A l \in Letter : WF_vars(FileOne(l))
-----------------------------------------------------------------------------
(* Properties.                                                             *)

(* "A letter taken back stays cancelled whatever is said later": a row     *)
(* that says so is right, LetterXpress will not print the letter, however  *)
(* taking it back crosses with asking after it.                            *)
TakenBackIsNotPrinted == \A l \in Letter : state[l] = "cancelled" => job[l] = "canceled"

(* ... and none that was taken back is said to be on its way again.        *)
TakenBackStays ==
  [][\A l \in Letter : state[l] = "cancelled" => state'[l] = "cancelled"]_vars

Printing(l) == job[l] \in {"queue", "done"}

(* "Letters already sent from this document, so posting it twice is a      *)
(* choice and not an accident": a second letter that is printed was        *)
(* confirmed from a quote that named an earlier one.                       *)
TwiceIsAChoice ==
  \A k, l \in Letter : k < l /\ Printing(k) /\ Printing(l) => l \in warned

(* The same, but for letters of which the person was told that they        *)
(* failed: closing the window, an answer still to come, a quote asked for  *)
(* meanwhile make no accident.                                             *)
TwiceIsAChoiceIfHeard ==
  \A k, l \in Letter : k < l /\ Printing(k) /\ Printing(l) =>
     l \in warned \/ k \in unheard

(* "Two filings at once, or one after the other, leave one message in      *)
(* Sent": the posting thread, a sync, and the sync after it; except for an *)
(* APPEND whose answer was lost, which each may leave one more.            *)
FiledOnce == \A l \in Letter : copies[l] <= 1 + unanswered[l]

(* "A letter in test mode was never printed, and has no record": what is   *)
(* in Sent was taken by LetterXpress to be printed.                        *)
RecordIsOfPosted ==
  \A l \in Letter : copies[l] > 0 =>
     mode[l] = "live" /\ job[l] \in {"queue", "done", "canceled"}

(* "A record that could not be filed is filed after a later sync", unless  *)
(* the letter is taken back first, or a filing stopped between its claim   *)
(* and the release, which "leaves one unfiled rather than doubled".        *)
RecordIsFiled ==
  \A l \in Letter :
     Owed(l) ~> (copies[l] > 0 \/ l \in abandoned \/ ~Owed(l))
=============================================================================
