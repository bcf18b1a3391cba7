--------------------------- MODULE LettersProofs ---------------------------
(***************************************************************************)
(* What can be said of letters for certain, for any number of letters, of  *)
(* syncs and of faults: one taken back is not printed and stays so, a      *)
(* second printing is somebody's choice, each letter has one record, and   *)
(* only what LetterXpress took to print has one.                           *)
(*                                                                         *)
(* None of it is inductive.  LedgerOK relates the ledger to what           *)
(* LetterXpress has; FilingOK says whose a letter is while it is filed;    *)
(* SheetOK is why a sheet that was not warned can send only when no letter *)
(* before may be printed without the person's knowing (Harmless).          *)
(***************************************************************************)
EXTENDS Letters, TLAPS

Early(l) == post[l] \in {"asked", "answered", "failed"}

LedgerOK ==
  \A l \in Letter :
    /\ state[l] = "none" => job[l] = "none" /\ post[l] = "idle" /\ l \notin known
    /\ Early(l) => state[l] = "sending" /\ l \notin known
    /\ post[l] = "asked" => job[l] = "none"
    /\ post[l] = "answered" \/ l \in known => job[l] \in Status
    /\ mode[l] = "live" => job[l] # "draft"
    /\ state[l] = "cancelled" \/ inquiry[l] = "canceled" \/ takeback[l] = "granted" =>
         job[l] = "canceled"
    /\ inquiry[l] # "idle" \/ takeback[l] # "idle" \/ state[l] \in {"sent", "cancelled"} =>
         l \in known
    /\ state[l] = "failed" \/ post[l] = "failed" => job[l] = "none" \/ l \in unheard

Files(f, l) == step[f] # "idle" /\ hand[f] = l

FilingOK ==
  /\ \A f \in Filer : step[f] # "idle" => hand[f] \in Letter /\ hand[f] \in filed
  /\ \A f, g \in Filer :
       step[f] # "idle" /\ step[g] # "idle" /\ hand[f] = hand[g] => f = g
  /\ \A l \in Letter :
       /\ l \notin filed \/ (\E f \in Filer : Files(f, l)) => copies[l] <= unanswered[l]
       /\ copies[l] <= 1 + unanswered[l]

(* A letter that has a record or may get one, and what that takes.         *)
Concerned(l) ==
  \/ copies[l] > 0
  \/ \E s \in Sync : l \in list[s]
  \/ \E f \in Filer : Files(f, l)

Recordable(l) ==
  mode[l] = "live" /\ job[l] \in {"queue", "done", "canceled"} /\ l \in known

RecordOK == \A l \in Letter : Concerned(l) => Recordable(l)

(* A letter that will not be printed, or that the person was told failed.  *)
Harmless(l) == ~Early(l) /\ (l \in unheard \/ job[l] \in {"none", "canceled"})

SheetOK ==
  /\ quote = "plain" /\ canSend => \A l \in Letter : Harmless(l)
  /\ quote = "plain" => \A k, l \in Letter : Harmless(k) \/ Harmless(l) \/ k = l
  /\ \A k, l \in Letter : k < l /\ state[l] # "none" =>
       state[k] # "none" /\ (l \in warned \/ Harmless(k))

IInv == TypeOK /\ LedgerOK /\ FilingOK /\ RecordOK /\ SheetOK

-----------------------------------------------------------------------------
LEMMA TypeStep ==
  ASSUME TypeOK, FilingOK, [Next]_vars
  PROVE  TypeOK'
<1> USE LetterAssumption DEF TypeOK
<1>0. MaxFaults \in Nat /\ (Fault => faults' \in 0..MaxFaults)
  BY DEF Fault
<1>1. CASE Quote
  BY <1>1 DEF Quote, ledger, asking, filing, history
<1>2. CASE Close
  <2>1. {hand[f] : f \in {g \in Filer : step[g] # "idle"}} \subseteq Letter
    BY DEF FilingOK
  <2> QED
    BY <1>0, <1>2, <2>1 DEF Close, ledger
<1>3. ASSUME NEW l \in Letter, Posting(l)
      PROVE  TypeOK'
  <2>1. CASE Begin(l)
    <3>1. /\ mode' \in [Letter -> Mode]
          /\ state' \in [Letter -> {"none", "sending", "sent", "failed", "cancelled"}]
          /\ post' \in [Letter -> {"idle", "asked", "answered", "failed", "filing"}]
      BY <2>1 DEF Begin
    <3>2. warned' \subseteq Letter
      BY <2>1 DEF Begin
    <3> QED
      BY <2>1, <3>1, <3>2 DEF Begin, asking, filing
  <2>2. CASE Accepts(l)
    BY <2>2 DEF Accepts, FirstStatus, Status, ledger, sheet, asking, filing, history
  <2>3. CASE Refuses(l)
    BY <2>3 DEF Refuses, ledger, sheet, asking, filing, history
  <2>4. CASE AnswerLost(l)
    BY <1>0, <2>4 DEF AnswerLost, ledger, sheet, asking, filing
  <2>5. CASE RecordPosted(l)
    BY <2>5 DEF RecordPosted, Records, Recorded, sheet, asking, filing, history
  <2>6. CASE RecordFailed(l)
    BY <2>6 DEF RecordFailed, Reports, asking, filing, history
  <2>7. CASE RecordLost(l)
    BY <1>0, <2>7 DEF RecordLost, Reports, ledger, asking, filing
  <2> QED
    BY <1>3, <2>1, <2>2, <2>3, <2>4, <2>5, <2>6, <2>7 DEF Posting
<1>4. ASSUME NEW l \in Letter, Asking(l)
      PROVE  TypeOK'
  <2>1. CASE AskAfter(l)
    BY <2>1 DEF AskAfter, Answer, ledger, sheet, filing, history
  <2>2. CASE RecordSaid(l)
    BY <2>2 DEF RecordSaid, Records, Recorded, sheet, filing, history
  <2>3. CASE TakeBack(l)
    BY <2>3 DEF TakeBack, Status, ledger, sheet, filing, history
  <2>4. CASE RecordTakenBack(l)
    BY <2>4 DEF RecordTakenBack, sheet, filing, history
  <2>5. CASE CommandFails(l)
    BY <1>0, <2>5 DEF CommandFails, ledger, sheet, filing, history
  <2> QED
    BY <1>4, <2>1, <2>2, <2>3, <2>4, <2>5 DEF Asking
<1>5. ASSUME NEW l \in Letter, TakesLate(l) \/ Prints(l)
      PROVE  TypeOK'
  BY <1>5 DEF TakesLate, Prints, FirstStatus, Status, ledger, sheet, asking, filing, history
<1>6. ASSUME NEW l \in Letter, FileOne(l)
      PROVE  TypeOK'
  <2>1. /\ filed' \subseteq Letter
        /\ hand' \in [Filer -> Letter \cup {None}]
        /\ step' \in [Filer -> {"idle", "append", "release"}]
    BY <1>6 DEF FileOne, Takes, Filer
  <2>2. /\ quote' \in {"none", "plain", "warned"} /\ canSend' \in BOOLEAN
        /\ post' \in [Letter -> {"idle", "asked", "answered", "failed", "filing"}]
    BY <1>6 DEF FileOne, Returns, sheet
  <2> QED
    BY <1>6, <2>1, <2>2 DEF FileOne, ledger, asking, history
<1>7. ASSUME NEW s \in Sync, FileOwed(s) \/ Claim(s)
      PROVE  TypeOK'
  <2>1. CASE FileOwed(s)
    BY <2>1 DEF FileOwed, ledger, sheet, asking, history
  <2>2. CASE Claim(s)
    <3>1. list' \in [Sync -> SUBSET Letter]
      BY <2>2 DEF Claim
    <3>2. /\ filed' \subseteq Letter
          /\ hand' \in [Filer -> Letter \cup {None}]
          /\ step' \in [Filer -> {"idle", "append", "release"}]
      BY <2>2 DEF Claim, Takes
    <3> QED
      BY <2>2, <3>1, <3>2 DEF Claim, ledger, sheet, asking, history
  <2> QED
    BY <1>7, <2>1, <2>2
<1>8. ASSUME NEW f \in Filer, Filing(f)
      PROVE  TypeOK'
  <2>1. hand[f] \in Letter
    BY <1>8 DEF FilingOK, Filing, Appends, AppendFails, Release
  <2>2. CASE Appends(f)
    <3>1. quote' \in {"none", "plain", "warned"} /\ canSend' \in BOOLEAN
      BY <2>2 DEF Appends, Returns, sheet
    <3>2. copies' \in [Letter -> Nat]
      BY <2>1, <2>2 DEF Appends
    <3> QED
      BY <2>2, <3>1, <3>2 DEF Appends, ledger, asking, history
  <2>3. CASE AppendFails(f)
    BY <1>0, <2>1, <2>3 DEF AppendFails, ledger, sheet, asking, history
  <2>4. CASE Release(f)
    BY <1>0, <2>1, <2>4 DEF Release, GivenBack, Returns, Filer, ledger, sheet, asking
  <2> QED
    BY <1>8, <2>2, <2>3, <2>4 DEF Filing
<1>9. CASE UNCHANGED vars
  BY <1>9 DEF vars, ledger, sheet, asking, filing, history
<1> QED
  BY <1>1, <1>2, <1>3, <1>4, <1>5, <1>6, <1>7, <1>8, <1>9 DEF Next

-----------------------------------------------------------------------------
LEMMA LedgerStep ==
  ASSUME TypeOK, LedgerOK, [Next]_vars
  PROVE  LedgerOK'
<1> USE DEF LedgerOK, Early
<1>1. CASE UNCHANGED <<ledger, asking, post, job, unheard>>
  BY <1>1 DEF ledger, asking
<1>2. CASE Close
  BY <1>2 DEF Close, ledger, TypeOK, Status
<1>3. ASSUME NEW l \in Letter, Posting(l)
      PROVE  LedgerOK'
  <2>1. CASE Begin(l)
    BY <2>1 DEF Begin, IsNext, asking, TypeOK
  <2>2. CASE Accepts(l)
    BY <2>2 DEF Accepts, FirstStatus, Status, ledger, asking, history, TypeOK
  <2>3. CASE Refuses(l)
    BY <2>3 DEF Refuses, ledger, asking, history, TypeOK
  <2>4. CASE AnswerLost(l)
    BY <2>4 DEF AnswerLost, ledger, asking, TypeOK, Status
  <2>5. CASE RecordPosted(l)
    BY <2>5 DEF RecordPosted, Records, Recorded, asking, history, TypeOK
  <2>6. CASE RecordFailed(l)
    BY <2>6 DEF RecordFailed, Reports, asking, history, TypeOK
  <2>7. CASE RecordLost(l)
    BY <2>7 DEF RecordLost, Reports, ledger, asking, TypeOK
  <2> QED
    BY <1>3, <2>1, <2>2, <2>3, <2>4, <2>5, <2>6, <2>7 DEF Posting
<1>4. ASSUME NEW l \in Letter, Asking(l)
      PROVE  LedgerOK'
  <2>1. CASE AskAfter(l)
    BY <2>1 DEF AskAfter, Answer, ledger, history, TypeOK
  <2>2. CASE RecordSaid(l)
    BY <2>2 DEF RecordSaid, Records, Recorded, history, TypeOK
  <2>3. CASE TakeBack(l)
    BY <2>3 DEF TakeBack, Status, ledger, history, TypeOK
  <2>4. CASE RecordTakenBack(l)
    BY <2>4 DEF RecordTakenBack, history, TypeOK
  <2>5. CASE CommandFails(l)
    BY <2>5 DEF CommandFails, ledger, history, TypeOK
  <2> QED
    BY <1>4, <2>1, <2>2, <2>3, <2>4, <2>5 DEF Asking
<1>5. ASSUME NEW l \in Letter, TakesLate(l) \/ Prints(l)
      PROVE  LedgerOK'
  BY <1>5 DEF TakesLate, Prints, FirstStatus, Status, ledger, asking, history, TypeOK
<1>6. ASSUME NEW l \in Letter, FileOne(l)
      PROVE  LedgerOK'
  BY <1>6 DEF FileOne, ledger, asking, history, TypeOK
<1>7. ASSUME NEW s \in Sync, FileOwed(s) \/ Claim(s)
      PROVE  LedgerOK'
  BY <1>1, <1>7 DEF FileOwed, Claim, history
<1>8. ASSUME NEW f \in Filer, Filing(f)
      PROVE  LedgerOK'
  BY <1>1, <1>8 DEF Filing, Appends, AppendFails, Release, history
<1>9. CASE Quote
  BY <1>1, <1>9 DEF Quote, history
<1>10. CASE UNCHANGED vars
  BY <1>1, <1>10 DEF vars, history
<1> QED
  BY <1>2, <1>3, <1>4, <1>5, <1>6, <1>7, <1>8, <1>9, <1>10 DEF Next

-----------------------------------------------------------------------------
(* A filer takes a letter nobody has filed or is filing.                   *)
LEMMA TakesStep ==
  ASSUME TypeOK, FilingOK, NEW f \in Filer, NEW l \in Letter,
         l \notin filed, Takes(f, l), UNCHANGED <<copies, unanswered>>
  PROVE  FilingOK'
<1>1. /\ filed' = filed \cup {l}
      /\ hand'[f] = l /\ \A g \in Filer \ {f} : hand'[g] = hand[g]
      /\ step'[f] = "append" /\ \A g \in Filer \ {f} : step'[g] = step[g]
  BY DEF Takes, TypeOK
<1>2. \A g \in Filer : step'[g] # "idle" => hand'[g] \in Letter /\ hand'[g] \in filed'
  BY <1>1 DEF FilingOK
<1>3. \A g, h \in Filer :
        step'[g] # "idle" /\ step'[h] # "idle" /\ hand'[g] = hand'[h] => g = h
  BY <1>1 DEF FilingOK
<1>4. ASSUME NEW k \in Letter
      PROVE  /\ k \notin filed' \/ (\E g \in Filer : Files(g, k)') => copies'[k] <= unanswered'[k]
             /\ copies'[k] <= 1 + unanswered'[k]
  <2>1. CASE k = l
    <3>1. copies[k] <= unanswered[k] /\ copies[k] \in Nat /\ unanswered[k] \in Nat
      BY <2>1 DEF FilingOK, TypeOK
    <3> QED
      BY <3>1
  <2>2. CASE k # l
    <3>1. \A g \in Filer : Files(g, k)' => Files(g, k)
      BY <1>1, <2>2 DEF Files
    <3> QED
      BY <1>1, <2>2, <3>1 DEF FilingOK
  <2> QED
    BY <2>1, <2>2
<1> QED
  BY <1>2, <1>3, <1>4 DEF FilingOK

(* A filer that is done with a letter, or may file it again.               *)
LEMMA FilingStep ==
  ASSUME TypeOK, FilingOK, [Next]_vars
  PROVE  FilingOK'
<1> USE LetterAssumption
<1>1. CASE UNCHANGED <<filed, step, hand, copies, unanswered>>
  BY <1>1 DEF FilingOK, Files
<1>2. CASE Close
  BY <1>2 DEF Close, FilingOK, Files
<1>3. ASSUME NEW l \in Letter, FileOne(l)
      PROVE  FilingOK'
  <2>1. CASE Owed(l) /\ MayClaim(l)
    BY <1>3, <2>1, TakesStep DEF FileOne, MayClaim, Filer
  <2>2. CASE ~(Owed(l) /\ MayClaim(l))
    BY <1>1, <1>3, <2>2 DEF FileOne
  <2> QED
    BY <2>1, <2>2
<1>4. ASSUME NEW s \in Sync, Claim(s)
      PROVE  FilingOK'
  <2>1. PICK l \in Letter : IF MayClaim(l) THEN Takes(s, l) ELSE UNCHANGED <<filed, hand, step>>
    BY <1>4 DEF Claim
  <2>2. UNCHANGED <<copies, unanswered>>
    BY <1>4 DEF Claim
  <2>3. CASE MayClaim(l)
    BY <2>1, <2>2, <2>3, TakesStep DEF MayClaim, Filer
  <2>4. CASE ~MayClaim(l)
    BY <1>1, <2>1, <2>2, <2>4
  <2> QED
    BY <2>3, <2>4
<1>5. ASSUME NEW f \in Filer, Filing(f)
      PROVE  FilingOK'
  <2> DEFINE h == hand[f]
  <2>1. /\ step[f] # "idle" /\ h \in Letter /\ h \in filed
        /\ copies[h] <= unanswered[h] /\ copies[h] \in Nat /\ unanswered[h] \in Nat
        /\ \A g \in Filer : Files(g, h) => g = f
    BY <1>5 DEF Filing, Appends, AppendFails, Release, FilingOK, Files, TypeOK
  <2>2. ASSUME NEW k \in Letter \ {h}
        PROVE  copies'[k] = copies[k] /\ unanswered'[k] = unanswered[k]
    BY <1>5 DEF Filing, Appends, AppendFails, Release, TypeOK
  <2>3. \A g \in Filer \ {f} : step'[g] = step[g] /\ hand'[g] = hand[g]
    BY <1>5 DEF Filing, Appends, AppendFails, Release, TypeOK
  <2>4. CASE Appends(f)
    <3>1. /\ filed' = filed /\ step'[f] = "idle"
          /\ copies'[h] <= 1 + unanswered'[h]
      BY <2>1, <2>4 DEF Appends, TypeOK
    <3>2. \A g \in Filer, k \in Letter : Files(g, k)' => Files(g, k) /\ k # h
      BY <2>1, <2>3, <3>1 DEF Files
    <3> QED
      BY <2>1, <2>2, <2>3, <3>1, <3>2 DEF FilingOK
  <2>5. CASE AppendFails(f)
    <3>1. /\ filed' = filed /\ hand' = hand /\ step' = [step EXCEPT ![f] = "release"]
          /\ copies'[h] <= unanswered'[h] /\ unanswered'[h] \in Nat /\ copies'[h] \in Nat
      BY <2>1, <2>5 DEF AppendFails, TypeOK
    <3>2. \A g \in Filer : step'[g] # "idle" <=> step[g] # "idle"
      BY <2>1, <3>1 DEF TypeOK
    <3>3. \A g \in Filer, k \in Letter : Files(g, k)' <=> Files(g, k)
      BY <3>1, <3>2 DEF Files
    <3>4. ASSUME NEW k \in Letter
          PROVE  /\ k \notin filed' \/ (\E g \in Filer : Files(g, k)') => copies'[k] <= unanswered'[k]
                 /\ copies'[k] <= 1 + unanswered'[k]
      BY <2>2, <3>1, <3>3 DEF FilingOK
    <3> QED
      BY <3>1, <3>2, <3>4 DEF FilingOK
  <2>6. CASE Release(f)
    <3>1. /\ filed' = filed \/ filed' = filed \ {h}
          /\ step'[f] = "idle" /\ UNCHANGED <<copies, unanswered>>
      BY <2>6 DEF Release, GivenBack, TypeOK
    <3>2. \A g \in Filer, k \in Letter : Files(g, k)' => Files(g, k) /\ k # h
      BY <2>1, <2>3, <3>1 DEF Files
    <3>3. \A g \in Filer : step'[g] # "idle" => hand'[g] \in Letter /\ hand'[g] \in filed'
      BY <2>1, <2>3, <3>1 DEF FilingOK, Files
    <3>4. ASSUME NEW k \in Letter
          PROVE  /\ k \notin filed' \/ (\E g \in Filer : Files(g, k)') => copies'[k] <= unanswered'[k]
                 /\ copies'[k] <= 1 + unanswered'[k]
      <4>1. k \notin filed' => k \notin filed \/ k = h
        BY <3>1
      <4> QED
        BY <2>1, <3>1, <3>2, <4>1 DEF FilingOK
    <3> QED
      BY <2>3, <3>1, <3>3, <3>4 DEF FilingOK
  <2> QED
    BY <1>5, <2>4, <2>5, <2>6 DEF Filing
<1>6. ASSUME NEW l \in Letter, Posting(l)
      PROVE  FilingOK'
  BY <1>1, <1>6 DEF Posting, Begin, Accepts, Refuses, AnswerLost, RecordPosted,
                    RecordFailed, RecordLost, filing
<1>7. ASSUME NEW l \in Letter, Asking(l) \/ TakesLate(l) \/ Prints(l)
      PROVE  FilingOK'
  BY <1>1, <1>7 DEF Asking, AskAfter, RecordSaid, TakeBack, RecordTakenBack,
                    CommandFails, TakesLate, Prints, filing
<1>8. CASE Quote \/ (\E s \in Sync : FileOwed(s)) \/ UNCHANGED vars
  BY <1>1, <1>8 DEF Quote, FileOwed, vars, filing
<1> QED
  BY <1>2, <1>3, <1>4, <1>5, <1>6, <1>7, <1>8 DEF Next

-----------------------------------------------------------------------------
(* A letter that can have a record always can, ...                         *)
LEMMA RecordableStays ==
  ASSUME TypeOK, LedgerOK, [Next]_vars, NEW k \in Letter, Recordable(k)
  PROVE  Recordable(k)'
<1> USE DEF Recordable, LedgerOK, Early
<1>1. CASE UNCHANGED <<mode, job>> /\ known \subseteq known'
  BY <1>1
<1>2. CASE Close
  BY <1>2 DEF Close, ledger, TypeOK
<1>3. ASSUME NEW l \in Letter, Posting(l)
      PROVE  Recordable(k)'
  <2>1. CASE Begin(l)
    BY <2>1 DEF Begin, IsNext, TypeOK
  <2>2. CASE Accepts(l)
    BY <2>2 DEF Accepts, FirstStatus, ledger, TypeOK
  <2>3. CASE Refuses(l) \/ RecordLost(l)
    BY <1>1, <2>3 DEF Refuses, RecordLost, ledger
  <2>4. CASE AnswerLost(l)
    BY <2>4 DEF AnswerLost, ledger, TypeOK
  <2>5. CASE RecordPosted(l)
    BY <1>1, <2>5 DEF RecordPosted, Records
  <2>6. CASE RecordFailed(l)
    BY <1>1, <2>6 DEF RecordFailed
  <2> QED
    BY <1>3, <2>1, <2>2, <2>3, <2>4, <2>5, <2>6 DEF Posting
<1>4. ASSUME NEW l \in Letter, Asking(l)
      PROVE  Recordable(k)'
  <2>1. CASE TakeBack(l)
    BY <2>1 DEF TakeBack, ledger, TypeOK
  <2>2. CASE AskAfter(l) \/ RecordSaid(l) \/ RecordTakenBack(l) \/ CommandFails(l)
    BY <1>1, <2>2 DEF AskAfter, RecordSaid, Records, RecordTakenBack, CommandFails, ledger
  <2> QED
    BY <1>4, <2>1, <2>2 DEF Asking
<1>5. ASSUME NEW l \in Letter, TakesLate(l) \/ Prints(l)
      PROVE  Recordable(k)'
  BY <1>5 DEF TakesLate, Prints, FirstStatus, ledger, TypeOK
<1>6. CASE \/ \E l \in Letter : FileOne(l)
           \/ \E s \in Sync : FileOwed(s) \/ Claim(s)
           \/ \E f \in Filer : Filing(f)
  BY <1>1, <1>6 DEF FileOne, FileOwed, Claim, Filing, Appends, AppendFails, Release, ledger
<1>7. CASE Quote \/ UNCHANGED vars
  BY <1>1, <1>7 DEF Quote, vars, ledger
<1> QED
  BY <1>2, <1>3, <1>4, <1>5, <1>6, <1>7 DEF Next

(* ... and one that is to be filed can.                                    *)
LEMMA OwedIsRecordable ==
  ASSUME LedgerOK, NEW l \in Letter, Owed(l)
  PROVE  Recordable(l)
BY DEF LedgerOK, Owed, Recordable, Status

LEMMA RecordStep ==
  ASSUME TypeOK, LedgerOK, FilingOK, RecordOK, [Next]_vars
  PROVE  RecordOK'
<1> USE LetterAssumption
<1> SUFFICES ASSUME NEW k \in Letter, Concerned(k)'
             PROVE  Recordable(k)'
  BY DEF RecordOK
<1>0. Concerned(k) \/ Recordable(k) => Recordable(k)'
  BY RecordableStays DEF RecordOK
<1>1. CASE UNCHANGED <<copies, list, step, hand>>
  BY <1>0, <1>1 DEF Concerned, Files
<1>2. CASE Close
  BY <1>0, <1>2 DEF Close, Concerned, Files
<1>3. ASSUME NEW l \in Letter, FileOne(l)
      PROVE  Recordable(k)'
  <2>1. \/ Owed(l) /\ Takes(l, l)
        \/ UNCHANGED <<step, hand>>
    BY <1>3 DEF FileOne
  <2>2. UNCHANGED <<copies, list>>
    BY <1>3 DEF FileOne
  <2>3. Owed(l) /\ k = l => Recordable(k)
    BY OwedIsRecordable
  <2>4. CASE Owed(l) /\ Takes(l, l)
    <3>1. \A g \in Filer : Files(g, k)' => Files(g, k) \/ k = l
      BY <2>4 DEF Takes, Files, TypeOK
    <3> QED
      BY <1>0, <2>2, <2>3, <2>4, <3>1 DEF Concerned
  <2> QED
    BY <1>1, <2>1, <2>2, <2>4
<1>4. ASSUME NEW s \in Sync, FileOwed(s)
      PROVE  Recordable(k)'
  <2>1. list' = [list EXCEPT ![s] = {l \in Letter \ filed : Owed(l)}]
        /\ UNCHANGED <<copies, step, hand>>
    BY <1>4 DEF FileOwed
  <2>2. Owed(k) => Recordable(k)
    BY OwedIsRecordable
  <2>3. \A u \in Sync : k \in list'[u] => k \in list[u] \/ Owed(k)
    BY <2>1 DEF TypeOK
  <2> QED
    BY <1>0, <2>1, <2>2, <2>3 DEF Concerned, Files
<1>5. ASSUME NEW s \in Sync, Claim(s)
      PROVE  Recordable(k)'
  <2>1. PICK l \in Letter :
          /\ l \in list[s]
          /\ list' = [list EXCEPT ![s] = @ \ {l}]
          /\ Takes(s, l) \/ UNCHANGED <<hand, step>>
    BY <1>5 DEF Claim, Oldest
  <2>2. UNCHANGED copies
    BY <1>5 DEF Claim
  <2>3. \A u \in Sync : k \in list'[u] => k \in list[u]
    BY <2>1 DEF TypeOK
  <2>4. \A g \in Filer : Files(g, k)' => Files(g, k) \/ k = l
    BY <2>1 DEF Takes, Files, TypeOK, Filer
  <2> QED
    BY <1>0, <2>1, <2>2, <2>3, <2>4 DEF Concerned
<1>6. ASSUME NEW f \in Filer, Filing(f)
      PROVE  Recordable(k)'
  <2>1. step[f] # "idle" /\ hand[f] \in Letter
    BY <1>6 DEF Filing, Appends, AppendFails, Release, FilingOK
  <2>2. copies'[k] = copies[k] \/ k = hand[f]
    BY <1>6, <2>1 DEF Filing, Appends, AppendFails, Release, TypeOK
  <2>3. \A s \in Sync : list'[s] \in {list[s], {}}
    BY <1>6 DEF Filing, Appends, AppendFails, Release
  <2>4. \A g \in Filer : Files(g, k)' => Files(g, k) \/ k = hand[f]
    BY <1>6, <2>1 DEF Filing, Appends, AppendFails, Release, Files, TypeOK
  <2> QED
    BY <1>0, <2>1, <2>2, <2>3, <2>4 DEF Concerned, Files
<1>7. ASSUME NEW l \in Letter, Posting(l)
      PROVE  Recordable(k)'
  BY <1>1, <1>7 DEF Posting, Begin, Accepts, Refuses, AnswerLost, RecordPosted,
                    RecordFailed, RecordLost, filing
<1>8. ASSUME NEW l \in Letter, Asking(l) \/ TakesLate(l) \/ Prints(l)
      PROVE  Recordable(k)'
  BY <1>1, <1>8 DEF Asking, AskAfter, RecordSaid, TakeBack, RecordTakenBack,
                    CommandFails, TakesLate, Prints, filing
<1>9. CASE Quote \/ UNCHANGED vars
  BY <1>1, <1>9 DEF Quote, vars, filing
<1> QED
  BY <1>2, <1>3, <1>4, <1>5, <1>6, <1>7, <1>8, <1>9 DEF Next

-----------------------------------------------------------------------------
(* But for a letter that begins, none becomes harmful that was not.        *)
LEMMA HarmlessStays ==
  ASSUME TypeOK, LedgerOK, [Next]_vars, NEW k \in Letter, Harmless(k), ~Begin(k)
  PROVE  Harmless(k)'
<1> USE DEF Harmless, LedgerOK, Early
<1>1. CASE UNCHANGED <<post, job>> /\ unheard \subseteq unheard'
  BY <1>1
<1>2. CASE Close
  BY <1>2 DEF Close, TypeOK
<1>3. ASSUME NEW l \in Letter, Posting(l)
      PROVE  Harmless(k)'
  <2>1. CASE Begin(l)
    <3>1. l # k
      BY ONLY <2>1, ~Begin(k)
    <3> QED
      BY <2>1, <3>1 DEF Begin, TypeOK
  <2>2. CASE Accepts(l)
    BY <2>2 DEF Accepts, history, TypeOK
  <2>3. CASE Refuses(l)
    BY <2>3 DEF Refuses, history, TypeOK
  <2>4. CASE AnswerLost(l)
    BY <2>4 DEF AnswerLost, TypeOK
  <2>5. CASE RecordPosted(l)
    BY <2>5 DEF RecordPosted, history, TypeOK
  <2>6. CASE RecordFailed(l)
    BY <2>6 DEF RecordFailed, Reports, history, TypeOK
  <2>7. CASE RecordLost(l)
    BY <2>7 DEF RecordLost, Reports, TypeOK
  <2> QED
    BY <1>3, <2>1, <2>2, <2>3, <2>4, <2>5, <2>6, <2>7 DEF Posting
<1>4. ASSUME NEW l \in Letter, Asking(l)
      PROVE  Harmless(k)'
  <2>1. CASE TakeBack(l)
    BY <2>1 DEF TakeBack, history, TypeOK
  <2>2. CASE AskAfter(l) \/ RecordSaid(l) \/ RecordTakenBack(l) \/ CommandFails(l)
    BY <1>1, <2>2 DEF AskAfter, RecordSaid, RecordTakenBack, CommandFails, history
  <2> QED
    BY <1>4, <2>1, <2>2 DEF Asking
<1>5. ASSUME NEW l \in Letter, TakesLate(l) \/ Prints(l)
      PROVE  Harmless(k)'
  BY <1>5 DEF TakesLate, Prints, history, TypeOK
<1>6. ASSUME NEW l \in Letter, FileOne(l)
      PROVE  Harmless(k)'
  BY <1>6 DEF FileOne, history, TypeOK
<1>7. CASE \/ \E s \in Sync : FileOwed(s) \/ Claim(s)
           \/ \E f \in Filer : Filing(f)
  BY <1>1, <1>7 DEF FileOwed, Claim, Filing, Appends, AppendFails, Release, history
<1>8. CASE Quote \/ UNCHANGED vars
  BY <1>1, <1>8 DEF Quote, vars, history
<1> QED
  BY <1>2, <1>3, <1>4, <1>5, <1>6, <1>7, <1>8 DEF Next

(* Which letters there are only a beginning changes.                       *)
LEMMA BegunStays ==
  ASSUME TypeOK, LedgerOK, [Next]_vars, \A l \in Letter : ~Begin(l)
  PROVE  /\ \A k \in Letter : state'[k] = "none" <=> state[k] = "none"
         /\ warned' = warned
<1> USE DEF LedgerOK, Early
<1>1. CASE UNCHANGED <<state, warned>>
  BY <1>1
<1>2. ASSUME NEW l \in Letter, Posting(l)
      PROVE  /\ \A k \in Letter : state'[k] = "none" <=> state[k] = "none"
             /\ warned' = warned
  <2>1. CASE RecordPosted(l)
    BY <2>1 DEF RecordPosted, Records, Recorded, history, TypeOK
  <2>2. CASE RecordFailed(l)
    BY <2>2 DEF RecordFailed, history, TypeOK
  <2>3. CASE Accepts(l) \/ Refuses(l) \/ AnswerLost(l) \/ RecordLost(l)
    BY <1>1, <2>3 DEF Accepts, Refuses, AnswerLost, RecordLost, ledger, history
  <2> QED
    BY <1>2, <2>1, <2>2, <2>3 DEF Posting
<1>3. ASSUME NEW l \in Letter, Asking(l)
      PROVE  /\ \A k \in Letter : state'[k] = "none" <=> state[k] = "none"
             /\ warned' = warned
  <2>1. CASE RecordSaid(l)
    BY <2>1 DEF RecordSaid, Records, Recorded, history, TypeOK
  <2>2. CASE RecordTakenBack(l)
    BY <2>2 DEF RecordTakenBack, history, TypeOK
  <2>3. CASE AskAfter(l) \/ TakeBack(l) \/ CommandFails(l)
    BY <1>1, <2>3 DEF AskAfter, TakeBack, CommandFails, ledger, history
  <2> QED
    BY <1>3, <2>1, <2>2, <2>3 DEF Asking
<1>4. CASE Quote \/ Close \/ UNCHANGED vars
  BY <1>1, <1>4 DEF Quote, Close, vars, ledger, history
<1>5. CASE \/ \E l \in Letter : TakesLate(l) \/ Prints(l) \/ FileOne(l)
           \/ \E s \in Sync : FileOwed(s) \/ Claim(s)
           \/ \E f \in Filer : Filing(f)
  BY <1>1, <1>5 DEF TakesLate, Prints, FileOne, FileOwed, Claim, Filing, Appends,
                    AppendFails, Release, ledger, history
<1> QED
  BY <1>2, <1>3, <1>4, <1>5 DEF Next

LEMMA SheetStep ==
  ASSUME TypeOK, LedgerOK, SheetOK, [Next]_vars
  PROVE  SheetOK'
<1> USE LetterAssumption
<1>1. ASSUME NEW l \in Letter, Begin(l)
      PROVE  SheetOK'
  <2>1. /\ quote' = quote /\ canSend' = FALSE /\ quote # "none" /\ canSend
        /\ state[l] = "none" /\ state' = [state EXCEPT ![l] = "sending"]
        /\ \A k \in Letter : k < l => state[k] # "none"
        /\ warned' = IF quote = "warned" THEN warned \cup {l} ELSE warned
    BY <1>1 DEF Begin, IsNext
  <2>2. \A k \in Letter \ {l} : ~Begin(k) \/ post'[k] = post[k]
    BY <1>1 DEF Begin, TypeOK
  <2>3. \A k \in Letter \ {l} : Harmless(k) => Harmless(k)'
    BY <1>1 DEF Begin, Harmless, Early, TypeOK
  <2>4. quote \in {"plain", "warned"}
    BY <2>1 DEF TypeOK
  <2>5. quote = "plain" => \A k \in Letter : Harmless(k)
    BY <2>1 DEF SheetOK
  <2>6. ASSUME NEW k \in Letter, NEW m \in Letter, k < m, state'[m] # "none"
        PROVE  state'[k] # "none" /\ (m \in warned' \/ Harmless(k)')
    <3>1. CASE m = l
      BY <2>1, <2>3, <2>4, <2>5, <2>6, <3>1 DEF TypeOK
    <3>2. CASE m # l
      <4>1. state[m] # "none" /\ state[k] # "none" /\ (m \in warned \/ Harmless(k))
        BY <2>1, <2>6, <3>2 DEF TypeOK, SheetOK
      <4>2. k # l
        BY <2>1, <4>1
      <4> QED
        BY <2>1, <2>3, <4>1, <4>2 DEF TypeOK
    <3> QED
      BY <3>1, <3>2
  <2>7. quote' = "plain" => \A k, m \in Letter : Harmless(k)' \/ Harmless(m)' \/ k = m
    BY <2>1, <2>3, <2>5
  <2> QED
    BY <2>1, <2>6, <2>7 DEF SheetOK
<1>2. CASE \A l \in Letter : ~Begin(l)
  <2>1. \A k \in Letter : Harmless(k) => Harmless(k)'
    BY <1>2, HarmlessStays
  <2>2. \A k, m \in Letter : k < m /\ state'[m] # "none" =>
          state'[k] # "none" /\ (m \in warned' \/ Harmless(k)')
    BY <1>2, <2>1, BegunStays DEF SheetOK
  <2>3. CASE (quote' = quote /\ (canSend' => canSend)) \/ quote' = "none"
    BY <2>1, <2>2, <2>3 DEF SheetOK
  <2>4. CASE Quote
    <3>1. quote' = "plain" => \A l \in Letter : Harmless(l)
      <4> SUFFICES ASSUME quote' = "plain", NEW l \in Letter PROVE Harmless(l)
        OBVIOUS
      <4>1. state[l] \notin {"sent", "sending"}
        BY <2>4 DEF Quote, SentBefore
      <4>2. state[l] \in {"none", "failed", "cancelled"}
        BY <4>1 DEF TypeOK
      <4> QED
        BY <4>1, <4>2 DEF LedgerOK, Harmless, Early
    <3> QED
      BY <2>1, <2>2, <3>1 DEF SheetOK
  <2>5. ASSUME NEW l \in Letter, RecordFailed(l) \/ RecordLost(l)
        PROVE  SheetOK'
    <3>1. quote' = quote /\ Early(l)
      BY <2>5 DEF RecordFailed, RecordLost, Reports, Early
    <3>2. Harmless(l)'
      <4>1. CASE RecordFailed(l)
        BY <4>1 DEF RecordFailed, Reports, LedgerOK, Harmless, Early, history, TypeOK
      <4>2. CASE RecordLost(l)
        BY <4>2 DEF RecordLost, Reports, LedgerOK, Harmless, Early, TypeOK
      <4> QED
        BY <2>5, <4>1, <4>2
    <3>3. ~Harmless(l)
      BY <3>1 DEF Harmless
    <3>4. quote = "plain" => \A k \in Letter \ {l} : Harmless(k)
      BY <3>3 DEF SheetOK
    <3> QED
      BY <2>1, <2>2, <3>1, <3>2, <3>4 DEF SheetOK
  <2>6. CASE Close
    BY <2>3, <2>6 DEF Close
  <2>7. ASSUME NEW l \in Letter, Posting(l), ~RecordFailed(l), ~RecordLost(l)
        PROVE  SheetOK'
    BY <1>2, <2>3, <2>7 DEF Posting, Accepts, Refuses, AnswerLost, RecordPosted, sheet
  <2>8. ASSUME NEW l \in Letter, Asking(l) \/ TakesLate(l) \/ Prints(l)
        PROVE  SheetOK'
    BY <2>3, <2>8 DEF Asking, AskAfter, RecordSaid, TakeBack, RecordTakenBack,
                      CommandFails, TakesLate, Prints, sheet
  <2>9. CASE \/ \E l \in Letter : FileOne(l)
             \/ \E s \in Sync : FileOwed(s) \/ Claim(s)
             \/ \E f \in Filer : Filing(f)
             \/ UNCHANGED vars
    BY <2>3, <2>9 DEF FileOne, FileOwed, Claim, Filing, Appends, AppendFails, Release,
                      Returns, vars, sheet
  <2> QED
    BY <2>4, <2>5, <2>6, <2>7, <2>8, <2>9 DEF Next
<1> QED
  BY <1>1, <1>2

-----------------------------------------------------------------------------
LEMMA InitIInv == Init => IInv
<1> SUFFICES ASSUME Init PROVE IInv
  OBVIOUS
<1> USE LetterAssumption DEF Init
<1>1. TypeOK
  <2>1. /\ state \in [Letter -> {"none", "sending", "sent", "failed", "cancelled"}]
        /\ mode \in [Letter -> Mode]
        /\ post \in [Letter -> {"idle", "asked", "answered", "failed", "filing"}]
        /\ inquiry \in [Letter -> {"idle", "open", "canceled"}]
        /\ takeback \in [Letter -> {"idle", "granted"}]
        /\ job \in [Letter -> {"none", "coming"} \cup Status]
    BY DEF Mode
  <2>2. /\ step \in [Filer -> {"idle", "append", "release"}]
        /\ list \in [Sync -> SUBSET Letter]
        /\ hand \in [Filer -> Letter \cup {None}]
        /\ copies \in [Letter -> Nat] /\ unanswered \in [Letter -> Nat]
    OBVIOUS
  <2>3. /\ known \subseteq Letter /\ filed \subseteq Letter /\ warned \subseteq Letter
        /\ unheard \subseteq Letter /\ abandoned \subseteq Letter
        /\ quote \in {"none", "plain", "warned"} /\ faults \in 0..MaxFaults
    OBVIOUS
  <2>4. canSend \in BOOLEAN
    OBVIOUS
  <2> QED
    BY ONLY <2>1, <2>2, <2>3, <2>4 DEF TypeOK
<1>2. LedgerOK /\ SheetOK
  BY DEF LedgerOK, SheetOK, Early, Harmless
<1>3. FilingOK /\ RecordOK
  BY DEF FilingOK, RecordOK, Concerned, Files
<1> QED
  BY <1>1, <1>2, <1>3 DEF IInv

LEMMA NextIInv == IInv /\ [Next]_vars => IInv'
BY TypeStep, LedgerStep, FilingStep, RecordStep, SheetStep DEF IInv

THEOREM Invariance == Spec => []IInv
BY InitIInv, NextIInv, PTL DEF Spec

(* Type correctness of the ledger, the window and the filing.              *)
THEOREM TypeCorrect == Spec => []TypeOK
<1>1. IInv => TypeOK
  BY DEF IInv
<1> QED
  BY <1>1, Invariance, PTL

(* A letter the ledger has as taken back will not be printed.              *)
THEOREM NotPrintedOnceTakenBack == Spec => []TakenBackIsNotPrinted
<1>1. IInv => TakenBackIsNotPrinted
  BY DEF IInv, LedgerOK, TakenBackIsNotPrinted
<1> QED
  BY <1>1, Invariance, PTL

(* Two are printed only by choice, or after an error was reported.         *)
THEOREM SecondIsChosen == Spec => []TwiceIsAChoiceIfHeard
<1>1. IInv => TwiceIsAChoiceIfHeard
  <2> SUFFICES ASSUME IInv, NEW k \in Letter, NEW l \in Letter,
                      k < l, Printing(k), Printing(l)
               PROVE  l \in warned \/ k \in unheard
    BY DEF TwiceIsAChoiceIfHeard
  <2>1. state[l] # "none"
    BY DEF IInv, LedgerOK, Printing
  <2>2. l \in warned \/ Harmless(k)
    BY <2>1 DEF IInv, SheetOK
  <2> QED
    BY <2>2 DEF Harmless, Printing
<1> QED
  BY <1>1, Invariance, PTL

(* One record of each letter, but for answers that were lost.              *)
THEOREM OneRecord == Spec => []FiledOnce
<1>1. IInv => FiledOnce
  BY DEF IInv, FilingOK, FiledOnce
<1> QED
  BY <1>1, Invariance, PTL

(* And of no letter that was not taken to be printed.                      *)
THEOREM NoOtherRecord == Spec => []RecordIsOfPosted
<1>1. IInv => RecordIsOfPosted
  BY DEF IInv, RecordOK, Concerned, Recordable, RecordIsOfPosted
<1> QED
  BY <1>1, Invariance, PTL

(* What was taken back is said to be on its way by no later step.          *)
THEOREM TakenBackForGood == Spec => TakenBackStays
<1> DEFINE Stay == \A l \in Letter : state[l] = "cancelled" => state'[l] = "cancelled"
<1>1. IInv /\ [Next]_vars => [Stay]_vars
  <2> SUFFICES ASSUME IInv, Next, NEW k \in Letter, state[k] = "cancelled"
               PROVE  state'[k] = "cancelled"
    OBVIOUS
  <2> USE DEF IInv, LedgerOK, Early, TypeOK
  <2>1. ASSUME NEW l \in Letter, Posting(l)
        PROVE  state'[k] = "cancelled"
    BY <2>1 DEF Posting, Begin, IsNext, Accepts, Refuses, AnswerLost, RecordPosted,
                Records, Recorded, RecordFailed, RecordLost, ledger
  <2>2. ASSUME NEW l \in Letter, Asking(l)
        PROVE  state'[k] = "cancelled"
    BY <2>2 DEF Asking, AskAfter, RecordSaid, Records, Recorded, TakeBack,
                RecordTakenBack, CommandFails, ledger
  <2>3. CASE \/ Quote \/ Close
             \/ \E l \in Letter : TakesLate(l) \/ Prints(l) \/ FileOne(l)
             \/ \E s \in Sync : FileOwed(s) \/ Claim(s)
             \/ \E f \in Filer : Filing(f)
    BY <2>3 DEF Quote, Close, TakesLate, Prints, FileOne, FileOwed, Claim, Filing,
                Appends, AppendFails, Release, ledger
  <2> QED
    BY <2>1, <2>2, <2>3 DEF Next
<1> QED
  BY <1>1, Invariance, PTL DEF Spec, TakenBackStays
=============================================================================
