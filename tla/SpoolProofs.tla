---------------------------- MODULE SpoolProofs ----------------------------
(***************************************************************************)
(* What the capture daemon does with the photographs of paper post, for    *)
(* any number of them and of power cuts: none is lost, none is in two      *)
(* documents, what was thrown away stays away, what was decided about a    *)
(* letter goes with it, what was taken back is gone.                       *)
(*                                                                         *)
(* None of these is inductive.  NothingLost is kept by the order of the    *)
(* steps: pages are removed only once their PDF is in the queue, a file is *)
(* cleared only once Paperless has it.  And a PDF may be renamed over one  *)
(* that a crash left with the same first page: nothing is lost by it       *)
(* because every page of the older one is then still in open/, or was      *)
(* thrown away.  The others rest on two facts about the files there are:   *)
(* they share no page but what a crash left twice, with each other or with *)
(* open/ (PagesOK), and no two that wait share a first page, so that       *)
(* nobody clears another's sidecars (NamesOK).                             *)
(***************************************************************************)
EXTENDS Spool, TLAPS, WellFoundedInduction

(* A set of numbers has a least one: what Min, and so file names, rest on. *)
Less == {ss \in Nat \X Nat : ss[1] < ss[2]}

LEMMA LessIsWellFounded == IsWellFoundedOn(Less, Nat)
BY NatLessThanWellFounded DEF OpToRel, Less

LEMMA LeastPage ==
  ASSUME NEW S \in SUBSET Nat, S # {}
  PROVE  Min(S) \in S /\ \A y \in S : Min(S) <= y
<1>1. \E x \in S : \A y \in S : ~(<<y, x>> \in Less)
  BY LessIsWellFounded, WFMin
<1>2. \A x, y \in Nat : <<y, x>> \in Less <=> y < x
  BY DEF Less
<1>3. \E x \in S : \A y \in S : x <= y
  <2>1. PICK x \in S : \A y \in S : ~(<<y, x>> \in Less)
    BY <1>1
  <2>2. \A y \in S : ~(y < x)
    BY <1>2, <2>1
  <2> QED
    BY <2>2
<1> QED
  BY <1>3 DEF Min

----------------------------------------------------------------------------
Taken == 1..taken

PlacesOK ==
  /\ taken \in Nat
  /\ open \subseteq Taken
  /\ aside \subseteq Taken
  /\ keep \in Nat
  /\ open \cap aside = {}

(* A PDF has no page that could not go into it; anything else is one page. *)
QueueOK ==
  \A f \in queue :
    /\ f.kind \in {"jpg", "pdf"}
    /\ f.pages \subseteq Taken /\ f.pages # {}
    /\ f.kind = "pdf" => f.pages \cap bad = {}
    /\ f.kind = "jpg" => \E p \in Nat : f.pages = {p}

(* The PDF is in the queue while its pages are removed, and nothing else   *)
(* is in open/; Paperless has the file that is being cleared.              *)
OrderOK ==
  /\ at = "removing" => letter \in queue /\ open \subseteq letter.pages
  /\ at = "clearing" => letter \in paper

(* Only a PDF whose pages are all accounted for can be renamed over, and   *)
(* no PDF holds a page that is set aside.                                  *)
RenameOK ==
  \A f \in queue : f.kind = "pdf" =>
    /\ Stem(f) \in open => f.pages \subseteq open \cup discarded
    /\ f.pages \cap aside = {}

Inv == PlacesOK /\ QueueOK /\ OrderOK /\ RenameOK /\ NothingLost

LEMMA StemOf ==
  ASSUME PlacesOK, QueueOK, NEW f \in queue
  PROVE  Stem(f) \in f.pages /\ \A y \in f.pages : Stem(f) <= y
BY LeastPage DEF PlacesOK, QueueOK, Stem, Taken

LEMMA Start == Init => Inv
BY DEF Init, Inv, PlacesOK, QueueOK, OrderOK, RenameOK, NothingLost, Taken, PagesOf

(* Steps that move no page: sending, failing, waiting, asking, restarting. *)
LEMMA NothingMoves ==
  ASSUME Inv, UNCHANGED <<taken, bad, open, aside, queue, discarded>>,
         paper \subseteq paper', keep' \in Nat,
         at' = "removing" => UNCHANGED <<at, letter>>,
         at' = "clearing" => letter' \in paper'
  PROVE  Inv'
<1>1. PlacesOK' /\ QueueOK' /\ RenameOK'
  BY DEF Inv, PlacesOK, QueueOK, RenameOK, Taken, Stem
<1>2. OrderOK'
  BY DEF Inv, OrderOK
<1>3. PagesOf(paper) \subseteq PagesOf(paper)'
  BY DEF PagesOf
<1>4. NothingLost'
  BY <1>3 DEF Inv, NothingLost, PagesOf
<1> QED
  BY <1>1, <1>2, <1>4 DEF Inv

LEMMA Sending ==
  ASSUME Inv, \/ DrainDue \/ RetryAll \/ Sent \/ SendFailed \/ AnswerLost \/ DrainEnds
              \/ CloseIfDue \/ QueueNothing \/ CancelLetter \/ Restart \/ Crash
              \/ \E s \in Page : BecomesDue(s)
              \/ \E x \in filings : GiveUp(x)
  PROVE  Inv'
<1>1. keep \in Nat
  BY DEF Inv, PlacesOK
<1>2. CASE DrainDue \/ RetryAll
  BY <1>2, <1>1, NothingMoves
  DEF DrainDue, RetryAll, StartDrain, disk, paperless, ghosts
<1>3. CASE Sent
  BY <1>3, <1>1, NothingMoves DEF Sent, Filed, disk, ghosts
<1>4. CASE SendFailed
  BY <1>4, <1>1, NothingMoves DEF SendFailed, Failed, paperless, ghosts
<1>5. CASE AnswerLost
  BY <1>5, <1>1, NothingMoves DEF AnswerLost, Failed, Filed
<1>6. CASE DrainEnds \/ CloseIfDue \/ QueueNothing \/ CancelLetter \/ Restart
  BY <1>6, <1>1, NothingMoves
  DEF DrainEnds, CloseIfDue, QueueNothing, CancelLetter, Restart, disk, paperless, ghosts
<1>7. CASE Crash
  BY <1>7, NothingMoves DEF Crash, disk, paperless
<1>8. CASE \E s \in Page : BecomesDue(s)
  <2>1. /\ UNCHANGED <<taken, bad, open, aside, queue, discarded>>
        /\ UNCHANGED <<paper, at, keep, letter>>
    BY <1>8 DEF BecomesDue, paperless, memory
  <2> QED
    BY <2>1, <1>1, NothingMoves DEF Inv, OrderOK
<1>9. CASE \E x \in filings : GiveUp(x)
  BY <1>9, <1>1, NothingMoves DEF GiveUp, disk, paperless
<1> QED
  BY <1>2, <1>3, <1>4, <1>5, <1>6, <1>7, <1>8, <1>9
----------------------------------------------------------------------------
(* Photographs. *)

LEMMA Photographs ==
  ASSUME Inv, \/ PhotographPage \/ PhotographSingle \/ PhotographTable \/ PhotographEnvelope
  PROVE  Inv'
<1> USE DEF Inv
<1>1. /\ taken' = taken + 1 /\ taken' \in Nat
      /\ Taken' = Taken \cup {taken'} /\ taken' \notin Taken
      /\ at = "idle"
  BY DEF PhotographPage, PhotographSingle, PhotographTable, PhotographEnvelope, PlacesOK, Taken
<1>2. taken' \notin open \cup aside /\ \A f \in queue : taken' \notin f.pages
  BY <1>1 DEF PlacesOK, QueueOK
<1>3. \A f \in queue : Stem(f) # taken'
  BY <1>2, StemOf
<1>4. CASE PhotographPage
  <2>1. PlacesOK'
    BY <1>4, <1>1, <1>2 DEF PhotographPage, PlacesOK
  <2>2. QueueOK'
    BY <1>4, <1>1, <1>2 DEF PhotographPage, QueueOK
  <2>3. OrderOK'
    BY <1>4, <1>1 DEF PhotographPage, OrderOK
  <2>4. RenameOK'
    BY <1>4, <1>1, <1>3 DEF PhotographPage, RenameOK, Stem
  <2>5. NothingLost'
    BY <1>4, <1>1 DEF PhotographPage, NothingLost, Taken, PagesOf, paperless
  <2> QED
    BY <2>1, <2>2, <2>3, <2>4, <2>5
<1>5. CASE PhotographSingle
  <2> DEFINE page == [kind |-> "jpg", pages |-> {taken'}]
  <2>1. queue' = queue \cup {page} /\ page.kind = "jpg" /\ page.pages = {taken'}
    BY <1>5 DEF PhotographSingle
  <2>2. PlacesOK'
    BY <1>5, <1>1 DEF PhotographSingle, PlacesOK
  <2>3. QueueOK'
    BY <1>5, <1>1, <2>1 DEF PhotographSingle, QueueOK
  <2>4. OrderOK'
    BY <1>5 DEF PhotographSingle, OrderOK
  <2>5. RenameOK'
    BY <1>5, <2>1 DEF PhotographSingle, RenameOK, Stem
  <2>6. PagesOf(queue)' = PagesOf(queue) \cup {taken'}
    BY <2>1 DEF PagesOf
  <2>7. NothingLost'
    BY <1>5, <1>1, <2>6 DEF PhotographSingle, NothingLost, Taken, PagesOf, paperless
  <2> QED
    BY <2>2, <2>3, <2>4, <2>5, <2>7
<1>6. CASE PhotographTable
  <2>1. PlacesOK' /\ OrderOK'
    BY <1>6, <1>1 DEF PhotographTable, PlacesOK, OrderOK, memory, paperless
  <2>2. QueueOK'
    BY <1>6, <1>1 DEF PhotographTable, QueueOK
  <2>3. RenameOK'
    BY <1>6 DEF PhotographTable, RenameOK, Stem
  <2>4. NothingLost'
    BY <1>6, <1>1 DEF PhotographTable, NothingLost, Taken, PagesOf, paperless
  <2> QED
    BY <2>1, <2>2, <2>3, <2>4
<1>7. CASE PhotographEnvelope
  <2>1. PlacesOK' /\ OrderOK'
    BY <1>7, <1>1, <1>2 DEF PhotographEnvelope, PlacesOK, OrderOK
  <2>2. QueueOK'
    BY <1>7, <1>1 DEF PhotographEnvelope, QueueOK
  <2>3. RenameOK'
    BY <1>7, <1>2 DEF PhotographEnvelope, RenameOK, Stem
  <2>4. NothingLost'
    BY <1>7, <1>1 DEF PhotographEnvelope, NothingLost, Taken, PagesOf, paperless
  <2> QED
    BY <2>1, <2>2, <2>3, <2>4
<1> QED
  BY <1>4, <1>5, <1>6, <1>7
----------------------------------------------------------------------------
(* Closing a letter. *)

LEMMA BadPageQueued ==
  ASSUME Inv, QueueBadPage
  PROVE  Inv'
<1> USE DEF Inv
<1> DEFINE p == Min(open \cap bad)
           page == [kind |-> "jpg", pages |-> {p}]
<1>1. p \in open /\ p \in bad /\ p \in Nat
  <2>1. open \subseteq Nat
    BY DEF PlacesOK, Taken
  <2>2. open \cap bad # {}
    BY DEF QueueBadPage
  <2>3. open \cap bad \in SUBSET Nat
    BY <2>1
  <2>4. p \in open \cap bad
    BY <2>2, <2>3, LeastPage
  <2> QED
    BY <2>1, <2>4
<1>2. /\ open' = open \ {p} /\ queue' = Committed(page) /\ at = "closing"
      /\ UNCHANGED <<taken, bad, aside, discarded, paper, at, keep, letter>>
  BY DEF QueueBadPage, paperless, memory
<1>3. page.kind = "jpg" /\ page.pages = {p}
  OBVIOUS
<1> HIDE DEF p, page
<1>4. \A g \in queue' : g \in queue \/ g = page
  BY <1>2 DEF Committed
<1>5. PlacesOK'
  BY <1>1, <1>2 DEF PlacesOK, Taken
<1>6. QueueOK'
  BY <1>1, <1>2, <1>3, <1>4 DEF QueueOK, PlacesOK, Taken
<1>7. OrderOK'
  BY <1>2 DEF OrderOK
<1>8. RenameOK'
  <2> SUFFICES ASSUME NEW f \in queue', f.kind = "pdf"
               PROVE  /\ Stem(f) \in open' => f.pages \subseteq open' \cup discarded'
                      /\ f.pages \cap aside' = {}
    BY DEF RenameOK, Stem
  <2>1. f \in queue
    BY <1>3, <1>4
  <2>2. p \notin f.pages
    BY <2>1, <1>1 DEF QueueOK
  <2> QED
    BY <2>1, <2>2, <1>2 DEF RenameOK
(* A file of that name is this very page, queued before. *)
<1>9. \A g \in queue : g \in queue' \/ g.pages = {p}
  <2> SUFFICES ASSUME NEW g \in queue, g \notin queue'
               PROVE  g.pages = {p}
    OBVIOUS
  <2>1. Name(g) = Name(page)
    BY <1>2 DEF Committed
  <2>2. g.kind = "jpg" /\ Stem(g) = Stem(page)
    BY <2>1, <1>3 DEF Name
  <2>3. Stem(page) = p
    BY <1>1, <1>3, LeastPage DEF Stem
  <2>4. Stem(g) \in g.pages
    BY StemOf
  <2> QED
    BY <2>2, <2>3, <2>4 DEF QueueOK
<1>10. PagesOf(queue) \cup {p} \subseteq PagesOf(queue)'
  <2>1. page \in queue'
    BY <1>2 DEF Committed
  <2> QED
    BY <2>1, <1>3, <1>9 DEF PagesOf
<1>11. NothingLost'
  BY <1>2, <1>10 DEF NothingLost, PagesOf
<1> QED
  BY <1>5, <1>6, <1>7, <1>8, <1>11

LEMMA LetterQueued ==
  ASSUME Inv, QueueLetter
  PROVE  Inv'
<1> USE DEF Inv
<1>1. /\ open # {} /\ open \cap bad = {}
      /\ letter'.kind = "pdf" /\ letter'.pages = open
      /\ queue' = Committed(letter') /\ at' = "removing"
      /\ UNCHANGED <<taken, bad, open, aside, discarded, paper, keep>>
  BY DEF QueueLetter, paperless
<1>2. letter' \in queue' /\ \A g \in queue' : g \in queue \/ g = letter'
  BY <1>1 DEF Committed
<1>3. PlacesOK' /\ OrderOK'
  BY <1>1, <1>2 DEF PlacesOK, OrderOK, Taken
<1>4. QueueOK'
  BY <1>1, <1>2 DEF QueueOK, PlacesOK, Taken
<1>5. RenameOK'
  <2> SUFFICES ASSUME NEW f \in queue', f.kind = "pdf"
               PROVE  /\ Stem(f) \in open => f.pages \subseteq open \cup discarded
                      /\ f.pages \cap aside = {}
    BY <1>1 DEF RenameOK, Stem
  <2>1. CASE f \in queue
    BY <2>1 DEF RenameOK
  <2>2. CASE f = letter'
    BY <2>2, <1>1 DEF PlacesOK
  <2> QED
    BY <2>1, <2>2, <1>2
(* What was renamed over had its first page in open/, so all of its pages. *)
<1>6. \A g \in queue : g \in queue' \/ g.pages \subseteq open \cup discarded
  <2> SUFFICES ASSUME NEW g \in queue, g \notin queue'
               PROVE  g.pages \subseteq open \cup discarded
    OBVIOUS
  <2>1. Name(g) = Name(letter')
    BY <1>1 DEF Committed
  <2>2. g.kind = "pdf" /\ Stem(g) = Stem(letter')
    BY <2>1, <1>1 DEF Name
  <2>3. Stem(letter') \in open
    BY <1>1, LeastPage DEF Stem, PlacesOK, Taken
  <2> QED
    BY <2>2, <2>3 DEF RenameOK
<1>7. PagesOf(queue) \subseteq PagesOf(queue)' \cup open \cup discarded
  BY <1>6 DEF PagesOf
<1>8. NothingLost'
  BY <1>1, <1>7 DEF NothingLost, PagesOf
<1> QED
  BY <1>3, <1>4, <1>5, <1>8

LEMMA PageRemoved ==
  ASSUME Inv, RemovePage
  PROVE  Inv'
<1> USE DEF Inv
<1>1. /\ at = "removing"
      /\ UNCHANGED <<taken, bad, aside, queue, discarded, paper, keep, letter>>
  BY DEF RemovePage, paperless
<1>2. letter \in queue /\ open \subseteq letter.pages /\ open \cap letter.pages = open
  BY <1>1 DEF OrderOK
<1>3. CASE open = {}
  <2>1. at' = "closed" /\ UNCHANGED open
    BY <1>3, <1>2 DEF RemovePage
  <2> QED
    BY <2>1, <1>1, NothingMoves DEF PlacesOK
<1>4. CASE open # {}
  <2> DEFINE p == Min(open)
  <2>1. open' = open \ {p} /\ at' = at
    BY <1>4, <1>2 DEF RemovePage
  <2>2. p \in open /\ p \in Nat /\ \A y \in open : y \in Nat /\ p <= y
    <3>1. open \in SUBSET Nat
      BY DEF PlacesOK, Taken
    <3>2. p \in open /\ \A y \in open : p <= y
      BY <1>4, <3>1, LeastPage
    <3> QED
      BY <3>1, <3>2
  <2> HIDE DEF p
  <2>3. PlacesOK' /\ QueueOK' /\ OrderOK'
    BY <1>1, <1>2, <2>1 DEF PlacesOK, QueueOK, OrderOK, Taken
  <2>4. RenameOK'
    <3> SUFFICES ASSUME NEW f \in queue, f.kind = "pdf", Stem(f) \in open'
                 PROVE  f.pages \subseteq open' \cup discarded
      BY <1>1 DEF RenameOK, Stem
    <3>1. Stem(f) \in open /\ Stem(f) # p
      BY <2>1
    <3>2. Stem(f) \in f.pages /\ \A y \in f.pages : Stem(f) <= y
      BY StemOf
    <3>3. p \notin f.pages
      <4>1. Stem(f) \in Nat /\ p <= Stem(f)
        BY <3>1, <2>2
      <4>2. p \in f.pages => Stem(f) <= p
        BY <3>2
      <4>3. Stem(f) <= p => Stem(f) = p
        BY <4>1, <2>2, SMT
      <4> QED
        BY <3>1, <4>2, <4>3
    <3> QED
      BY <3>1, <3>3, <2>1 DEF RenameOK
  <2>5. p \in PagesOf(queue)
    BY <1>2, <2>2 DEF PagesOf
  <2>6. NothingLost'
    BY <1>1, <2>1, <2>5 DEF NothingLost, PagesOf
  <2> QED
    BY <2>3, <2>4, <2>6
<1> QED
  BY <1>3, <1>4

LEMMA EnvelopeBack ==
  ASSUME Inv, PutBack
  PROVE  Inv'
<1> USE DEF Inv
<1>1. /\ keep \in aside /\ aside' = aside \ {keep} /\ open' = open \cup {keep}
      /\ at = "closed" /\ at' = "closed"
      /\ UNCHANGED <<taken, bad, queue, discarded, paper, keep>>
  BY DEF PutBack, paperless, memory
<1>2. PlacesOK' /\ QueueOK' /\ OrderOK'
  BY <1>1 DEF PlacesOK, QueueOK, OrderOK, Taken
<1>3. RenameOK'
  <2> SUFFICES ASSUME NEW f \in queue, f.kind = "pdf"
               PROVE  /\ Stem(f) \in open' => f.pages \subseteq open' \cup discarded
                      /\ f.pages \cap aside' = {}
    BY <1>1 DEF RenameOK, Stem
  <2>1. Stem(f) # keep
    BY <1>1, StemOf DEF RenameOK
  <2> QED
    BY <1>1, <2>1 DEF RenameOK
<1>4. NothingLost'
  BY <1>1 DEF NothingLost, PagesOf
<1> QED
  BY <1>2, <1>3, <1>4

----------------------------------------------------------------------------
(* Steps that throw away, clear or delete.                                 *)

LEMMA Removal ==
  ASSUME Inv, UNCHANGED <<taken, bad, aside>>, keep' \in Nat,
         at' # "removing", at' # "clearing",
         open' \subseteq open, open \subseteq open' \cup discarded',
         queue' \subseteq queue, discarded \subseteq discarded',
         \A f \in queue : f \in queue' \/ f.pages \subseteq PagesOf(paper)' \cup discarded',
         \A f \in paper : f \in paper' \/ f.pages \subseteq discarded'
  PROVE  Inv'
<1> USE DEF Inv
<1>1. PlacesOK'
  BY DEF PlacesOK, Taken
<1>2. QueueOK'
  BY DEF QueueOK, Taken
<1>3. OrderOK'
  BY DEF OrderOK
<1>4. RenameOK'
  <2> SUFFICES ASSUME NEW f \in queue', f.kind = "pdf"
               PROVE  /\ Stem(f) \in open' => f.pages \subseteq open' \cup discarded'
                      /\ f.pages \cap aside' = {}
    BY DEF RenameOK, Stem
  <2>1. f \in queue
    OBVIOUS
  <2> QED
    BY <2>1 DEF RenameOK
<1>5. PagesOf(queue) \subseteq PagesOf(queue)' \cup PagesOf(paper)' \cup discarded'
  BY DEF PagesOf
<1>6. PagesOf(paper) \subseteq PagesOf(paper)' \cup discarded'
  BY DEF PagesOf
<1>7. NothingLost'
  BY <1>5, <1>6 DEF NothingLost
<1> QED
  BY <1>1, <1>2, <1>3, <1>4, <1>7

LEMMA Clearing ==
  ASSUME Inv, \/ Closed \/ Done \/ CancelPage \/ UndoLetter
              \/ \E p \in Page : TakeBackPage(p)
              \/ \E x \in filings : Follow(x)
              \/ \E f \in queue : DiscardQueued(f)
  PROVE  Inv'
<1>1. keep \in Nat /\ 0 \in Nat
  BY DEF Inv, PlacesOK
<1>2. CASE Closed
  <2>1. /\ UNCHANGED <<taken, bad, aside, queue, paper>> /\ keep' = 0
        /\ at' = "idle" \/ at' = "draining"
        /\ open' \subseteq open /\ discarded \subseteq discarded'
        /\ open \subseteq open' \cup discarded'
    BY <1>2 DEF Closed, paperless
  <2> QED
    BY <2>1, <1>1, Removal
<1>3. CASE Done
  <2>1. /\ UNCHANGED <<taken, bad, aside, open, paper, discarded, keep>>
        /\ at' = "draining" /\ queue' = queue \ {letter} /\ at = "clearing"
    BY <1>3 DEF Done, paperless
  <2>2. letter.pages \subseteq PagesOf(paper)'
    BY <2>1 DEF Inv, OrderOK, PagesOf
  <2> QED
    BY <2>1, <2>2, <1>1, Removal
<1>4. CASE CancelPage
  <2>1. /\ UNCHANGED <<taken, bad, aside, queue, paper, keep>>
        /\ at' # "removing" /\ at' # "clearing"
        /\ open' \subseteq open /\ discarded \subseteq discarded'
        /\ open \subseteq open' \cup discarded'
    BY <1>4 DEF CancelPage, paperless
  <2> QED
    BY <2>1, <1>1, Removal
<1>5. CASE \E p \in Page : TakeBackPage(p)
  <2>1. /\ UNCHANGED <<taken, bad, aside, queue, paper, keep>> /\ at' = "idle"
        /\ open' \subseteq open /\ discarded \subseteq discarded'
        /\ open \subseteq open' \cup discarded'
    BY <1>5 DEF TakeBackPage, paperless, memory
  <2> QED
    BY <2>1, <1>1, Removal
<1>6. CASE \E x \in filings : Follow(x)
  <2>1. PICK x \in filings : Follow(x)
    BY <1>6
  <2>2. /\ UNCHANGED <<taken, bad, aside, open, queue, keep>> /\ at' = "idle"
        /\ \/ UNCHANGED <<paper, discarded>>
           \/ paper' = paper \ {x.file} /\ discarded' = discarded \cup x.file.pages
    BY <2>1 DEF Follow
  <2> QED
    BY <2>2, <1>1, Removal
<1>7. CASE \E f \in queue : DiscardQueued(f)
  <2>1. PICK f \in queue : DiscardQueued(f)
    BY <1>7
  <2>2. /\ UNCHANGED <<taken, bad, aside, open, paper, keep>> /\ at' = "idle"
        /\ queue' = queue \ {f} /\ discarded' = discarded \cup f.pages
    BY <2>1 DEF DiscardQueued, OutOfQueue, paperless
  <2> QED
    BY <2>2, <1>1, Removal
<1>8. CASE UndoLetter
  <2>1. /\ UNCHANGED <<taken, bad, aside, open, keep>> /\ at' = "idle"
    BY <1>8 DEF UndoLetter
  <2>2. \/ UNCHANGED <<queue, paper, discarded>>
        \/ /\ UNCHANGED paper
           /\ \E f \in queue : queue' = queue \ {f} /\ discarded' = discarded \cup f.pages
        \/ /\ UNCHANGED queue
           /\ \E x \in filings :
                 paper' = paper \ {x.file} /\ discarded' = discarded \cup x.file.pages
    BY <1>8 DEF UndoLetter, OutOfQueue
  <2> QED
    BY <2>1, <2>2, <1>1, Removal
<1> QED
  BY <1>2, <1>3, <1>4, <1>5, <1>6, <1>7, <1>8

----------------------------------------------------------------------------
LEMMA Step == Inv /\ [Next]_vars => Inv'
<1> SUFFICES ASSUME Inv, [Next]_vars
             PROVE  Inv'
  OBVIOUS
<1>1. CASE Next
  BY <1>1, Sending, Photographs, BadPageQueued, LetterQueued, PageRemoved, EnvelopeBack,
     Clearing
  DEF Next, Daemon
<1>2. CASE UNCHANGED vars
  <2>1. /\ UNCHANGED <<taken, bad, open, aside, queue, discarded>>
        /\ UNCHANGED <<paper, at, keep, letter>>
    BY <1>2 DEF vars, disk, paperless, memory
  <2> QED
    BY <2>1, NothingMoves DEF Inv, PlacesOK, OrderOK
<1> QED
  BY <1>1, <1>2

(* For any number of photographs and of power cuts: every photograph taken *)
(* is in open/, set aside, in the queue or a document in Paperless, or was *)
(* thrown away - at every step of closing, sending, clearing and undoing.  *)
THEOREM NoPageLost == Spec => []NothingLost
<1>1. Inv => NothingLost
  BY DEF Inv
<1> QED
  BY Start, Step, <1>1, PTL DEF Spec

----------------------------------------------------------------------------
(* Where the loop is decides what it has in hand: a drain what it sends, a *)
(* closing letter its file and the envelope kept out of it.                *)
TurnOK ==
  /\ at \notin {"draining", "clearing"} => todo = {}
  /\ at \in {"idle", "closing", "draining", "cancelling", "down"} => letter = NoFile
  /\ at \in {"removing", "closed"} => letter = NoFile \/ letter.kind = "pdf"
  /\ at \notin {"closing", "removing", "closed"} => keep = 0
  /\ keep # 0 => keep \in aside \/ (at = "closed" /\ keep \in open)

(* The files there are and were: waiting, in Paperless, followed, or taken *)
(* back.                                                                   *)
Files == queue \cup paper \cup takenBack \cup {x.file : x \in filings}

(* But for what a crash left twice, a page is in one file, and is not also *)
(* waiting to go into another, or thrown away.                             *)
PagesOK ==
  /\ discarded \subseteq Taken /\ \A f \in Files : f.pages \subseteq Taken
  /\ \A f, g \in Files : f # g => f.pages \cap g.pages \subseteq doubled
  /\ \A f \in Files :
       /\ f.pages \cap aside \subseteq doubled
       /\ f.pages \cap open \subseteq doubled \/ (at = "removing" /\ f = letter)
  /\ \A f \in queue : f.pages \cap discarded \subseteq doubled
  /\ (open \cup aside) \cap discarded \subseteq doubled
  /\ \A x \in filings : x.file \in queue =>
       (at = "clearing" /\ letter = x.file) \/ x.file.pages \subseteq doubled

(* No two files of the queue share their sidecars, and the decided folder  *)
(* stays beside the letter the display names until it is sent.             *)
NamesOK ==
  /\ \A f, g \in queue : Stem(f) = Stem(g) => f = g
  /\ \A f \in queue : f.kind = "jpg" => f.pages \cap (open \cup aside) \subseteq bad
  /\ last # NoName => last[1] = "pdf"
  /\ \A f \in queue : Name(f) = last =>
       Stem(f) \in folders \/ (at \in {"removing", "closed"} /\ f = letter)

(* What is taken back and waits again, or is in Paperless and waits again, *)
(* is so because of a crash or an answer that was lost; so is a document   *)
(* whose upload is no longer followed.                                     *)
BackOK ==
  /\ \A f \in queue \cap paper :
       f \in unsure \/ f.pages \cap doubled # {} \/ (at = "clearing" /\ letter = f)
  /\ \A f \in takenBack \cap queue : f.pages \cap doubled # {}
  /\ \A x \in filings : x.state = "ended" /\ x.file \in paper =>
       x.file \in unsure \/ x.file.pages \cap doubled # {}
  /\ ~adopted => filings = {}
  /\ TakenBackIsGone

----------------------------------------------------------------------------
(* Types. *)

LEMMA FileStem ==
  ASSUME NEW f \in File
  PROVE  /\ f.kind \in {"jpg", "pdf"} /\ f.pages \subseteq Page /\ f.pages # {}
         /\ Stem(f) \in f.pages /\ Stem(f) \in Page
         /\ \A p \in f.pages : Stem(f) <= p
         /\ Name(f) \in {"jpg", "pdf"} \X Page
<1>1. f.kind \in {"jpg", "pdf"} /\ f.pages \in (SUBSET Page) \ {{}}
  BY DEF File
<1>2. f.pages \in SUBSET Nat /\ f.pages \in SUBSET Page /\ f.pages # {}
  BY <1>1 DEF Page
<1>3. Stem(f) \in f.pages /\ \A p \in f.pages : Stem(f) <= p
  BY <1>2, LeastPage DEF Stem
<1> QED
  BY <1>1, <1>2, <1>3 DEF Name

LEMMA FileType ==
  /\ Page \subseteq Nat /\ 0 \notin Page
  /\ NoFile \notin File /\ NoFile.pages = {}
  /\ \A p \in Page : [kind |-> "jpg", pages |-> {p}] \in File
  /\ \A pages \in SUBSET Page : pages # {} => [kind |-> "pdf", pages |-> pages] \in File
<1>1. Page \subseteq Nat /\ 0 \notin Page
  BY BoundsAssumption DEF Page
<1>2. NoFile \notin File
  BY DEF NoFile, File
<1>3. ASSUME NEW k \in {"jpg", "pdf"}, NEW pages \in SUBSET Page, pages # {}
      PROVE  [kind |-> k, pages |-> pages] \in File
  <2>1. pages \in (SUBSET Page) \ {{}}
    BY <1>3
  <2> QED
    BY <2>1 DEF File
<1>4. ASSUME NEW p \in Page
      PROVE  [kind |-> "jpg", pages |-> {p}] \in File
  BY <1>3
<1> QED
  BY <1>1, <1>2, <1>3, <1>4 DEF NoFile

LEMMA OldestFile ==
  ASSUME NEW files \in SUBSET File, files # {}
  PROVE  Oldest(files) \in files
<1> DEFINE stems == {Stem(f) : f \in files}
<1> HIDE DEF stems
<1>0. ASSUME NEW f \in files
      PROVE  Stem(f) \in Nat /\ f.kind \in {"jpg", "pdf"}
  BY FileStem, FileType
<1>1. stems \in SUBSET Nat /\ stems # {}
  BY <1>0 DEF stems
<1>2. PICK s \in stems : \A y \in stems : s <= y
  BY <1>1, LeastPage
<1>3. PICK f \in files : Stem(f) = s
  BY <1>2 DEF stems
<1>4. \A g \in files : s <= Stem(g) /\ Stem(g) \in Nat /\ s \in Nat
  BY <1>0, <1>1, <1>2 DEF stems
<1>5. \A g \in files : s < Stem(g) \/ s = Stem(g)
  BY <1>4
<1>6. \E h \in files : \A g \in files :
        Stem(h) < Stem(g) \/ (Stem(h) = Stem(g) /\ (h.kind = "jpg" \/ g.kind = "pdf"))
  <2>1. CASE \E h \in files : Stem(h) = s /\ h.kind = "jpg"
    BY <1>5, <2>1
  <2>2. CASE ~ \E h \in files : Stem(h) = s /\ h.kind = "jpg"
    <3>1. \A g \in files : Stem(g) = s => g.kind = "pdf"
      BY <1>0, <2>2
    <3> QED
      BY <1>3, <1>5, <3>1
  <2> QED
    BY <2>1, <2>2
<1> QED
  BY <1>6 DEF Oldest

(* What a drain sends next is in the queue. *)
LEMMA SentFile ==
  ASSUME TypeOK, todo # {}
  PROVE  Oldest(todo) \in todo /\ Oldest(todo) \in queue /\ Oldest(todo) \in File
<1>1. todo \in SUBSET File
  BY DEF TypeOK
<1> QED
  BY <1>1, OldestFile DEF TypeOK

Filing == [file : File, state : {"reading", "document", "ended"},
           known : BOOLEAN, undo : BOOLEAN]

LEMMA FilingFields ==
  ASSUME NEW x \in Filing
  PROVE  /\ x.file \in File /\ x.known \in BOOLEAN /\ x.undo \in BOOLEAN
         /\ \A s \in {"reading", "document", "ended"} :
              /\ [x EXCEPT !.state = s] \in Filing
              /\ [x EXCEPT !.state = s].file = x.file
              /\ [x EXCEPT !.state = s].undo = x.undo
              /\ [x EXCEPT !.state = s].state = s
         /\ [x EXCEPT !.undo = TRUE] \in Filing
         /\ [x EXCEPT !.undo = TRUE].file = x.file
         /\ [x EXCEPT !.undo = TRUE].undo = TRUE
         /\ [x EXCEPT !.undo = TRUE].state = x.state
BY DEF Filing

(* The pages the loop takes one by one. *)
LEMMA FirstPage ==
  ASSUME NEW pages \in SUBSET Page, pages # {}
  PROVE  Min(pages) \in pages /\ Min(pages) \in Page
<1>1. pages \in SUBSET Nat
  BY FileType
<1> QED
  BY <1>1, LeastPage

LEMMA TypeInit == Init => TypeOK /\ TurnOK
<1> SUFFICES ASSUME Init
             PROVE  TypeOK /\ TurnOK
  OBVIOUS
<1>1. 0 \in 0..MaxPages /\ 0 \in 0..MaxCrashes
  BY BoundsAssumption
<1>2. TypeOK
  BY <1>1 DEF Init, TypeOK
<1>3. TurnOK
  BY DEF Init, TurnOK
<1> QED
  BY <1>2, <1>3

LEMMA TypeStep ==
  ASSUME TypeOK, TurnOK, [Next]_vars
  PROVE  TypeOK'
<1> USE DEF TypeOK, disk, paperless, memory, ghosts
<1>1. CASE UNCHANGED vars
  BY <1>1 DEF vars
<1>2. CASE PhotographPage \/ PhotographTable \/ PhotographEnvelope
  <2>1. taken + 1 \in Page /\ taken + 1 \in 0..MaxPages
    BY <1>2, BoundsAssumption DEF PhotographPage, PhotographTable, PhotographEnvelope, Page
  <2>2. CASE PhotographPage
    BY <2>1, <2>2 DEF PhotographPage
  <2>3. CASE PhotographTable
    BY <2>1, <2>3 DEF PhotographTable
  <2>4. CASE PhotographEnvelope
    <3>1. keep = 0 /\ 0 \notin Page
      BY <2>4, FileType DEF PhotographEnvelope, TurnOK
    <3>2. crashes = 0 => aside = {}
      BY <3>1
    <3> QED
      BY <2>1, <2>4, <3>2 DEF PhotographEnvelope
  <2> QED
    BY <1>2, <2>2, <2>3, <2>4
<1>3. CASE PhotographSingle
  <2>1. taken + 1 \in Page /\ taken + 1 \in 0..MaxPages
    BY <1>3, BoundsAssumption DEF PhotographSingle, Page
  <2>2. [kind |-> "jpg", pages |-> {taken + 1}] \in File
    BY <2>1, FileType
  <2>3. todo' \subseteq queue'
    BY <1>3 DEF PhotographSingle, Due
  <2> QED
    BY <1>3, <2>1, <2>2, <2>3 DEF PhotographSingle
<1>4. CASE QueueBadPage
  <2>1. Min(open \cap bad) \in Page
    BY <1>4, FirstPage DEF QueueBadPage
  <2>2. [kind |-> "jpg", pages |-> {Min(open \cap bad)}] \in File
    BY <2>1, FileType
  <2>3. queue' \subseteq File /\ open' \subseteq Page /\ todo' = {} /\ at' = "closing"
    BY <1>4, <2>2 DEF QueueBadPage, Committed, TurnOK
  <2> QED
    BY <1>4, <2>3 DEF QueueBadPage
<1>5. CASE QueueLetter
  <2>1. letter' \in File /\ letter' \in queue'
    BY <1>5, FileType DEF QueueLetter, Committed
  <2>2. queue' \subseteq File /\ todo' = {} /\ at' = "removing"
    BY <1>5, <2>1 DEF QueueLetter, Committed, TurnOK
  <2> QED
    BY <1>5, <2>1, <2>2 DEF QueueLetter
<1>6. CASE RemovePage
  BY <1>6 DEF RemovePage
<1>7. CASE PutBack
  BY <1>7 DEF PutBack
<1>8. CASE Closed
  <2>1. crashes = 0 => aside = {}
    BY <1>8 DEF Closed
  <2>4. keep # 0 => keep \in Page
    BY BoundsAssumption DEF Page
  <2>5. /\ keep' \in 0..MaxPages /\ open' \subseteq Page /\ discarded' \subseteq Page
        /\ letter' = NoFile /\ at' \in {"idle", "draining"}
    BY <1>8, <2>4, BoundsAssumption DEF Closed
  <2>6. UNCHANGED <<taken, bad, aside, queue, backingOff, paper, labelled, collecting, seen,
                    adopted, filings, crashes, doubled, takenBack, unsure>>
    BY <1>8 DEF Closed
  <2>2. CASE letter = NoFile
    <3>1. UNCHANGED <<folders, last, todo>>
      BY <1>8, <2>2 DEF Closed
    <3> QED
      BY <2>1, <2>5, <2>6, <3>1
  <2>3. CASE letter # NoFile
    <3>1. letter \in File /\ Stem(letter) \in Page /\ Name(letter) \in {"jpg", "pdf"} \X Page
      BY <2>3, FileStem
    <3>2. /\ todo' \subseteq queue' /\ folders' = folders \cup {Stem(letter)}
          /\ last' = Name(letter)
      BY <1>8, <2>3 DEF Closed, Due
    <3> QED
      BY <2>1, <2>5, <2>6, <3>1, <3>2
  <2> QED
    BY <2>2, <2>3
<1>9. CASE DrainDue \/ RetryAll \/ CloseIfDue \/ QueueNothing \/ CancelLetter \/ DrainEnds
  BY <1>9 DEF DrainDue, RetryAll, StartDrain, CloseIfDue, QueueNothing, CancelLetter, DrainEnds, Due
<1>10. CASE Sent
  <2>1. letter' \in queue /\ letter' \in File
    BY <1>10, SentFile DEF Sent
  <2>2. Followed(letter', letter' \in paper) \in Filing
    BY <2>1 DEF Followed, Filing
  <2>3. filings' \subseteq Filing
    BY <1>10, <2>2 DEF Sent, Filing
  <2>4. paper' = paper \cup {letter'} /\ labelled' \subseteq File
    BY <1>10, <2>1 DEF Sent, Filed
  <2> QED
    BY <1>10, <2>1, <2>3, <2>4 DEF Sent, Filing
<1>11. CASE SendFailed \/ AnswerLost
  <2>1. Oldest(todo) \in File /\ Stem(Oldest(todo)) \in Page
    BY <1>11, SentFile, FileStem DEF SendFailed, AnswerLost
  <2>2. CASE SendFailed
    BY <2>1, <2>2 DEF SendFailed, Failed
  <2>3. CASE AnswerLost
    BY <2>1, <2>3 DEF AnswerLost, Failed, Filed
  <2> QED
    BY <1>11, <2>2, <2>3
<1>12. CASE Done
  BY <1>12 DEF Done
<1>13. ASSUME NEW s \in Page, BecomesDue(s) \/ TakeBackPage(s) PROVE TypeOK'
  BY <1>13 DEF BecomesDue, TakeBackPage
<1>14. ASSUME NEW x \in filings, Follow(x) \/ GiveUp(x) PROVE TypeOK'
  <2>1. x \in Filing /\ filings \subseteq Filing
    BY DEF Filing
  <2>5. x.file \in File /\ x.file.pages \subseteq Page
    BY <2>1, FilingFields, FileStem
  <2>6. PICK s \in {"document", "ended"} : filings' = (filings \ {x}) \cup {[x EXCEPT !.state = s]}
    BY <1>14 DEF Follow, GiveUp
  <2>7. [x EXCEPT !.state = s] \in Filing
    BY <2>1, <2>6, FilingFields
  <2>2. filings' \subseteq Filing /\ x.file \in File /\ x.file.pages \subseteq Page
    BY <2>1, <2>5, <2>6, <2>7
  <2>3. CASE Follow(x)
    BY <2>2, <2>3 DEF Follow, Filing
  <2>4. CASE GiveUp(x)
    BY <2>2, <2>4 DEF GiveUp, Filing
  <2> QED
    BY <1>14, <2>3, <2>4
<1>15. CASE CancelPage
  <2>1. open # {} => Min(open) \in Page
    BY FirstPage
  <2> QED
    BY <1>15, <2>1 DEF CancelPage
<1>16. ASSUME NEW f \in queue, DiscardQueued(f) PROVE TypeOK'
  <2>1. f \in File /\ f.pages \subseteq Page /\ todo = {}
    BY <1>16, FileStem DEF DiscardQueued, TurnOK
  <2> QED
    BY <1>16, <2>1 DEF DiscardQueued, OutOfQueue
<1>17. CASE UndoLetter
  <2>1. todo = {} /\ todo' = {} /\ at' = "idle" /\ filings \subseteq Filing
    BY <1>17 DEF UndoLetter, TurnOK, Filing
  <2>2. \A f \in queue : f \in File /\ f.pages \subseteq Page
    BY FileStem
  <2>3. \A x \in filings : x.file \in File /\ x.file.pages \subseteq Page
    BY <2>1, FilingFields, FileStem
  <2>6. \A x \in filings : [x EXCEPT !.state = "ended"] \in Filing /\ [x EXCEPT !.undo = TRUE] \in Filing
    BY <2>1, FilingFields
  <2>7. \/ filings' = filings
        \/ \E x \in filings : \/ filings' = (filings \ {x}) \cup {[x EXCEPT !.state = "ended"]}
                              \/ filings' = (filings \ {x}) \cup {[x EXCEPT !.undo = TRUE]}
    BY <1>17 DEF UndoLetter
  <2>8. ASSUME NEW x \in filings, NEW y \in Filing, filings' = (filings \ {x}) \cup {y}
        PROVE  filings' \subseteq Filing
    BY <2>1, <2>8
  <2>4. filings' \subseteq Filing
    <3>1. CASE filings' = filings
      BY <2>1, <3>1
    <3>2. CASE filings' # filings
      <4>1. PICK x \in filings :
              \/ filings' = (filings \ {x}) \cup {[x EXCEPT !.state = "ended"]}
              \/ filings' = (filings \ {x}) \cup {[x EXCEPT !.undo = TRUE]}
        BY <2>7, <3>2
      <4> QED
        BY <2>6, <2>8, <4>1
    <3> QED
      BY <3>1, <3>2
  <2>5. /\ queue' \subseteq File /\ paper' \subseteq File /\ takenBack' \subseteq File
        /\ discarded' \subseteq Page /\ backingOff' \subseteq Page /\ last' = NoName
    BY <1>17, <2>2, <2>3 DEF UndoLetter, OutOfQueue
  <2> QED
    BY <1>17, <2>1, <2>4, <2>5 DEF UndoLetter, Filing
<1>18. CASE Crash
  <2>1. {x.file : x \in filings} \subseteq File
    OBVIOUS
  <2>2. crashes' \in 0..MaxCrashes /\ crashes' # 0 /\ keep' \in 0..MaxPages
    BY <1>18, BoundsAssumption DEF Crash
  <2>3. unsure' \subseteq File /\ doubled' \subseteq Page
    BY <1>18, <2>1 DEF Crash
  <2>4. /\ at' = "down" /\ letter' = NoFile /\ todo' = {} /\ seen' = FALSE
        /\ last' = NoName /\ filings' = {} /\ adopted' = FALSE
        /\ UNCHANGED <<taken, bad, open, aside, queue, folders, backingOff, discarded,
                       paper, labelled, collecting, takenBack>>
    BY <1>18 DEF Crash
  <2> QED
    BY <2>2, <2>3, <2>4
<1>19. CASE Restart
  BY <1>19 DEF Restart, Due
<1> QED
  BY <1>1, <1>2, <1>3, <1>4, <1>5, <1>6, <1>7, <1>8, <1>9, <1>10, <1>11, <1>12, <1>13, <1>14,
     <1>15, <1>16, <1>17, <1>18, <1>19 DEF Next, Daemon

LEMMA TurnStep ==
  ASSUME TurnOK, [Next]_vars
  PROVE  TurnOK'
<1> USE DEF TurnOK, disk, memory
<1>1. CASE UNCHANGED vars
  BY <1>1 DEF vars
<1>2. CASE PhotographPage \/ PhotographTable \/ PhotographEnvelope \/ PhotographSingle
  BY <1>2 DEF PhotographPage, PhotographTable, PhotographEnvelope, PhotographSingle
<1>3. CASE QueueBadPage \/ QueueLetter \/ RemovePage \/ PutBack \/ Closed
  BY <1>3 DEF QueueBadPage, QueueLetter, RemovePage, PutBack, Closed
<1>4. CASE DrainDue \/ RetryAll \/ CloseIfDue \/ QueueNothing \/ CancelLetter \/ DrainEnds
  BY <1>4 DEF DrainDue, RetryAll, StartDrain, CloseIfDue, QueueNothing, CancelLetter, DrainEnds
<1>5. CASE Sent \/ SendFailed \/ AnswerLost \/ Done \/ Restart \/ Crash
  BY <1>5 DEF Sent, SendFailed, AnswerLost, Failed, Done, Restart, Crash
<1>6. ASSUME NEW s \in Page, BecomesDue(s) \/ TakeBackPage(s) PROVE TurnOK'
  BY <1>6 DEF BecomesDue, TakeBackPage
<1>7. ASSUME NEW x \in filings, Follow(x) \/ GiveUp(x) PROVE TurnOK'
  BY <1>7 DEF Follow, GiveUp
<1>8. CASE CancelPage \/ UndoLetter
  BY <1>8 DEF CancelPage, UndoLetter
<1>9. ASSUME NEW f \in queue, DiscardQueued(f) PROVE TurnOK'
  BY <1>9 DEF DiscardQueued
<1> QED
  BY <1>1, <1>2, <1>3, <1>4, <1>5, <1>6, <1>7, <1>8, <1>9 DEF Next, Daemon

(* Every variable has its type and every operation under way has what it   *)
(* works on, for any number of photographs and of power cuts.              *)
THEOREM TypeCorrect == Spec => []TypeOK
<1>1. Init => TypeOK /\ TurnOK
  BY TypeInit
<1>2. (TypeOK /\ TurnOK) /\ [Next]_vars => (TypeOK /\ TurnOK)'
  BY TypeStep, TurnStep
<1> QED
  BY <1>1, <1>2, PTL DEF Spec

----------------------------------------------------------------------------
(* A page is in one document. *)

LEMMA PagesInit == Init => PagesOK
BY DEF Init, PagesOK, Files, Taken

(* Steps that only take away: what is left is as far apart as before. *)
LEMMA PagesLeft ==
  ASSUME PagesOK, Files' \subseteq Files, queue' \subseteq queue,
         open' \subseteq open, aside' \subseteq aside,
         UNCHANGED <<taken, discarded, doubled>>,
         at = "removing" => UNCHANGED <<at, letter>> \/ open' \cap letter.pages = {},
         \A x \in filings' : x.file \in queue' =>
            (at' = "clearing" /\ letter' = x.file) \/ x.file.pages \subseteq doubled
  PROVE  PagesOK'
BY DEF PagesOK, Taken

(* A page out of open/ is thrown away. *)
LEMMA PageThrownAway ==
  ASSUME PlacesOK, PagesOK, at \notin {"removing", "clearing"}, NEW p \in open,
         open' = open \ {p}, discarded' = discarded \cup {p},
         UNCHANGED <<taken, aside, queue, paper, takenBack, filings, doubled>>
  PROVE  PagesOK'
<1>1. Files' = Files
  BY DEF Files
<1>2. discarded' \subseteq Taken /\ Taken' = Taken
  BY DEF PlacesOK, PagesOK, Taken
<1>3. p \notin aside
  BY DEF PlacesOK
<1>4. \A f \in Files : f.pages \cap open \subseteq doubled
  BY DEF PagesOK
<1>5. queue \subseteq Files
  BY DEF Files
<1> QED
  BY <1>1, <1>2, <1>3, <1>4, <1>5 DEF PagesOK

(* A file is thrown away, out of the queue or out of Paperless. *)
LEMMA FileThrownAway ==
  ASSUME PagesOK, at = "idle", NEW f \in Files, f \in queue' => f.pages \subseteq doubled,
         discarded' = discarded \cup f.pages, Files' \subseteq Files, queue' \subseteq queue,
         UNCHANGED <<taken, open, aside, doubled>>,
         \A x \in filings' : x.file \in queue' => x.file.pages \subseteq doubled
  PROVE  PagesOK'
<1>1. discarded' \subseteq Taken /\ Taken' = Taken
  BY DEF PagesOK, Taken
<1>2. \A g \in Files : g.pages \cap (open \cup aside) \subseteq doubled
  BY DEF PagesOK
<1>3. queue \subseteq Files
  BY DEF Files
<1>4. \A g \in queue' : g.pages \cap discarded' \subseteq doubled
  BY <1>3 DEF PagesOK
<1> QED
  BY <1>1, <1>2, <1>4 DEF PagesOK

(* A photograph is in no file yet. *)
LEMMA PageIsNew ==
  ASSUME PlacesOK, PagesOK, taken' = taken + 1
  PROVE  /\ \A f \in Files : taken' \notin f.pages /\ f.pages \subseteq Taken'
         /\ taken' \notin discarded /\ taken' \notin open /\ taken' \notin aside
         /\ discarded \subseteq Taken' /\ taken' \in Taken'
<1>1. taken \in Nat /\ taken' \notin Taken /\ taken' \in Taken' /\ Taken \subseteq Taken'
  BY DEF PlacesOK, Taken
<1> QED
  BY <1>1 DEF PlacesOK, PagesOK

(* The pages of open/ become a file of the queue. *)
LEMMA FileMade ==
  ASSUME PlacesOK, PagesOK, at = "closing", NEW n, n.pages \subseteq open,
         queue' \subseteq queue \cup {n}, open' \subseteq open,
         n.pages \cap open' = {} \/ (at' = "removing" /\ letter' = n),
         UNCHANGED <<taken, aside, discarded, paper, takenBack, filings, doubled>>
  PROVE  PagesOK'
<1>1. Files' \subseteq Files \cup {n}
  BY DEF Files
<1>2. \A f \in Files : f.pages \cap open \subseteq doubled
  BY DEF PagesOK
<1>3. n.pages \subseteq Taken /\ n.pages \cap aside = {} /\ Taken' = Taken
  BY DEF PlacesOK, Taken
<1>4. n.pages \cap discarded \subseteq doubled
  BY DEF PagesOK
<1>5. \A f \in Files : f.pages \cap n.pages \subseteq doubled
  BY <1>2
<1>6. \A x \in filings : x.file \in Files
  BY DEF Files
<1>7. \A x \in filings' : x.file \in queue' => x.file.pages \subseteq doubled
  BY <1>2, <1>6 DEF PagesOK
<1>8. \A f, g \in Files' : f # g => f.pages \cap g.pages \subseteq doubled
  BY <1>1, <1>5 DEF PagesOK
<1>9. \A f \in Files' :
        /\ f.pages \cap aside' \subseteq doubled
        /\ f.pages \cap open' \subseteq doubled \/ (at' = "removing" /\ f = letter')
  BY <1>1, <1>2, <1>3 DEF PagesOK
<1>10. \A f \in queue' : f.pages \cap discarded' \subseteq doubled
  BY <1>4 DEF PagesOK
<1> QED
  BY <1>1, <1>3, <1>7, <1>8, <1>9, <1>10 DEF PagesOK

LEMMA PagesStep ==
  ASSUME Inv, TypeOK, TurnOK, PagesOK, [Next]_vars
  PROVE  PagesOK'
<1> USE DEF disk, paperless, memory, ghosts
<1>0. PlacesOK /\ OrderOK
  BY DEF Inv
<1>1. CASE UNCHANGED vars
  <2>1. UNCHANGED <<taken, open, aside, queue, discarded, paper, takenBack, filings, doubled,
                    at, letter>>
    BY <1>1 DEF vars
  <2> QED
    BY <2>1 DEF PagesOK, Files, Taken
<1>2. CASE PhotographPage \/ PhotographTable \/ PhotographEnvelope \/ PhotographSingle
  <2>1. taken' = taken + 1 /\ at = "idle" /\ at' # "removing"
    BY <1>2 DEF PhotographPage, PhotographTable, PhotographEnvelope, PhotographSingle
  <2>2. UNCHANGED <<paper, takenBack, filings, doubled>>
    BY <1>2 DEF PhotographPage, PhotographTable, PhotographEnvelope, PhotographSingle
  <2>3. \A f \in Files : f.pages \cap (open \cup aside) \subseteq doubled
    BY <2>1 DEF PagesOK
  <2>4. \A x \in filings : x.file \in queue => x.file.pages \subseteq doubled
    BY <2>1 DEF PagesOK
  <2>5. CASE PhotographPage \/ PhotographTable \/ PhotographEnvelope
    <3>1. UNCHANGED queue /\ Files' = Files
      BY <2>2, <2>5 DEF PhotographPage, PhotographTable, PhotographEnvelope, Files
    <3>2. \/ open' = open \cup {taken'} /\ UNCHANGED <<aside, discarded>>
          \/ aside' = aside \cup {taken'} /\ UNCHANGED <<open, discarded>>
          \/ discarded' = discarded \cup {taken'} /\ UNCHANGED <<open, aside>>
      BY <2>5 DEF PhotographPage, PhotographTable, PhotographEnvelope
    <3>3. queue \subseteq Files
      BY DEF Files
    <3>4. discarded' \subseteq Taken' /\ \A f \in Files : f.pages \subseteq Taken'
      BY <1>0, <2>1, <3>2, PageIsNew
    <3>5. (open' \cup aside') \cap discarded' \subseteq doubled
      BY <1>0, <2>1, <3>2, PageIsNew DEF PagesOK
    <3>6. \A f \in Files :
            /\ f.pages \cap (open' \cup aside') \subseteq doubled
            /\ f \in queue => f.pages \cap discarded' \subseteq doubled
      BY <1>0, <2>1, <2>3, <3>2, PageIsNew DEF PagesOK
    <3> QED
      BY <2>2, <2>4, <3>1, <3>3, <3>4, <3>5, <3>6 DEF PagesOK
  <2>6. CASE PhotographSingle
    <3> DEFINE n == [kind |-> "jpg", pages |-> {taken'}]
    <3>1. queue' = queue \cup {n} /\ UNCHANGED <<open, aside, discarded>>
      BY <2>6 DEF PhotographSingle
    <3>2. Files' = Files \cup {n} /\ n.pages = {taken'}
      BY <2>2, <3>1 DEF Files
    <3>3. \A x \in filings : x.file \in Files
      BY DEF Files
    <3>4. n \notin Files
      BY <1>0, <2>1, <3>2, PageIsNew
    <3>5. \A x \in filings : x.file \in queue' => x.file.pages \subseteq doubled
      BY <2>4, <3>1, <3>3, <3>4
    <3> HIDE DEF n
    <3>6. n.pages \cap (open \cup aside \cup discarded) = {} /\ n.pages \subseteq Taken'
      BY <1>0, <2>1, <3>2, PageIsNew
    <3>7. \A f \in Files : f.pages \cap n.pages = {} /\ f.pages \subseteq Taken'
      BY <1>0, <2>1, <3>2, PageIsNew
    <3>8. discarded \subseteq Taken'
      BY <1>0, <2>1, PageIsNew
    <3>9. \A f, g \in Files' : f # g => f.pages \cap g.pages \subseteq doubled
      BY <3>2, <3>7 DEF PagesOK
    <3> QED
      BY <2>2, <2>3, <3>1, <3>2, <3>5, <3>6, <3>7, <3>8, <3>9 DEF PagesOK
  <2> QED
    BY <1>2, <2>5, <2>6
<1>3. CASE QueueBadPage
  <2> DEFINE p == Min(open \cap bad)
             n == [kind |-> "jpg", pages |-> {p}]
  <2>1. p \in open
    BY <1>3, FirstPage DEF QueueBadPage, TypeOK
  <2>2. /\ at = "closing" /\ open' = open \ {p} /\ queue' \subseteq queue \cup {n}
        /\ UNCHANGED <<taken, aside, discarded, paper, takenBack, filings, doubled>>
    BY <1>3 DEF QueueBadPage, Committed
  <2>3. n.pages \subseteq open /\ n.pages \cap open' = {}
    BY <2>1, <2>2
  <2> HIDE DEF n, p
  <2> QED
    BY <1>0, <2>2, <2>3, FileMade
<1>4. CASE QueueLetter
  <2> DEFINE n == [kind |-> "pdf", pages |-> open]
  <2>1. /\ at = "closing" /\ at' = "removing" /\ letter' = n /\ open' = open
        /\ queue' \subseteq queue \cup {n}
        /\ UNCHANGED <<taken, aside, discarded, paper, takenBack, filings, doubled>>
    BY <1>4 DEF QueueLetter, Committed
  <2>2. n.pages \subseteq open
    OBVIOUS
  <2> HIDE DEF n
  <2> QED
    BY <1>0, <2>1, <2>2, FileMade
<1>5. CASE RemovePage
  <2>1. /\ UNCHANGED <<taken, aside, queue, discarded, paper, takenBack, filings, doubled, letter>>
        /\ at = "removing" /\ open' \subseteq open
        /\ at' = at \/ open' \cap letter.pages = {}
    BY <1>5 DEF RemovePage
  <2>2. Files' = Files
    BY <2>1 DEF Files
  <2>3. \A x \in filings' : x.file \in queue' => x.file.pages \subseteq doubled
    BY <2>1 DEF PagesOK
  <2> QED
    BY <2>1, <2>2, <2>3, PagesLeft
<1>6. CASE PutBack
  <2>1. /\ UNCHANGED <<taken, queue, discarded, paper, takenBack, filings, doubled, letter, at>>
        /\ at = "closed" /\ keep \in aside
        /\ open' = open \cup {keep} /\ aside' \subseteq aside
    BY <1>6 DEF PutBack
  <2>2. Files' = Files /\ Taken' = Taken
    BY <2>1 DEF Files, Taken
  <2> QED
    BY <2>1, <2>2 DEF PagesOK
<1>7. CASE Closed
  <2>1. /\ UNCHANGED <<taken, aside, queue, paper, takenBack, filings, doubled>>
        /\ at = "closed" /\ at' # "removing" /\ keep \notin aside
    BY <1>7 DEF Closed
  <2>2. CASE UNCHANGED <<open, discarded>>
    <3>1. Files' = Files
      BY <2>1 DEF Files
    <3> QED
      BY <2>1, <2>2, <3>1 DEF PagesOK, Taken
  <2>3. CASE keep # 0 /\ open' = open \ {keep} /\ discarded' = discarded \cup {keep}
    <3>1. keep \in open
      BY <2>1, <2>3 DEF TurnOK
    <3> QED
      BY <1>0, <2>1, <2>3, <3>1, PageThrownAway
  <2> QED
    BY <1>7, <2>2, <2>3 DEF Closed
<1>8. CASE \/ DrainDue \/ RetryAll \/ CloseIfDue \/ QueueNothing \/ CancelLetter
           \/ DrainEnds \/ Restart \/ SendFailed \/ AnswerLost \/ \E s \in Page : BecomesDue(s)
  <2>1. CASE ~AnswerLost
    <3>1. /\ UNCHANGED <<taken, open, aside, queue, discarded, paper, takenBack, filings,
                        doubled, letter>>
          /\ at \notin {"removing", "clearing"} \/ UNCHANGED at
      BY <1>8, <2>1 DEF DrainDue, RetryAll, StartDrain, CloseIfDue, QueueNothing, CancelLetter,
         DrainEnds, Restart, SendFailed, Failed, BecomesDue
    <3>2. Files' = Files
      BY <3>1 DEF Files
    <3>3. \A x \in filings' : x.file \in queue' =>
            (at' = "clearing" /\ letter' = x.file) \/ x.file.pages \subseteq doubled
      BY <3>1 DEF PagesOK
    <3> QED
      BY <3>1, <3>2, <3>3, PagesLeft
  <2>2. CASE AnswerLost
    <3>1. Oldest(todo) \in queue
      BY <2>2, SentFile DEF AnswerLost
    <3>2. /\ UNCHANGED <<taken, open, aside, queue, discarded, takenBack, filings,
                        doubled, letter, at>>
          /\ paper' = paper \cup {Oldest(todo)} /\ at = "draining"
      BY <2>2 DEF AnswerLost, Filed
    <3>3. Files' \subseteq Files
      BY <3>1, <3>2 DEF Files
    <3>4. \A x \in filings' : x.file \in queue' => x.file.pages \subseteq doubled
      BY <3>2 DEF PagesOK
    <3> QED
      BY <3>2, <3>3, <3>4, PagesLeft
  <2> QED
    BY <2>1, <2>2
<1>9. CASE Sent
  <2>1. letter' \in queue
    BY <1>9, SentFile DEF Sent
  <2>2. /\ UNCHANGED <<taken, open, aside, queue, discarded, takenBack, doubled>>
        /\ paper' = paper \cup {letter'} /\ at = "draining" /\ at' = "clearing"
    BY <1>9 DEF Sent, Filed
  <2>3. \A x \in filings' : x \in filings \/ x.file = letter'
    BY <1>9 DEF Sent, Followed
  <2>4. Files' \subseteq Files
    BY <2>1, <2>2, <2>3 DEF Files
  <2>5. \A x \in filings' : x.file \in queue' =>
            (at' = "clearing" /\ letter' = x.file) \/ x.file.pages \subseteq doubled
    BY <2>2, <2>3 DEF PagesOK
  <2> QED
    BY <2>2, <2>4, <2>5, PagesLeft
<1>10. CASE Done
  <2>1. /\ UNCHANGED <<taken, open, aside, discarded, paper, takenBack, filings, doubled>>
        /\ queue' = queue \ {letter} /\ at = "clearing"
    BY <1>10 DEF Done
  <2>2. Files' \subseteq Files
    BY <2>1 DEF Files
  <2>3. \A x \in filings' : x.file \in queue' => x.file.pages \subseteq doubled
    BY <2>1 DEF PagesOK
  <2> QED
    BY <2>1, <2>2, <2>3, PagesLeft
<1>11. ASSUME NEW p \in Page, TakeBackPage(p) PROVE PagesOK'
  BY <1>0, <1>11, PageThrownAway DEF TakeBackPage
<1>12. CASE CancelPage
  <2>1. /\ UNCHANGED <<taken, aside, queue, paper, takenBack, filings, doubled>>
        /\ at = "cancelling" /\ at' # "removing"
    BY <1>12 DEF CancelPage
  <2>2. CASE open = {}
    <3>1. UNCHANGED <<open, discarded>> /\ Files' = Files
      BY <1>12, <2>1, <2>2 DEF CancelPage, Files
    <3> QED
      BY <2>1, <3>1 DEF PagesOK, Taken
  <2>3. CASE open # {}
    <3>1. Min(open) \in open
      BY <2>3, FirstPage DEF TypeOK
    <3>2. open' = open \ {Min(open)} /\ discarded' = discarded \cup {Min(open)}
      BY <1>12, <2>3 DEF CancelPage
    <3> QED
      BY <1>0, <2>1, <3>1, <3>2, PageThrownAway
  <2> QED
    BY <2>2, <2>3
<1>13. ASSUME NEW x \in filings, Follow(x) \/ GiveUp(x) PROVE PagesOK'
  <2>1. /\ UNCHANGED <<taken, open, aside, queue, takenBack, doubled, letter, at>>
        /\ at = "idle"
    BY <1>13 DEF Follow, GiveUp
  <2>2. PICK s \in {"document", "ended"} :
          filings' = (filings \ {x}) \cup {[x EXCEPT !.state = s]}
    BY <1>13 DEF Follow, GiveUp
  <2>3. x \in Filing
    BY DEF TypeOK, Filing
  <2>4. [x EXCEPT !.state = s].file = x.file
    BY <2>2, <2>3, FilingFields
  <2>5. \A y \in filings' : \E z \in filings : y.file = z.file
    BY <2>2, <2>4
  <2>6. \/ UNCHANGED <<paper, discarded>>
        \/ paper' = paper \ {x.file} /\ discarded' = discarded \cup x.file.pages
    BY <1>13 DEF Follow, GiveUp
  <2>7. Files' \subseteq Files /\ x.file \in Files
    BY <2>1, <2>5, <2>6 DEF Files
  <2>8. \A y \in filings : y.file \in queue => y.file.pages \subseteq doubled
    BY <2>1 DEF PagesOK
  <2>9. \A y \in filings' : y.file \in queue' => y.file.pages \subseteq doubled
    BY <2>1, <2>5, <2>8
  <2>10. CASE UNCHANGED <<paper, discarded>>
    BY <2>1, <2>7, <2>9, <2>10, PagesLeft
  <2>11. CASE discarded' = discarded \cup x.file.pages
    <3>1. x.file \in queue' => x.file.pages \subseteq doubled
      BY <2>1, <2>8
    <3> QED
      BY <2>1, <2>7, <2>9, <2>11, <3>1, FileThrownAway
  <2> QED
    BY <2>6, <2>10, <2>11
<1>14. ASSUME NEW f \in queue, OutOfQueue(f), at = "idle", at' = "idle",
              UNCHANGED <<taken, open, aside, paper, filings, doubled>>
       PROVE  PagesOK'
  <2>1. /\ queue' = queue \ {f} /\ discarded' = discarded \cup f.pages
        /\ takenBack' = takenBack \cup {f}
    BY <1>14 DEF OutOfQueue
  <2>2. Files' \subseteq Files /\ f \in Files
    BY <1>14, <2>1 DEF Files
  <2>3. \A x \in filings' : x.file \in queue' => x.file.pages \subseteq doubled
    BY <1>14, <2>1 DEF PagesOK
  <2> QED
    BY <1>14, <2>1, <2>2, <2>3, FileThrownAway
<1>15. ASSUME NEW f \in queue, DiscardQueued(f) PROVE PagesOK'
  BY <1>14, <1>15 DEF DiscardQueued
<1>16. CASE UndoLetter
  <2>1. /\ UNCHANGED <<taken, open, aside, doubled, letter, at>>
        /\ at = "idle"
    BY <1>16 DEF UndoLetter
  <2>2. \A y \in filings : y.file \in queue => y.file.pages \subseteq doubled
    BY <2>1 DEF PagesOK
  <2>3. CASE \E f \in queue : OutOfQueue(f) /\ UNCHANGED <<paper, filings>>
    BY <1>14, <2>1, <2>3
  <2>4. CASE UNCHANGED <<paper, filings, queue, discarded, takenBack>>
    <3>1. Files' = Files
      BY <2>4 DEF Files
    <3> QED
      BY <2>1, <2>2, <2>4, <3>1, PagesLeft
  <2>5. ASSUME NEW x \in filings, NEW y, filings' = (filings \ {x}) \cup {y},
               y = [x EXCEPT !.state = "ended"] \/ y = [x EXCEPT !.undo = TRUE],
               UNCHANGED queue, takenBack' = takenBack \cup {x.file},
               \/ UNCHANGED <<paper, discarded>>
               \/ paper' = paper \ {x.file} /\ discarded' = discarded \cup x.file.pages
        PROVE  PagesOK'
    <3>1. y.file = x.file
      <4>1. x \in Filing
        BY DEF TypeOK, Filing
      <4>2. [x EXCEPT !.state = "ended"].file = x.file /\ [x EXCEPT !.undo = TRUE].file = x.file
        BY <4>1, FilingFields
      <4> QED
        BY <2>5, <4>2
    <3>2. \A z \in filings' : \E w \in filings : z.file = w.file
      BY <2>5, <3>1
    <3>3. Files' \subseteq Files /\ x.file \in Files
      BY <2>5, <3>2 DEF Files
    <3>4. \A z \in filings' : z.file \in queue' => z.file.pages \subseteq doubled
      BY <2>2, <2>5, <3>2
    <3>5. CASE UNCHANGED <<paper, discarded>>
      BY <2>1, <2>5, <3>3, <3>4, <3>5, PagesLeft
    <3>6. CASE discarded' = discarded \cup x.file.pages
      <4>1. x.file \in queue' => x.file.pages \subseteq doubled
        BY <2>2, <2>5
      <4> QED
        BY <2>1, <2>5, <3>3, <3>4, <3>6, <4>1, FileThrownAway
    <3> QED
      BY <2>5, <3>5, <3>6
  <2>6. \/ \E f \in queue : OutOfQueue(f) /\ UNCHANGED <<paper, filings>>
        \/ UNCHANGED <<paper, filings, queue, discarded, takenBack>>
        \/ \E x \in filings :
              /\ \/ filings' = (filings \ {x}) \cup {[x EXCEPT !.state = "ended"]}
                 \/ filings' = (filings \ {x}) \cup {[x EXCEPT !.undo = TRUE]}
              /\ UNCHANGED queue /\ takenBack' = takenBack \cup {x.file}
              /\ \/ UNCHANGED <<paper, discarded>>
                 \/ paper' = paper \ {x.file} /\ discarded' = discarded \cup x.file.pages
    BY <1>16 DEF UndoLetter
  <2> QED
    BY <2>3, <2>4, <2>5, <2>6
<1>17. CASE Crash
  <2>1. /\ UNCHANGED <<taken, open, aside, queue, discarded, paper, takenBack>>
        /\ filings' = {} /\ doubled \subseteq doubled' /\ at' = "down"
        /\ at = "removing" => open \cap letter.pages \subseteq doubled'
    BY <1>17 DEF Crash
  <2>2. Files' \subseteq Files /\ Taken' = Taken
    BY <2>1 DEF Files, Taken
  <2>3. \A f \in Files : f.pages \cap open \subseteq doubled'
    BY <2>1 DEF PagesOK
  <2> QED
    BY <2>1, <2>2, <2>3 DEF PagesOK
<1> QED
  BY <1>1, <1>2, <1>3, <1>4, <1>5, <1>6, <1>7, <1>8, <1>9, <1>10, <1>11, <1>12, <1>13,
     <1>15, <1>16, <1>17 DEF Next, Daemon

(* A page collected into a letter is in no other letter, however often its *)
(* letter is uploaded - but for pages a crash left twice: for any number   *)
(* of photographs and of power cuts.                                       *)
THEOREM OneDocument == Spec => []PageInOneDocument
<1> DEFINE J == Inv /\ TypeOK /\ TurnOK /\ PagesOK
<1>1. Init => J
  BY Start, TypeInit, PagesInit
<1>2. J /\ [Next]_vars => J'
  BY Step, TypeStep, TurnStep, PagesStep
<1>3. J => PageInOneDocument
  BY DEF PagesOK, PageInOneDocument, Files
<1> HIDE DEF J
<1> QED
  BY <1>1, <1>2, <1>3, PTL DEF Spec

(* What reaches Paperless was in the queue, and is what the drain sends. *)
LEMMA NewDocument ==
  ASSUME TypeOK, [Next]_vars, NEW f \in paper' \ paper
  PROVE  /\ at = "draining" /\ f = Oldest(todo) /\ f \in queue
         /\ UNCHANGED <<last, folders>>
         /\ labelled' = IF Stem(f) \in folders THEN labelled \cup {f} ELSE labelled
<1> USE DEF disk, paperless, memory
<1>1. Sent \/ AnswerLost
  BY DEF Next, Daemon, vars, PhotographPage, PhotographSingle, PhotographTable,
     PhotographEnvelope, CloseIfDue, DrainDue, RetryAll, StartDrain, QueueBadPage, QueueLetter,
     QueueNothing, RemovePage, PutBack, Closed, SendFailed, Done, DrainEnds, CancelPage,
     Restart, BecomesDue, TakeBackPage, Follow, GiveUp, CancelLetter, DiscardQueued,
     UndoLetter, Crash
<1>2. at = "draining" /\ todo # {} /\ Filed(Oldest(todo)) /\ UNCHANGED <<last, folders>>
  BY <1>1 DEF Sent, AnswerLost
<1>3. f = Oldest(todo)
  BY <1>2 DEF Filed
<1> QED
  BY <1>2, <1>3, SentFile DEF Filed

(* A page that was thrown away does not reach Paperless afterwards, but    *)
(* for pages a crash left twice.                                           *)
THEOREM NothingComesBack == Spec => ThrownAwayStaysAway
<1> DEFINE J == Inv /\ TypeOK /\ TurnOK /\ PagesOK
           Stays == PagesOf(paper' \ paper) \cap discarded \subseteq doubled
<1>1. Init => J
  BY Start, TypeInit, PagesInit
<1>2. J /\ [Next]_vars => J'
  BY Step, TypeStep, TurnStep, PagesStep
<1>3. J /\ [Next]_vars => Stays
  <2> SUFFICES ASSUME J, [Next]_vars, NEW f \in paper' \ paper
               PROVE  f.pages \cap discarded \subseteq doubled
    BY DEF PagesOf
  <2> QED
    BY NewDocument DEF PagesOK
<1> HIDE DEF J
<1>4. J /\ [Next]_vars => [Stays]_vars
  BY <1>3
<1> QED
  BY <1>1, <1>2, <1>4, PTL DEF Spec, ThrownAwayStaysAway

----------------------------------------------------------------------------
(* Names. *)

LEMMA NamesInit == Init => NamesOK
BY DEF Init, NamesOK

(* Steps that add no file, decide nothing and move no page into open/. *)
LEMMA NamesLeft ==
  ASSUME TypeOK, NamesOK, queue' \subseteq queue,
         open' \cup aside' \subseteq open \cup aside, bad \subseteq bad',
         folders \subseteq folders', last' = last \/ last' = NoName,
         at \in {"removing", "closed"} =>
            last' = NoName \/ (at' \in {"removing", "closed"} /\ UNCHANGED letter)
  PROVE  NamesOK'
<1>1. \A f \in queue : Name(f) # NoName
  <2>1. ASSUME NEW f \in queue PROVE Name(f) # NoName
    <3>1. f.kind \in {"jpg", "pdf"}
      BY FileStem DEF TypeOK
    <3> QED
      BY <3>1 DEF Name, NoName
  <2> QED
    BY <2>1
<1> QED
  BY <1>1 DEF NamesOK

(* A single page that joins the queue has a name of its own. *)
LEMMA NamesWithPage ==
  ASSUME TypeOK, NamesOK, NEW p \in Page, NEW n, n = [kind |-> "jpg", pages |-> {p}],
         queue' \subseteq {g \in queue : Name(g) # Name(n)} \cup {n},
         \A g \in queue : g.kind = "pdf" => Stem(g) # p,
         p \notin open' \cup aside' \/ p \in bad',
         open' \cup aside' \subseteq open \cup aside, bad \subseteq bad',
         UNCHANGED <<folders, last>>, at \notin {"removing", "closed"}
  PROVE  NamesOK'
<1>1. n \in File /\ n.pages = {p} /\ n.kind = "jpg"
  BY FileType
<1>2. Stem(n) = p
  BY <1>1, FileStem
<1>3. \A g \in queue : g.kind \in {"jpg", "pdf"}
  BY FileStem DEF TypeOK
<1>4. \A g \in queue : Name(g) # Name(n) => Stem(g) # Stem(n)
  BY <1>1, <1>2, <1>3 DEF Name
<1>5. \A f, g \in queue' : Stem(f) = Stem(g) => f = g
  BY <1>4 DEF NamesOK
<1>6. \A f \in queue' : f.kind = "jpg" => f.pages \cap (open' \cup aside') \subseteq bad'
  BY <1>1 DEF NamesOK
<1>7. last # NoName => Name(n) # last
  BY <1>1 DEF NamesOK, Name
<1>8. Name(n) # NoName
  BY <1>1 DEF Name, NoName
<1>9. \A f \in queue' : Name(f) = last' => Stem(f) \in folders'
  BY <1>7, <1>8 DEF NamesOK
<1> QED
  BY <1>5, <1>6, <1>9 DEF NamesOK

LEMMA NamesStep ==
  ASSUME Inv, TypeOK, TurnOK, NamesOK, [Next]_vars
  PROVE  NamesOK'
<1> USE DEF disk, paperless, memory, ghosts
<1>0. PlacesOK /\ QueueOK /\ OrderOK
  BY DEF Inv
<1>1. CASE UNCHANGED vars
  <2>1. UNCHANGED <<open, aside, queue, bad, folders, last, at, letter>>
    BY <1>1 DEF vars
  <2> QED
    BY <2>1, NamesLeft
<1>2. CASE PhotographPage \/ PhotographEnvelope
  <2>1. /\ UNCHANGED <<queue, folders, last, letter>> /\ at = "idle"
        /\ open' \cup aside' \subseteq open \cup aside \cup {taken + 1} /\ bad \subseteq bad'
    BY <1>2 DEF PhotographPage, PhotographEnvelope
  <2>2. \A f \in queue : taken + 1 \notin f.pages
    BY <1>0 DEF PlacesOK, QueueOK, Taken
  <2> QED
    BY <2>1, <2>2 DEF NamesOK
<1>3. CASE PhotographSingle
  <2> DEFINE n == [kind |-> "jpg", pages |-> {taken + 1}]
  <2>1. taken + 1 \in Page /\ taken + 1 \notin Taken
    BY <1>3, <1>0, BoundsAssumption DEF PhotographSingle, Page, TypeOK, Taken
  <2>2. /\ queue' = queue \cup {n} /\ UNCHANGED <<open, aside, bad, folders, last>> /\ at = "idle"
    BY <1>3 DEF PhotographSingle
  <2>3. \A g \in queue : Stem(g) # taken + 1
    BY <1>0, <2>1, StemOf DEF QueueOK
  <2>4. Stem(n) = taken + 1
    <3>1. n \in File /\ n.pages = {taken + 1}
      BY <2>1, FileType
    <3> QED
      BY <3>1, FileStem
  <2>5. \A g \in queue : Name(g) # Name(n)
    BY <2>3, <2>4 DEF Name
  <2>6. taken + 1 \notin open' \cup aside'
    BY <1>0, <2>1, <2>2 DEF PlacesOK
  <2>7. queue' \subseteq {g \in queue : Name(g) # Name(n)} \cup {n}
    BY <2>2, <2>5
  <2> QED
    BY <2>1, <2>2, <2>3, <2>6, <2>7, NamesWithPage
<1>4. CASE QueueBadPage
  <2> DEFINE p == Min(open \cap bad)
             n == [kind |-> "jpg", pages |-> {p}]
  <2>1. p \in open /\ p \in bad /\ p \in Page
    BY <1>4, FirstPage DEF QueueBadPage, TypeOK
  <2>2. /\ queue' = {g \in queue : Name(g) # Name(n)} \cup {n}
        /\ open' = open \ {p} /\ UNCHANGED <<aside, bad, folders, last>> /\ at = "closing"
    BY <1>4 DEF QueueBadPage, Committed
  <2>3. \A g \in queue : g.kind = "pdf" => Stem(g) # p
    BY <1>0, <2>1, StemOf DEF QueueOK
  <2> HIDE DEF p
  <2>4. open' \cup aside' \subseteq open \cup aside /\ p \in bad'
    BY <2>1, <2>2
  <2> QED
    BY <2>1, <2>2, <2>3, <2>4, NamesWithPage
<1>5. CASE QueueLetter
  <2> DEFINE n == [kind |-> "pdf", pages |-> open]
  <2>1. /\ queue' = {g \in queue : Name(g) # Name(n)} \cup {n} /\ letter' = n
        /\ UNCHANGED <<open, aside, bad, folders, last>> /\ at = "closing" /\ at' = "removing"
        /\ open # {} /\ open \cap bad = {}
    BY <1>5 DEF QueueLetter, Committed
  <2>2. n \in File /\ n.kind = "pdf" /\ n.pages = open
    BY <2>1, FileType DEF TypeOK
  <2>3. Stem(n) \in open
    BY <2>2, FileStem
  <2> HIDE DEF n
  <2>4. \A g \in queue : g.kind = "jpg" => Stem(g) \notin open
    <3>1. ASSUME NEW g \in queue, g.kind = "jpg" PROVE Stem(g) \notin open
      BY <1>0, <2>1, <3>1, StemOf DEF NamesOK
    <3> QED
      BY <3>1
  <2>5. \A g \in queue : g.kind \in {"jpg", "pdf"}
    BY <1>0 DEF QueueOK
  <2>6. \A g \in queue : Name(g) # Name(n) => Stem(g) # Stem(n)
    BY <2>2, <2>3, <2>4, <2>5 DEF Name
  <2>7. \A f, g \in queue' : Stem(f) = Stem(g) => f = g
    BY <2>1, <2>6 DEF NamesOK
  <2> QED
    BY <2>1, <2>2, <2>7 DEF NamesOK
<1>6. CASE RemovePage \/ PutBack
  <2>1. /\ UNCHANGED <<queue, bad, folders, last, letter>>
        /\ open' \cup aside' \subseteq open \cup aside /\ at' \in {"removing", "closed"}
    BY <1>6 DEF RemovePage, PutBack
  <2> QED
    BY <2>1, NamesLeft
<1>7. CASE Closed
  <2>1. /\ UNCHANGED <<queue, aside, bad>> /\ open' \subseteq open /\ at = "closed"
    BY <1>7 DEF Closed
  <2>2. CASE letter = NoFile
    <3>1. UNCHANGED <<folders, last>>
      BY <1>7, <2>2 DEF Closed
    <3>2. \A f \in queue : f # NoFile
      BY FileType DEF TypeOK
    <3> QED
      BY <2>1, <2>2, <3>1, <3>2 DEF NamesOK
  <2>3. CASE letter # NoFile
    <3>1. folders' = folders \cup {Stem(letter)} /\ last' = Name(letter) /\ letter.kind = "pdf"
      BY <1>7, <2>1, <2>3 DEF Closed, TurnOK
    <3>2. \A f \in queue : Name(f) = Name(letter) => Stem(f) = Stem(letter)
      BY DEF Name
    <3>3. last'[1] = "pdf"
      BY <3>1 DEF Name
    <3> QED
      BY <2>1, <3>1, <3>2, <3>3 DEF NamesOK
  <2> QED
    BY <2>2, <2>3
<1>8. CASE Done
  <2>1. /\ UNCHANGED <<open, aside, bad, last>> /\ at = "clearing"
        /\ queue' = queue \ {letter} /\ folders' = folders \ {Stem(letter)}
    BY <1>8 DEF Done
  <2>2. letter \in queue
    BY <2>1 DEF TypeOK
  <2>3. \A f \in queue' : Stem(f) # Stem(letter)
    BY <2>1, <2>2 DEF NamesOK
  <2> QED
    BY <2>1, <2>3 DEF NamesOK
<1>9. CASE \/ PhotographTable \/ CloseIfDue \/ DrainDue \/ RetryAll \/ QueueNothing \/ Sent
           \/ SendFailed \/ AnswerLost \/ DrainEnds \/ CancelPage \/ Restart \/ CancelLetter
           \/ UndoLetter
           \/ \E s \in Page : TakeBackPage(s)
           \/ \E x \in filings : Follow(x) \/ GiveUp(x)
           \/ \E f \in queue : DiscardQueued(f)
  <2>1. /\ queue' \subseteq queue /\ open' \subseteq open /\ UNCHANGED <<aside, bad, folders>>
        /\ last' = last \/ last' = NoName
    BY <1>9 DEF PhotographTable, CloseIfDue, DrainDue, RetryAll, StartDrain, QueueNothing, Sent,
       SendFailed, AnswerLost, DrainEnds, CancelPage, Restart, CancelLetter, UndoLetter,
       TakeBackPage, Follow, GiveUp, DiscardQueued, OutOfQueue
  <2>2. at \notin {"removing", "closed"}
    BY <1>9 DEF PhotographTable, CloseIfDue, DrainDue, RetryAll, StartDrain, QueueNothing, Sent,
       SendFailed, AnswerLost, DrainEnds, CancelPage, Restart, CancelLetter, UndoLetter,
       TakeBackPage, Follow, GiveUp, DiscardQueued
  <2> QED
    BY <2>1, <2>2, NamesLeft
<1>10. ASSUME NEW s \in Page, BecomesDue(s) PROVE NamesOK'
  <2>1. UNCHANGED <<queue, open, aside, bad, folders, last, at, letter>>
    BY <1>10 DEF BecomesDue
  <2> QED
    BY <2>1, NamesLeft
<1>11. CASE Crash
  <2>1. UNCHANGED <<queue, open, aside, bad, folders>> /\ last' = NoName
    BY <1>11 DEF Crash
  <2> QED
    BY <2>1, NamesLeft
<1> QED
  BY <1>1, <1>2, <1>3, <1>4, <1>5, <1>6, <1>7, <1>8, <1>9, <1>10, <1>11 DEF Next, Daemon

(* The letter the display names as the last one reaches Paperless with the *)
(* folder decided for it on the rig, whatever was uploaded, failed or was  *)
(* taken back before it.                                                   *)
THEOREM FolderTravels == Spec => DecisionTravels
<1> DEFINE J == Inv /\ TypeOK /\ TurnOK /\ NamesOK
           Travels == \A f \in paper' \ paper : Name(f) = last => f \in labelled'
<1>1. Init => J
  BY Start, TypeInit, NamesInit
<1>2. J /\ [Next]_vars => J'
  BY Step, TypeStep, TurnStep, NamesStep
<1>3. J /\ [Next]_vars => Travels
  <2> SUFFICES ASSUME J, [Next]_vars, NEW f \in paper' \ paper, Name(f) = last
               PROVE  f \in labelled'
    OBVIOUS
  <2> QED
    BY NewDocument DEF NamesOK
<1> HIDE DEF J
<1>4. J /\ [Next]_vars => [Travels]_vars
  BY <1>3
<1> QED
  BY <1>1, <1>2, <1>4, PTL DEF Spec, DecisionTravels

----------------------------------------------------------------------------
(* What was taken back. *)

LEMMA BackInit == Init => BackOK
BY DEF Init, BackOK, TakenBackIsGone

(* Steps that send nothing, end no upload and take nothing back. *)
LEMMA BackLeft ==
  ASSUME BackOK, queue' \subseteq queue, doubled \subseteq doubled', unsure \subseteq unsure',
         UNCHANGED <<paper, takenBack, filings>>, adopted' = adopted \/ adopted' = TRUE,
         at = "clearing" => UNCHANGED <<at, letter>> \/ letter \notin queue'
  PROVE  BackOK'
<1>1. \A f \in queue' \cap paper' :
        f \in unsure' \/ f.pages \cap doubled' # {} \/ (at' = "clearing" /\ letter' = f)
  BY DEF BackOK
<1>2. \A f \in takenBack' \cap queue' : f.pages \cap doubled' # {}
  BY DEF BackOK
<1>3. TakenBackIsGone'
  BY DEF BackOK, TakenBackIsGone
<1>4. /\ \A x \in filings' : x.state = "ended" /\ x.file \in paper' =>
            x.file \in unsure' \/ x.file.pages \cap doubled' # {}
      /\ ~adopted' => filings' = {}
  BY DEF BackOK
<1> QED
  BY <1>1, <1>2, <1>3, <1>4 DEF BackOK

(* A file that is made of the pages of open/ was there before only if a    *)
(* crash left them twice.                                                  *)
LEMMA BackWithFile ==
  ASSUME BackOK, NEW n, n \in Files => n.pages \cap doubled # {},
         queue' \subseteq queue \cup {n}, at # "clearing",
         UNCHANGED <<paper, takenBack, filings, doubled, unsure, adopted>>
  PROVE  BackOK'
<1>1. paper \subseteq Files /\ takenBack \subseteq Files
  BY DEF Files
<1>2. \A f \in queue' \cap paper' : f \in unsure' \/ f.pages \cap doubled' # {}
  BY <1>1 DEF BackOK
<1>3. \A f \in takenBack' \cap queue' : f.pages \cap doubled' # {}
  BY <1>1 DEF BackOK
<1>4. TakenBackIsGone'
  BY DEF BackOK, TakenBackIsGone
<1> QED
  BY <1>2, <1>3, <1>4 DEF BackOK

(* A file leaves the queue for discarded/. *)
LEMMA BackOutOfQueue ==
  ASSUME BackOK, NEW f \in queue, OutOfQueue(f), at = "idle",
         UNCHANGED <<paper, filings, doubled, unsure, adopted, at>>
  PROVE  BackOK'
<1>1. queue' = queue \ {f} /\ takenBack' = takenBack \cup {f}
  BY DEF OutOfQueue
<1>2. \A g \in queue \cap paper : g \in unsure \/ g.pages \cap doubled # {}
  BY DEF BackOK
<1>3. TakenBackIsGone'
  BY <1>1, <1>2 DEF BackOK, TakenBackIsGone
<1>4. \A g \in takenBack' \cap queue' : g.pages \cap doubled' # {}
  BY <1>1 DEF BackOK
<1> QED
  BY <1>1, <1>2, <1>3, <1>4 DEF BackOK

(* What is said of one upload changes. *)
LEMMA BackFiling ==
  ASSUME BackOK, at = "idle", UNCHANGED <<queue, doubled, adopted, at>>,
         NEW x \in filings, NEW y, y.file = x.file,
         filings' = (filings \ {x}) \cup {y},
         unsure \subseteq unsure', unsure' \subseteq unsure \cup {x.file},
         paper' \subseteq paper, paper \ {x.file} \subseteq paper',
         takenBack \subseteq takenBack', takenBack' \subseteq takenBack \cup {x.file},
         x.file \in takenBack' => x.file \notin queue \/ takenBack' = takenBack,
         x.undo /\ x.state = "reading" =>
            (y.undo /\ y.state = "reading") \/ x.file \in unsure' \/ x.file \notin paper',
         takenBack' # takenBack =>
            (y.undo /\ y.state = "reading") \/ x.file \notin paper' \/ x.file \in unsure
            \/ x.file.pages \cap doubled # {},
         y.state = "ended" => x.file \in unsure' \/ x.file \notin paper' \/ x.state = "ended"
  PROVE  BackOK'
<1>1. \A f \in queue' \cap paper' : f \in unsure' \/ f.pages \cap doubled' # {}
  BY DEF BackOK
<1>2. \A f \in takenBack' \cap queue' : f.pages \cap doubled' # {}
  BY DEF BackOK
<1>3. \A z \in filings' : z.state = "ended" /\ z.file \in paper' =>
        z.file \in unsure' \/ z.file.pages \cap doubled' # {}
  BY DEF BackOK
<1>4. ASSUME NEW f \in takenBack' \cap paper', f \notin unsure', f.pages \cap doubled' = {}
      PROVE  \E z \in filings' : z.file = f /\ z.undo /\ z.state = "reading"
  <2>1. y \in filings'
    OBVIOUS
  <2>2. CASE f \in takenBack
    <3>1. PICK z \in filings : z.file = f /\ z.undo /\ z.state = "reading"
      BY <1>4, <2>2 DEF BackOK, TakenBackIsGone
    <3>2. CASE z = x
      BY <1>4, <2>1, <3>1, <3>2
    <3>3. CASE z # x
      BY <3>1, <3>3
    <3> QED
      BY <3>2, <3>3
  <2>3. CASE f \notin takenBack
    <3>1. f = x.file /\ takenBack' # takenBack
      BY <1>4, <2>3
    <3> QED
      BY <1>4, <2>1, <3>1
  <2> QED
    BY <2>2, <2>3
<1>5. TakenBackIsGone'
  BY <1>4 DEF TakenBackIsGone
<1> QED
  BY <1>1, <1>2, <1>3, <1>5 DEF BackOK

LEMMA BackStep ==
  ASSUME Inv, TypeOK, TurnOK, PagesOK, BackOK, [Next]_vars
  PROVE  BackOK'
<1> USE DEF disk, paperless, memory, ghosts
<1>0. PlacesOK
  BY DEF Inv
<1>1. CASE UNCHANGED vars
  <2>1. UNCHANGED <<queue, paper, takenBack, filings, adopted, doubled, unsure, at, letter>>
    BY <1>1 DEF vars
  <2> QED
    BY <2>1, BackLeft
<1>2. CASE \/ PhotographPage \/ PhotographTable \/ PhotographEnvelope \/ CloseIfDue \/ DrainDue
           \/ RetryAll \/ QueueNothing \/ RemovePage \/ PutBack \/ Closed \/ SendFailed \/ Done
           \/ DrainEnds \/ CancelPage \/ Restart \/ CancelLetter
           \/ \E s \in Page : BecomesDue(s) \/ TakeBackPage(s)
  <2>1. /\ queue' \subseteq queue /\ UNCHANGED <<paper, takenBack, filings, doubled, unsure>>
        /\ adopted' = adopted \/ adopted' = TRUE
    BY <1>2 DEF PhotographPage, PhotographTable, PhotographEnvelope, CloseIfDue, DrainDue,
       RetryAll, StartDrain, QueueNothing, RemovePage, PutBack, Closed, SendFailed, Done,
       DrainEnds, CancelPage, Restart, CancelLetter, BecomesDue, TakeBackPage
  <2>2. at = "clearing" => UNCHANGED <<at, letter>> \/ letter \notin queue'
    BY <1>2 DEF PhotographPage, PhotographTable, PhotographEnvelope, CloseIfDue, DrainDue,
       RetryAll, StartDrain, QueueNothing, RemovePage, PutBack, Closed, SendFailed, Done,
       DrainEnds, CancelPage, Restart, CancelLetter, BecomesDue, TakeBackPage
  <2> QED
    BY <2>1, <2>2, BackLeft
<1>3. CASE PhotographSingle
  <2> DEFINE n == [kind |-> "jpg", pages |-> {taken'}]
  <2>1. /\ queue' = queue \cup {n} /\ at = "idle" /\ taken' = taken + 1
        /\ UNCHANGED <<paper, takenBack, filings, doubled, unsure, adopted>>
    BY <1>3 DEF PhotographSingle
  <2>2. n.pages = {taken'}
    OBVIOUS
  <2> HIDE DEF n
  <2>3. n \notin Files
    BY <1>0, <2>1, <2>2, PageIsNew
  <2> QED
    BY <2>1, <2>3, BackWithFile
<1>4. CASE QueueBadPage \/ QueueLetter
  <2>1. open \cap bad # {} => Min(open \cap bad) \in open
    BY FirstPage DEF TypeOK
  <2>2. PICK n : /\ n.pages \subseteq open /\ n.pages # {}
                 /\ queue' \subseteq queue \cup {n}
    <3>1. CASE QueueBadPage
      <4> DEFINE n == [kind |-> "jpg", pages |-> {Min(open \cap bad)}]
      <4>1. queue' \subseteq queue \cup {n} /\ n.pages \subseteq open /\ n.pages # {}
        BY <2>1, <3>1 DEF QueueBadPage, Committed
      <4> QED
        BY <4>1
    <3>2. CASE QueueLetter
      <4> DEFINE n == [kind |-> "pdf", pages |-> open]
      <4>1. queue' \subseteq queue \cup {n} /\ n.pages \subseteq open /\ n.pages # {}
        BY <3>2 DEF QueueLetter, Committed
      <4> QED
        BY <4>1
    <3> QED
      BY <1>4, <3>1, <3>2
  <2>3. at = "closing" /\ UNCHANGED <<paper, takenBack, filings, doubled, unsure, adopted>>
    BY <1>4 DEF QueueBadPage, QueueLetter
  <2>4. n \in Files => n.pages \cap open \subseteq doubled
    BY <2>3 DEF PagesOK
  <2>5. n \in Files => n.pages \cap doubled # {}
    BY <2>2, <2>4
  <2> QED
    BY <2>2, <2>3, <2>5, BackWithFile
<1>5. CASE Sent
  <2>1. letter' \in queue /\ letter' \in File
    BY <1>5, SentFile DEF Sent
  <2>2. /\ UNCHANGED <<queue, takenBack, doubled, unsure, adopted>>
        /\ paper' = paper \cup {letter'} /\ at = "draining" /\ at' = "clearing"
    BY <1>5 DEF Sent, Filed
  <2>3. \/ filings = {} /\ filings' = {}
        \/ /\ adopted
           /\ filings' = {x \in filings : Name(x.file) # Name(letter')}
                         \cup {Followed(letter', letter' \in paper)}
    BY <1>5 DEF Sent, BackOK
  <2>4. \A f \in queue' \cap paper' :
          f \in unsure' \/ f.pages \cap doubled' # {} \/ (at' = "clearing" /\ letter' = f)
    BY <2>2 DEF BackOK
  <2>5. \A f \in takenBack' \cap queue' : f.pages \cap doubled' # {}
    BY <2>2 DEF BackOK
  <2>6. \A x \in filings' : x.state = "ended" => x \in filings /\ x.file # letter'
    BY <2>3 DEF Followed
  <2>7. \A x \in filings' : x.state = "ended" /\ x.file \in paper' =>
          x.file \in unsure' \/ x.file.pages \cap doubled' # {}
    BY <2>2, <2>6 DEF BackOK
  <2>8. ASSUME NEW f \in takenBack' \cap paper', f \notin unsure', f.pages \cap doubled' = {}
        PROVE  \E x \in filings' : x.file = f /\ x.undo /\ x.state = "reading"
    <3>1. f # letter'
      BY <2>1, <2>2, <2>5, <2>8
    <3>2. PICK x \in filings : x.file = f /\ x.undo /\ x.state = "reading"
      BY <2>2, <2>8, <3>1 DEF BackOK, TakenBackIsGone
    <3>3. f \in Files /\ letter' \in Files /\ f \in File
      BY <2>1, <2>8, <2>2 DEF Files, TypeOK
    <3>4. Stem(f) # Stem(letter')
      <4>1. f.pages \cap letter'.pages \subseteq doubled
        BY <3>1, <3>3 DEF PagesOK
      <4>2. Stem(f) \in f.pages /\ Stem(letter') \in letter'.pages
        BY <2>1, <3>3, FileStem
      <4> QED
        BY <2>2, <2>8, <4>1, <4>2
    <3>5. Name(f) # Name(letter')
      BY <3>4 DEF Name
    <3> QED
      BY <2>3, <3>2, <3>5
  <2>9. TakenBackIsGone'
    BY <2>8 DEF TakenBackIsGone
  <2>10. ~adopted' => filings' = {}
    BY <2>2, <2>3
  <2> QED
    BY <2>4, <2>5, <2>7, <2>9, <2>10 DEF BackOK
<1>6. CASE AnswerLost
  <2>1. /\ UNCHANGED <<queue, takenBack, doubled, adopted, filings, at, letter>>
        /\ paper' = paper \cup {Oldest(todo)} /\ unsure' = unsure \cup {Oldest(todo)}
        /\ at = "draining"
    BY <1>6 DEF AnswerLost, Filed
  <2>2. TakenBackIsGone'
    BY <2>1 DEF BackOK, TakenBackIsGone
  <2> QED
    BY <2>1, <2>2 DEF BackOK
<1>7. ASSUME NEW x \in filings, Follow(x) \/ GiveUp(x) PROVE BackOK'
  <2>1. /\ at = "idle" /\ UNCHANGED <<queue, doubled, adopted, at, takenBack>>
        /\ x.state = "reading"
    BY <1>7 DEF Follow, GiveUp
  <2>2. PICK s \in {"document", "ended"} :
          /\ filings' = (filings \ {x}) \cup {[x EXCEPT !.state = s]}
          /\ unsure \subseteq unsure' /\ unsure' \subseteq unsure \cup {x.file}
          /\ paper' \subseteq paper /\ paper \ {x.file} \subseteq paper'
          /\ s = "ended" => x.file \in unsure' \/ x.file \notin paper'
          /\ x.undo => s = "ended"
    BY <1>7 DEF Follow, GiveUp
  <2>3. x \in Filing
    BY DEF TypeOK, Filing
  <2> DEFINE y == [x EXCEPT !.state = s]
  <2>4. y.file = x.file /\ y.state = s
    BY <2>2, <2>3, FilingFields
  <2>5. filings' = (filings \ {x}) \cup {y}
    BY <2>2
  <2> HIDE DEF y
  <2> QED
    BY <2>1, <2>2, <2>4, <2>5, BackFiling
<1>8. ASSUME NEW f \in queue, DiscardQueued(f) PROVE BackOK'
  BY <1>8, BackOutOfQueue DEF DiscardQueued
<1>9. CASE UndoLetter
  <2>1. UNCHANGED <<doubled, unsure, adopted, at, letter>> /\ at = "idle"
    BY <1>9 DEF UndoLetter
  <2>2. CASE \E f \in queue : OutOfQueue(f) /\ UNCHANGED <<paper, filings>>
    BY <2>1, <2>2, BackOutOfQueue
  <2>3. CASE UNCHANGED <<paper, filings, queue, takenBack>>
    BY <2>1, <2>3, BackLeft
  <2>4. ASSUME NEW x \in filings, x.state = "document", x.file \notin queue, UNCHANGED queue,
               filings' = (filings \ {x}) \cup {[x EXCEPT !.state = "ended"]},
               paper' = paper \ {x.file}, takenBack' = takenBack \cup {x.file}
        PROVE  BackOK'
    <3> DEFINE y == [x EXCEPT !.state = "ended"]
    <3>1. y.file = x.file
      BY FilingFields DEF TypeOK, Filing
    <3>2. filings' = (filings \ {x}) \cup {y}
      BY <2>4
    <3> HIDE DEF y
    <3> QED
      BY <2>1, <2>4, <3>1, <3>2, BackFiling
  <2>5. ASSUME NEW x \in filings, x.state # "document", x.file \notin queue,
               UNCHANGED <<queue, paper>>,
               filings' = (filings \ {x}) \cup {[x EXCEPT !.undo = TRUE]},
               takenBack' = takenBack \cup {x.file}
        PROVE  BackOK'
    <3> DEFINE y == [x EXCEPT !.undo = TRUE]
    <3>1. y.file = x.file /\ y.undo /\ y.state = x.state /\ x.state \in {"reading", "ended"}
      BY <2>5, FilingFields DEF TypeOK, Filing
    <3>2. filings' = (filings \ {x}) \cup {y}
      BY <2>5
    <3> HIDE DEF y
    <3>3. x.state = "ended" =>
            x.file \notin paper \/ x.file \in unsure \/ x.file.pages \cap doubled # {}
      BY DEF BackOK
    <3> QED
      BY <2>1, <2>5, <3>1, <3>2, <3>3, BackFiling
  <2>6. \/ \E f \in queue : OutOfQueue(f) /\ UNCHANGED <<paper, filings>>
        \/ UNCHANGED <<paper, filings, queue, takenBack>>
        \/ \E x \in filings :
              /\ UNCHANGED queue /\ takenBack' = takenBack \cup {x.file} /\ x.file \notin queue
              /\ \/ /\ x.state = "document" /\ paper' = paper \ {x.file}
                    /\ filings' = (filings \ {x}) \cup {[x EXCEPT !.state = "ended"]}
                 \/ /\ x.state # "document" /\ UNCHANGED paper
                    /\ filings' = (filings \ {x}) \cup {[x EXCEPT !.undo = TRUE]}
    BY <1>9 DEF UndoLetter
  <2> QED
    BY <2>2, <2>3, <2>4, <2>5, <2>6
<1>10. CASE Crash
  <2>1. /\ UNCHANGED <<queue, paper, takenBack>> /\ filings' = {} /\ doubled \subseteq doubled'
        /\ unsure \subseteq unsure' /\ \A x \in filings : x.file \in unsure'
        /\ at = "clearing" => letter \in unsure'
    BY <1>10 DEF Crash
  <2>2. TakenBackIsGone'
    BY <2>1 DEF BackOK, TakenBackIsGone
  <2>3. \A f \in queue' \cap paper' : f \in unsure' \/ f.pages \cap doubled' # {}
    BY <2>1 DEF BackOK
  <2>4. \A f \in takenBack' \cap queue' : f.pages \cap doubled' # {}
    BY <2>1 DEF BackOK
  <2> QED
    BY <2>1, <2>2, <2>3, <2>4 DEF BackOK
<1> QED
  BY <1>1, <1>2, <1>3, <1>4, <1>5, <1>6, <1>7, <1>8, <1>9, <1>10 DEF Next, Daemon

(* A letter the person was told is taken back is in Paperless only while   *)
(* its deletion waits, or when its upload was not followed to the end, or  *)
(* its pages were left twice by a crash.                                   *)
THEOREM TakenBack == Spec => []TakenBackIsGone
<1> DEFINE J == Inv /\ TypeOK /\ TurnOK /\ PagesOK /\ BackOK
<1>1. Init => J
  BY Start, TypeInit, PagesInit, BackInit
<1>2. J /\ [Next]_vars => J'
  BY Step, TypeStep, TurnStep, PagesStep, BackStep
<1>3. J => TakenBackIsGone
  BY DEF BackOK
<1> HIDE DEF J
<1> QED
  BY <1>1, <1>2, <1>3, PTL DEF Spec

============================================================================
