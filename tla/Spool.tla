------------------------------- MODULE Spool -------------------------------
(***************************************************************************)
(* The spool of the capture daemon (apps/scannerd): photographs of paper   *)
(* post as files on a Pi's disk, from the camera until Paperless has them. *)
(* Pages of one letter wait in open/, closing the letter makes them one    *)
(* PDF in the queue, and a drain uploads the queue oldest first.           *)
(*                                                                         *)
(* The daemon is one loop, so its operations do not interleave with each   *)
(* other.  What comes between their steps is the power going: every rename *)
(* is a step, and Crash may follow any of them.  What comes between its    *)
(* uploads is the network: an answer can be lost after Paperless took the  *)
(* letter.  The person stands at the setup page or the touch screen.       *)
(*                                                                         *)
(* A page is the number of its photograph: file names are capture times,   *)
(* so their order is the numeric order.  A file of the queue is its kind   *)
(* and its pages, which stand for its bytes.                               *)
(***************************************************************************)
EXTENDS Naturals, FiniteSets, FiniteSetsExt

CONSTANTS
    MaxPages,       \* photographs taken: a bound
    MaxCrashes      \* power cuts: a bound

ASSUME BoundsAssumption == MaxPages \in Nat /\ MaxCrashes \in Nat

Page == 1..MaxPages
File == [kind : {"jpg", "pdf"}, pages : (SUBSET Page) \ {{}}]

Stem(f) == Min(f.pages)                 \* named for its first page
Name(f) == <<f.kind, Stem(f)>>
NoFile == [kind |-> "none", pages |-> {}]
NoName == <<"none", 0>>

VARIABLES
    \* the disk, which survives a crash
    taken,          \* how many photographs there have been
    bad,            \* pages whose bytes cannot go into a PDF
    open,           \* open/: the pages of the letter being collected
    aside,          \* the page set beside the spool as <name>.aside
    queue,          \* the files waiting to be uploaded
    folders,        \* the stems with a .folders file: where it was decided to go
    backingOff,     \* the stems whose .attempts says it is not time yet
    discarded,      \* pages in discarded/, deleted, or in Paperless's trash
    \* Paperless
    paper,          \* the files it has as documents; the same bytes only once
    labelled,       \* those that came with the folder decided on the rig
    \* the daemon's memory
    collecting,     \* pages are collected into letters
    at,             \* where the loop is
    keep,           \* the envelope kept out of the letter being closed, or 0
    letter,         \* the file being made or sent
    todo,           \* what this drain still has to send
    seen,           \* a page has been measured, so envelopes can be told
    adopted,        \* the folders are known, so uploads are followed
    last,           \* the name "Undo last letter" means
    filings,        \* the uploads being followed
    \* observers
    crashes,
    doubled,        \* pages a crash left in open/ after their PDF was queued
    takenBack,      \* files the person was told are taken back
    unsure          \* files whose upload was not followed to its end

disk == <<taken, bad, open, aside, queue, folders, backingOff, discarded>>
paperless == <<paper, labelled>>
memory == <<collecting, at, keep, letter, todo, seen, adopted, last, filings>>
ghosts == <<crashes, doubled, takenBack, unsure>>
vars == <<disk, paperless, memory, ghosts>>

----------------------------------------------------------------------------
Init ==
    /\ taken = 0 /\ bad = {} /\ open = {} /\ aside = {} /\ queue = {}
    /\ folders = {} /\ backingOff = {} /\ discarded = {}
    /\ paper = {} /\ labelled = {}
    /\ collecting \in BOOLEAN
    /\ at = "idle" /\ keep = 0 /\ letter = NoFile /\ todo = {}
    /\ seen = FALSE /\ adopted = TRUE /\ last = NoName /\ filings = {}
    /\ crashes = 0 /\ doubled = {} /\ takenBack = {} /\ unsure = {}

(* What is waiting and due: Spool::pending and Pending::due. *)
Due(files) == {f \in files : Stem(f) \notin backingOff}

(* Oldest first, by capture time and then by path. *)
Oldest(files) ==
    CHOOSE f \in files : \A g \in files :
        Stem(f) < Stem(g) \/ (Stem(f) = Stem(g) /\ (f.kind = "jpg" \/ g.kind = "pdf"))

(* Renaming a finished file over whatever has its name. *)
Committed(f) == {g \in queue : Name(g) /= Name(f)} \cup {f}

----------------------------------------------------------------------------
(* Photographs.  A page is written as .partial and renamed, so a crash in  *)
(* the middle is no photograph at all.                                     *)

(* A page of the letter being collected. *)
PhotographPage ==
    /\ at = "idle" /\ collecting /\ taken < MaxPages
    /\ taken' = taken + 1
    /\ open' = open \cup {taken'}
    /\ bad' \in {bad, bad \cup {taken'}}
    /\ seen' = TRUE
    /\ UNCHANGED <<aside, queue, folders, backingOff, discarded, paperless,
                   collecting, at, keep, letter, todo, adopted, last, filings, ghosts>>

(* Pages are not collected: the page is queued as it is, and sent at once. *)
PhotographSingle ==
    /\ at = "idle" /\ ~collecting /\ taken < MaxPages
    /\ taken' = taken + 1
    /\ queue' = queue \cup {[kind |-> "jpg", pages |-> {taken'}]}
    /\ at' = "draining" /\ todo' = Due(queue')
    /\ seen' = TRUE
    /\ UNCHANGED <<bad, open, aside, folders, backingOff, discarded, paperless,
                   collecting, keep, letter, adopted, last, filings, ghosts>>

(* The table, or a page with nothing on it: photographed and not kept. *)
PhotographTable ==
    /\ at = "idle" /\ taken < MaxPages
    /\ taken' = taken + 1
    /\ discarded' = discarded \cup {taken'}
    /\ UNCHANGED <<bad, open, aside, queue, folders, backingOff, paperless, memory, ghosts>>

(* An envelope ends the letter before it: close_letter_except sets it      *)
(* aside for as long as the letter takes to close.                         *)
PhotographEnvelope ==
    /\ at = "idle" /\ collecting /\ seen /\ taken < MaxPages
    /\ taken' = taken + 1
    /\ aside' = aside \cup {taken'}
    /\ keep' = taken'
    /\ at' = "closing"
    /\ UNCHANGED <<bad, open, queue, folders, backingOff, discarded, paperless,
                   collecting, letter, todo, seen, adopted, last, filings, ghosts>>

----------------------------------------------------------------------------
(* Closing the open letter. *)

(* The button, the page, the clear table or the idle time. *)
CloseIfDue ==
    /\ at = "idle" /\ collecting /\ open /= {}
    /\ at' = "closing"
    /\ UNCHANGED <<disk, paperless, collecting, keep, letter, todo, seen, adopted, last,
                   filings, ghosts>>

(* A page that cannot go into a PDF is queued on its own. *)
QueueBadPage ==
    /\ at = "closing" /\ open \cap bad /= {}
    /\ LET p == Min(open \cap bad) IN
        /\ open' = open \ {p}
        /\ queue' = Committed([kind |-> "jpg", pages |-> {p}])
    /\ UNCHANGED <<taken, bad, aside, folders, backingOff, discarded, paperless, memory, ghosts>>

(* The PDF is renamed into the queue before its pages are touched. *)
QueueLetter ==
    /\ at = "closing" /\ open /= {} /\ open \cap bad = {}
    /\ letter' = [kind |-> "pdf", pages |-> open]
    /\ queue' = Committed(letter')
    /\ at' = "removing"
    /\ UNCHANGED <<taken, bad, open, aside, folders, backingOff, discarded, paperless,
                   collecting, keep, todo, seen, adopted, last, filings, ghosts>>

(* No page left for a PDF, or the PDF could not be written: the pages stay. *)
QueueNothing ==
    /\ at = "closing" /\ open \cap bad = {}
    /\ at' = "closed"
    /\ UNCHANGED <<disk, paperless, collecting, keep, letter, todo, seen, adopted, last,
                   filings, ghosts>>

(* Mutant: the pages stay in open/ once the PDF has them.                  *)
RemoveNoPage ==
    /\ at = "removing" /\ at' = "closed"
    /\ UNCHANGED <<disk, paperless, collecting, keep, letter, todo, seen, adopted, last,
                   filings, ghosts>>

(* The pages, one rename each, out of open/ now that the PDF has them. *)
RemovePage ==
    /\ at = "removing"
    /\ LET left == open \cap letter.pages IN
        IF left = {}
        THEN at' = "closed" /\ UNCHANGED open
        ELSE open' = open \ {Min(left)} /\ UNCHANGED at
    /\ UNCHANGED <<taken, bad, aside, queue, folders, backingOff, discarded, paperless,
                   collecting, keep, letter, todo, seen, adopted, last, filings, ghosts>>

(* The envelope goes back as the first page of the next letter. *)
PutBack ==
    /\ at = "closed" /\ keep \in aside
    /\ aside' = aside \ {keep}
    /\ open' = open \cup {keep}
    /\ UNCHANGED <<taken, bad, queue, folders, backingOff, discarded, paperless, memory, ghosts>>

(* Mutant: where the letter goes is only remembered.                       *)
ClosedUnrecorded ==
    /\ at = "closed" /\ keep \notin aside
    /\ keep' = 0 /\ letter' = NoFile
    /\ last' = IF letter = NoFile THEN last ELSE Name(letter)
    /\ todo' = IF letter = NoFile THEN {} ELSE Due(queue)
    /\ at' = IF letter = NoFile THEN "idle" ELSE "draining"
    /\ UNCHANGED <<disk, paperless, collecting, seen, adopted, filings, ghosts>>

(* What follows in the turn: where the letter goes is written beside it,   *)
(* an envelope with nothing to read on it is not kept, and a letter that   *)
(* was closed is sent.                                                     *)
Closed ==
    /\ at = "closed" /\ keep \notin aside
    /\ \/ UNCHANGED <<open, discarded>>
       \/ keep /= 0 /\ open' = open \ {keep} /\ discarded' = discarded \cup {keep}
    /\ keep' = 0
    /\ letter' = NoFile
    /\ IF letter = NoFile
       THEN at' = "idle" /\ UNCHANGED <<folders, last, todo>>
       ELSE /\ folders' = folders \cup {Stem(letter)}
            /\ last' = Name(letter)
            /\ todo' = Due(queue)
            /\ at' = "draining"
    /\ UNCHANGED <<taken, bad, aside, queue, backingOff, paperless, collecting, seen,
                   adopted, filings, ghosts>>

----------------------------------------------------------------------------
(* Sending. *)

(* On the timer what is due; "retry now" everything. *)
StartDrain(files) ==
    /\ at = "idle" /\ files /= {}
    /\ todo' = files
    /\ at' = "draining"
    /\ UNCHANGED <<disk, paperless, collecting, keep, letter, seen, adopted, last,
                   filings, ghosts>>

DrainDue == StartDrain(Due(queue))
RetryAll == StartDrain(queue)

Followed(f, known) ==
    [file |-> f, state |-> "reading", known |-> known, undo |-> FALSE]

(* Paperless takes the file, or finds it has those very bytes already. *)
Filed(f) ==
    /\ paper' = paper \cup {f}
    /\ labelled' = IF f \notin paper /\ Stem(f) \in folders THEN labelled \cup {f} ELSE labelled

(* Taken, and its answer heard: the upload is followed from here on. *)
Sent ==
    /\ at = "draining" /\ todo /= {}
    /\ letter' = Oldest(todo)
    /\ Filed(letter')
    /\ filings' = IF adopted
                  THEN {x \in filings : Name(x.file) /= Name(letter')}
                       \cup {Followed(letter', letter' \in paper)}
                  ELSE filings
    /\ at' = "clearing"
    /\ UNCHANGED <<disk, collecting, keep, todo, seen, adopted, last, ghosts>>

Failed(f) ==
    /\ backingOff' = backingOff \cup {Stem(f)}
    /\ todo' = todo \ {f}

(* Mutant: what could not be sent is cleared like what was.                *)
SendFailedDropped ==
    /\ at = "draining" /\ todo /= {}
    /\ Failed(Oldest(todo))
    /\ queue' = queue \ {Oldest(todo)}
    /\ UNCHANGED <<taken, bad, open, aside, folders, discarded, paperless,
                   collecting, at, keep, letter, seen, adopted, last, filings, ghosts>>

(* Paperless cannot be reached or refuses: the capture is kept. *)
SendFailed ==
    /\ at = "draining" /\ todo /= {}
    /\ Failed(Oldest(todo))
    /\ UNCHANGED <<taken, bad, open, aside, queue, folders, discarded, paperless,
                   collecting, at, keep, letter, seen, adopted, last, filings, ghosts>>

(* Paperless took it and the answer was lost: to the daemon, the same. *)
AnswerLost ==
    /\ at = "draining" /\ todo /= {}
    /\ Failed(Oldest(todo))
    /\ Filed(Oldest(todo))
    /\ unsure' = unsure \cup {Oldest(todo)}
    /\ UNCHANGED <<taken, bad, open, aside, queue, folders, discarded,
                   collecting, at, keep, letter, seen, adopted, last, filings,
                   crashes, doubled, takenBack>>

(* Mutant: a capture that was cleared is sent again by the same drain.     *)
DoneAndAgain ==
    /\ at = "clearing"
    /\ queue' = queue \ {letter}
    /\ letter' = NoFile
    /\ at' = "draining"
    /\ UNCHANGED <<taken, bad, open, aside, folders, backingOff, discarded, paperless,
                   collecting, keep, todo, seen, adopted, last, filings, ghosts>>

(* Spool::done: the sidecars first, then the capture. *)
Done ==
    /\ at = "clearing"
    /\ backingOff' = backingOff \ {Stem(letter)}
    /\ folders' = folders \ {Stem(letter)}
    /\ queue' = queue \ {letter}
    /\ todo' = todo \ {letter}
    /\ letter' = NoFile
    /\ at' = "draining"
    /\ UNCHANGED <<taken, bad, open, aside, discarded, paperless, collecting, keep, seen,
                   adopted, last, filings, ghosts>>

DrainEnds ==
    /\ at = "draining" /\ todo = {}
    /\ at' = "idle"
    /\ adopted' = TRUE
    /\ UNCHANGED <<disk, paperless, collecting, keep, letter, todo, seen, last, filings, ghosts>>

(* Mutant: after a failure a capture waits for somebody to press retry.    *)
NeverDue(s) == s \in backingOff /\ UNCHANGED vars

(* The retry delay after a failure is over. *)
BecomesDue(s) ==
    /\ s \in backingOff
    /\ backingOff' = backingOff \ {s}
    /\ UNCHANGED <<taken, bad, open, aside, queue, folders, discarded, paperless, memory, ghosts>>

(* Mutant: a letter taken back while it was read is followed like others.  *)
FollowWithoutUndo(x) ==
    /\ at = "idle" /\ x \in filings /\ x.state = "reading"
    /\ filings' = (filings \ {x}) \cup
                  {[x EXCEPT !.state = IF x.known THEN "ended" ELSE "document"]}
    /\ UNCHANGED <<disk, paperless, collecting, at, keep, letter, todo, seen, adopted,
                   last, ghosts>>

(* follow: Paperless says what became of an upload.  Told that it had the  *)
(* bytes already, the daemon learns of no document; a letter taken back    *)
(* while it was being read is deleted.                                     *)
Follow(x) ==
    /\ at = "idle" /\ x \in filings /\ x.state = "reading"
    /\ LET outcome == IF x.known \/ x.undo THEN "ended" ELSE "document" IN
        filings' = (filings \ {x}) \cup {[x EXCEPT !.state = outcome]}
    /\ IF x.undo /\ ~x.known
       THEN /\ paper' = paper \ {x.file}
            /\ discarded' = discarded \cup x.file.pages
       ELSE UNCHANGED <<paper, discarded>>
    /\ unsure' = IF x.known THEN unsure \cup {x.file} ELSE unsure
    /\ UNCHANGED <<taken, bad, open, aside, queue, folders, backingOff, labelled,
                   collecting, at, keep, letter, todo, seen, adopted, last,
                   crashes, doubled, takenBack>>

(* After a quarter of an hour a letter is not waited for any more. *)
GiveUp(x) ==
    /\ at = "idle" /\ x \in filings /\ x.state = "reading"
    /\ filings' = (filings \ {x}) \cup {[x EXCEPT !.state = "ended"]}
    /\ unsure' = unsure \cup {x.file}
    /\ UNCHANGED <<disk, paperless, collecting, at, keep, letter, todo, seen, adopted, last,
                   crashes, doubled, takenBack>>

----------------------------------------------------------------------------
(* The person. *)

(* Mutant: the page is copied to discarded/, not moved.                    *)
CopyBackPage(p) ==
    /\ at = "idle" /\ p \in open
    /\ discarded' = discarded \cup {p}
    /\ UNCHANGED <<taken, bad, open, aside, queue, folders, backingOff, paperless, memory, ghosts>>

(* A page of the open letter is taken back: "Undo last page", a page       *)
(* deleted on the setup page, a hand pressing a page flat, a page in which *)
(* the reader found no word.                                               *)
TakeBackPage(p) ==
    /\ at = "idle" /\ p \in open
    /\ open' = open \ {p}
    /\ discarded' = discarded \cup {p}
    /\ UNCHANGED <<taken, bad, aside, queue, folders, backingOff, paperless, memory, ghosts>>

(* "Cancel letter" moves the pages one by one. *)
CancelLetter ==
    /\ at = "idle" /\ open /= {}
    /\ at' = "cancelling"
    /\ UNCHANGED <<disk, paperless, collecting, keep, letter, todo, seen, adopted, last,
                   filings, ghosts>>

CancelPage ==
    /\ at = "cancelling"
    /\ IF open = {}
       THEN at' = "idle" /\ UNCHANGED <<open, discarded>>
       ELSE /\ open' = open \ {Min(open)}
            /\ discarded' = discarded \cup {Min(open)}
            /\ UNCHANGED at
    /\ UNCHANGED <<taken, bad, aside, queue, folders, backingOff, paperless,
                   collecting, keep, letter, todo, seen, adopted, last, filings, ghosts>>

(* Spool::discard_queued: the file and its attempts, not its folders. *)
OutOfQueue(f) ==
    /\ queue' = queue \ {f}
    /\ discarded' = discarded \cup f.pages
    /\ backingOff' = backingOff \ {Stem(f)}
    /\ takenBack' = takenBack \cup {f}

(* A letter waiting to be sent is thrown away. *)
DiscardQueued(f) ==
    /\ at = "idle" /\ f \in queue
    /\ OutOfQueue(f)
    /\ last' = IF last = Name(f) THEN NoName ELSE last
    /\ UNCHANGED <<taken, bad, open, aside, folders, paperless, collecting, at, keep, letter,
                   todo, seen, adopted, filings, crashes, doubled, unsure>>

(* "Undo last letter": out of the queue, or deleted from Paperless, or to  *)
(* be deleted once Paperless has read it.                                  *)
UndoLetter ==
    /\ at = "idle" /\ last /= NoName
    /\ last' = NoName
    /\ \/ \E f \in queue :
            /\ Name(f) = last
            /\ OutOfQueue(f)
            /\ UNCHANGED <<paper, filings>>
       \/ \E x \in filings :
            /\ \A f \in queue : Name(f) /= last
            /\ Name(x.file) = last
            /\ IF x.state = "document"
               THEN \/ /\ paper' = paper \ {x.file}
                       /\ filings' = (filings \ {x}) \cup {[x EXCEPT !.state = "ended"]}
                       /\ discarded' = discarded \cup x.file.pages
                       /\ takenBack' = takenBack \cup {x.file}
                    \/ UNCHANGED <<paper, filings, discarded, takenBack>>
               ELSE /\ filings' = (filings \ {x}) \cup {[x EXCEPT !.undo = TRUE]}
                    /\ takenBack' = takenBack \cup {x.file}
                    /\ UNCHANGED <<paper, discarded>>
            /\ UNCHANGED <<queue, backingOff>>
       \/ /\ \A f \in queue : Name(f) /= last
          /\ \A x \in filings : Name(x.file) /= last
          /\ UNCHANGED <<paper, filings, queue, discarded, backingOff, takenBack>>
    /\ UNCHANGED <<taken, bad, open, aside, folders, labelled, collecting, at, keep, letter,
                   todo, seen, adopted, crashes, doubled, unsure>>

----------------------------------------------------------------------------
(* The power goes.  Everything in memory is gone; the files are as the     *)
(* last rename left them.                                                  *)
Crash ==
    /\ at /= "down" /\ crashes < MaxCrashes
    /\ crashes' = crashes + 1
    /\ at' = "down" /\ keep' = 0 /\ letter' = NoFile /\ todo' = {}
    /\ seen' = FALSE /\ last' = NoName /\ filings' = {}
    /\ adopted' = FALSE
    /\ doubled' = IF at = "removing" THEN doubled \cup (open \cap letter.pages) ELSE doubled
    /\ unsure' = unsure \cup {x.file : x \in filings}
                        \cup (IF at = "clearing" THEN {letter} ELSE {})
    /\ UNCHANGED <<disk, paperless, collecting, takenBack>>

(* Whatever is already waiting goes first, before the folders are known. *)
Restart ==
    /\ at = "down"
    /\ at' = "draining"
    /\ todo' = Due(queue)
    /\ UNCHANGED <<disk, paperless, collecting, keep, letter, seen, adopted, last, filings, ghosts>>

----------------------------------------------------------------------------
Daemon ==
    \/ QueueBadPage \/ QueueLetter \/ QueueNothing \/ RemovePage \/ PutBack \/ Closed
    \/ Sent \/ SendFailed \/ AnswerLost \/ Done \/ DrainEnds \/ CancelPage \/ Restart

Next ==
    \/ PhotographPage \/ PhotographSingle \/ PhotographTable \/ PhotographEnvelope
    \/ CloseIfDue \/ DrainDue \/ RetryAll
    \/ Daemon
    \/ \E s \in Page : BecomesDue(s) \/ TakeBackPage(s)
    \/ \E x \in filings : Follow(x) \/ GiveUp(x)
    \/ CancelLetter
    \/ \E f \in queue : DiscardQueued(f)
    \/ UndoLetter
    \/ Crash

Spec == Init /\ [][Next]_vars

(* The loop goes on and comes back to its two duties; delays pass; a disk  *)
(* that is full and a Paperless that is away are not so for ever.          *)
FairSpec ==
    /\ Spec
    /\ WF_vars(Daemon)
    /\ WF_vars(\E s \in Page : BecomesDue(s))
    /\ SF_vars(CloseIfDue) /\ SF_vars(DrainDue)
    /\ SF_vars(QueueLetter) /\ SF_vars(Sent)

----------------------------------------------------------------------------
(* Properties. *)

(* Every variable has its type, and an operation under way has what it     *)
(* works on: pages are removed only of a PDF in the queue, a file being    *)
(* cleared is still there and Paperless has it, a drain only sends files   *)
(* that are in the queue, and a page set aside is the loop's own or was    *)
(* left by a crash.                                                        *)
TypeOK ==
    /\ taken \in 0..MaxPages
    /\ bad \subseteq Page /\ open \subseteq Page /\ aside \subseteq Page
    /\ queue \subseteq File /\ folders \subseteq Page /\ backingOff \subseteq Page
    /\ discarded \subseteq Page
    /\ paper \subseteq File /\ labelled \subseteq File
    /\ collecting \in BOOLEAN /\ seen \in BOOLEAN /\ adopted \in BOOLEAN
    /\ at \in {"idle", "closing", "removing", "closed", "draining", "clearing",
               "cancelling", "down"}
    /\ keep \in 0..MaxPages
    /\ letter \in File \cup {NoFile}
    /\ last \in ({"jpg", "pdf"} \X Page) \cup {NoName}
    /\ filings \subseteq [file : File, state : {"reading", "document", "ended"},
                          known : BOOLEAN, undo : BOOLEAN]
    /\ crashes \in 0..MaxCrashes /\ doubled \subseteq Page
    /\ takenBack \subseteq File /\ unsure \subseteq File
    /\ todo \subseteq queue
    /\ at = "removing" => letter \in queue
    /\ at = "clearing" => letter \in queue \cap paper
    /\ crashes = 0 => aside \subseteq {keep}

PagesOf(files) == UNION {f.pages : f \in files}

(* A photograph once taken is on the disk or in Paperless, or somebody, or *)
(* a check made for it, threw it away: at every point the power can go,    *)
(* through every failed, repeated and unanswered upload.                   *)
(* spool.rs:3-7 and the order close_letter and done keep.                  *)
NothingLost ==
    1..taken \subseteq open \cup aside \cup discarded \cup PagesOf(queue) \cup PagesOf(paper)

(* A page is in one document only, however often its letter is uploaded    *)
(* again: a page collected into a letter is in no other letter.  The       *)
(* exception is what close_letter says of itself: a crash between the      *)
(* rename and the removal of the pages.                                    *)
PageInOneDocument ==
    \A f, g \in paper : f /= g => f.pages \cap g.pages \subseteq doubled

(* A page that was thrown away does not reach Paperless afterwards, again  *)
(* apart from pages a crash left twice.                                    *)
ThrownAwayStaysAway ==
    [][PagesOf(paper' \ paper) \cap discarded \subseteq doubled]_vars

(* The letter the display names as the last one is filed in Paperless with *)
(* the folder decided for it on the rig, also when it waited for hours and *)
(* failed uploads came before (record_folders, folders_decided).           *)
DecisionTravels ==
    [][\A f \in paper' \ paper : Name(f) = last => f \in labelled']_vars

(* A letter the person was told is taken back is still in Paperless only   *)
(* while its deletion is waiting for Paperless to read it - or when its    *)
(* upload was not followed to the end: the answer was lost, the daemon     *)
(* restarted, or Paperless took too long - or its pages were left twice by *)
(* a crash (undo_letter, follow).                                          *)
TakenBackIsGone ==
    \A f \in takenBack \cap paper :
        \/ f \in unsure
        \/ f.pages \cap doubled /= {}
        \/ \E x \in filings : x.file = f /\ x.undo /\ x.state = "reading"

(* Every page that is photographed ends in Paperless or is thrown away,    *)
(* with failures, full disks and crashes on the way - except a page that a *)
(* crash caught set aside, which nothing picks up.                         *)
EachPageArrives ==
    \A p \in Page : (p <= taken) ~> (p \in PagesOf(paper) \cup discarded \cup aside)

(* What spool.rs:3-7 says of a crash: it loses nothing, and the retry      *)
(* finds the file exactly where it was left.  So a running daemon between  *)
(* two turns has every photograph where it will look for it.               *)
NothingForgotten ==
    at = "idle" =>
        1..taken \subseteq open \cup discarded \cup PagesOf(queue) \cup PagesOf(paper)
=============================================================================
