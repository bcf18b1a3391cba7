----------------------------- MODULE Mutations -----------------------------
(***************************************************************************)
(* Mailbox changes made from kuverta: the operation queue of core-store,   *)
(* the executor of core-proto that drains it onto the server before every  *)
(* sync, undo, the sync that follows, and an IMAP server other clients     *)
(* work on too.                                                            *)
(*                                                                         *)
(* An operation names a message by folder, UID, UIDVALIDITY and Message-ID *)
(* as the store knew them when the person acted.  By the time it is        *)
(* flushed the message may have been moved, deleted or renumbered, the     *)
(* connection may break before or after the server did what it was told,   *)
(* and the person may have changed their mind.                             *)
(*                                                                         *)
(* Of a flag change only that it was made, and to which message, is kept.  *)
(* A folder is observed in one step; FolderSync opens that step up.        *)
(***************************************************************************)
EXTENDS Integers, FiniteSets

CONSTANTS
  Mail,         (* messages                                              *)
  MessageIdOf,  (* their Message-ID header; None when there is none      *)
  Folder, Inbox,
  None,         (* no message at a UID, no row, no Message-ID            *)
  Flusher,      (* threads or processes that run a sync of the account   *)
  HasMove,      (* whether servers offer MOVE: some do, some do not      *)
  HasUidPlus,   (* the server offers UIDPLUS                             *)
  MaxUid,       (* bound: UIDs a folder hands out                        *)
  MaxOps,       (* bound: operations queued                              *)
  MaxErrors,    (* bound: broken connections and closed windows          *)
  MaxOthers     (* bound: changes other clients and the server make      *)

Uid  == 1..MaxUid
OpId == 1..MaxOps

ASSUME NameAssumption  == Inbox \in Folder /\ None \notin Mail \cup Folder
ASSUME MailAssumption  == IsFiniteSet(Mail) /\ Cardinality(Mail) <= MaxUid
ASSUME BoundAssumption ==
  /\ MaxUid \in Nat /\ MaxOps \in Nat /\ MaxErrors \in Nat
  /\ MaxOthers \in Nat
ASSUME ServerAssumption == HasMove \subseteq BOOLEAN /\ HasUidPlus \in BOOLEAN

VARIABLES
  (* The server.                                                         *)
  box,         (* the copy at each folder's UID                          *)
  uidNext, validity,
  moves,       (* it offers MOVE                                         *)
  (* The store.                                                          *)
  known,       (* message_location: the message last seen at each UID    *)
  knownValidity,
  row,         (* the operation table                                    *)
  (* Each flusher.                                                       *)
  pc,
  todo,        (* what is left of the due operations it read             *)
  hand,        (* the one it is at                                       *)
  selected,    (* the folder its connection has open                     *)
  verdict,     (* what it will settle that operation as                  *)
  unseen,      (* folders its sync has yet to visit                      *)
  (* Bounds and history.                                                 *)
  made,        (* how many operations were ever queued                   *)
  asked,       (* those the server carried out                           *)
  touched,     (* the message meant, and the message changed             *)
  discarded,   (* messages another client deleted                        *)
  displaced,   (* messages another client moved                          *)
  errors, others

server == <<box, uidNext, validity, moves>>
seen   == <<known, knownValidity>>
conn   == <<todo, hand, selected, verdict, unseen>>
told   == <<asked, touched>>
bounds == <<made, discarded, displaced, errors, others>>
vars   == <<server, seen, row, pc, conn, told, bounds>>

Copy   == [mail : Mail, mark : {"kept", "deleted"}]
Copies == [Uid -> Copy \cup {None}]

ASSUME CopyAssumption == None \notin Copy

OpState == {"pending", "done", "obsolete", "failed", "cancelled"}

(* window: none when the change was never offered for undo.                *)
(* target: the folder of a move; a flag change has None.                   *)
Row == [id : OpId, serial : 1..MaxOps, state : OpState,
        window : {"none", "open", "elapsed"}, kind : {"move", "flag"},
        mail : Mail, folder : Folder, uid : Uid, validity : Nat,
        target : Folder \cup {None}]

ASSUME RowAssumption == None \notin Row

Step == {"idle", "next", "probe", "act", "mark", "expunge", "settle", "sync"}

TypeOK ==
  /\ box \in [Folder -> Copies]
  /\ uidNext \in [Folder -> 1..MaxUid + 1]
  /\ validity \in [Folder -> Nat] /\ moves \in HasMove
  /\ known \in [Folder -> [Uid -> Mail \cup {None}]]
  /\ knownValidity \in [Folder -> Nat]
  /\ row \in [OpId -> Row \cup {None}]
  /\ pc \in [Flusher -> Step]
  /\ todo \in [Flusher -> SUBSET Row]
  /\ hand \in [Flusher -> Row \cup {None}]
  /\ selected \in [Flusher -> Folder \cup {None}]
  /\ verdict \in [Flusher -> OpState]
  /\ unseen \in [Flusher -> SUBSET Folder]
  /\ made \in 0..MaxOps
  /\ asked \subseteq Row
  /\ touched \subseteq Mail \X Mail
  /\ discarded \subseteq Mail /\ displaced \subseteq Mail
  /\ errors \in 0..MaxErrors
  /\ others \in 0..MaxOthers

-----------------------------------------------------------------------------
(* The server.                                                             *)

Occupied(f) == {u \in Uid : box[f][u] # None}

HasRoom(f) == uidNext[f] <= MaxUid

MailAt(b, f, u) == IF b[f][u] = None THEN None ELSE b[f][u].mail

(* What MOVE, COPY, and another client's move append to a folder.          *)
WithCopy(b, f, m) ==
  [b EXCEPT ![f][uidNext[f]] = [mail |-> m, mark |-> "kept"]]

(* Every message is in the Inbox and has been synced.                      *)
Init ==
  /\ \E uidOf \in [Mail -> 1..Cardinality(Mail)] :
       /\ \A m, n \in Mail : uidOf[m] = uidOf[n] => m = n
       /\ known = [f \in Folder |-> [u \in Uid |->
            IF f = Inbox /\ \E m \in Mail : uidOf[m] = u
            THEN CHOOSE m \in Mail : uidOf[m] = u ELSE None]]
  /\ box = [f \in Folder |-> [u \in Uid |->
       IF known[f][u] = None THEN None
       ELSE [mail |-> known[f][u], mark |-> "kept"]]]
  /\ uidNext = [f \in Folder |-> IF f = Inbox THEN Cardinality(Mail) + 1 ELSE 1]
  /\ validity = [f \in Folder |-> 0]
  /\ moves \in HasMove
  /\ knownValidity = validity
  /\ row = [i \in OpId |-> None]
  /\ pc = [p \in Flusher |-> "idle"]
  /\ todo = [p \in Flusher |-> {}]
  /\ hand = [p \in Flusher |-> None]
  /\ selected = [p \in Flusher |-> None]
  /\ verdict = [p \in Flusher |-> "pending"]
  /\ unseen = [p \in Flusher |-> {}]
  /\ asked = {} /\ touched = {} /\ discarded = {} /\ displaced = {}
  /\ made = 0 /\ errors = 0 /\ others = 0

(* Another client moves a message, marks it deleted, or expunges it.       *)
OtherMoves(f, u, g) ==
  /\ others < MaxOthers
  /\ u \in Occupied(f) /\ f # g /\ HasRoom(g)
  /\ box' = [WithCopy(box, g, box[f][u].mail) EXCEPT ![f][u] = None]
  /\ uidNext' = [uidNext EXCEPT ![g] = @ + 1]
  /\ displaced' = displaced \cup {box[f][u].mail}
  /\ others' = others + 1
  /\ UNCHANGED <<validity, moves, seen, row, pc, conn, told, made, discarded, errors>>

OtherDeletes(f, u) ==
  /\ others < MaxOthers
  /\ u \in Occupied(f)
  /\ \/ box' = [box EXCEPT ![f][u] = None]
     \/ box' = [box EXCEPT ![f][u].mark = "deleted"]
  /\ discarded' = discarded \cup {box[f][u].mail}
  /\ others' = others + 1
  /\ UNCHANGED <<uidNext, validity, moves, seen, row, pc, conn, told, made, displaced, errors>>

(* The folder is rebuilt: its messages get new UIDs, in any order, under a *)
(* new UIDVALIDITY.  Not while a client has it open: the UIDVALIDITY of an *)
(* open session does not change.                                           *)
Renumber(f) ==
  /\ others < MaxOthers /\ others' = others + 1
  /\ \A p \in Flusher : selected[p] # f
  /\ LET k == Cardinality(Occupied(f))
     IN  /\ \E at \in [1..k -> Occupied(f)] :
              /\ \A u, v \in 1..k : at[u] = at[v] => u = v
              /\ box' = [box EXCEPT ![f] =
                           [u \in Uid |-> IF u <= k THEN box[f][at[u]] ELSE None]]
         /\ uidNext' = [uidNext EXCEPT ![f] = k + 1]
  /\ validity' = [validity EXCEPT ![f] = @ + 1]
  /\ UNCHANGED <<moves, seen, row, pc, conn, told, made, discarded, displaced, errors>>

-----------------------------------------------------------------------------
(* The operation table.                                                    *)

Rows == {i \in OpId : row[i] # None}

Pending(i) == i \in Rows /\ row[i].state = "pending"

Offered(i) == Pending(i) /\ row[i].window # "none"

(* An INTEGER PRIMARY KEY is the largest in use plus one: the ids of rows  *)
(* deleted at the end of the table are handed out again.                   *)
NextId == CHOOSE i \in OpId : /\ \A j \in Rows : j < i
                              /\ i = 1 \/ i - 1 \in Rows

(* Core::enqueue: a copy the store knows of, not one in the target folder, *)
(* INBOX before any other.                                                 *)
Candidates(m, target) ==
  {c \in Folder \X Uid : c[1] # target /\ known[c[1]][c[2]] = m}

Chosen(m, target) ==
  {c \in Candidates(m, target) :
     c[1] = Inbox \/ \A d \in Candidates(m, target) : d[1] # Inbox}

(* Mutant: two changes of one flag wait side by side.                      *)
NeverSuperseded(i, kind, m) == FALSE

(* A pending change of the same flag gives way to the new one.             *)
Superseded(i, kind, m) ==
  kind = "flag" /\ Pending(i) /\ row[i].kind = "flag" /\ row[i].mail = m

Enqueue(kind, m, target, window) ==
  /\ made < MaxOps
  /\ made' = made + 1
  /\ \E c \in Chosen(m, target) :
       row' = [i \in OpId |->
         IF i = NextId
         THEN [id |-> i, serial |-> made + 1, state |-> "pending",
               window |-> window, kind |-> kind, mail |-> m,
               folder |-> c[1], uid |-> c[2],
               validity |-> knownValidity[c[1]], target |-> target]
         ELSE IF Superseded(i, kind, m)
         THEN [row[i] EXCEPT !.state = "cancelled"] ELSE row[i]]
  /\ UNCHANGED <<server, seen, pc, conn, told, discarded, displaced, errors, others>>

WindowElapses(i) ==
  /\ i \in Rows /\ row[i].window = "open"
  /\ row' = [row EXCEPT ![i].window = "elapsed"]
  /\ UNCHANGED <<server, seen, pc, conn, told, bounds>>

(* cancel_latest_operation: the newest pending change that was offered for *)
(* undo, its window still open or not.                                     *)
Undo ==
  /\ \E i \in OpId :
       /\ Offered(i) /\ \A j \in OpId : Offered(j) => j <= i
       /\ row' = [row EXCEPT ![i].state = "cancelled"]
  /\ UNCHANGED <<server, seen, pc, conn, told, bounds>>

(* Messages deleted from the store take their operations with them.        *)
WithoutOperationsOn(gone) ==
  [i \in OpId |-> IF i \in Rows /\ row[i].mail \in gone THEN None ELSE row[i]]

-----------------------------------------------------------------------------
(* flush_operations, by flusher p.                                         *)

(* Mutant: what was undone is due as well.                                 *)
IsUnsettled(i) ==
  i \in Rows /\ row[i].state \in {"pending", "cancelled"} /\ row[i].window # "open"

IsDue(i) == Pending(i) /\ row[i].window # "open"

(* due_operations is read once.                                            *)
StartFlush(p) ==
  /\ pc[p] = "idle"
  /\ todo' = [todo EXCEPT ![p] = {row[i] : i \in {j \in OpId : IsDue(j)}}]
  /\ pc' = [pc EXCEPT ![p] = "next"]
  /\ UNCHANGED <<server, seen, row, hand, selected, verdict, unseen, told, bounds>>

Oldest(p) == {o \in todo[p] : \A other \in todo[p] : o.id <= other.id}

(* Mutant: a failed operation is tried again by every sync.                *)
DecideToRetry(p, v) ==
  /\ pc' = [pc EXCEPT ![p] = "settle"]
  /\ verdict' = [verdict EXCEPT ![p] = IF v = "failed" THEN "pending" ELSE v]

Decide(p, v) ==
  /\ pc' = [pc EXCEPT ![p] = "settle"]
  /\ verdict' = [verdict EXCEPT ![p] = v]

GoTo(p, step) == pc' = [pc EXCEPT ![p] = step] /\ UNCHANGED verdict

(* SELECT, and the UIDVALIDITY it reports.  When the folder of the         *)
(* operation before is still open there is no SELECT, and no look at the   *)
(* UIDVALIDITY either.                                                     *)
Take(p) ==
  /\ pc[p] = "next"
  /\ \E o \in Oldest(p) :
       /\ hand' = [hand EXCEPT ![p] = o]
       /\ todo' = [todo EXCEPT ![p] = @ \ {o}]
       /\ selected' = [selected EXCEPT ![p] = o.folder]
       /\ IF selected[p] # o.folder /\ validity[o.folder] # o.validity
          THEN Decide(p, "failed")
          ELSE GoTo(p, "probe")
  /\ UNCHANGED <<server, seen, row, unseen, told, bounds>>

(* What is at the operation's UID now.                                     *)
Target(p) == MailAt(box, hand[p].folder, hand[p].uid)

(* Mutant: any message at the UID will do.                                 *)
SomeMessage(m, n) == TRUE

SameMessageId(m, n) == MessageIdOf[m] = MessageIdOf[n]

(* uid_probe, and what apply makes of it.  A move to the folder it is in   *)
(* would be obsolete too, but Candidates lets none be queued.              *)
Probe(p) ==
  /\ pc[p] = "probe"
  /\ \/ Target(p) = None /\ Decide(p, "obsolete")
     \/ /\ Target(p) # None
        /\ ~SameMessageId(Target(p), hand[p].mail)
        /\ Decide(p, "failed")
     \/ /\ Target(p) # None
        /\ SameMessageId(Target(p), hand[p].mail)
        /\ GoTo(p, "act")
  /\ UNCHANGED <<server, seen, row, todo, hand, selected, unseen, told, bounds>>

(* Commands, and what they do to the server.  One on a UID that is vacant  *)
(* by now succeeds and changes nothing.                                    *)
Affected(p) ==
  ({Target(p)} \ {None}) \cup
  {box[at[1]][at[2]].mail :
     at \in {c \in Folder \X Uid : box[c[1]][c[2]] \notin {None, box'[c[1]][c[2]]}}}

Touch(p) ==
  /\ touched' = touched \cup ({hand[p].mail} \X Affected(p))
  /\ asked' = asked \cup {hand[p]}

Appends(p, rest) ==
  IF Target(p) = None
  THEN UNCHANGED <<box, uidNext>>
  ELSE /\ HasRoom(hand[p].target)
       /\ box' = WithCopy(rest, hand[p].target, Target(p))
       /\ uidNext' = [uidNext EXCEPT ![hand[p].target] = @ + 1]

(* Mutant: the server refused the copy, and nobody noticed.                *)
CopyRefused(p) == UNCHANGED <<box, uidNext>>

CopiesOver(p) == Appends(p, box)

Moves(p) == Appends(p, [box EXCEPT ![hand[p].folder][hand[p].uid] = None])

Marks(p) ==
  /\ box' = IF Target(p) = None THEN box
            ELSE [box EXCEPT ![hand[p].folder][hand[p].uid].mark = "deleted"]
  /\ UNCHANGED uidNext

(* UID EXPUNGE of this one message.                                        *)
Expunges(p) ==
  /\ box' = IF Target(p) # None /\ box[hand[p].folder][hand[p].uid].mark = "deleted"
            THEN [box EXCEPT ![hand[p].folder][hand[p].uid] = None] ELSE box
  /\ UNCHANGED uidNext

(* uid_store_flag or uid_move: the command of each step.                   *)
Effect(p) ==
  /\ \/ pc[p] = "act" /\ hand[p].kind = "flag" /\ UNCHANGED <<box, uidNext>>
     \/ pc[p] = "act" /\ hand[p].kind = "move" /\ moves  /\ Moves(p)
     \/ pc[p] = "act" /\ hand[p].kind = "move" /\ ~moves /\ CopiesOver(p)
     \/ pc[p] = "mark" /\ Marks(p)
     \/ pc[p] = "expunge" /\ Expunges(p)
  /\ Touch(p)

Command(p) ==
  /\ Effect(p)
  /\ IF pc[p] = "act" /\ hand[p].kind = "move" /\ ~moves THEN GoTo(p, "mark")
     ELSE IF pc[p] = "mark" /\ HasUidPlus THEN GoTo(p, "expunge")
     ELSE Decide(p, "done")
  /\ UNCHANGED <<validity, moves, seen, row, todo, hand, selected, unseen, bounds>>

(* Mutant: a broken connection is taken for a success.                     *)
AfterBreakDone == "done"

AfterBreak == "pending"

(* The connection breaks in the middle of an operation: before the command *)
(* got through, or after the server did what it was told.                  *)
Breaks(p) ==
  /\ pc[p] \in {"probe", "act", "mark", "expunge"}
  /\ errors < MaxErrors
  /\ errors' = errors + 1
  /\ \/ UNCHANGED <<server, told>>
     \/ Effect(p) /\ UNCHANGED <<validity, moves>>
  /\ Decide(p, AfterBreak)
  /\ UNCHANGED <<seen, row, todo, hand, selected, unseen, made, discarded, displaced, others>>

(* The sync is over, or given up, and its connection with it.              *)
Leave(p) ==
  /\ todo' = [todo EXCEPT ![p] = {}]
  /\ hand' = [hand EXCEPT ![p] = None]
  /\ selected' = [selected EXCEPT ![p] = None]
  /\ unseen' = [unseen EXCEPT ![p] = {}]
  /\ verdict' = [verdict EXCEPT ![p] = "pending"]
  /\ pc' = [pc EXCEPT ![p] = "idle"]

StartSync(p) ==
  /\ todo' = [todo EXCEPT ![p] = {}]
  /\ hand' = [hand EXCEPT ![p] = None]
  /\ selected' = [selected EXCEPT ![p] = None]
  /\ unseen' = [unseen EXCEPT ![p] = Folder]
  /\ pc' = [pc EXCEPT ![p] = "sync"]

(* settle_operation: the row with that id, whatever it has become since.   *)
(* After an error the flush ends, and the sync starts, where it fails.     *)
Settle(p) ==
  /\ pc[p] = "settle"
  /\ row' = [row EXCEPT ![hand[p].id] =
               IF @ = None THEN None ELSE [@ EXCEPT !.state = verdict[p]]]
  /\ IF verdict[p] = "pending"
     THEN Leave(p)
     ELSE /\ hand' = [hand EXCEPT ![p] = None]
          /\ pc' = [pc EXCEPT ![p] = "next"]
          /\ verdict' = [verdict EXCEPT ![p] = "pending"]
          /\ UNCHANGED <<todo, selected, unseen>>
  /\ UNCHANGED <<server, seen, told, bounds>>

Finish(p) ==
  /\ pc[p] = "next" /\ todo[p] = {}
  /\ StartSync(p)
  /\ UNCHANGED <<server, seen, row, verdict, told, bounds>>

-----------------------------------------------------------------------------
(* The sync that follows.                                                  *)

(* Messages without a location once the folders' locations are at.         *)
Homeless(at) == {m \in Mail : \A f \in Folder, u \in Uid : at[f][u] # m}

(* invalidate_folder: the UIDs of a renumbered folder are dropped, and     *)
(* with them, at once, every message that has no other.                    *)
Invalidate(p, f) ==
  /\ pc[p] = "sync" /\ f \in unseen[p] /\ selected[p] # f
  /\ knownValidity[f] # validity[f]
  /\ known' = [known EXCEPT ![f] = [u \in Uid |-> None]]
  /\ row' = WithoutOperationsOn(Homeless(known'))
  /\ selected' = [selected EXCEPT ![p] = f]
  /\ UNCHANGED <<server, knownValidity, pc, todo, hand, verdict, unseen, told, bounds>>

(* The store sees what the server has in this folder, and notes the        *)
(* UIDVALIDITY.                                                            *)
SyncFolder(p, f) ==
  /\ pc[p] = "sync" /\ f \in unseen[p]
  /\ knownValidity[f] = validity[f] \/ selected[p] = f
  /\ known' = [known EXCEPT ![f] = [u \in Uid |-> MailAt(box, f, u)]]
  /\ unseen' = [unseen EXCEPT ![p] = @ \ {f}]
  /\ knownValidity' = [knownValidity EXCEPT ![f] = validity[f]]
  /\ selected' = [selected EXCEPT ![p] = f]
  /\ UNCHANGED <<server, row, pc, todo, hand, verdict, told, bounds>>

(* Mutant: what a folder no longer has is dropped while others may have it. *)
AnyTime(p) == TRUE

AllSeen(p) == unseen[p] = {}

(* delete_orphaned_messages, with every folder seen.                       *)
Collect(p) ==
  /\ pc[p] = "sync" /\ AllSeen(p)
  /\ row' = WithoutOperationsOn(Homeless(known))
  /\ Leave(p)
  /\ UNCHANGED <<server, seen, told, bounds>>

(* The program is closed, a folder cannot be opened, a listing breaks off, *)
(* the store cannot be written.                                            *)
GivesUp(p) ==
  /\ pc[p] # "idle" /\ errors < MaxErrors
  /\ errors' = errors + 1
  /\ Leave(p)
  /\ UNCHANGED <<server, seen, row, told, made, discarded, displaced, others>>

-----------------------------------------------------------------------------
Person ==
  \/ \E m \in Mail, target \in Folder, window \in {"none", "open"} :
       Enqueue("move", m, target, window)
  \/ \E m \in Mail, window \in {"none", "open"} : Enqueue("flag", m, None, window)
  \/ Undo

Flush(p) ==
  StartFlush(p) \/ Take(p) \/ Probe(p) \/ Command(p) \/ Settle(p) \/ Finish(p)

Sync(p) ==
  \/ \E f \in Folder : Invalidate(p, f) \/ SyncFolder(p, f)
  \/ Collect(p)

Environment ==
  \/ \E f \in Folder, u \in Uid : OtherDeletes(f, u)
  \/ \E f, g \in Folder, u \in Uid : OtherMoves(f, u, g)
  \/ \E f \in Folder : Renumber(f)
  \/ \E i \in OpId : WindowElapses(i)

Next ==
  \/ Person
  \/ Environment
  \/ \E p \in Flusher : Flush(p) \/ Sync(p) \/ Breaks(p) \/ GivesUp(p)

Spec == Init /\ [][Next]_vars

(* The window syncs every five minutes, an IMAP command is answered or the *)
(* connection given up, and undo windows end.                              *)
FairSpec ==
  /\ Spec
  /\ \A p \in Flusher : WF_vars(Flush(p) \/ Sync(p))
  /\ \A i \in OpId : WF_vars(WindowElapses(i))
-----------------------------------------------------------------------------
(* Properties.                                                             *)

(* "Never act on a UID without first proving it still refers to the        *)
(* message the user acted on": no command changes another message, however *)
(* folders are renumbered and messages moved between the person's word,    *)
(* the look at the UID, and the command.                                   *)
OnlyIntended == \A t \in touched : t[1] = t[2]

Kept(m) ==
  {c \in Folder \X Uid :
     MailAt(box, c[1], c[2]) = m /\ box[c[1]][c[2]].mark = "kept"}

(* However a move is interrupted and tried again, a message no other       *)
(* client threw away is somewhere, and not marked to be expunged.          *)
NothingLost == \A m \in Mail \ discarded : Kept(m) # {}

(* However a move is interrupted and tried again, it leaves one copy: a    *)
(* server without MOVE may be told to copy twice.                          *)
NothingRepeated == moves => \A m \in Mail : Cardinality(Kept(m)) <= 1

(* "Everything before the break is recorded as done, everything after is   *)
(* still pending": a row that says done is right about it, for the         *)
(* operation it holds and not another that had its id before.              *)
DoneWasAsked ==
  \A i \in Rows : row[i].state = "done" =>
     \E o \in asked : o.serial = row[i].serial

Read(p) == {o.serial : o \in todo[p] \cup ({hand[p]} \ {None})}

(* "Undo cannot reach something the server has been told", nor a change    *)
(* that a flush has read and may be about to tell it.  But one that was    *)
(* undone or superseded before any flush read it stays so, and reaches     *)
(* neither a later flush nor the server.                                   *)
UndoHolds ==
  [][\A i \in Rows :
       LET n == row[i].serial
       IN  row[i].state = "cancelled" /\ (\A p \in Flusher : n \notin Read(p)) =>
             /\ \A p \in Flusher : n \notin Read(p)'
             /\ {o \in asked' : o.serial = n} \subseteq asked
             /\ row'[i] # None /\ row'[i].serial = n => row'[i].state = "cancelled"]_vars

(* "The user's last word wins": no older change of a flag reaches the      *)
(* server once a newer one has, not even one that was being sent when the  *)
(* newer one superseded it, broke off, and is pending again.               *)
LastFlagWordWins ==
  [][\A o \in asked', before \in asked :
       o.kind = "flag" /\ before.kind = "flag" /\ o.mail = before.mail =>
         o \in asked \/ before.serial <= o.serial]_vars

(* "Only now, with every folder seen": collecting orphans drops no change  *)
(* that waits, unless another client deleted or moved its message; never   *)
(* one moved from here, however that was interrupted.  (invalidate_folder, *)
(* of a folder renumbered, does.)                                          *)
NoChangeForgotten ==
  [][\A i \in Rows : Pending(i) /\ row'[i] = None /\ knownValidity = validity =>
       row[i].mail \in discarded \cup displaced]_vars

(* A change whose undo window is over does not wait for ever: it reaches   *)
(* the server, or is settled with a reason.                                *)
DueIsSettled ==
  \A i \in OpId : IsDue(i) ~> ~Pending(i)
=============================================================================
