----------------------------- MODULE MemorySync -----------------------------
(***************************************************************************)
(* The assistant's notes on several devices.  Each device has its own      *)
(* table (assistant_memory); they meet in a folder of the mail account,    *)
(* where every upload is a message holding all notes of the device.  A     *)
(* sync reads what is there, merges it note by note, uploads everything if *)
(* that differs, and moves what it replaced to the Trash.                  *)
(*                                                                         *)
(* Nothing is locked between two devices, nor between a sync and the       *)
(* window of one device, which have a connection to the store each.        *)
(*                                                                         *)
(* A snapshot that does not decrypt, or is not signed by the account's own *)
(* key, is left alone wherever it is, and left out here.                   *)
(***************************************************************************)
EXTENDS Integers, FiniteSets

CONSTANTS
  Device, Note,
  Sync,        (* threads that run a sync of the notes                     *)
  DeviceOf,    (* and the device each runs on                              *)
  Text,        (* what a note can say: numbers, to be compared             *)
  None,
  MaxStamp,    (* bound: seconds in updated_at                             *)
  MaxChanges,  (* bound: changes people make                               *)
  MaxSnapshots (* bound: snapshots in the folder at once                   *)

Stamp == 1..MaxStamp
Id    == 1..MaxSnapshots

ASSUME DeviceAssumption == DeviceOf \in [Sync -> Device]
ASSUME TextAssumption   == Text \subseteq Nat \ {0}
ASSUME BoundAssumption  ==
  /\ MaxStamp \in Nat /\ MaxChanges \in Nat
  /\ MaxSnapshots \in Nat

Version == [at : Stamp, forgotten : BOOLEAN, text : Text \cup {0}]
Notes   == [Note -> Version \cup {None}]

ASSUME NoneAssumption   == None \notin Version /\ None \notin Notes

VARIABLES
  have,        (* assistant_memory, on each device                         *)
  typing,      (* a change under way in a window: what it read of the note *)
  box,         (* the folder: the snapshot at each UID                     *)
  (* Each sync.                                                            *)
  pc,
  believed,    (* the snapshots it listed, then those it read, by UID      *)
  todo,        (* notes of those snapshots it has yet to merge             *)
  hand,        (* the one it is at, and what it read here of that note     *)
  ours,        (* the notes it is about to upload                          *)
  (* Bounds and history.                                                   *)
  changes,
  raced        (* notes written over by somebody who read an older version *)

sync == <<pc, believed, todo, hand, ours>>
vars == <<have, typing, box, sync, changes, raced>>

TypeOK ==
  /\ have \in [Device -> Notes]
  /\ typing \in [Device -> {None} \cup [note : Note, was : Version \cup {None}]]
  /\ box \in [Id -> Notes \cup {None}]
  /\ pc \in [Sync -> {"idle", "fetch", "merge", "write", "append", "trash"}]
  /\ believed \in [Sync -> [Id -> Notes \cup {None}]]
  /\ todo \in [Sync -> SUBSET (Note \X Version)]
  /\ hand \in [Sync -> {None} \cup
                       [note : Note, version : Version, was : Version \cup {None}]]
  /\ ours \in [Sync -> Notes \cup {None}]
  /\ changes \in 0..MaxChanges
  /\ raced \in BOOLEAN

-----------------------------------------------------------------------------
(* Versions.                                                               *)

Forgets(v, w) == v.forgotten /\ ~w.forgotten

(* Mutant: the later one wins, and of two of the same second the one here. *)
WinsIfLater(v, w) == v.at > w.at

(* wins: the later; of the same second a forgetting, then the greater.     *)
Wins(v, w) ==
  \/ v.at > w.at
  \/ v.at = w.at /\ Forgets(v, w)
  \/ v.at = w.at /\ v.forgotten = w.forgotten /\ v.text > w.text

Replaces(v, w) == w = None \/ Wins(v, w)

NoOlder(v, w) == w = None \/ v = w \/ (v # None /\ Wins(v, w))

NoNotes == [n \in Note |-> None]

NoSnapshots == [i \in Id |-> None]

Init ==
  /\ have = [d \in Device |-> NoNotes]
  /\ typing = [d \in Device |-> None]
  /\ box = NoSnapshots
  /\ pc = [s \in Sync |-> "idle"]
  /\ believed = [s \in Sync |-> NoSnapshots]
  /\ todo = [s \in Sync |-> {}]
  /\ hand = [s \in Sync |-> None]
  /\ ours = [s \in Sync |-> None]
  /\ changes = 0
  /\ raced = FALSE

-----------------------------------------------------------------------------
(* Changes in a window.                                                    *)

Live(v) == v # None /\ ~v.forgotten

Change == changes < MaxChanges /\ changes' = changes + 1

(* add_memory: under a key made here, unless a note says it already.       *)
Add(d, n, t) ==
  /\ Change
  /\ \A e \in Device : have[e][n] = None
  /\ \A m \in Note : Live(have[d][m]) => have[d][m].text # t
  /\ \E at \in Stamp :
       have' = [have EXCEPT ![d][n] = [at |-> at, forgotten |-> FALSE, text |-> t]]
  /\ UNCHANGED <<typing, box, sync, raced>>

(* update_memory, forget_memory: a note that is not forgotten is read (by  *)
(* own_memory and once more in the store, taken as one) ...                *)
Opens(d, n) ==
  /\ Change
  /\ typing[d] = None /\ Live(have[d][n])
  /\ typing' = [typing EXCEPT ![d] = [note |-> n, was |-> have[d][n]]]
  /\ UNCHANGED <<have, box, sync, raced>>

(* Mutant: the clock of this device alone.                                 *)
AnyStamp(v) == Stamp

(* max(now, updated_at + 1), whatever this device's clock says.            *)
LaterThan(v) == {at \in Stamp : at > v.at}

(* Whoever writes a note having read another version than is there.        *)
Writes(d, n, was, v) ==
  /\ have' = [have EXCEPT ![d][n] = v]
  /\ raced' = (raced \/ was # have[d][n])

(* ... and written.                                                        *)
Changes(d) ==
  /\ typing[d] # None
  /\ \E at \in LaterThan(typing[d].was) :
       \/ Writes(d, typing[d].note, typing[d].was,
                 [at |-> at, forgotten |-> TRUE, text |-> 0])
       \/ \E t \in Text :
            Writes(d, typing[d].note, typing[d].was,
                   [at |-> at, forgotten |-> FALSE, text |-> t])
  /\ typing' = [typing EXCEPT ![d] = None]
  /\ UNCHANGED <<box, sync, changes>>

-----------------------------------------------------------------------------
(* sync_memory, by thread s.                                               *)

SnapshotsAt(b) == {i \in Id : b[i] # None}

(* A UID nothing is at and no sync remembers.  The server never hands out  *)
(* a UID twice; here those nobody has a use for are used again.            *)
Fresh(i) == box[i] = None /\ \A s \in Sync : believed[s][i] = None

GoTo(s, step) == pc' = [pc EXCEPT ![s] = step]

(* select, all_uids.                                                       *)
List(s) ==
  /\ pc[s] = "idle"
  /\ believed' = [believed EXCEPT ![s] = box]
  /\ GoTo(s, "fetch")
  /\ UNCHANGED <<have, typing, box, todo, hand, ours, changes, raced>>

NotesOf(b) ==
  UNION {{<<n, b[i][n]>> : n \in {m \in Note : b[i][m] # None}} : i \in SnapshotsAt(b)}

(* fetch_uids: what has been moved away meanwhile is not answered.         *)
Fetch(s) ==
  /\ pc[s] = "fetch"
  /\ believed' = [believed EXCEPT ![s] = [i \in Id |-> IF box[i] = None THEN None ELSE @[i]]]
  /\ todo' = [todo EXCEPT ![s] = NotesOf(believed'[s])]
  /\ GoTo(s, "merge")
  /\ UNCHANGED <<have, typing, box, hand, ours, changes, raced>>

(* merge_memory: the note here is read and compared ...                    *)
MergeReads(s) ==
  /\ pc[s] = "merge"
  /\ \E next \in todo[s] :
       LET mine == have[DeviceOf[s]][next[1]]
       IN  /\ todo' = [todo EXCEPT ![s] = @ \ {next}]
           /\ IF Replaces(next[2], mine)
              THEN /\ hand' = [hand EXCEPT ![s] =
                        [note |-> next[1], version |-> next[2], was |-> mine]]
                   /\ GoTo(s, "write")
              ELSE UNCHANGED <<hand, pc>>
  /\ UNCHANGED <<have, typing, box, believed, ours, changes, raced>>

(* A key is inserted once: another sync on this device has done so         *)
(* meanwhile, and this one can only break off.                             *)
InsertFails(s) == hand[s].was = None /\ have[DeviceOf[s]][hand[s].note] # None

(* ... and written over, whatever it is by then.                           *)
MergeWrites(s) ==
  /\ pc[s] = "write"
  /\ ~InsertFails(s)
  /\ Writes(DeviceOf[s], hand[s].note, hand[s].was, hand[s].version)
  /\ hand' = [hand EXCEPT ![s] = None]
  /\ GoTo(s, "merge")
  /\ UNCHANGED <<typing, box, believed, todo, ours, changes>>

Leave(s) ==
  /\ GoTo(s, "idle")
  /\ believed' = [believed EXCEPT ![s] = NoSnapshots]
  /\ todo' = [todo EXCEPT ![s] = {}]
  /\ hand' = [hand EXCEPT ![s] = None]
  /\ ours' = [ours EXCEPT ![s] = None]

(* The folder held one snapshot, and it says the same; or there is nothing *)
(* anywhere.                                                               *)
Current(s, mine) ==
  \/ \E i \in Id : SnapshotsAt(believed[s]) = {i} /\ believed[s][i] = mine
  \/ SnapshotsAt(believed[s]) = {} /\ mine = NoNotes

(* Mutant: uploads before everything that was read is merged.              *)
WithoutMerging(s) == pc[s] = "merge"

Merged(s) == pc[s] = "merge" /\ todo[s] = {}

(* All merged: with nothing to upload the sync ends,                       *)
UpToDate(s) ==
  /\ Merged(s)
  /\ Current(s, have[DeviceOf[s]])
  /\ Leave(s)
  /\ UNCHANGED <<have, typing, box, changes, raced>>

(* and otherwise everything here is sealed,                                *)
Seal(s) ==
  /\ Merged(s)
  /\ ~Current(s, have[DeviceOf[s]])
  /\ ours' = [ours EXCEPT ![s] = have[DeviceOf[s]]]
  /\ GoTo(s, "append")
  /\ UNCHANGED <<have, typing, box, believed, todo, hand, changes, raced>>

(* and uploaded.                                                           *)
Append(s) ==
  /\ pc[s] = "append"
  /\ \E i \in Id : Fresh(i) /\ box' = [box EXCEPT ![i] = ours[s]]
  /\ GoTo(s, "trash")
  /\ UNCHANGED <<have, typing, believed, todo, hand, ours, changes, raced>>

(* Mutant: everything in the folder goes, what nobody merged too.          *)
AnySnapshot(s) == SnapshotsAt(box)

Replaced(s) == SnapshotsAt(believed[s])

(* What was merged goes to the Trash, one after the other.  One that is    *)
(* there no more is no error;                                              *)
Trash(s) ==
  /\ pc[s] = "trash"
  /\ \E i \in Replaced(s) :
       /\ believed' = [believed EXCEPT ![s][i] = None]
       /\ box' = [box EXCEPT ![i] = None]
  /\ UNCHANGED <<have, typing, pc, todo, hand, ours, changes, raced>>

(* one that cannot be moved stays.                                         *)
TrashFails(s) ==
  /\ pc[s] = "trash"
  /\ \E i \in Replaced(s) : believed' = [believed EXCEPT ![s][i] = None]
  /\ UNCHANGED <<have, typing, box, pc, todo, hand, ours, changes, raced>>

Done(s) ==
  /\ pc[s] = "trash"
  /\ Replaced(s) = {}
  /\ Leave(s)
  /\ UNCHANGED <<have, typing, box, changes, raced>>

(* The connection or the program goes, before or after the server took the *)
(* upload, or the store refuses.                                           *)
BreaksOff(s) ==
  /\ pc[s] # "idle"
  /\ Leave(s)
  /\ \/ UNCHANGED box
     \/ /\ pc[s] = "append"
        /\ \E i \in Id : Fresh(i) /\ box' = [box EXCEPT ![i] = ours[s]]
  /\ UNCHANGED <<have, typing, changes, raced>>

-----------------------------------------------------------------------------

Fails(s) == TrashFails(s) \/ BreaksOff(s)

Steps(s) ==
  \/ List(s) \/ Fetch(s)
  \/ MergeReads(s) \/ MergeWrites(s)
  \/ UpToDate(s) \/ Seal(s) \/ Append(s) \/ Trash(s) \/ Done(s)

Next ==
  \/ \E d \in Device, n \in Note, t \in Text : Add(d, n, t)
  \/ \E d \in Device, n \in Note : Opens(d, n)
  \/ \E d \in Device : Changes(d)
  \/ \E s \in Sync : Steps(s) \/ Fails(s)

Spec == Init /\ [][Next]_vars

(* A device that is on syncs its mail, and with it its notes, every few    *)
(* minutes (scheduler, Session::sync); a step of a sync ends or fails.     *)
FairSpec ==
  /\ Spec
  /\ \A s \in Sync : WF_vars(Steps(s))
  /\ \A d \in Device : WF_vars(Changes(d))

-----------------------------------------------------------------------------
(* Properties.                                                             *)

(* "The later change winning": what a device has of a note never gets      *)
(* older, whatever it reads in the folder.                                 *)
LaterChangeWins ==
  [][\A d \in Device, n \in Note : NoOlder(have'[d][n], have[d][n])]_vars

(* So it is as long as nobody writes over a version they have not read: a  *)
(* note in the window and in a sync is read and then written, by two       *)
(* connections and in no transaction.                                      *)
LaterChangeWinsUnlessRaced ==
  [][\A d \in Device, n \in Note :
       raced' \/ NoOlder(have'[d][n], have[d][n])]_vars

InFolder(b, n, v) == \E i \in Id : b[i] # None /\ b[i][n] # None /\ NoOlder(b[i][n], v)

(* What the folder says of a note never gets older: devices that replace   *)
(* each other's snapshots at the same time lose none of what was uploaded. *)
FolderLosesNothing ==
  [][\A n \in Note, i \in Id :
       box[i] # None /\ box[i][n] # None =>
         raced \/ InFolder(box', n, box[i][n])]_vars

(* "So two devices that both changed something both keep their changes":   *)
(* what a sync has uploaded is in the folder, or something later of the    *)
(* same note, though others may have replaced its snapshot already.        *)
UploadStays ==
  \A s \in Sync, n \in Note :
    pc[s] = "trash" /\ ~raced /\ ours[s][n] # None => InFolder(box, n, ours[s][n])

OneAtATime == Cardinality({s \in Sync : pc[s] # "idle"}) <= 1

Settled ==
  /\ \A d, e \in Device : have[d] = have[e]
  /\ Cardinality(SnapshotsAt(box)) <= 1
  /\ \A d \in Device, i \in SnapshotsAt(box) : box[i] = have[d]

(* Changes come to an end here, at MaxChanges.  Once syncs no longer fail  *)
(* or overlap, all devices come to hold the same notes and the folder one  *)
(* snapshot of them, after which nothing is uploaded again.  (Two syncs    *)
(* that overlap without end can replace each other's snapshots between     *)
(* listing and reading, and never agree.)                                  *)
Settles ==
  <>[]OneAtATime /\ <>[][\A s \in Sync : Fails(s) => Steps(s)]_vars => <>[]Settled

=============================================================================
