-------------------------- MODULE MemorySyncProofs --------------------------
(***************************************************************************)
(* That the notes of any number of devices only ever move forward: on each *)
(* device, and in the folder they meet in, however their syncs overlap and *)
(* break off, as long as nobody writes over a version they have not read.  *)
(*                                                                         *)
(* It rests on Wins being a strict total order, so that all devices agree  *)
(* which version to keep, and on the order of a sync's steps: what it      *)
(* moves to the Trash it has read and merged (MergedOK) and is what it     *)
(* read (BelievedOK).  FolderOK is what makes it inductive: of each note   *)
(* the folder has a version as late as any, in a snapshot that no sync is  *)
(* about to move away.                                                     *)
(***************************************************************************)
EXTENDS MemorySync, TLAPS

(* v is there, and no older than w.                                        *)
AtLeast(v, w) == v # None /\ (v = w \/ Wins(v, w))

Hand == [note : Note, version : Version, was : Version \cup {None}]

HandsOK ==
  /\ \A d \in Device : typing[d] # None => typing[d].was # None
  /\ \A s \in Sync : pc[s] = "write" =>
       hand[s] \in Hand /\ Replaces(hand[s].version, hand[s].was)
  /\ \A s \in Sync : pc[s] \in {"append", "trash"} => ours[s] \in Notes

(* A UID is not used again while somebody believes in what was there.      *)
BelievedOK ==
  \A s \in Sync, i \in Id :
    believed[s][i] # None /\ box[i] # None => box[i] = believed[s][i]

Says(s, i, n, v) == believed[s][i] # None /\ v = believed[s][i][n]

(* What a sync read it has merged, or is about to; what it uploads is no   *)
(* older.                                                                  *)
MergedOK ==
  \A s \in Sync, i \in Id, n \in Note, v \in Version : Says(s, i, n, v) =>
    /\ pc[s] \in {"merge", "write"} =>
         \/ <<n, v>> \in todo[s]
         \/ pc[s] = "write" /\ hand[s].note = n /\ hand[s].version = v
         \/ AtLeast(have[DeviceOf[s]][n], v)
    /\ pc[s] \in {"append", "trash"} => AtLeast(ours[s][n], v)

(* A version as late as v is in the folder, and stays there for now.       *)
Kept(n, v) ==
  \E k \in Id :
    /\ box[k] # None /\ AtLeast(box[k][n], v)
    /\ \A s \in Sync : pc[s] = "trash" => believed[s][k] = None

FolderOK ==
  \A n \in Note, v \in Version :
    /\ \A i \in Id : box[i] # None /\ box[i][n] = v => Kept(n, v)
    /\ \A s \in Sync : pc[s] = "trash" /\ ours[s][n] = v => Kept(n, v)

IInv == TypeOK /\ HandsOK /\ BelievedOK /\ (raced \/ (MergedOK /\ FolderOK))

-----------------------------------------------------------------------------
(* Versions.                                                               *)

LEMMA VersionType ==
  ASSUME NEW v \in Version
  PROVE  v.at \in Int /\ v.forgotten \in BOOLEAN /\ v.text \in Int
<1>1. v.at \in Stamp /\ v.forgotten \in BOOLEAN /\ v.text \in Text \cup {0}
  BY DEF Version
<1>2. Stamp \subseteq Int
  BY BoundAssumption DEF Stamp
<1>3. Text \cup {0} \subseteq Int
  BY TextAssumption
<1> QED
  BY <1>1, <1>2, <1>3

(* Of two versions one wins, and only one: whichever device compares them, *)
(* and in whatever order they come, the same is kept.                      *)
THEOREM WinsIsTotal ==
  ASSUME NEW v \in Version, NEW w \in Version
  PROVE  /\ v = w \/ Wins(v, w) \/ Wins(w, v)
         /\ ~(Wins(v, w) /\ Wins(w, v))
         /\ ~Wins(v, v)
<1>1. v.at = w.at /\ v.forgotten = w.forgotten /\ v.text = w.text => v = w
  BY DEF Version
<1>2. /\ v.at \in Int /\ v.forgotten \in BOOLEAN /\ v.text \in Int
      /\ w.at \in Int /\ w.forgotten \in BOOLEAN /\ w.text \in Int
  BY VersionType
<1> QED
  BY <1>1, <1>2 DEF Wins, Forgets

LEMMA WinsIsTransitive ==
  ASSUME NEW u \in Version, NEW v \in Version, NEW w \in Version, Wins(u, v), Wins(v, w)
  PROVE  Wins(u, w)
<1>1. /\ u.at \in Int /\ u.forgotten \in BOOLEAN /\ u.text \in Int
      /\ v.at \in Int /\ v.forgotten \in BOOLEAN /\ v.text \in Int
      /\ w.at \in Int /\ w.forgotten \in BOOLEAN /\ w.text \in Int
  BY VersionType
<1> QED
  BY <1>1 DEF Wins, Forgets

LEMMA AtLeastIsTransitive ==
  ASSUME NEW u \in Version \cup {None}, NEW v \in Version \cup {None}, NEW w \in Version,
         AtLeast(u, v), AtLeast(v, w)
  PROVE  AtLeast(u, w)
BY WinsIsTransitive DEF AtLeast

LEMMA NotReplaced ==
  ASSUME NEW v \in Version, NEW w \in Version \cup {None}, ~Replaces(v, w)
  PROVE  AtLeast(w, v)
BY WinsIsTotal DEF Replaces, AtLeast

-----------------------------------------------------------------------------
LEMMA NotesOfType ==
  ASSUME NEW b \in [Id -> Notes \cup {None}]
  PROVE  /\ NotesOf(b) \subseteq Note \X Version
         /\ \A i \in Id, n \in Note : b[i] # None /\ b[i][n] # None =>
              <<n, b[i][n]>> \in NotesOf(b)
BY DEF NotesOf, SnapshotsAt, Notes

LEMMA TypeStep ==
  ASSUME TypeOK, HandsOK, [Next]_vars
  PROVE  TypeOK'
<1> USE DEF TypeOK
<1>1. ASSUME NEW d \in Device, NEW n \in Note, NEW t \in Text, Add(d, n, t)
      PROVE  TypeOK'
  <2>1. changes' \in 0..MaxChanges
    BY <1>1, BoundAssumption DEF Add, Change
  <2>2. PICK at \in Stamp :
          have' = [have EXCEPT ![d][n] = [at |-> at, forgotten |-> FALSE, text |-> t]]
    BY <1>1 DEF Add
  <2>3. [at |-> at, forgotten |-> FALSE, text |-> t] \in Version
    BY DEF Version
  <2>4. have' \in [Device -> Notes]
    BY <2>2, <2>3 DEF Notes
  <2> QED
    BY <1>1, <2>1, <2>4 DEF Add, sync
<1>2. ASSUME NEW d \in Device, NEW n \in Note, Opens(d, n)
      PROVE  TypeOK'
  <2>1. changes' \in 0..MaxChanges
    BY <1>2, BoundAssumption DEF Opens, Change
  <2>2. [note |-> n, was |-> have[d][n]] \in [note : Note, was : Version \cup {None}]
    BY DEF Notes
  <2> QED
    BY <1>2, <2>1, <2>2 DEF Opens, sync
<1>3. ASSUME NEW d \in Device, Changes(d)
      PROVE  TypeOK'
  <2>1. typing[d] \in [note : Note, was : Version \cup {None}]
    BY <1>3 DEF Changes
  <2>2. PICK v \in Version : Writes(d, typing[d].note, typing[d].was, v)
    <3>1. PICK at \in Stamp :
            \/ Writes(d, typing[d].note, typing[d].was,
                      [at |-> at, forgotten |-> TRUE, text |-> 0])
            \/ \E t \in Text :
                 Writes(d, typing[d].note, typing[d].was,
                        [at |-> at, forgotten |-> FALSE, text |-> t])
      BY <1>3 DEF Changes, LaterThan
    <3>2. /\ [at |-> at, forgotten |-> TRUE, text |-> 0] \in Version
          /\ \A t \in Text : [at |-> at, forgotten |-> FALSE, text |-> t] \in Version
      BY DEF Version
    <3> QED
      BY <3>1, <3>2
  <2>3. have' \in [Device -> Notes] /\ raced' \in BOOLEAN
    BY <2>1, <2>2 DEF Writes, Notes
  <2> QED
    BY <1>3, <2>3 DEF Changes, sync
<1>4. ASSUME NEW s \in Sync, Steps(s) \/ Fails(s)
      PROVE  TypeOK'
  <2>0. DeviceOf[s] \in Device /\ NoSnapshots \in [Id -> Notes \cup {None}]
    BY DeviceAssumption DEF NoSnapshots
  <2>1. CASE List(s)
    BY <2>1 DEF List, GoTo
  <2>2. CASE Fetch(s)
    <3> DEFINE b == [i \in Id |-> IF box[i] = None THEN None ELSE believed[s][i]]
    <3>1. b \in [Id -> Notes \cup {None}]
      OBVIOUS
    <3>2. believed' = [believed EXCEPT ![s] = b] /\ todo' = [todo EXCEPT ![s] = NotesOf(believed'[s])]
      BY <2>2 DEF Fetch
    <3>3. believed'[s] = b
      BY <3>2
    <3>4. NotesOf(b) \in SUBSET (Note \X Version)
      BY <3>1, NotesOfType
    <3> HIDE DEF b
    <3> QED
      BY <2>2, <3>1, <3>2, <3>3, <3>4 DEF Fetch, GoTo
  <2>3. CASE MergeReads(s)
    <3>1. PICK next \in todo[s] :
            /\ todo' = [todo EXCEPT ![s] = @ \ {next}]
            /\ \/ /\ hand' = [hand EXCEPT ![s] = [note |-> next[1], version |-> next[2],
                                                   was |-> have[DeviceOf[s]][next[1]]]]
                  /\ GoTo(s, "write")
               \/ UNCHANGED <<hand, pc>>
      BY <2>3 DEF MergeReads
    <3>2. /\ next[1] \in Note /\ next[2] \in Version
          /\ have[DeviceOf[s]][next[1]] \in Version \cup {None}
      BY <2>0 DEF Notes
    <3>3. hand' \in [Sync -> {None} \cup [note : Note, version : Version, was : Version \cup {None}]]
      BY <3>1, <3>2
    <3>4. pc' \in [Sync -> {"idle", "fetch", "merge", "write", "append", "trash"}]
      BY <3>1 DEF GoTo
    <3> QED
      BY <2>3, <3>1, <3>3, <3>4 DEF MergeReads
  <2>4. CASE MergeWrites(s)
    <3>1. hand[s] \in Hand
      BY <2>4 DEF MergeWrites, HandsOK
    <3>2. have' \in [Device -> Notes] /\ raced' \in BOOLEAN
      BY <2>0, <2>4, <3>1 DEF MergeWrites, Writes, Notes, Hand
    <3> QED
      BY <2>4, <3>2 DEF MergeWrites, GoTo
  <2>5. ASSUME Leave(s)
        PROVE  /\ pc' \in [Sync -> {"idle", "fetch", "merge", "write", "append", "trash"}]
               /\ believed' \in [Sync -> [Id -> Notes \cup {None}]]
               /\ todo' \in [Sync -> SUBSET (Note \X Version)]
               /\ hand' \in [Sync -> {None} \cup
                                  [note : Note, version : Version, was : Version \cup {None}]]
               /\ ours' \in [Sync -> Notes \cup {None}]
    <3>1. {} \in SUBSET (Note \X Version)
      OBVIOUS
    <3>2. pc' \in [Sync -> {"idle", "fetch", "merge", "write", "append", "trash"}]
      BY <2>5 DEF Leave, GoTo
    <3>3. believed' \in [Sync -> [Id -> Notes \cup {None}]]
      BY <2>0, <2>5 DEF Leave
    <3>4. todo' \in [Sync -> SUBSET (Note \X Version)]
      BY <3>1, <2>5 DEF Leave
    <3>5. hand' \in [Sync -> {None} \cup
                          [note : Note, version : Version, was : Version \cup {None}]]
      BY <2>5 DEF Leave
    <3>6. ours' \in [Sync -> Notes \cup {None}]
      BY <2>5 DEF Leave
    <3> QED
      BY <3>2, <3>3, <3>4, <3>5, <3>6
  <2>11. CASE UpToDate(s) \/ Done(s)
    <3>1. Leave(s) /\ UNCHANGED <<have, typing, box, changes, raced>>
      BY <2>11 DEF UpToDate, Done
    <3> QED
      BY <2>5, <3>1
  <2>6. CASE Seal(s)
    BY <2>0, <2>6 DEF Seal, GoTo
  <2>7. CASE Append(s)
    BY <2>7 DEF Append, GoTo
  <2>8. CASE Trash(s)
    <3>1. PICK i \in Id : /\ believed' = [believed EXCEPT ![s][i] = None]
                          /\ box' = [box EXCEPT ![i] = None]
      BY <2>8 DEF Trash, Replaced, SnapshotsAt
    <3>2. believed' \in [Sync -> [Id -> Notes \cup {None}]] /\ box' \in [Id -> Notes \cup {None}]
      BY <3>1
    <3> QED
      BY <2>8, <3>2 DEF Trash
  <2>9. CASE TrashFails(s)
    <3>1. PICK i \in Id : believed' = [believed EXCEPT ![s][i] = None]
      BY <2>9 DEF TrashFails, Replaced, SnapshotsAt
    <3>2. believed' \in [Sync -> [Id -> Notes \cup {None}]]
      BY <3>1
    <3> QED
      BY <2>9, <3>2 DEF TrashFails
  <2>10. CASE BreaksOff(s)
    <3>1. box' \in [Id -> Notes \cup {None}]
      BY <2>10 DEF BreaksOff
    <3>2. Leave(s) /\ UNCHANGED <<have, typing, changes, raced>>
      BY <2>10 DEF BreaksOff
    <3> QED
      BY <2>5, <3>1, <3>2
  <2> QED
    BY <1>4, <2>1, <2>2, <2>3, <2>4, <2>11, <2>6, <2>7, <2>8, <2>9, <2>10 DEF Steps, Fails
<1>5. CASE UNCHANGED vars
  BY <1>5 DEF vars, sync
<1> QED
  BY <1>1, <1>2, <1>3, <1>4, <1>5 DEF Next

-----------------------------------------------------------------------------
(* What a step leaves alone.                                               *)

LEMMA WindowsLeaveSyncs ==
  ASSUME NEW d \in Device,
         \/ \E n \in Note, t \in Text : Add(d, n, t)
         \/ \E n \in Note : Opens(d, n)
         \/ Changes(d)
  PROVE  UNCHANGED <<pc, believed, todo, hand, ours, box>>
BY DEF Add, Opens, Changes, sync

LEMMA OthersWait ==
  ASSUME TypeOK, NEW s \in Sync, Steps(s) \/ Fails(s), NEW t \in Sync, t # s
  PROVE  /\ pc'[t] = pc[t] /\ believed'[t] = believed[t] /\ todo'[t] = todo[t]
         /\ hand'[t] = hand[t] /\ ours'[t] = ours[t]
<1> USE DEF TypeOK, GoTo
<1>1. CASE List(s) \/ Fetch(s)
  BY <1>1 DEF List, Fetch
<1>2. CASE MergeReads(s)
  <2>1. /\ hand'[t] = hand[t] /\ pc'[t] = pc[t] /\ todo'[t] = todo[t]
    BY <1>2 DEF MergeReads
  <2> QED
    BY <1>2, <2>1 DEF MergeReads
<1>3. CASE MergeWrites(s) \/ Seal(s) \/ Append(s)
  BY <1>3 DEF MergeWrites, Seal, Append
<1>4. CASE Trash(s) \/ TrashFails(s)
  BY <1>4 DEF Trash, TrashFails
<1>5. CASE UpToDate(s) \/ Done(s) \/ BreaksOff(s)
  <2>1. Leave(s)
    BY <1>5 DEF UpToDate, Done, BreaksOff
  <2> QED
    BY <2>1 DEF Leave
<1> QED
  BY <1>1, <1>2, <1>3, <1>4, <1>5 DEF Steps, Fails

(* What a sync puts in the folder it puts where nobody believes anything.  *)
LEMMA BoxStep ==
  ASSUME TypeOK, [Next]_vars, NEW i \in Id
  PROVE  box'[i] = box[i] \/ box'[i] = None \/ Fresh(i)
<1> USE DEF TypeOK
<1>1. ASSUME NEW s \in Sync, Append(s) \/ BreaksOff(s)
      PROVE  box'[i] = box[i] \/ Fresh(i)
  BY <1>1 DEF Append, BreaksOff
<1>2. ASSUME NEW s \in Sync, Trash(s)
      PROVE  box'[i] = box[i] \/ box'[i] = None
  BY <1>2 DEF Trash
<1>3. ASSUME NEW s \in Sync,
             \/ List(s) \/ Fetch(s) \/ MergeReads(s) \/ MergeWrites(s)
             \/ UpToDate(s) \/ Seal(s) \/ Done(s) \/ TrashFails(s)
      PROVE  box' = box
  BY <1>3 DEF List, Fetch, MergeReads, MergeWrites, UpToDate, Seal, Done, TrashFails
<1>4. CASE UNCHANGED vars
  BY <1>4 DEF vars
<1> QED
  BY <1>1, <1>2, <1>3, <1>4, WindowsLeaveSyncs DEF Next, Steps, Fails

(* And what it believes it found in the folder, or believed before.        *)
LEMMA BelievedStep ==
  ASSUME TypeOK, NEW s \in Sync, Steps(s) \/ Fails(s), NEW i \in Id
  PROVE  \/ believed'[s][i] = believed[s][i]
         \/ believed'[s][i] = None
         \/ List(s) /\ box' = box /\ believed'[s][i] = box[i]
<1> USE DEF TypeOK
<1>1. CASE List(s)
  BY <1>1 DEF List
<1>2. CASE Fetch(s)
  BY <1>2 DEF Fetch
<1>3. CASE MergeReads(s) \/ MergeWrites(s) \/ Seal(s) \/ Append(s)
  BY <1>3 DEF MergeReads, MergeWrites, Seal, Append
<1>4. CASE Trash(s) \/ TrashFails(s)
  BY <1>4 DEF Trash, TrashFails, Replaced, SnapshotsAt
<1>5. CASE UpToDate(s) \/ Done(s) \/ BreaksOff(s)
  <2>1. Leave(s)
    BY <1>5 DEF UpToDate, Done, BreaksOff
  <2>2. believed' = [believed EXCEPT ![s] = NoSnapshots]
    BY <2>1 DEF Leave
  <2> QED
    BY <2>2 DEF NoSnapshots
<1> QED
  BY <1>1, <1>2, <1>3, <1>4, <1>5 DEF Steps, Fails

-----------------------------------------------------------------------------
LEMMA HandsStep ==
  ASSUME TypeOK, HandsOK, [Next]_vars
  PROVE  HandsOK'
<1> USE DEF TypeOK, HandsOK
<1>1. ASSUME NEW d \in Device, NEW n \in Note, NEW t \in Text, Add(d, n, t)
      PROVE  HandsOK'
  BY <1>1 DEF Add, sync
<1>2. ASSUME NEW d \in Device, NEW n \in Note, Opens(d, n)
      PROVE  HandsOK'
  <2>1. \A e \in Device : typing'[e] # None => typing'[e].was # None
    BY <1>2 DEF Opens, Live
  <2> QED
    BY <1>2, <2>1 DEF Opens, sync
<1>3. ASSUME NEW d \in Device, Changes(d)
      PROVE  HandsOK'
  <2>1. \A e \in Device : typing'[e] # None => typing'[e].was # None
    BY <1>3 DEF Changes
  <2> QED
    BY <1>3, <2>1 DEF Changes, sync
<1>4. ASSUME NEW s \in Sync, Steps(s) \/ Fails(s)
      PROVE  HandsOK'
  <2>1. typing' = typing
    BY <1>4 DEF Steps, Fails, List, Fetch, MergeReads, MergeWrites, UpToDate, Seal, Append,
                Trash, Done, TrashFails, BreaksOff
  <2>2. /\ pc'[s] = "write" => hand'[s] \in Hand /\ Replaces(hand'[s].version, hand'[s].was)
        /\ pc'[s] \in {"append", "trash"} => ours'[s] \in Notes
    <3>1. CASE MergeReads(s)
      <4>1. PICK next \in todo[s] :
              \/ /\ Replaces(next[2], have[DeviceOf[s]][next[1]])
                 /\ hand' = [hand EXCEPT ![s] = [note |-> next[1], version |-> next[2],
                                                 was |-> have[DeviceOf[s]][next[1]]]]
              \/ pc' = pc
        BY <3>1 DEF MergeReads
      <4>2. /\ next[1] \in Note /\ next[2] \in Version
            /\ have[DeviceOf[s]][next[1]] \in Version \cup {None}
        BY DeviceAssumption DEF Notes
      <4>3. pc[s] = "merge" /\ pc'[s] \in {"merge", "write"}
        BY <3>1 DEF MergeReads, GoTo
      <4> QED
        BY <4>1, <4>2, <4>3 DEF Hand
    <3>2. CASE Seal(s)
      BY <3>2, DeviceAssumption DEF Seal, GoTo
    <3>3. CASE List(s) \/ Fetch(s) \/ MergeWrites(s)
      BY <3>3 DEF List, Fetch, MergeWrites, GoTo
    <3>4. CASE Append(s) \/ Trash(s) \/ TrashFails(s)
      BY <3>4 DEF Append, Trash, TrashFails, GoTo
    <3>5. CASE UpToDate(s) \/ Done(s) \/ BreaksOff(s)
      BY <3>5 DEF UpToDate, Done, BreaksOff, Leave, GoTo
    <3> QED
      BY <1>4, <3>1, <3>2, <3>3, <3>4, <3>5 DEF Steps, Fails
  <2> QED
    BY <1>4, <2>1, <2>2, OthersWait
<1>5. CASE UNCHANGED vars
  BY <1>5 DEF vars, sync
<1> QED
  BY <1>1, <1>2, <1>3, <1>4, <1>5 DEF Next

LEMMA BelievedOKStep ==
  ASSUME TypeOK, BelievedOK, [Next]_vars
  PROVE  BelievedOK'
<1> SUFFICES ASSUME NEW t \in Sync, NEW i \in Id, believed'[t][i] # None, box'[i] # None
             PROVE  box'[i] = believed'[t][i]
  BY DEF BelievedOK
<1>1. \/ believed'[t][i] = believed[t][i]
      \/ box' = box /\ believed'[t][i] = box[i]
  <2>1. CASE UNCHANGED vars
    BY <2>1 DEF vars, sync
  <2> QED
    BY <2>1, WindowsLeaveSyncs, OthersWait, BelievedStep DEF Next
<1>2. box'[i] = box[i] \/ Fresh(i)
  BY BoxStep
<1> QED
  BY <1>1, <1>2 DEF BelievedOK, Fresh

-----------------------------------------------------------------------------
(* A note here never gets older, unless somebody wrote over a version they *)
(* had not read.                                                           *)
LEMMA HaveGrows ==
  ASSUME TypeOK, HandsOK, [Next]_vars, ~raced', NEW d \in Device, NEW n \in Note
  PROVE  NoOlder(have'[d][n], have[d][n])
<1> USE DEF TypeOK
<1>1. ASSUME NEW e \in Device, NEW m \in Note, NEW t \in Text, Add(e, m, t)
      PROVE  NoOlder(have'[d][n], have[d][n])
  <2>1. have[e][m] = None
    BY <1>1 DEF Add
  <2>2. \/ have'[d][n] = have[d][n]
        \/ d = e /\ n = m
    BY <1>1 DEF Add, Notes
  <2> QED
    BY <2>1, <2>2 DEF NoOlder
<1>2. ASSUME NEW e \in Device, NEW m \in Note, NEW v \in Version, NEW was \in Version \cup {None},
             Writes(e, m, was, v), Replaces(v, was)
      PROVE  NoOlder(have'[d][n], have[d][n])
  <2>1. was = have[e][m]
    BY <1>2 DEF Writes
  <2>2. \/ have'[d][n] = have[d][n]
        \/ d = e /\ n = m /\ have'[d][n] = v
    BY <1>2 DEF Writes, Notes
  <2> QED
    BY <1>2, <2>1, <2>2, NoneAssumption DEF NoOlder, Replaces
<1>3. ASSUME NEW e \in Device, Changes(e)
      PROVE  NoOlder(have'[d][n], have[d][n])
  <2>1. /\ typing[e] \in [note : Note, was : Version \cup {None}]
        /\ typing[e].was \in Version
    BY <1>3 DEF Changes, HandsOK
  <2>2. PICK at \in LaterThan(typing[e].was) :
          \E f \in BOOLEAN, t \in Text \cup {0} :
            Writes(e, typing[e].note, typing[e].was, [at |-> at, forgotten |-> f, text |-> t])
    BY <1>3 DEF Changes
  <2>3. PICK f \in BOOLEAN, t \in Text \cup {0} :
          Writes(e, typing[e].note, typing[e].was, [at |-> at, forgotten |-> f, text |-> t])
    BY <2>2
  <2> DEFINE v == [at |-> at, forgotten |-> f, text |-> t]
  <2>4. v \in Version /\ v.at > typing[e].was.at
    BY <2>2, <2>3 DEF Version, LaterThan
  <2>5. Replaces(v, typing[e].was)
    BY <2>4 DEF Replaces, Wins
  <2> QED
    BY <1>2, <2>1, <2>3, <2>4, <2>5
<1>4. ASSUME NEW s \in Sync, MergeWrites(s)
      PROVE  NoOlder(have'[d][n], have[d][n])
  <2>1. /\ hand[s] \in Hand /\ Replaces(hand[s].version, hand[s].was)
        /\ DeviceOf[s] \in Device
        /\ Writes(DeviceOf[s], hand[s].note, hand[s].was, hand[s].version)
    BY <1>4, DeviceAssumption DEF MergeWrites, HandsOK
  <2> QED
    BY <1>2, <2>1 DEF Hand
<1>5. ASSUME have' = have
      PROVE  NoOlder(have'[d][n], have[d][n])
  BY <1>5 DEF NoOlder
<1>6. ASSUME NEW e \in Device, NEW m \in Note, Opens(e, m)
      PROVE  have' = have
  BY <1>6 DEF Opens
<1>7. ASSUME NEW s \in Sync, ~MergeWrites(s), Steps(s) \/ Fails(s)
      PROVE  have' = have
  BY <1>7 DEF Steps, Fails, List, Fetch, MergeReads, UpToDate, Seal, Append, Trash, Done,
              TrashFails, BreaksOff
<1>8. CASE UNCHANGED vars
  BY <1>5, <1>8 DEF vars
<1> QED
  BY <1>1, <1>3, <1>4, <1>5, <1>6, <1>7, <1>8 DEF Next

(* So what a sync has merged stays merged.                                 *)
LEMMA StaysMerged ==
  ASSUME TypeOK, HandsOK, [Next]_vars, TypeOK', ~raced', NEW d \in Device, NEW n \in Note,
         NEW v \in Version, AtLeast(have[d][n], v)
  PROVE  AtLeast(have'[d][n], v)
<1>1. NoOlder(have'[d][n], have[d][n])
  BY HaveGrows
<1>2. have[d][n] \in Version \cup {None} /\ have'[d][n] \in Version \cup {None}
  BY DEF TypeOK, Notes
<1>3. AtLeast(have'[d][n], have[d][n])
  BY <1>1 DEF NoOlder, AtLeast
<1> QED
  BY <1>2, <1>3, AtLeastIsTransitive

LEMMA RacedStays ==
  ASSUME TypeOK, [Next]_vars, ~raced'
  PROVE  ~raced
<1>1. CASE UNCHANGED vars
  BY <1>1 DEF vars
<1>2. ASSUME NEW d \in Device, NEW n \in Note, NEW t \in Text, Add(d, n, t)
      PROVE  ~raced
  BY <1>2 DEF Add
<1>3. ASSUME NEW d \in Device, NEW n \in Note, Opens(d, n)
      PROVE  ~raced
  BY <1>3 DEF Opens
<1>4. ASSUME NEW d \in Device, Changes(d)
      PROVE  ~raced
  BY <1>4 DEF Changes, Writes
<1>5. ASSUME NEW s \in Sync, Steps(s) \/ Fails(s)
      PROVE  ~raced
  BY <1>5 DEF Steps, Fails, List, Fetch, MergeReads, MergeWrites, Writes, UpToDate, Seal,
              Append, Trash, Done, TrashFails, BreaksOff
<1> QED
  BY <1>1, <1>2, <1>3, <1>4, <1>5 DEF Next

LEMMA MergedStep ==
  ASSUME TypeOK, HandsOK, MergedOK, [Next]_vars, TypeOK', ~raced'
  PROVE  MergedOK'
<1> SUFFICES ASSUME NEW t \in Sync, NEW i \in Id, NEW n \in Note, NEW v \in Version,
                    Says(t, i, n, v)'
             PROVE  /\ pc'[t] \in {"merge", "write"} =>
                         \/ <<n, v>> \in todo'[t]
                         \/ pc'[t] = "write" /\ hand'[t].note = n /\ hand'[t].version = v
                         \/ AtLeast(have'[DeviceOf[t]][n], v)
                    /\ pc'[t] \in {"append", "trash"} => AtLeast(ours'[t][n], v)
  BY DEF MergedOK, AtLeast, Wins, Forgets
<1> USE DEF TypeOK
<1>0. DeviceOf[t] \in Device /\ v # None
  BY DeviceAssumption, NoneAssumption
<1>1. ASSUME UNCHANGED <<pc[t], believed[t], todo[t], hand[t], ours[t]>>
      PROVE  /\ pc'[t] \in {"merge", "write"} =>
                  \/ <<n, v>> \in todo'[t]
                  \/ pc'[t] = "write" /\ hand'[t].note = n /\ hand'[t].version = v
                  \/ AtLeast(have'[DeviceOf[t]][n], v)
             /\ pc'[t] \in {"append", "trash"} => AtLeast(ours'[t][n], v)
  <2>1. Says(t, i, n, v)
    BY <1>1 DEF Says
  <2> QED
    BY <1>0, <1>1, <2>1, StaysMerged DEF MergedOK
<1>2. CASE UNCHANGED vars
  BY <1>1, <1>2 DEF vars, sync
<1>3. ASSUME NEW d \in Device,
             \/ \E m \in Note, x \in Text : Add(d, m, x)
             \/ \E m \in Note : Opens(d, m)
             \/ Changes(d)
      PROVE  UNCHANGED <<pc[t], believed[t], todo[t], hand[t], ours[t]>>
  BY <1>3, WindowsLeaveSyncs
<1>4. ASSUME NEW s \in Sync, Steps(s) \/ Fails(s), s # t
      PROVE  UNCHANGED <<pc[t], believed[t], todo[t], hand[t], ours[t]>>
  BY <1>4, OthersWait
<1>5. ASSUME Steps(t) \/ Fails(t)
      PROVE  /\ pc'[t] \in {"merge", "write"} =>
                  \/ <<n, v>> \in todo'[t]
                  \/ pc'[t] = "write" /\ hand'[t].note = n /\ hand'[t].version = v
                  \/ AtLeast(have'[DeviceOf[t]][n], v)
             /\ pc'[t] \in {"append", "trash"} => AtLeast(ours'[t][n], v)
  <2>1. CASE List(t)
    BY <2>1 DEF List, GoTo
  <2>2. CASE Fetch(t)
    <3>1. /\ todo'[t] = NotesOf(believed'[t]) /\ pc'[t] = "merge"
          /\ believed'[t] \in [Id -> Notes \cup {None}]
      BY <2>2 DEF Fetch, GoTo
    <3>2. <<n, v>> \in NotesOf(believed'[t])
      BY <1>0, <3>1, NotesOfType DEF Says
    <3> QED
      BY <3>1, <3>2
  <2>3. CASE MergeReads(t)
    <3>1. Says(t, i, n, v) /\ pc[t] = "merge" /\ pc'[t] \in {"merge", "write"} /\ have' = have
      BY <2>3 DEF Says, MergeReads, GoTo
    <3>2. <<n, v>> \in todo[t] \/ AtLeast(have[DeviceOf[t]][n], v)
      BY <3>1 DEF MergedOK
    <3>3. PICK next \in todo[t] :
            /\ todo'[t] = todo[t] \ {next}
            /\ \/ /\ pc'[t] = "write"
                  /\ hand'[t] = [note |-> next[1], version |-> next[2],
                                 was |-> have[DeviceOf[t]][next[1]]]
               \/ ~Replaces(next[2], have[DeviceOf[t]][next[1]])
      BY <2>3 DEF MergeReads, GoTo
    <3>4. CASE <<n, v>> = next
      <4>1. have[DeviceOf[t]][n] \in Version \cup {None}
        BY <1>0 DEF Notes
      <4>2. next[1] = n /\ next[2] = v
        BY <3>4
      <4> QED
        BY <3>1, <3>3, <4>1, <4>2, NotReplaced
    <3> QED
      BY <3>1, <3>2, <3>3, <3>4
  <2>4. CASE MergeWrites(t)
    <3>1. /\ Says(t, i, n, v) /\ pc[t] = "write" /\ pc'[t] = "merge" /\ todo' = todo
          /\ hand[t] \in Hand
      BY <2>4 DEF Says, MergeWrites, GoTo, HandsOK
    <3>2. \/ <<n, v>> \in todo[t]
          \/ hand[t].note = n /\ hand[t].version = v
          \/ AtLeast(have[DeviceOf[t]][n], v)
      BY <3>1 DEF MergedOK
    <3>3. CASE hand[t].note = n /\ hand[t].version = v
      <4>1. have' = [have EXCEPT ![DeviceOf[t]][n] = v]
        BY <2>4, <3>3 DEF MergeWrites, Writes
      <4>2. have'[DeviceOf[t]][n] = v
        BY <1>0, <4>1 DEF Notes
      <4> QED
        BY <1>0, <3>1, <4>2 DEF AtLeast
    <3>4. CASE AtLeast(have[DeviceOf[t]][n], v)
      BY <1>0, <3>1, <3>4, StaysMerged
    <3> QED
      BY <3>1, <3>2, <3>3, <3>4
  <2>5. CASE Seal(t)
    <3>1. /\ Says(t, i, n, v) /\ pc[t] = "merge" /\ todo[t] = {} /\ pc'[t] = "append"
          /\ ours'[t] = have[DeviceOf[t]]
      BY <2>5 DEF Says, Seal, Merged, GoTo
    <3>2. AtLeast(have[DeviceOf[t]][n], v)
      BY <3>1 DEF MergedOK
    <3> QED
      BY <3>1, <3>2
  <2>6. CASE Append(t)
    <3>1. Says(t, i, n, v) /\ pc[t] = "append" /\ pc'[t] = "trash" /\ ours' = ours
      BY <2>6 DEF Says, Append, GoTo
    <3> QED
      BY <3>1 DEF MergedOK
  <2>7. CASE Trash(t) \/ TrashFails(t)
    <3>1. pc[t] = "trash" /\ pc' = pc /\ ours' = ours
      BY <2>7 DEF Trash, TrashFails
    <3>2. believed'[t][i] = believed[t][i]
      BY <2>7 DEF Trash, TrashFails, Says
    <3>3. Says(t, i, n, v)
      BY <3>2 DEF Says
    <3> QED
      BY <3>1, <3>3 DEF MergedOK
  <2>8. CASE UpToDate(t) \/ Done(t) \/ BreaksOff(t)
    <3>1. pc'[t] = "idle"
      BY <2>8 DEF UpToDate, Done, BreaksOff, Leave, GoTo
    <3> QED
      BY <3>1
  <2> QED
    BY <1>5, <2>1, <2>2, <2>3, <2>4, <2>5, <2>6, <2>7, <2>8 DEF Steps, Fails
<1> QED
  BY <1>1, <1>2, <1>3, <1>4, <1>5 DEF Next

-----------------------------------------------------------------------------
(* The folder.                                                             *)

LEMMA AtLeastItself ==
  ASSUME NEW v \in Version
  PROVE  AtLeast(v, v)
BY NoneAssumption DEF AtLeast

(* What was kept is kept: a sync that may move it away has merged it, and  *)
(* has put what is no older beside it.                                     *)
LEMMA KeptStays ==
  ASSUME TypeOK, HandsOK, BelievedOK, MergedOK, [Next]_vars,
         NEW n \in Note, NEW v \in Version, Kept(n, v)
  PROVE  Kept(n, v)'
<1> USE DEF TypeOK
<1>1. PICK k \in Id :
        /\ box[k] # None /\ AtLeast(box[k][n], v)
        /\ \A t \in Sync : pc[t] = "trash" => believed[t][k] = None
  BY DEF Kept
<1>2. ASSUME box'[k] = box[k], \A t \in Sync : pc'[t] = "trash" => believed'[t][k] = None
      PROVE  Kept(n, v)'
  <2>1. box'[k] # None /\ AtLeast(box'[k][n], v)
    BY <1>1, <1>2
  <2> QED
    BY <1>2, <2>1 DEF Kept, AtLeast, Wins, Forgets
<1>3. CASE UNCHANGED vars
  BY <1>1, <1>2, <1>3 DEF vars, sync
<1>4. ASSUME NEW d \in Device,
             \/ \E m \in Note, x \in Text : Add(d, m, x)
             \/ \E m \in Note : Opens(d, m)
             \/ Changes(d)
      PROVE  Kept(n, v)'
  BY <1>1, <1>2, <1>4, WindowsLeaveSyncs
<1>5. ASSUME NEW s \in Sync, Steps(s) \/ Fails(s)
      PROVE  Kept(n, v)'
  <2>0. \A t \in Sync \ {s} : pc'[t] = pc[t] /\ believed'[t] = believed[t]
    BY <1>5, OthersWait
  <2>1. CASE Append(s)
    <3>1. PICK i \in Id : Fresh(i) /\ box' = [box EXCEPT ![i] = ours[s]]
      BY <2>1 DEF Append
    <3>2. believed' = believed /\ pc[s] = "append" /\ pc' = [pc EXCEPT ![s] = "trash"]
      BY <2>1 DEF Append, GoTo
    <3>3. box'[k] = box[k]
      BY <1>1, <3>1 DEF Fresh
    <3>4. CASE believed[s][k] = None
      BY <1>1, <1>2, <2>0, <3>2, <3>3, <3>4
    <3>5. CASE believed[s][k] # None
      <4>1. box[k] = believed[s][k]
        BY <1>1, <3>5 DEF BelievedOK
      <4>2. box[k][n] \in Version /\ ours[s] \in Notes /\ ours[s][n] \in Version \cup {None}
        BY <1>1, <3>2 DEF AtLeast, HandsOK, Notes
      <4>3. AtLeast(ours[s][n], box[k][n])
        BY <3>2, <3>5, <4>1, <4>2 DEF MergedOK, Says
      <4>4. AtLeast(ours[s][n], v)
        BY <1>1, <4>2, <4>3, AtLeastIsTransitive
      <4>5. box'[i] # None /\ AtLeast(box'[i][n], v)
        BY <3>1, <4>2, <4>4, NoneAssumption
      <4>6. \A t \in Sync : believed'[t][i] = None
        BY <3>1, <3>2 DEF Fresh
      <4> QED
        BY <4>5, <4>6 DEF Kept, AtLeast, Wins, Forgets
    <3> QED
      BY <3>4, <3>5
  <2>2. CASE Trash(s) \/ TrashFails(s)
    <3>1. pc[s] = "trash" /\ pc' = pc
      BY <2>2 DEF Trash, TrashFails
    <3>2. believed[s][k] = None
      BY <1>1, <3>1
    <3>3. box'[k] = box[k] /\ believed'[s][k] = None
      BY <2>2, <3>2 DEF Trash, TrashFails, Replaced, SnapshotsAt
    <3> QED
      BY <1>1, <1>2, <2>0, <3>1, <3>3
  <2>3. CASE BreaksOff(s)
    <3>1. box'[k] = box[k]
      BY <1>1, <2>3 DEF BreaksOff, Fresh
    <3>2. pc'[s] = "idle"
      BY <2>3 DEF BreaksOff, Leave, GoTo
    <3> QED
      BY <1>1, <1>2, <2>0, <3>1, <3>2
  <2>4. CASE \/ List(s) \/ Fetch(s) \/ MergeReads(s) \/ MergeWrites(s)
             \/ UpToDate(s) \/ Seal(s) \/ Done(s)
    <3>1. box' = box /\ pc'[s] # "trash"
      BY <2>4 DEF List, Fetch, MergeReads, MergeWrites, UpToDate, Seal, Done, Leave, GoTo
    <3> QED
      BY <1>1, <1>2, <2>0, <3>1
  <2> QED
    BY <1>5, <2>1, <2>2, <2>3, <2>4 DEF Steps, Fails
<1> QED
  BY <1>3, <1>4, <1>5 DEF Next

LEMMA FolderStep ==
  ASSUME TypeOK, HandsOK, BelievedOK, MergedOK, FolderOK, [Next]_vars
  PROVE  FolderOK'
<1> USE DEF TypeOK
<1>1. ASSUME NEW n \in Note, NEW v \in Version, NEW i \in Id, box'[i] # None, box'[i][n] = v
      PROVE  Kept(n, v)'
  <2>1. CASE box'[i] = box[i]
    BY <1>1, <2>1, KeptStays DEF FolderOK
  <2>2. ASSUME NEW s \in Sync, box' = [box EXCEPT ![i] = ours[s]], Fresh(i),
               Append(s) \/ BreaksOff(s)
        PROVE  Kept(n, v)'
    <3>1. AtLeast(box'[i][n], v)
      BY <1>1, AtLeastItself
    <3>2. \A t \in Sync : believed'[t][i] = None
      <4>1. \A t \in Sync : believed[t][i] = None
        BY <2>2 DEF Fresh
      <4>2. believed' = believed \/ believed' = [believed EXCEPT ![s] = NoSnapshots]
        BY <2>2 DEF Append, BreaksOff, Leave
      <4> QED
        BY <4>1, <4>2 DEF NoSnapshots
    <3> QED
      BY <1>1, <3>1, <3>2 DEF Kept, AtLeast, Wins, Forgets
  <2>3. ASSUME NEW s \in Sync, Append(s) \/ BreaksOff(s)
        PROVE  \/ box'[i] = box[i]
               \/ box' = [box EXCEPT ![i] = ours[s]] /\ Fresh(i)
    BY <2>3 DEF Append, BreaksOff
  <2>4. ASSUME NEW s \in Sync, Trash(s)
        PROVE  box'[i] = box[i]
    BY <1>1, <2>4 DEF Trash
  <2>5. ASSUME NEW s \in Sync,
               \/ List(s) \/ Fetch(s) \/ MergeReads(s) \/ MergeWrites(s)
               \/ UpToDate(s) \/ Seal(s) \/ Done(s) \/ TrashFails(s)
        PROVE  box' = box
    BY <2>5 DEF List, Fetch, MergeReads, MergeWrites, UpToDate, Seal, Done, TrashFails
  <2>6. CASE UNCHANGED vars
    BY <2>1, <2>6 DEF vars
  <2> QED
    BY <2>1, <2>2, <2>3, <2>4, <2>5, <2>6, WindowsLeaveSyncs DEF Next, Steps, Fails
<1>2. ASSUME NEW n \in Note, NEW v \in Version, NEW t \in Sync, pc'[t] = "trash", ours'[t][n] = v
      PROVE  Kept(n, v)'
  <2>1. CASE pc[t] = "trash" /\ ours'[t] = ours[t]
    BY <1>2, <2>1, KeptStays DEF FolderOK
  <2>2. CASE Append(t)
    <3>1. PICK i \in Id : box'[i] = ours[t]
      BY <2>2 DEF Append
    <3>2. ours' = ours /\ ours[t] # None
      BY <2>2, NoneAssumption DEF Append, HandsOK
    <3> QED
      BY <1>1, <1>2, <3>1, <3>2
  <2>3. ASSUME ~Append(t), Steps(t) \/ Fails(t)
        PROVE  pc[t] = "trash" /\ ours'[t] = ours[t]
    <3>1. CASE Trash(t) \/ TrashFails(t)
      BY <3>1 DEF Trash, TrashFails
    <3>2. CASE List(t) \/ Fetch(t) \/ MergeReads(t) \/ MergeWrites(t) \/ Seal(t)
      BY <1>2, <3>2 DEF List, Fetch, MergeReads, MergeWrites, Seal, GoTo
    <3>3. CASE UpToDate(t) \/ Done(t) \/ BreaksOff(t)
      BY <1>2, <3>3 DEF UpToDate, Done, BreaksOff, Leave, GoTo
    <3> QED
      BY <2>3, <3>1, <3>2, <3>3 DEF Steps, Fails
  <2>4. CASE UNCHANGED vars
    BY <1>2, <2>1, <2>4 DEF vars, sync
  <2> QED
    BY <1>2, <2>1, <2>2, <2>3, <2>4, WindowsLeaveSyncs, OthersWait DEF Next
<1> QED
  BY <1>1, <1>2 DEF FolderOK

-----------------------------------------------------------------------------
LEMMA InitIInv == Init => IInv
<1> SUFFICES ASSUME Init PROVE IInv
  OBVIOUS
<1> USE DEF Init
<1>1. TypeOK
  <2>1. NoNotes \in Notes /\ NoSnapshots \in [Id -> Notes \cup {None}]
    BY DEF NoNotes, NoSnapshots, Notes
  <2>2. have \in [Device -> Notes] /\ box \in [Id -> Notes \cup {None}]
    BY <2>1
  <2>3. believed \in [Sync -> [Id -> Notes \cup {None}]]
    BY <2>1
  <2>4. todo \in [Sync -> SUBSET (Note \X Version)]
    OBVIOUS
  <2>5. changes \in 0..MaxChanges
    BY BoundAssumption
  <2> QED
    BY <2>2, <2>3, <2>4, <2>5 DEF TypeOK
<1>2. HandsOK /\ BelievedOK
  BY DEF HandsOK, BelievedOK, NoSnapshots
<1>3. MergedOK
  BY DEF MergedOK, Says, NoSnapshots
<1>4. FolderOK
  BY DEF FolderOK, NoSnapshots
<1> QED
  BY <1>1, <1>2, <1>3, <1>4 DEF IInv

LEMMA NextIInv == IInv /\ [Next]_vars => IInv'
<1> SUFFICES ASSUME IInv, [Next]_vars PROVE IInv'
  OBVIOUS
<1>1. TypeOK /\ HandsOK /\ BelievedOK /\ (raced \/ (MergedOK /\ FolderOK))
  BY DEF IInv
<1>2. TypeOK' /\ HandsOK' /\ BelievedOK'
  BY <1>1, TypeStep, HandsStep, BelievedOKStep
<1>3. CASE ~raced'
  <2>1. MergedOK /\ FolderOK
    BY <1>1, <1>3, RacedStays
  <2>2. MergedOK'
    BY <1>1, <1>2, <1>3, <2>1, MergedStep
  <2>3. FolderOK'
    BY <1>1, <2>1, FolderStep
  <2> QED
    BY <1>2, <2>2, <2>3 DEF IInv
<1> QED
  BY <1>2, <1>3 DEF IInv

LEMMA Invariance == Spec => []IInv
BY InitIInv, NextIInv, PTL DEF Spec

(* What the store, the folder and every sync hold is of its type.          *)
THEOREM TypeCorrect == Spec => []TypeOK
<1>1. IInv => TypeOK
  BY DEF IInv
<1> QED
  BY <1>1, Invariance, PTL

(* merge_memory, update_memory and forget_memory: on no device does a note *)
(* get older, as long as nobody writes over a version they have not read.  *)
THEOREM ForwardOnly == Spec => LaterChangeWinsUnlessRaced
<1>1. IInv /\ [Next]_vars =>
        [\A d \in Device, n \in Note : raced' \/ NoOlder(have'[d][n], have[d][n])]_vars
  BY HaveGrows DEF IInv
<1> QED
  BY <1>1, Invariance, PTL DEF Spec, LaterChangeWinsUnlessRaced

(* sync_memory: what a sync has uploaded stays in the folder, or something *)
(* later of each note, while others replace its snapshot.                  *)
THEOREM UploadsAreKept == Spec => []UploadStays
<1>1. IInv => UploadStays
  <2> SUFFICES ASSUME IInv, NEW s \in Sync, NEW n \in Note,
                      pc[s] = "trash", ~raced, ours[s][n] # None
               PROVE  InFolder(box, n, ours[s][n])
    BY DEF UploadStays
  <2>1. ours[s][n] \in Version
    BY DEF IInv, HandsOK, Notes
  <2>2. Kept(n, ours[s][n])
    BY <2>1 DEF IInv, FolderOK
  <2> QED
    BY <2>1, <2>2, NoneAssumption DEF Kept, InFolder, AtLeast, NoOlder
<1> QED
  BY <1>1, Invariance, PTL

(* sync_memory: no step of any sync takes the latest of a note from the    *)
(* folder.                                                                 *)
THEOREM FolderMovesForward == Spec => FolderLosesNothing
<1>1. IInv /\ [Next]_vars =>
        [\A n \in Note, i \in Id : box[i] # None /\ box[i][n] # None =>
           raced \/ InFolder(box', n, box[i][n])]_vars
  <2> SUFFICES ASSUME IInv, [Next]_vars, NEW n \in Note, NEW i \in Id,
                      box[i] # None, box[i][n] # None, ~raced
               PROVE  InFolder(box', n, box[i][n])
    OBVIOUS
  <2>1. PICK v \in Version : v = box[i][n]
    BY DEF IInv, TypeOK, Notes
  <2>2. Kept(n, v)
    BY <2>1 DEF IInv, FolderOK
  <2>3. Kept(n, v)'
    BY <2>2, KeptStays DEF IInv
  <2>4. InFolder(box', n, v)
    BY <2>3, NoneAssumption DEF Kept, InFolder, AtLeast, NoOlder
  <2> QED
    BY <2>1, <2>4
<1> QED
  BY <1>1, Invariance, PTL DEF Spec, FolderLosesNothing

=============================================================================
