------------------------- MODULE FolderSyncProofs --------------------------
(***************************************************************************)
(* What holds of FolderSync for every mailbox, every bound and every order *)
(* of changes, stops and passes: its types, that no mail is attached to    *)
(* another message's UID, that no mail is left where no pass looks, and    *)
(* that a pass that ran undisturbed leaves a copy of the folder.           *)
(***************************************************************************)
EXTENDS FolderSync, TLAPS, FiniteSetTheorems, WellFoundedInduction

Listing  == pc \in {"fetch", "store"}
Settling == pc \in {"flags", "expunge", "record"}

(* Mail the store should have and has not.                                 *)
Missing(v) == v \in On(box) /\ Parseable(v) /\ held[v] = None

(* Where the next pass finds it: above all that is held, or in the hole.   *)
Beyond(v) == \A u \in On(held) : u < v
Owed(v)   == row.owed # None /\ v <= row.owed

(* What this pass has listed and not stored, and what came after.          *)
Todo     == fresh \cup behind \cup On(batch)
Above(v) == Beyond(v) /\ \A t \in Todo : t < v

(* Every set of UIDs has a least and a greatest one: what Min and Max of   *)
(* the model rest on.                                                      *)
Less == {ss \in Nat \X Nat : ss[1] < ss[2]}

LEMMA LessIsWellFounded == IsWellFoundedOn(Less, Nat)
BY NatLessThanWellFounded DEF OpToRel, Less

LEMMA LeastNumber ==
  ASSUME NEW S \in SUBSET Nat, S # {}
  PROVE  \E x \in S : \A y \in S : x <= y
<1>1. PICK x \in S : \A y \in S : ~(<<y, x>> \in Less)
  BY LessIsWellFounded, WFMin
<1>2. \A y, z \in Nat : <<y, z>> \in Less <=> y < z
  BY DEF Less
<1>3. \A y \in S : ~(y < x)
  BY <1>1, <1>2
<1> QED
  BY <1>3

LEMMA UidType == Uid \subseteq Nat /\ None \notin Uid /\ \A u \in Uid : u - 1 # None
BY NullAssumption, BoundAssumption DEF Uid

LEMMA LeastUid ==
  ASSUME NEW S \in SUBSET Uid, S # {}
  PROVE  Min(S) \in S /\ \A y \in S : Min(S) <= y
<1>1. \E x \in S : \A y \in S : x <= y
  BY UidType, LeastNumber
<1> QED
  BY <1>1 DEF Min

LEMMA GreatestUid ==
  ASSUME NEW S \in SUBSET Uid, S # {}
  PROVE  Max(S) \in S /\ \A y \in S : y <= Max(S)
<1> DEFINE T == {MaxUid - x : x \in S}
<1>1. T \in SUBSET Nat /\ T # {}
  <2>1. \A x \in Uid : MaxUid - x \in Nat
    BY BoundAssumption DEF Uid
  <2> QED
    BY <2>1
<1>2. PICK t \in T : \A y \in T : t <= y
  BY <1>1, LeastNumber
<1>3. PICK x \in S : t = MaxUid - x
  OBVIOUS
<1>4. \A y \in S : MaxUid - x <= MaxUid - y
  BY <1>2, <1>3
<1>5. \A y \in S : x >= y
  BY <1>3, <1>4, BoundAssumption DEF Uid
<1>6. \E z \in S : \A y \in S : z >= y
  BY <1>5
<1>7. Max(S) \in S /\ \A y \in S : Max(S) >= y
  BY <1>6 DEF Max
<1> QED
  BY <1>7, UidType

-----------------------------------------------------------------------------
(* The parts of the inductive invariant.                                   *)

(* UIDs are handed out upwards, and what the row remembers is in the past. *)
NumbersOK ==
  /\ \A u \in On(box) : u < uidNext
  /\ row.validity # None => row.validity <= validity
  /\ row.modseq # None => Condstore
  /\ row.validity = validity /\ row.modseq # None => row.modseq <= modseq

(* An open session sees one UIDVALIDITY, and knows what EXAMINE answered.  *)
SessionOK ==
  pc # "idle" =>
    /\ opened.validity = validity /\ opened.uidNext <= uidNext
    /\ opened.modseq # None <=> Condstore
    /\ Condstore => opened.modseq <= modseq
    /\ row.validity = validity /\ row.modseq # None => row.modseq <= opened.modseq
    /\ still = "yes" => opened.uidNext = uidNext
    /\ Condstore /\ opened.modseq = modseq => still = "yes"
    /\ first = "no" <=> row.validity = validity
    /\ first = "no" => since = row.modseq
    /\ pc \in {"flags", "expunge"} => first = "no"

(* A walk up stays above what is held; a walk down stays below its         *)
(* bookmark; and the hole is filled after both.                            *)
UpOK ==
  /\ row = cached /\ ~Renumbered
  /\ \A v \in fresh \cup On(batch) : Beyond(v)
  /\ \A v \in behind : Owed(v)
  /\ \A b \in On(batch), f \in fresh : b < f

DownOK ==
  /\ \A v \in behind : Renumbered \/ Owed(v)
  /\ pc = "fetch" => On(held) = {}
  /\ pc = "store" => \A f \in fresh : f < lowest

LowerOK ==
  /\ \A v \in fresh \cup On(batch) : Owed(v)
  /\ pc = "store" => \A f \in fresh : f < lowest

HoleOK ==
  /\ fresh = {}
  /\ pc = "store" => \A f \in behind : f < lowest

ListsOK ==
  /\ pc # "store" => On(batch) = {}
  /\ ~Listing => Todo = {}
  /\ \A t \in Todo : t < uidNext
  /\ pc = "list" => IF Renumbered THEN On(held) = {} /\ row.owed = None
                                  ELSE row = cached
  /\ pc = "store" => \A b \in On(batch) : lowest <= b
  /\ Listing => /\ direction = "up"    => UpOK
                /\ direction = "down"  => DownOK
                /\ direction = "lower" => LowerOK
                /\ direction = "hole"  => HoleOK
  /\ Settling => row.owed = None

(* What is held, and what is in hand, is the mail of its UID.              *)
Right(copies) ==
  \A u \in On(copies) :
    u < uidNext /\ (u \in On(box) => copies[u].mail = box[u].mail)

HeldOK ==
  /\ \A u \in On(held) : held[u].mail \notin Unparseable
  /\ walk # "mixed" /\ (pc # "idle" \/ ~Renumbered) => Right(held)
  /\ Right(batch)

(* Missing mail that this pass has listed is stored before the pass could  *)
(* leave it behind.                                                        *)
Listed(v) ==
  /\ v \in Todo
  /\ direction = "down" /\ (pc = "store" \/ fresh # {}) => v \in fresh \cup On(batch)
  /\ direction = "lower" => v \in fresh \cup On(batch)
  /\ direction = "hole" => Renumbered \/ Owed(v)

ReachOK ==
  walk # "mixed" =>
    /\ pc \in {"idle", "list"} /\ ~Renumbered =>
         \A v \in Uid : Missing(v) => Beyond(v) \/ Owed(v)
    /\ Listing => \A v \in Uid : Missing(v) => Listed(v) \/ (Above(v) /\ still = "no")
    /\ Settling => \A v \in Uid : Missing(v) => Beyond(v) /\ still = "no"

(* The flags of a message that did not change since EXAMINE.               *)
Settled(u) == still = "yes" \/ (Condstore /\ changedAt[u] <= opened.modseq)

CopyOK(copies) ==
  \A u \in On(copies) :
    /\ still = "yes" => u \in On(box)
    /\ u \in On(box) /\ Settled(u) => copies[u] = box[u]

(* A first pass that was never stopped begins with nothing held.           *)
EmptyOK ==
  walk = "whole" /\ ((pc = "idle" /\ row.validity = None) \/ (pc = "list" /\ first = "yes")) =>
    On(held) = {}

(* What the recorded HIGHESTMODSEQ promises.                               *)
FlagsOK ==
  walk = "whole" /\ row.validity = validity /\ row.modseq # None =>
    \A u \in On(held) \cap On(box) : changedAt[u] <= row.modseq => held[u] = box[u]

CopiesOK ==
  walk = "whole" =>
    /\ pc = "store" => CopyOK(batch)
    /\ Listing /\ first = "yes" => CopyOK(held)
    /\ pc = "expunge" => \A u \in On(held) \cap On(box) : Settled(u) => held[u] = box[u]
    /\ pc = "record" => CopyOK(held)

(* A folder whose HIGHESTMODSEQ is the recorded one may be skipped.        *)
SkipOK ==
  walk = "whole" /\ row.validity = validity /\ row.modseq # None /\ row.modseq = modseq =>
    pc = "idle" /\ row.owed = None /\ Mirrored

-----------------------------------------------------------------------------
(* Types.                                                                  *)

LEMMA OnUid == On(box) \subseteq Uid /\ On(held) \subseteq Uid /\ On(batch) \subseteq Uid
BY DEF On

LEMMA CountIsUid ==
  Cardinality(On(box)) \in 0..MaxUid /\ 1..Cardinality(On(box)) \subseteq Uid
<1>1. IsFiniteSet(Uid) /\ Cardinality(Uid) = MaxUid
  BY FS_Interval, BoundAssumption DEF Uid
<1>2. Cardinality(On(box)) \in Nat /\ Cardinality(On(box)) <= MaxUid
  BY <1>1, OnUid, FS_Subset, FS_CardinalityType
<1> QED
  BY <1>2, BoundAssumption DEF Uid

LEMMA TypeInit == Init => TypeOK
<1> SUFFICES ASSUME Init PROVE TypeOK
  OBVIOUS
<1>1. uidNext \in 1..MaxUid + 1 /\ uidNext - 1 <= MaxUid
  BY FolderAssumption, BoundAssumption DEF Init
<1>2. box \in Copies
  <2>1. PICK mailAt \in [1..uidNext - 1 -> Mail] :
          box = [u \in Uid |-> IF u < uidNext
                   THEN [mail |-> mailAt[u], seen |-> "no"] ELSE None]
    BY DEF Init
  <2>2. ASSUME NEW u \in Uid, u < uidNext
        PROVE  [mail |-> mailAt[u], seen |-> "no"] \in Copy
    <3>1. u \in 1..uidNext - 1
      BY <1>1, <2>2 DEF Uid
    <3> QED
      BY <2>1, <3>1 DEF Copy
  <2> QED
    BY <2>1, <2>2 DEF Copies
<1>3. NoCopies \in Copies /\ changedAt \in [Uid -> Nat]
  BY DEF NoCopies, Copies, Init
<1>4. row \in Row /\ cached \in Row
  BY DEF Init, Row, OrNull
<1>5. opened \in [validity : Nat, uidNext : 1..MaxUid + 1, modseq : OrNull(Nat)]
  BY BoundAssumption DEF Init, OrNull
<1> QED
  BY <1>1, <1>2, <1>3, <1>4, <1>5, BoundAssumption DEF Init, TypeOK, OrNull

(* What a change of the mailbox does: the mail at one UID changes its      *)
(* flags or goes, or mail arrives at the next one.                         *)
Changes(u) ==
  /\ UNCHANGED <<validity, store, pc, pass, walk, stops>>
  /\ modseq' = modseq + 1 /\ still' = "no"
  /\ changedAt' = [changedAt EXCEPT ![u] = modseq + 1]
  /\ box' \in Copies /\ uidNext' \in 1..MaxUid + 1 /\ changes' \in 0..MaxChanges
  /\ \A v \in Uid : v # u => box'[v] = box[v]
  /\ \/ /\ u \in On(box) /\ uidNext' = uidNext
        /\ box'[u] = None \/ (box'[u] # None /\ box'[u].mail = box[u].mail)
     \/ u = uidNext /\ uidNext' = uidNext + 1

LEMMA MailboxChanges ==
  ASSUME TypeOK,
         (\E m \in Mail : Deliver(m)) \/ (\E u \in Uid : MarkSeen(u) \/ Expunge(u))
  PROVE  \E u \in Uid : Changes(u)
<1>1. ASSUME NEW m \in Mail, Deliver(m)
      PROVE  uidNext \in Uid /\ Changes(uidNext)
  <2>1. uidNext \in Uid /\ uidNext + 1 \in 1..MaxUid + 1
    BY <1>1, BoundAssumption DEF Deliver, TypeOK, Uid
  <2>2. [mail |-> m, seen |-> "no"] \in Copy
    BY DEF Copy
  <2>3. box' \in Copies /\ \A v \in Uid : v # uidNext => box'[v] = box[v]
    BY <1>1, <2>1, <2>2 DEF Deliver, TypeOK, Copies
  <2> QED
    BY <1>1, <2>1, <2>3 DEF Deliver, Changed, Changes, TypeOK
<1>2. ASSUME NEW u \in Uid, MarkSeen(u)
      PROVE  Changes(u)
  <2>1. u \in On(box) /\ box[u] \in Copy
    BY <1>2 DEF MarkSeen, On, TypeOK, Copies
  <2>2. [box[u] EXCEPT !.seen = "yes"] \in Copy /\ [box[u] EXCEPT !.seen = "yes"].mail = box[u].mail
    BY <2>1 DEF Copy
  <2>3. box' = [box EXCEPT ![u] = [box[u] EXCEPT !.seen = "yes"]]
    BY <1>2 DEF MarkSeen
  <2>4. /\ box' \in Copies /\ box'[u] # None /\ box'[u].mail = box[u].mail
        /\ \A v \in Uid : v # u => box'[v] = box[v]
    BY <2>2, <2>3, NullAssumption DEF TypeOK, Copies
  <2> QED
    BY <1>2, <2>1, <2>4, BoundAssumption DEF MarkSeen, Changed, Changes, TypeOK
<1>3. ASSUME NEW u \in Uid, Expunge(u)
      PROVE  Changes(u)
  <2>1. /\ box' \in Copies /\ box'[u] = None
        /\ \A v \in Uid : v # u => box'[v] = box[v]
    BY <1>3 DEF Expunge, TypeOK, Copies
  <2> QED
    BY <1>3, <2>1, BoundAssumption DEF Expunge, Changed, Changes, TypeOK
<1> QED
  BY <1>1, <1>2, <1>3

(* What is stored of a copy, or taken off it, is a copy.                   *)
LEMMA FlagsOfCopy ==
  ASSUME NEW c \in Copy, NEW d \in Copy
  PROVE  /\ [c EXCEPT !.seen = d.seen] \in Copy
         /\ [c EXCEPT !.seen = d.seen] # None
         /\ [c EXCEPT !.seen = d.seen].mail = c.mail
         /\ c.mail = d.mail => [c EXCEPT !.seen = d.seen] = d
<1>1. [c EXCEPT !.seen = d.seen] = [mail |-> c.mail, seen |-> d.seen]
  BY DEF Copy
<1>2. d = [mail |-> d.mail, seen |-> d.seen]
  BY DEF Copy
<1> QED
  BY <1>1, <1>2, NullAssumption DEF Copy

(* A batch in hand has a lowest UID, which the bookmark is made of.        *)
InHand == pc = "store" => lowest \in Uid

LEMMA TypeStep ==
  ASSUME TypeOK, InHand, [Next]_vars
  PROVE  TypeOK' /\ InHand'
<1> USE DEF TypeOK, InHand
<1>1. CASE UNCHANGED vars
  BY <1>1 DEF vars, server, store, pass, lists, history, On
<1>2. ASSUME NEW u \in Uid, Changes(u) PROVE TypeOK' /\ InHand'
  BY <1>2 DEF Changes, store, pass, lists
<1>3. CASE Renumber
  <2>1. Cardinality(On(box)) + 1 \in 1..MaxUid + 1
    BY CountIsUid, BoundAssumption
  <2>2. PICK at \in [1..Cardinality(On(box)) -> On(box)] :
          box' = [u \in Uid |-> IF u <= Cardinality(On(box)) THEN box[at[u]] ELSE None]
    BY <1>3 DEF Renumber
  <2>3. ASSUME NEW u \in Uid, u <= Cardinality(On(box))
        PROVE  box[at[u]] \in Copy \cup {None}
    <3>1. u \in 1..Cardinality(On(box)) /\ at[u] \in Uid
      BY <2>3, CountIsUid, OnUid, BoundAssumption DEF Uid
    <3> QED
      BY <3>1 DEF Copies
  <2>4. box' \in Copies
    BY <2>2, <2>3 DEF Copies
  <2>5. changedAt' \in [Uid -> Nat] /\ uidNext' \in 1..MaxUid + 1 /\ validity' \in Nat
    BY <1>3, <2>1 DEF Renumber
  <2> QED
    BY <1>3, <2>4, <2>5 DEF Renumber, store, pass, lists
<1>4. CASE Examine
  <2>1. opened' \in [validity : Nat, uidNext : 1..MaxUid + 1, modseq : OrNull(Nat)]
    BY <1>4 DEF Examine, OrNull
  <2>2. row' \in Row /\ cached' \in Row /\ held' \in Copies /\ since' \in OrNull(Nat)
    BY <1>4 DEF Examine, Row, OrNull, NoCopies, Copies, store
  <2> QED
    BY <1>4, <2>1, <2>2 DEF Examine, server, lists
<1>5. CASE List
  <2>1. direction' \in {"up", "down", "lower", "hole"} /\ fresh' \subseteq Uid /\ behind' \subseteq Uid
    BY <1>5, OnUid DEF List
  <2> QED
    BY <1>5, <2>1 DEF List, NextStage, server, store, history
<1>6. ASSUME NEW b \in SUBSET Uid, b # {}, FetchFrom(b)
      PROVE  /\ lowest' \in Uid /\ batch' \in Copies /\ pc' = "store"
             /\ UNCHANGED <<server, store, cached, opened, first, since, history>>
  BY <1>6, LeastUid DEF FetchFrom, Copies
<1>7. CASE FetchFresh
  <2>1. PICK b \in BatchesFrom(fresh, direction) : FetchFrom(b) /\ fresh' = fresh \ b
    BY <1>7 DEF FetchFresh
  <2>2. b \in SUBSET Uid /\ b # {}
    BY DEF BatchesFrom
  <2> QED
    BY <1>6, <1>7, <2>1, <2>2 DEF FetchFresh, server, store, history, OrNull
<1>8. CASE FetchBehind
  <2>1. PICK b \in BatchesFrom(behind, "hole") : FetchFrom(b) /\ behind' = behind \ b
    BY <1>8 DEF FetchBehind
  <2>2. b \in SUBSET Uid /\ b # {}
    BY DEF BatchesFrom
  <2> QED
    BY <1>6, <1>8, <2>1, <2>2 DEF FetchBehind, server, store, history, OrNull
<1>9. CASE StoreOne
  <2>1. held' \in Copies /\ batch' \in Copies
    BY <1>9 DEF StoreOne, Copies, On
  <2> QED
    BY <1>9, <2>1 DEF StoreOne, server, history
<1>10. CASE Bookmark
  <2>1. StillOwed(lowest) \in OrNull(Uid)
    BY <1>10, UidType, BoundAssumption DEF Bookmark, StillOwed, OrNull, Uid
  <2>2. row' \in Row
    BY <1>10, <2>1 DEF Bookmark, Row
  <2> QED
    BY <1>10, <2>2 DEF Bookmark, server, history, OrNull
<1>11. CASE FetchDone
  <2>1. row' \in Row
    BY <1>11 DEF FetchDone, Row, OrNull
  <2> QED
    BY <1>11, <2>1 DEF FetchDone, NextStage, server, pass, lists, history
<1>12. CASE ApplyFlags
  <2>1. ASSUME NEW u \in Uid, u \in On(held) \cap On(box)
        PROVE  [held[u] EXCEPT !.seen = box[u].seen] \in Copy
    BY <2>1, FlagsOfCopy DEF On, Copies
  <2>2. held' \in Copies
    BY <1>12, <2>1 DEF ApplyFlags, Copies
  <2> QED
    BY <1>12, <2>2 DEF ApplyFlags, server, pass, lists, history
<1>13. CASE ApplyExpunges
  <2>1. held' \in Copies
    BY <1>13 DEF ApplyExpunges, Copies
  <2> QED
    BY <1>13, <2>1 DEF ApplyExpunges, server, pass, lists, history
<1>14. CASE RecordState
  <2>1. row' \in Row
    BY <1>14 DEF RecordState, Row, OrNull
  <2> QED
    BY <1>14, <2>1 DEF RecordState, server, pass, lists, history
<1>15. CASE Stop
  <2>1. batch' \in Copies /\ stops' \in 0..MaxStops
    BY <1>15, BoundAssumption DEF Stop, NoCopies, Copies
  <2> QED
    BY <1>15, <2>1 DEF Stop, server, store, OrNull
<1> QED
  BY <1>1, <1>2, <1>3, <1>4, <1>5, <1>7, <1>8, <1>9, <1>10, <1>11, <1>12, <1>13,
     <1>14, <1>15, MailboxChanges DEF Next, Pass, Mailbox

(* Every variable keeps its type.                                          *)
THEOREM TypeCorrect == Spec => []TypeOK
<1>1. Init => TypeOK /\ InHand
  BY TypeInit DEF Init, InHand
<1>2. TypeOK /\ InHand /\ [Next]_vars => TypeOK' /\ InHand'
  BY TypeStep
<1> QED
  BY <1>1, <1>2, PTL DEF Spec

-----------------------------------------------------------------------------
(* The server's numbers, and the open session.                             *)

LEMMA RenumberMoves ==
  ASSUME TypeOK, Renumber
  PROVE  /\ \A u \in Uid : box'[u] # None => u < uidNext'
         /\ On(box) = {} => On(box') = {}
         /\ validity' = validity + 1 /\ modseq' = 1 /\ still' = "no" /\ pc = "idle"
         /\ UNCHANGED <<store, pc, pass>>
         /\ walk' = IF row.validity = None /\ On(held) # {} THEN "mixed" ELSE walk
<1> DEFINE k == Cardinality(On(box))
<1>1. \E at \in [1..k -> On(box)] :
        box' = [u \in Uid |-> IF u <= k THEN box[at[u]] ELSE None]
  BY DEF Renumber
<1>2. \A u \in Uid : box'[u] # None => u <= k
  BY <1>1
<1>3. uidNext' = k + 1 /\ k \in Nat
  BY CountIsUid DEF Renumber
<1>4. \A u \in Uid : box'[u] # None => u < uidNext'
  BY <1>2, <1>3, UidType
<1>5. On(box) = {} => On(box') = {}
  <2> SUFFICES ASSUME On(box) = {}, NEW u \in Uid, box'[u] # None PROVE FALSE
    BY DEF On
  <2>1. u \in 1..k
    BY <1>2, <1>3 DEF Uid
  <2> QED
    BY <1>1, <2>1
<1> QED
  BY <1>4, <1>5 DEF Renumber

LEMMA RowFields ==
  ASSUME TypeOK
  PROVE  /\ row.validity \in OrNull(Nat) /\ row.modseq \in OrNull(Nat) /\ row.owed \in OrNull(Uid)
         /\ validity \in Nat /\ validity # None
         /\ opened.validity \in Nat /\ opened.modseq \in OrNull(Nat) /\ opened.uidNext \in Nat
         /\ modseq \in Nat /\ modseq # None /\ uidNext \in Nat
         /\ Renumbered <=> row.validity # None /\ row.validity # validity
BY NullAssumption, BoundAssumption DEF TypeOK, Row, Renumbered, OrNull

LEMMA NumbersStep ==
  ASSUME TypeOK, NumbersOK, SessionOK, [Next]_vars
  PROVE  NumbersOK'
<1> USE RowFields DEF NumbersOK, OrNull
<1>1. CASE UNCHANGED vars
  BY <1>1 DEF vars, server, store, On
<1>2. ASSUME NEW u \in Uid, Changes(u) PROVE NumbersOK'
  <2>1. \A v \in On(box)' : v < uidNext'
    <3> SUFFICES ASSUME NEW v \in Uid, box'[v] # None PROVE v < uidNext'
      BY DEF On
    <3>1. CASE v # u
      BY <1>2, <3>1, UidType DEF Changes, On
    <3>2. CASE v = u
      BY <1>2, <3>2 DEF Changes
    <3> QED
      BY <3>1, <3>2
  <2> QED
    BY <1>2, <2>1 DEF Changes, store
<1>3. CASE Renumber
  BY <1>3, RenumberMoves, NullAssumption DEF On, store
<1>4. CASE Examine
  BY <1>4, NullAssumption DEF Examine, server, store, On, Row, TypeOK
<1>5. CASE List \/ FetchFresh \/ FetchBehind \/ StoreOne \/ ApplyFlags \/ ApplyExpunges \/ Stop
  BY <1>5 DEF List, FetchFresh, FetchBehind, FetchFrom, StoreOne, ApplyFlags, ApplyExpunges,
              Stop, server, store, On
<1>6. CASE Bookmark \/ FetchDone
  BY <1>6 DEF Bookmark, FetchDone, server, On, TypeOK, Row
<1>7. CASE RecordState
  BY <1>7 DEF RecordState, SessionOK, server, On, TypeOK, Row
<1> QED
  BY <1>1, <1>2, <1>3, <1>4, <1>5, <1>6, <1>7, MailboxChanges DEF Next, Pass, Mailbox

(* What a step inside a session leaves alone.                              *)
LEMMA SessionKept ==
  ASSUME TypeOK, List \/ FetchFresh \/ FetchBehind \/ StoreOne \/ Bookmark \/ FetchDone
                 \/ ApplyFlags \/ ApplyExpunges
  PROVE  /\ UNCHANGED <<server, opened, first, since, still, walk, cached>>
         /\ row'.validity = row.validity /\ row'.modseq = row.modseq
         /\ pc # "idle" /\ pc' # "idle"
BY DEF List, FetchFresh, FetchBehind, FetchFrom, StoreOne, Bookmark, FetchDone, NextStage,
       ApplyFlags, ApplyExpunges, server, store, lists, pass, history, TypeOK, Row

LEMMA SessionStep ==
  ASSUME TypeOK, NumbersOK, SessionOK, [Next]_vars
  PROVE  SessionOK'
<1> USE RowFields DEF SessionOK, OrNull
<1>1. CASE UNCHANGED vars
  BY <1>1 DEF vars, server, store, pass, history
<1>2. ASSUME NEW u \in Uid, Changes(u) PROVE SessionOK'
  BY <1>2, NullAssumption DEF Changes, store, pass
<1>3. CASE Renumber
  BY <1>3, RenumberMoves
<1>4. CASE Examine
  <2>1. /\ row'.validity = row.validity /\ row'.modseq \in {row.modseq, None}
        /\ ~Renumbered => row'.modseq = row.modseq
        /\ validity' = validity /\ modseq' = modseq /\ uidNext' = uidNext /\ still' = "yes"
        /\ pc' \in {"idle", "list"}
    BY <1>4 DEF Examine, server, store, TypeOK, Row
  <2>2. /\ opened'.validity = validity /\ opened'.uidNext = uidNext
        /\ opened'.modseq = IF Condstore THEN modseq ELSE None
    BY <1>4 DEF Examine
  <2>3. first' = "no" <=> row.validity = validity
    BY <1>4 DEF Examine
  <2>4. first' = "no" => since' = row.modseq
    BY <1>4, <2>3 DEF Examine
  <2>5. first' = "no" => since' = row'.modseq
    BY <2>1, <2>3, <2>4
  <2> QED
    BY <2>1, <2>2, <2>3, <2>5 DEF NumbersOK
<1>5. CASE List \/ FetchFresh \/ FetchBehind \/ StoreOne \/ Bookmark \/ FetchDone
           \/ ApplyFlags \/ ApplyExpunges
  <2>1. pc' \in {"flags", "expunge"} => first = "no"
    BY <1>5 DEF List, FetchFresh, FetchBehind, FetchFrom, StoreOne, Bookmark, FetchDone, NextStage,
       ApplyFlags, ApplyExpunges, TypeOK
  <2> QED
    BY <1>5, <2>1, SessionKept DEF server
<1>6. CASE Stop \/ RecordState
  BY <1>6 DEF Stop, RecordState
<1> QED
  BY <1>1, <1>2, <1>3, <1>4, <1>5, <1>6, MailboxChanges DEF Next, Pass, Mailbox

-----------------------------------------------------------------------------
(* What is listed, fetched and stored.                                     *)

LEMMA BatchFetched ==
  ASSUME TypeOK, NEW listed \in SUBSET Uid, NEW way, NEW b \in BatchesFrom(listed, way),
         FetchFrom(b)
  PROVE  /\ b \subseteq listed
         /\ lowest' \in b /\ \A y \in b : lowest' <= y
         /\ On(batch)' = b \cap On(box)
         /\ \A u \in On(batch)' : batch'[u] = box[u]
         /\ way = "up" => \A x \in b, f \in listed \ b : x < f
         /\ way # "up" => \A f \in listed \ b : f < lowest'
<1>1. b \in SUBSET Uid /\ b # {} /\ b \subseteq listed
  BY DEF BatchesFrom
<1>2. lowest' \in b /\ \A y \in b : lowest' <= y
  BY <1>1, LeastUid DEF FetchFrom
<1>3. batch' = [u \in Uid |-> IF u \in b THEN box[u] ELSE None]
  BY DEF FetchFrom
<1>4. On(batch)' = b \cap On(box) /\ \A u \in On(batch)' : batch'[u] = box[u]
  BY <1>1, <1>3 DEF On
<1>5. /\ way = "up" => \A x \in b, f \in listed \ b : x < f
      /\ way # "up" => \A x \in b, f \in listed \ b : f < x
  BY DEF BatchesFrom
<1> QED
  BY <1>1, <1>2, <1>4, <1>5

LEMMA OneStored ==
  ASSUME TypeOK, StoreOne
  PROVE  \E u \in On(batch) :
           /\ \A v \in On(batch) : u <= v
           /\ On(batch)' = On(batch) \ {u}
           /\ \A v \in Uid : v # u => held'[v] = held[v] /\ batch'[v] = batch[v]
           /\ held'[u] = IF batch[u].mail \in Unparseable THEN held[u] ELSE batch[u]
           /\ On(held)' \subseteq On(held) \cup {u}
<1>1. PICK u \in On(batch) :
        /\ \A v \in On(batch) : u <= v
        /\ held' = [held EXCEPT ![u] =
                      IF batch[u].mail \in Unparseable THEN held[u] ELSE batch[u]]
        /\ batch' = [batch EXCEPT ![u] = None]
  BY DEF StoreOne
<1>2. u \in Uid /\ held \in [Uid -> Copy \cup {None}] /\ batch \in [Uid -> Copy \cup {None}]
  BY DEF TypeOK, Copies, On
<1>3. /\ \A v \in Uid : v # u => held'[v] = held[v] /\ batch'[v] = batch[v]
      /\ held'[u] = IF batch[u].mail \in Unparseable THEN held[u] ELSE batch[u]
      /\ batch'[u] = None
  BY <1>1, <1>2
<1>4. On(batch)' = On(batch) \ {u} /\ On(held)' \subseteq On(held) \cup {u}
  BY <1>2, <1>3 DEF On
<1> QED
  BY <1>1, <1>3, <1>4

LEMMA StartAbove ==
  ASSUME TypeOK
  PROVE  /\ Start \in Nat
         /\ On(held) = {} => Start = 1
         /\ \A v \in On(held) : v < Start
         /\ \A v \in Uid : v < Start /\ On(held) # {} => \E w \in On(held) : v <= w
<1>1. On(held) \in SUBSET Uid
  BY OnUid
<1>2. CASE On(held) = {}
  BY <1>2 DEF Start
<1>3. CASE On(held) # {}
  <2>1. Max(On(held)) \in On(held) /\ \A v \in On(held) : v <= Max(On(held))
    BY <1>1, <1>3, GreatestUid
  <2>2. Start = Max(On(held)) + 1 /\ Max(On(held)) \in Nat
    BY <1>1, <1>3, <2>1, UidType DEF Start
  <2>3. ASSUME NEW v \in On(held) PROVE v < Start
    <3>1. v \in Nat /\ v <= Max(On(held))
      BY <1>1, <2>1, UidType
    <3> QED
      BY <2>2, <3>1
  <2>4. \A v \in Uid : v < Start => v <= Max(On(held))
    BY <2>2, UidType
  <2> QED
    BY <1>3, <2>1, <2>2, <2>3, <2>4
<1> QED
  BY <1>2, <1>3

LEMMA Renumbering ==
  ASSUME row'.validity = row.validity, validity' = validity
  PROVE  Renumbered' <=> Renumbered
BY DEF Renumbered

LEMMA BookmarkOwes ==
  ASSUME TypeOK, InHand, Bookmark, direction # "up", NEW v \in Uid, v < lowest
  PROVE  Owed(v)'
<1>1. lowest \in Uid
  BY DEF Bookmark, InHand
<1>2. row'.owed = lowest - 1
  BY <1>1, UidType, BoundAssumption DEF Bookmark, StillOwed, TypeOK, Row, Uid
<1> QED
  BY <1>1, <1>2, UidType, BoundAssumption DEF Owed, Uid

LEMMA ListsStep ==
  ASSUME TypeOK, InHand, NumbersOK, SessionOK, ListsOK, [Next]_vars
  PROVE  ListsOK'
<1> USE DEF Listing, Settling
<1>1. CASE UNCHANGED vars
  BY <1>1 DEF vars, server, store, pass, lists, ListsOK, UpOK, DownOK, LowerOK, HoleOK, Todo,
     On, Beyond, Owed, Renumbered
<1>2. ASSUME NEW u \in Uid, Changes(u) PROVE ListsOK'
  <2>1. Todo \in SUBSET Uid /\ uidNext' \in Nat /\ uidNext \in Nat /\ uidNext <= uidNext'
    BY <1>2, OnUid, BoundAssumption DEF Changes, TypeOK, Todo
  <2>2. \A t \in Todo : t < uidNext'
    BY <2>1, UidType DEF ListsOK
  <2> QED
    BY <1>2, <2>2 DEF Changes, store, pass, lists, ListsOK, UpOK, DownOK, LowerOK, HoleOK, Todo,
       On, Beyond, Owed, Renumbered
<1>3. CASE Renumber
  <2>1. pc' = "idle" /\ Todo' = Todo /\ On(batch)' = On(batch)
    BY <1>3 DEF Renumber, pass, lists, Todo, On
  <2>2. Todo = {}
    BY <1>3 DEF Renumber, ListsOK
  <2> QED
    BY <2>1, <2>2 DEF ListsOK, Todo
<1>4. CASE Examine
  <2>1. pc = "idle" /\ pc' \in {"idle", "list"} /\ Todo' = Todo /\ Todo = {}
    BY <1>4 DEF Examine, lists, Todo, On, ListsOK
  <2>2. Renumbered' <=> Renumbered
    BY <1>4 DEF Examine, server, store, Renumbered, TypeOK, Row
  <2>3. Renumbered => On(held)' = {} /\ row'.owed = None
    BY <1>4 DEF Examine, NoCopies, On, TypeOK, Row
  <2>4. ~Renumbered => row' = cached'
    BY <1>4 DEF Examine, store
  <2> QED
    BY <2>1, <2>2, <2>3, <2>4 DEF ListsOK, Todo
<1>5. CASE List
  <2>1. /\ direction' = (IF On(held) = {} THEN "down" ELSE "up")
        /\ \A v \in fresh' : v \in On(box) /\ Start <= v
        /\ \A v \in behind' : v \in On(box) /\ cached.owed # None /\ v <= cached.owed
        /\ pc' \in {"flags", "record"} =>
             fresh' = {} /\ behind' = {} /\ cached.owed = None
    <3>1. \A v \in fresh' : v \in On(box) /\ v >= Start
      BY <1>5 DEF List
    <3>2. \A v \in fresh' : Start <= v
      BY <3>1, StartAbove, OnUid, UidType
    <3>3. pc' \in {"flags", "record"} =>
            fresh' = {} /\ behind' = {} /\ cached.owed = None
      BY <1>5 DEF List, NextStage
    <3> QED
      BY <1>5, <3>1, <3>2, <3>3 DEF List
  <2>2. /\ pc = "list" /\ pc' \in {"fetch", "flags", "record"}
        /\ UNCHANGED <<held, row, cached, batch, uidNext, validity>>
    BY <1>5 DEF List, NextStage, server, store
  <2>3. On(batch)' = {} /\ (Renumbered' <=> Renumbered)
    BY <2>2 DEF ListsOK, On, Renumbered
  <2>4. /\ Renumbered => On(held) = {} /\ row.owed = None
        /\ ~Renumbered => row = cached
    BY <2>2 DEF ListsOK
  <2>5. \A v \in fresh' : Beyond(v)'
    <3>1. ASSUME NEW v \in fresh', NEW w \in On(held) PROVE w < v
      <4>1. v \in Nat /\ w \in Nat /\ Start <= v /\ w < Start /\ Start \in Nat
        BY <2>1, StartAbove, OnUid, UidType
      <4> QED
        BY <4>1
    <3>2. On(held)' = On(held)
      BY <2>2 DEF On
    <3> QED
      BY <3>1, <3>2 DEF Beyond
  <2>6. \A v \in behind' : Renumbered' \/ Owed(v)'
    BY <2>1, <2>2, <2>3, <2>4 DEF Owed
  <2>7. \A v \in Todo' : v < uidNext'
    BY <2>1, <2>2, <2>3 DEF Todo, NumbersOK
  <2>8. direction' = "up" => UpOK'
    BY <2>1, <2>2, <2>3, <2>4, <2>5, <2>6 DEF UpOK
  <2>9. direction' = "down" => DownOK'
    BY <2>1, <2>2, <2>6 DEF DownOK, On
  <2>10. ~Listing' => Todo' = {} /\ row'.owed = None
    BY <2>1, <2>2, <2>3, <2>4 DEF Todo
  <2> QED
    BY <2>1, <2>2, <2>3, <2>7, <2>8, <2>9, <2>10 DEF ListsOK
<1>6. CASE FetchFresh
  <2>1. PICK b \in BatchesFrom(fresh, direction) : FetchFrom(b) /\ fresh' = fresh \ b
    BY <1>6 DEF FetchFresh
  <2>2. /\ pc = "fetch" /\ pc' = "store"
        /\ UNCHANGED <<held, row, cached, uidNext, validity, direction, behind>>
    BY <1>6, <2>1 DEF FetchFresh, FetchFrom, server, store
  <2>3. /\ b \subseteq fresh /\ On(batch)' = b \cap On(box)
        /\ \A y \in b : lowest' <= y
        /\ direction = "up" => \A x \in b, f \in fresh \ b : x < f
        /\ direction # "up" => \A f \in fresh \ b : f < lowest'
    BY <2>1, BatchFetched DEF TypeOK
  <2>4. Todo' \subseteq Todo
    BY <2>1, <2>2, <2>3 DEF Todo
  <2>5. direction = "up" => UpOK'
    BY <2>1, <2>2, <2>3 DEF ListsOK, UpOK, Beyond, Owed, Renumbered, On
  <2>6. direction = "down" => DownOK'
    BY <2>1, <2>2, <2>3 DEF ListsOK, DownOK, Owed, Renumbered
  <2>7. direction = "lower" => LowerOK'
    BY <2>1, <2>2, <2>3 DEF ListsOK, LowerOK, Owed
  <2>8. direction # "hole"
    BY <2>1, <2>2 DEF ListsOK, HoleOK, BatchesFrom
  <2> QED
    BY <2>2, <2>3, <2>4, <2>5, <2>6, <2>7, <2>8 DEF ListsOK
<1>7. CASE FetchBehind
  <2>1. PICK b \in BatchesFrom(behind, "hole") : FetchFrom(b) /\ behind' = behind \ b
    BY <1>7 DEF FetchBehind
  <2>2. /\ pc = "fetch" /\ pc' = "store" /\ fresh = {} /\ direction' = "hole"
        /\ UNCHANGED <<held, row, uidNext, fresh>>
    BY <1>7, <2>1 DEF FetchBehind, FetchFrom, server, store
  <2>3. /\ b \subseteq behind /\ On(batch)' = b \cap On(box)
        /\ \A y \in b : lowest' <= y
        /\ \A f \in behind \ b : f < lowest'
    <3>1. behind \in SUBSET Uid /\ "hole" # "up"
      BY DEF TypeOK
    <3> QED
      BY <2>1, <3>1, BatchFetched
  <2>4. Todo' \subseteq Todo
    BY <2>1, <2>2, <2>3 DEF Todo
  <2> QED
    BY <2>1, <2>2, <2>3, <2>4 DEF ListsOK, HoleOK
<1>8. CASE StoreOne
  <2>1. PICK u \in On(batch) :
           /\ \A v \in On(batch) : u <= v
           /\ On(batch)' = On(batch) \ {u}
           /\ On(held)' \subseteq On(held) \cup {u}
    BY <1>8, OneStored
  <2>2. /\ pc = "store" /\ pc' = "store"
        /\ UNCHANGED <<row, cached, uidNext, validity, direction, fresh, behind, lowest>>
    BY <1>8 DEF StoreOne, server
  <2>3. Todo' \subseteq Todo
    BY <2>1, <2>2 DEF Todo
  <2>4. direction = "up" => UpOK'
    <3> SUFFICES ASSUME direction = "up" PROVE UpOK'
      OBVIOUS
    <3>1. UpOK
      BY <2>2 DEF ListsOK
    <3>2. \A v \in fresh \cup On(batch)' : u < v
      <4>1. \A f \in fresh : u < f
        BY <3>1 DEF UpOK
      <4>2. ASSUME NEW v \in On(batch) \ {u} PROVE u < v
        <5>1. u \in Nat /\ v \in Nat /\ u <= v /\ u # v
          BY <2>1, OnUid, UidType
        <5> QED
          BY <5>1
      <4> QED
        BY <2>1, <4>1, <4>2
    <3>3. \A v \in fresh \cup On(batch)' : Beyond(v)'
      BY <2>1, <3>1, <3>2 DEF UpOK, Beyond
    <3> QED
      BY <2>1, <2>2, <3>1, <3>3 DEF UpOK, Owed, Renumbered
  <2>5. direction = "down" => DownOK'
    BY <2>2 DEF ListsOK, DownOK, Owed, Renumbered
  <2>6. direction = "lower" => LowerOK'
    BY <2>1, <2>2 DEF ListsOK, LowerOK, Owed
  <2>7. direction = "hole" => HoleOK'
    BY <2>2 DEF ListsOK, HoleOK
  <2> QED
    BY <2>1, <2>2, <2>3, <2>4, <2>5, <2>6, <2>7 DEF ListsOK
<1>9. CASE Bookmark
  <2>1. /\ pc = "store" /\ pc' = "fetch" /\ On(batch) = {} /\ On(batch)' = {}
        /\ UNCHANGED <<held, cached, fresh, behind, uidNext, validity, batch>>
        /\ direction' = IF direction = "down" THEN "lower" ELSE direction
        /\ row' = IF direction = "up" THEN row ELSE [row EXCEPT !.owed = StillOwed(lowest)]
    BY <1>9 DEF Bookmark, server, On
  <2>2. lowest \in Uid /\ Todo' = Todo /\ row'.validity = row.validity
    BY <2>1 DEF InHand, Todo, TypeOK, Row
  <2>3. ASSUME direction # "up", NEW v \in Uid, v < lowest PROVE Owed(v)'
    BY <1>9, <2>3, BookmarkOwes
  <2>4. direction = "up" => UpOK'
    BY <2>1 DEF ListsOK, UpOK, Beyond, Owed, Renumbered, On
  <2>5. direction \in {"down", "lower"} => LowerOK'
    BY <2>1, <2>3 DEF ListsOK, DownOK, LowerOK, TypeOK
  <2>6. direction = "hole" => HoleOK'
    BY <2>1 DEF ListsOK, HoleOK
  <2> QED
    BY <2>1, <2>2, <2>4, <2>5, <2>6 DEF ListsOK, TypeOK
<1>10. CASE FetchDone
  <2>1. /\ pc = "fetch" /\ pc' \in {"flags", "record"} /\ fresh = {} /\ behind = {}
        /\ UNCHANGED <<batch, fresh, behind, direction, uidNext, held, cached>>
    BY <1>10 DEF FetchDone, NextStage, pass, lists, server
  <2>2. row'.owed = None
    BY <1>10, <2>1 DEF FetchDone, ListsOK, UpOK, TypeOK, Row
  <2>3. On(batch)' = {} /\ Todo' = {}
    BY <2>1 DEF ListsOK, On, Todo
  <2> QED
    BY <2>1, <2>2, <2>3 DEF ListsOK
<1>11. CASE ApplyFlags \/ ApplyExpunges
  <2>1. /\ Settling /\ Settling' /\ pc \notin {"store", "list"} /\ pc' \notin {"store", "list"}
        /\ UNCHANGED <<batch, fresh, behind, row>>
    BY <1>11 DEF ApplyFlags, ApplyExpunges, pass, lists
  <2>2. On(batch)' = {} /\ Todo' = {} /\ row'.owed = None
    BY <2>1 DEF ListsOK, On, Todo
  <2> QED
    BY <2>1, <2>2 DEF ListsOK
<1>12. CASE RecordState
  <2>1. pc = "record" /\ pc' = "idle" /\ UNCHANGED <<batch, fresh, behind>>
    BY <1>12 DEF RecordState, pass, lists
  <2>2. On(batch)' = {} /\ Todo' = {}
    BY <2>1 DEF ListsOK, On, Todo
  <2> QED
    BY <2>1, <2>2 DEF ListsOK
<1>13. CASE Stop
  <2>1. pc' = "idle" /\ On(batch)' = {} /\ Todo' = {}
    BY <1>13 DEF Stop, NoCopies, On, Todo
  <2> QED
    BY <2>1 DEF ListsOK
<1> QED
  BY <1>1, <1>2, <1>3, <1>4, <1>5, <1>6, <1>7, <1>8, <1>9, <1>10, <1>11, <1>12, <1>13,
     MailboxChanges DEF Next, Pass, Mailbox

-----------------------------------------------------------------------------
(* What is held is the mail of its UID.                                    *)

LEMMA RightAfterChange ==
  ASSUME TypeOK, NEW u \in Uid, Changes(u), NEW copies, Right(copies)
  PROVE  Right(copies)'
<1> SUFFICES ASSUME NEW v \in Uid, copies[v] # None
             PROVE  v < uidNext' /\ (box'[v] # None => copies[v].mail = box'[v].mail)
  BY DEF Right, On
<1>1. v < uidNext /\ (box[v] # None => copies[v].mail = box[v].mail)
  BY DEF Right, On
<1>2. CASE v # u
  BY <1>1, <1>2, UidType, RowFields DEF Changes
<1>3. CASE v = u
  BY <1>1, <1>3, UidType, RowFields DEF Changes, On
<1> QED
  BY <1>2, <1>3

LEMMA FlagsApplied ==
  ASSUME TypeOK, ApplyFlags, NEW u \in Uid
  PROVE  /\ held'[u] = None <=> held[u] = None
         /\ held[u] # None => held'[u].mail = held[u].mail
         /\ held[u] # None /\ box[u] # None /\ held[u].mail = box[u].mail =>
              held'[u] = IF since = None \/ changedAt[u] > since THEN box[u] ELSE held[u]
<1>1. held'[u] = IF held[u] # None /\ box[u] # None /\ (since = None \/ changedAt[u] > since)
                 THEN [held[u] EXCEPT !.seen = box[u].seen] ELSE held[u]
  BY DEF ApplyFlags, On
<1>2. held[u] \in Copy \cup {None} /\ box[u] \in Copy \cup {None}
  BY DEF TypeOK, Copies
<1>3. CASE held[u] # None /\ box[u] # None
  <2>1. held[u] \in Copy /\ box[u] \in Copy
    BY <1>2, <1>3
  <2> QED
    BY <1>1, <1>3, <2>1, FlagsOfCopy
<1>4. CASE ~(held[u] # None /\ box[u] # None)
  BY <1>1, <1>4
<1> QED
  BY <1>3, <1>4

LEMMA HeldStep ==
  ASSUME TypeOK, NumbersOK, SessionOK, ListsOK, HeldOK, [Next]_vars
  PROVE  HeldOK'
<1>1. CASE UNCHANGED vars
  BY <1>1 DEF vars, server, store, pass, lists, history, HeldOK, Right, On, Renumbered
<1>2. ASSUME NEW u \in Uid, Changes(u) PROVE HeldOK'
  <2>1. Right(held) => Right(held)'
    <3>1. \A c : Right(c) => Right(c)'
      BY <1>2, RightAfterChange
    <3> QED
      BY <1>2, <3>1 DEF Changes, store, Right
  <2>2. Right(batch)'
    <3>1. \A c : Right(c) => Right(c)'
      BY <1>2, RightAfterChange
    <3> QED
      BY <1>2, <3>1 DEF Changes, pass, lists, Right, HeldOK
  <2> QED
    BY <1>2, <2>1, <2>2 DEF Changes, store, HeldOK, On, Renumbered
<1>3. CASE Renumber
  <2>1. /\ On(batch)' = {} /\ On(held)' = On(held) /\ held' = held
        /\ row' = row /\ pc' = "idle" /\ validity' = validity + 1
        /\ walk' = IF row.validity = None /\ On(held) # {} THEN "mixed" ELSE walk
    BY <1>3, RenumberMoves DEF store, pass, lists, On, ListsOK
  <2>2. Right(batch)'
    BY <2>1 DEF Right
  <2>3. row.validity # None => Renumbered'
    BY <2>1, RowFields DEF NumbersOK, Renumbered, OrNull
  <2>4. row.validity = None /\ walk' # "mixed" => Right(held)'
    BY <2>1 DEF Right
  <2> QED
    BY <2>1, <2>2, <2>3, <2>4 DEF HeldOK
<1>4. CASE Examine
  <2>1. /\ pc = "idle" /\ UNCHANGED <<box, uidNext, validity, batch, walk>>
        /\ IF Renumbered THEN held' = NoCopies ELSE held' = held
        /\ row'.validity = row.validity
    BY <1>4 DEF Examine, server, store, lists, TypeOK, Row
  <2>2. Renumbered => On(held)' = {}
    BY <2>1 DEF NoCopies, On
  <2>3. Renumbered' <=> Renumbered
    BY <2>1, Renumbering
  <2> QED
    BY <2>1, <2>2, <2>3 DEF HeldOK, Right, On
<1>5. CASE List \/ Bookmark \/ FetchDone
  <2>1. UNCHANGED <<box, uidNext, held, batch, walk>> /\ pc # "idle" /\ pc' # "idle"
    BY <1>5, SessionKept DEF List, Bookmark, FetchDone, server, store, pass, lists
  <2> QED
    BY <2>1 DEF HeldOK, Right, On
<1>6. CASE FetchFresh \/ FetchBehind
  <2>1. UNCHANGED <<box, uidNext, held, walk>> /\ pc # "idle" /\ pc' # "idle"
    BY <1>6, SessionKept DEF FetchFresh, FetchBehind, FetchFrom, server, store
  <2>2. \A u \in On(batch)' : batch'[u] = box[u] /\ u \in On(box)
    <3>1. fresh \in SUBSET Uid /\ behind \in SUBSET Uid
      BY DEF TypeOK
    <3>2. CASE FetchFresh
      <4>1. PICK b \in BatchesFrom(fresh, direction) : FetchFrom(b)
        BY <3>2 DEF FetchFresh
      <4>2. On(batch)' = b \cap On(box) /\ \A u \in On(batch)' : batch'[u] = box[u]
        BY <3>1, <4>1, BatchFetched
      <4> QED
        BY <4>2
    <3>3. CASE FetchBehind
      <4>1. PICK b \in BatchesFrom(behind, "hole") : FetchFrom(b)
        BY <3>3 DEF FetchBehind
      <4> QED
        BY <3>1, <4>1, BatchFetched
    <3> QED
      BY <1>6, <3>2, <3>3
  <2>3. Right(batch)'
    BY <2>1, <2>2 DEF Right, On, NumbersOK
  <2> QED
    BY <2>1, <2>3 DEF HeldOK, Right, On
<1>7. CASE StoreOne
  <2>1. UNCHANGED <<box, uidNext, walk>> /\ pc # "idle" /\ pc' # "idle"
    BY <1>7, SessionKept DEF server
  <2>2. PICK u \in On(batch) :
           /\ On(batch)' = On(batch) \ {u}
           /\ \A v \in Uid : v # u => held'[v] = held[v] /\ batch'[v] = batch[v]
           /\ held'[u] = IF batch[u].mail \in Unparseable THEN held[u] ELSE batch[u]
           /\ On(held)' \subseteq On(held) \cup {u}
    BY <1>7, OneStored
  <2>3. Right(batch)'
    BY <2>1, <2>2, OnUid DEF HeldOK, Right, On
  <2>4. ASSUME NEW v \in On(held)'
        PROVE  /\ held'[v].mail \notin Unparseable
               /\ walk # "mixed" => v < uidNext /\ (v \in On(box) => held'[v].mail = box[v].mail)
    <3>1. CASE v = u /\ held'[v] = batch[v]
      <4>1. CASE batch[u].mail \in Unparseable
        BY <2>1, <2>2, <3>1, <4>1 DEF HeldOK, On
      <4>2. CASE batch[u].mail \notin Unparseable
        BY <2>2, <3>1, <4>2 DEF HeldOK, Right, On
      <4> QED
        BY <4>1, <4>2
    <3>2. CASE held'[v] = held[v]
      BY <2>1, <3>2 DEF HeldOK, Right, On
    <3>3. held'[v] = held[v] \/ (v = u /\ held'[v] = batch[v])
      BY <2>2 DEF On
    <3> QED
      BY <3>1, <3>2, <3>3
  <2> QED
    BY <2>1, <2>3, <2>4 DEF HeldOK, Right, On
<1>8. CASE ApplyFlags
  <2>1. UNCHANGED <<box, uidNext, walk, batch>> /\ pc # "idle" /\ pc' # "idle"
    BY <1>8, SessionKept DEF ApplyFlags, server, pass, lists
  <2>2. \A u \in Uid : /\ held'[u] = None <=> held[u] = None
                       /\ held[u] # None => held'[u].mail = held[u].mail
    BY <1>8, FlagsApplied
  <2> QED
    BY <2>1, <2>2 DEF HeldOK, Right, On
<1>9. CASE ApplyExpunges
  <2>1. UNCHANGED <<box, uidNext, walk, batch>> /\ pc # "idle" /\ pc' # "idle"
    BY <1>9, SessionKept DEF ApplyExpunges, server, pass, lists
  <2>2. \A u \in Uid : held'[u] = IF box[u] # None THEN held[u] ELSE None
    BY <1>9 DEF ApplyExpunges, On
  <2> QED
    BY <2>1, <2>2 DEF HeldOK, Right, On
<1>10. CASE RecordState
  <2>1. UNCHANGED <<box, uidNext, held, walk, batch>> /\ pc # "idle"
    BY <1>10 DEF RecordState, server, pass, lists, history
  <2> QED
    BY <2>1 DEF HeldOK, Right, On
<1>11. CASE Stop
  <2>1. /\ UNCHANGED <<box, uidNext, held>> /\ pc # "idle" /\ On(batch)' = {}
        /\ walk' # "mixed" => walk # "mixed"
    BY <1>11 DEF Stop, server, store, NoCopies, On
  <2> QED
    BY <2>1 DEF HeldOK, Right, On
<1> QED
  BY <1>1, <1>2, <1>3, <1>4, <1>5, <1>6, <1>7, <1>8, <1>9, <1>10, <1>11,
     MailboxChanges DEF Next, Pass, Mailbox

Inv == TypeOK /\ InHand /\ NumbersOK /\ SessionOK /\ ListsOK /\ HeldOK

LEMMA InvInit == Init => Inv
<1> SUFFICES ASSUME Init PROVE Inv
  OBVIOUS
<1>1. TypeOK
  BY TypeInit
<1>2. On(held) = {} /\ On(batch) = {} /\ Todo = {}
  BY DEF Init, NoCopies, On, Todo
<1>3. pc = "idle" /\ row.validity = None /\ row.modseq = None
  BY DEF Init
<1>4. \A u \in On(box) : u < uidNext
  <2>1. \A u \in Uid : ~(u < uidNext) => box[u] = None
    BY DEF Init
  <2> QED
    BY <2>1 DEF On
<1> QED
  BY <1>1, <1>2, <1>3, <1>4, RowFields
  DEF Inv, InHand, NumbersOK, SessionOK, ListsOK, HeldOK, Right, Listing, Settling

LEMMA InvStep ==
  ASSUME Inv, [Next]_vars
  PROVE  Inv'
BY TypeStep, NumbersStep, SessionStep, ListsStep, HeldStep DEF Inv

LEMMA InvHolds == Spec => []Inv
<1>1. Init => Inv
  BY InvInit
<1>2. Inv /\ [Next]_vars => Inv'
  BY InvStep
<1> QED
  BY <1>1, <1>2, PTL DEF Spec

(* "Anything less than a rebuild risks attaching stored messages to the    *)
(* wrong mail": it never happens, wherever a pass is stopped and whenever  *)
(* the folder is renumbered, but for the first pass that is stopped and    *)
(* finds the folder renumbered when it is taken up again.                  *)
THEOREM HeldRight == Spec => []HeldIsRight
<1>1. Inv => HeldIsRight
  <2> SUFFICES ASSUME Inv, row.validity = validity, walk # "mixed",
                      NEW u \in On(held) \cap On(box)
               PROVE  held[u].mail = box[u].mail
    BY DEF HeldIsRight
  <2>1. ~Renumbered
    BY DEF Renumbered
  <2> QED
    BY <2>1 DEF Inv, HeldOK, Right
<1> QED
  BY <1>1, InvHolds, PTL

-----------------------------------------------------------------------------
(* No mail is left where no pass looks.                                    *)

(* A walk that was stopped, or found the folder renumbered, stays so.      *)
LEMMA WalkMoves ==
  ASSUME [Next]_vars
  PROVE  /\ walk = "mixed" => walk' = "mixed"
         /\ walk' = "whole" => walk = "whole"
BY DEF Next, Pass, Mailbox, Examine, List, FetchFresh, FetchBehind, FetchFrom, StoreOne, Bookmark,
   FetchDone, ApplyFlags, ApplyExpunges, RecordState, Stop, Deliver, MarkSeen, Expunge,
   Changed, Renumber, vars, history

LEMMA MissingKept ==
  ASSUME NEW u \in Uid, Changes(u), NEW v \in Uid, v # u
  PROVE  Missing(v)' <=> Missing(v)
BY DEF Changes, store, Missing, Parseable, On

LEMMA ReachStep ==
  ASSUME Inv, ReachOK, [Next]_vars, StopsBeforeBookmark = FALSE
  PROVE  ReachOK'
<1> USE DEF Inv
<1>1. CASE UNCHANGED vars
  BY <1>1 DEF vars, server, store, pass, lists, history, ReachOK, Listed, Missing, Beyond, Owed,
     Above, Todo, On, Renumbered, Parseable, Listing, Settling
<1>2. ASSUME NEW u \in Uid, Changes(u), walk' # "mixed" PROVE ReachOK'
  <2>1. /\ UNCHANGED <<validity, held, row, pc, direction, fresh, behind, batch, walk>>
        /\ still' = "no"
    BY <1>2 DEF Changes, store, pass, lists
  <2>2. ASSUME NEW v \in Uid, Missing(v)'
        PROVE  Missing(v) \/ v = uidNext
    <3>1. CASE v # u
      BY <1>2, <2>2, <3>1, MissingKept
    <3>2. CASE v = u
      BY <1>2, <2>2, <3>2 DEF Changes, store, Missing, Parseable, On
    <3> QED
      BY <3>1, <3>2
  <2>3. ASSUME pc # "idle" \/ ~Renumbered PROVE Above(uidNext)
    BY <1>2, <2>1, <2>3 DEF HeldOK, Right, ListsOK, Above, Beyond
  <2>4. \A v \in Uid : /\ Beyond(v)' <=> Beyond(v)
                       /\ Owed(v)' <=> Owed(v)
                       /\ Above(v)' <=> Above(v)
                       /\ Listed(v)' <=> Listed(v)
    BY <2>1 DEF Beyond, Owed, Above, Listed, Todo, On, Renumbered
  <2>5. ASSUME NEW v \in Uid, Missing(v)', pc \in {"idle", "list"}, ~Renumbered
        PROVE  Beyond(v) \/ Owed(v)
    BY <1>2, <2>1, <2>2, <2>3, <2>5 DEF ReachOK, Above
  <2>6. ASSUME NEW v \in Uid, Missing(v)', Listing
        PROVE  Listed(v) \/ Above(v)
    BY <1>2, <2>1, <2>2, <2>3, <2>6 DEF ReachOK, Listing
  <2>7. ASSUME NEW v \in Uid, Missing(v)', Settling
        PROVE  Beyond(v)
    BY <1>2, <2>1, <2>2, <2>3, <2>7 DEF ReachOK, Settling, Above
  <2> QED
    BY <2>1, <2>4, <2>5, <2>6, <2>7 DEF ReachOK, Listing, Settling, Renumbered
<1>3. CASE Renumber
  <2>1. /\ On(held)' = On(held) /\ row' = row /\ pc' = "idle" /\ validity' = validity + 1
        /\ walk' = IF row.validity = None /\ On(held) # {} THEN "mixed" ELSE walk
    BY <1>3, RenumberMoves DEF store, On
  <2>2. row.validity # None => Renumbered'
    BY <2>1, RowFields DEF NumbersOK, Renumbered, OrNull
  <2>3. row.validity = None /\ walk' # "mixed" => \A v \in Uid : Beyond(v)'
    BY <2>1 DEF Beyond
  <2> QED
    BY <2>1, <2>2, <2>3 DEF ReachOK, Listing, Settling
<1>4. CASE Examine
  <2>1. /\ pc = "idle" /\ pc' \in {"idle", "list"} /\ UNCHANGED <<box, validity, walk>>
        /\ row'.validity = row.validity
        /\ ~Renumbered => UNCHANGED <<held, row>>
    BY <1>4 DEF Examine, server, store, TypeOK, Row
  <2>2. Renumbered' <=> Renumbered
    BY <2>1, Renumbering
  <2>3. \A v \in Uid : Missing(v)' /\ ~Renumbered =>
          /\ Missing(v) /\ (Beyond(v)' <=> Beyond(v)) /\ (Owed(v)' <=> Owed(v))
    BY <2>1 DEF Missing, Parseable, Beyond, Owed, On
  <2> QED
    BY <2>1, <2>2, <2>3 DEF ReachOK, Listing, Settling
<1>5. ASSUME List, walk # "mixed" PROVE ReachOK'
  <2>1. /\ UNCHANGED <<box, uidNext, validity, held, row, cached, opened, batch, still, walk>>
        /\ pc = "list" /\ pc' \in {"fetch", "flags", "record"}
        /\ direction' = IF On(held) = {} THEN "down" ELSE "up"
        /\ pc' # "fetch" => fresh' = {} /\ behind' = {}
    BY <1>5 DEF List, NextStage, server, store, history
  <2>2. On(batch)' = {} /\ (Renumbered' <=> Renumbered)
    BY <2>1 DEF ListsOK, On, Renumbered
  <2>3. \A v \in Uid : /\ Missing(v)' <=> Missing(v)
                       /\ Beyond(v)' <=> Beyond(v)
    BY <2>1 DEF Missing, Parseable, Beyond, On
  <2>4. ASSUME NEW v \in Uid, Missing(v), v \notin fresh', v \notin behind'
        PROVE  /\ Beyond(v) /\ still = "no" /\ fresh' = {}
               /\ \A t \in behind' : t < v
    <3>1. v \in On(box) /\ v < uidNext /\ v \in Nat
      BY <2>4, UidType DEF Missing, NumbersOK
    <3>2. cached.owed = None \/ ~(v <= cached.owed)
      BY <1>5, <2>4, <3>1 DEF List
    <3>3. Start <= v
      <4> SUFFICES ASSUME v < Start PROVE FALSE
        BY <3>1, StartAbove
      <4>1. CASE On(held) = {}
        BY <4>1, StartAbove, BoundAssumption DEF Uid
      <4>2. CASE On(held) # {}
        <5>1. PICK w \in On(held) : v <= w
          BY <4>2, StartAbove
        <5>2. ~Renumbered /\ row = cached
          BY <2>1, <4>2 DEF ListsOK
        <5>3. ~Beyond(v)
          BY <5>1, <3>1, OnUid, UidType DEF Beyond
        <5>4. Owed(v)
          BY <1>5, <2>1, <2>4, <5>2, <5>3 DEF ReachOK
        <5> QED
          BY <3>2, <5>2, <5>4 DEF Owed
      <4> QED
        BY <4>1, <4>2
    <3>4. fresh' = {} /\ Start >= opened.uidNext
      BY <1>5, <2>4, <3>1, <3>3, StartAbove DEF List
    <3>5. still = "no"
      <4>1. opened.uidNext <= v
        BY <3>1, <3>3, <3>4, StartAbove, RowFields
      <4>2. opened.uidNext # uidNext
        BY <3>1, <4>1, RowFields
      <4> QED
        BY <2>1, <4>2 DEF SessionOK, TypeOK
    <3>6. ASSUME NEW w \in On(held) PROVE w < v
      <4>1. w < Start /\ w \in Nat /\ Start \in Nat
        BY StartAbove, OnUid, UidType
      <4> QED
        BY <3>1, <3>3, <4>1
    <3>7. ASSUME NEW t \in behind' PROVE t < v
      <4>1. t \in Uid /\ cached.owed # None /\ t <= cached.owed
        BY <1>5, OnUid DEF List
      <4>2. cached.owed \in Nat /\ t \in Nat
        BY <4>1, UidType DEF TypeOK, Row, OrNull
      <4> QED
        BY <3>1, <3>2, <4>1, <4>2
    <3> QED
      BY <3>4, <3>5, <3>6, <3>7 DEF Beyond
  <2>5. ASSUME NEW v \in Uid, Missing(v), v \in fresh' \cup behind', direction' = "down"
        PROVE  fresh' # {} => v \in fresh'
    <3>1. On(held) = {}
      BY <2>1, <2>5
    <3>2. v \in On(box) /\ v >= Start
      BY <2>5, <3>1, StartAbove, BoundAssumption DEF Missing, Uid
    <3> QED
      BY <1>5, <3>2 DEF List
  <2>6. ASSUME pc' = "fetch", NEW v \in Uid, Missing(v)'
        PROVE  Listed(v)' \/ (Above(v)' /\ still' = "no")
    BY <2>1, <2>2, <2>3, <2>4, <2>5, <2>6 DEF Listed, Above, Todo
  <2>7. ASSUME pc' # "fetch", NEW v \in Uid, Missing(v)'
        PROVE  Beyond(v)' /\ still' = "no"
    BY <2>1, <2>3, <2>4, <2>7
  <2> QED
    BY <2>1, <2>6, <2>7 DEF ReachOK, Listing, Settling
<1>6. ASSUME FetchFresh, walk # "mixed" PROVE ReachOK'
  <2>1. PICK b \in BatchesFrom(fresh, direction) : FetchFrom(b) /\ fresh' = fresh \ b
    BY <1>6 DEF FetchFresh
  <2>2. /\ pc = "fetch" /\ pc' = "store" /\ On(batch) = {}
        /\ UNCHANGED <<box, held, row, validity, direction, behind, still, walk>>
    BY <1>6, <2>1 DEF FetchFresh, FetchFrom, server, store, history, ListsOK
  <2>3. b \subseteq fresh /\ b # {} /\ On(batch)' = b \cap On(box)
    BY <2>1, BatchFetched DEF TypeOK, BatchesFrom
  <2>4. Todo' \subseteq Todo
    BY <2>1, <2>2, <2>3 DEF Todo
  <2>5. ASSUME NEW v \in Uid, Missing(v)'
        PROVE  Listed(v)' \/ (Above(v)' /\ still' = "no")
    <3>1. Missing(v) /\ v \in On(box)
      BY <2>2, <2>5 DEF Missing, Parseable, On
    <3>2. Above(v) => Above(v)'
      BY <2>2, <2>4 DEF Above, Beyond, On
    <3>3. v \in fresh => v \in fresh' \cup On(batch)'
      BY <2>1, <2>3, <3>1
    <3>4. Listed(v) => Listed(v)'
      BY <2>1, <2>2, <2>3, <3>3 DEF Listed, Todo, Owed, Renumbered
    <3> QED
      BY <1>6, <2>2, <3>1, <3>2, <3>4 DEF ReachOK, Listing
  <2> QED
    BY <2>2, <2>5 DEF ReachOK, Listing, Settling
<1>7. ASSUME FetchBehind, walk # "mixed" PROVE ReachOK'
  <2>1. PICK b \in BatchesFrom(behind, "hole") : FetchFrom(b) /\ behind' = behind \ b
    BY <1>7 DEF FetchBehind
  <2>2. /\ pc = "fetch" /\ pc' = "store" /\ On(batch) = {} /\ fresh = {} /\ fresh' = {}
        /\ direction' = "hole"
        /\ UNCHANGED <<box, held, row, validity, still, walk>>
    BY <1>7, <2>1 DEF FetchBehind, FetchFrom, server, store, history, ListsOK
  <2>3. b \subseteq behind /\ On(batch)' = b \cap On(box)
    <3>1. behind \in SUBSET Uid
      BY DEF TypeOK
    <3> QED
      BY <2>1, <3>1, BatchFetched
  <2>4. Todo' \subseteq Todo
    BY <2>1, <2>2, <2>3 DEF Todo
  <2>5. ASSUME NEW v \in Uid, Missing(v)'
        PROVE  Listed(v)' \/ (Above(v)' /\ still' = "no")
    <3>1. Missing(v) /\ v \in On(box)
      BY <2>2, <2>5 DEF Missing, Parseable, On
    <3>2. Above(v) => Above(v)'
      BY <2>2, <2>4 DEF Above, Beyond, On
    <3>3. ASSUME Listed(v) PROVE Listed(v)'
      <4>1. v \in behind /\ v \in Todo'
        BY <2>1, <2>2, <2>3, <3>1, <3>3 DEF Listed, Todo
      <4>2. Renumbered \/ Owed(v)
        BY <2>2, <3>3, <4>1 DEF Listed, ListsOK, Listing, UpOK, DownOK, TypeOK
      <4> QED
        BY <2>2, <4>1, <4>2 DEF Listed, Owed, Renumbered
    <3> QED
      BY <1>7, <2>2, <3>1, <3>2, <3>3 DEF ReachOK, Listing
  <2> QED
    BY <2>2, <2>5 DEF ReachOK, Listing, Settling
<1>8. ASSUME StoreOne, walk # "mixed" PROVE ReachOK'
  <2>1. PICK u \in On(batch) :
           /\ On(batch)' = On(batch) \ {u}
           /\ \A v \in Uid : v # u => held'[v] = held[v]
           /\ held'[u] = IF batch[u].mail \in Unparseable THEN held[u] ELSE batch[u]
           /\ On(held)' \subseteq On(held) \cup {u}
    BY <1>8, OneStored
  <2>2. /\ pc = "store" /\ pc' = "store"
        /\ UNCHANGED <<box, row, validity, direction, fresh, behind, still, walk>>
    BY <1>8 DEF StoreOne, server, history
  <2>3. ASSUME NEW v \in Uid, Missing(v)' PROVE v # u /\ Missing(v)
    <3>1. ASSUME v = u PROVE FALSE
      BY <2>1, <2>2, <2>3, <3>1 DEF Missing, Parseable, On, HeldOK, Right
    <3> QED
      BY <2>1, <2>2, <2>3, <3>1 DEF Missing, Parseable, On
  <2>4. ASSUME NEW v \in Uid, Missing(v)'
        PROVE  Listed(v)' \/ (Above(v)' /\ still' = "no")
    <3>1. Above(v) => Above(v)'
      BY <2>1, <2>2 DEF Above, Beyond, Todo
    <3>2. Listed(v) => Listed(v)'
      BY <2>1, <2>2, <2>3, <2>4 DEF Listed, Todo, Owed, Renumbered
    <3> QED
      BY <1>8, <2>2, <2>3, <2>4, <3>1, <3>2 DEF ReachOK, Listing
  <2> QED
    BY <2>2, <2>4 DEF ReachOK, Listing, Settling
<1>9. ASSUME Bookmark, walk # "mixed" PROVE ReachOK'
  <2>1. /\ pc = "store" /\ pc' = "fetch" /\ On(batch) = {} /\ On(batch)' = {}
        /\ UNCHANGED <<box, held, validity, fresh, behind, still, walk>>
        /\ direction' = IF direction = "down" THEN "lower" ELSE direction
        /\ direction = "up" => row' = row
    BY <1>9 DEF Bookmark, server, history, On
  <2>2. ASSUME NEW v \in Uid, Missing(v)'
        PROVE  Listed(v)' \/ (Above(v)' /\ still' = "no")
    <3>1. Missing(v)
      BY <2>1, <2>2 DEF Missing, Parseable, On
    <3>2. Above(v) => Above(v)'
      BY <2>1 DEF Above, Beyond, Todo, On
    <3>3. ASSUME direction = "hole", v \in behind PROVE Owed(v)'
      BY <1>9, <2>1, <3>3, BookmarkOwes DEF ListsOK, Listing, HoleOK
    <3>4. ASSUME Listed(v), direction = "hole" PROVE Listed(v)'
      BY <2>1, <3>3, <3>4 DEF Listed, Todo, ListsOK, Listing, HoleOK
    <3>5. ASSUME Listed(v), direction # "hole" PROVE Listed(v)'
      BY <2>1, <3>5 DEF Listed, Todo
    <3> QED
      BY <1>9, <2>1, <3>1, <3>2, <3>4, <3>5 DEF ReachOK, Listing
  <2> QED
    BY <2>1, <2>2 DEF ReachOK, Listing, Settling
<1>10. ASSUME FetchDone, walk # "mixed" PROVE ReachOK'
  <2>1. /\ pc = "fetch" /\ pc' \in {"flags", "record"} /\ Todo = {}
        /\ UNCHANGED <<box, held, still, walk>>
    BY <1>10 DEF FetchDone, NextStage, server, history, Todo, ListsOK
  <2>2. ASSUME NEW v \in Uid, Missing(v)' PROVE Beyond(v)' /\ still' = "no"
    <3>1. Missing(v)
      BY <2>1, <2>2 DEF Missing, Parseable, On
    <3>2. Above(v) /\ still = "no"
      BY <1>10, <2>1, <3>1 DEF ReachOK, Listing, Listed
    <3> QED
      BY <2>1, <3>2 DEF Above, Beyond, On
  <2> QED
    BY <2>1, <2>2 DEF ReachOK, Listing, Settling
<1>11. ASSUME ApplyFlags \/ ApplyExpunges, walk # "mixed" PROVE ReachOK'
  <2>1. /\ Settling /\ pc' \in {"expunge", "record"}
        /\ UNCHANGED <<box, still, walk>>
    BY <1>11 DEF ApplyFlags, ApplyExpunges, server, history, Settling
  <2>2. /\ \A v \in Uid : held'[v] # None => held[v] # None
        /\ \A v \in On(box) : held'[v] = None <=> held[v] = None
    BY <1>11, FlagsApplied DEF ApplyExpunges, On
  <2>3. ASSUME NEW v \in Uid, Missing(v)' PROVE Beyond(v)' /\ still' = "no"
    <3>1. Missing(v)
      BY <2>1, <2>2, <2>3 DEF Missing, Parseable, On
    <3> QED
      BY <1>11, <2>1, <2>2, <3>1 DEF ReachOK, Beyond, On
  <2> QED
    BY <2>1, <2>3 DEF ReachOK, Listing, Settling
<1>12. ASSUME RecordState, walk # "mixed" PROVE ReachOK'
  <2>1. pc = "record" /\ pc' = "idle" /\ UNCHANGED <<box, held, walk>>
    BY <1>12 DEF RecordState, server, history
  <2>2. \A v \in Uid : Missing(v)' => Beyond(v)'
    BY <1>12, <2>1 DEF ReachOK, Settling, Missing, Parseable, Beyond, On
  <2> QED
    BY <2>1, <2>2 DEF ReachOK, Listing, Settling
<1>13. ASSUME Stop, walk' # "mixed" PROVE ReachOK'
  <2>1. /\ pc # "idle" /\ pc' = "idle" /\ UNCHANGED <<box, held, row, validity>>
        /\ walk # "mixed"
    BY <1>13 DEF Stop, server, store
  <2>2. ASSUME NEW v \in Uid, Missing(v), ~Renumbered PROVE Beyond(v) \/ Owed(v)
    <3>1. CASE pc = "list"
      BY <2>1, <2>2, <3>1 DEF ReachOK
    <3>2. CASE Settling
      BY <2>1, <2>2, <3>2 DEF ReachOK
    <3>3. ASSUME Listing, Listed(v) PROVE Beyond(v) \/ Owed(v)
      <4>1. CASE direction = "up"
        BY <3>3, <4>1 DEF ListsOK, UpOK, Listed, Todo
      <4>2. CASE direction = "down"
        <5>1. pc = "store" => BeforeBookmark
          BY <2>2, <4>2 DEF BeforeBookmark, Renumbered
        <5>2. pc = "fetch"
          BY <1>13, <3>3, <5>1 DEF Stop, Listing
        <5> QED
          BY <3>3, <4>2, <5>2 DEF ListsOK, DownOK, Beyond
      <4>3. CASE direction = "lower"
        BY <3>3, <4>3 DEF ListsOK, LowerOK, Listed
      <4>4. CASE direction = "hole"
        BY <2>2, <3>3, <4>4 DEF Listed
      <4> QED
        BY <4>1, <4>2, <4>3, <4>4 DEF TypeOK
    <3> QED
      BY <2>1, <2>2, <3>1, <3>2, <3>3 DEF ReachOK, Listing, Settling, TypeOK, Above
  <2>3. \A v \in Uid : /\ Missing(v)' <=> Missing(v)
                       /\ Beyond(v)' <=> Beyond(v)
                       /\ Owed(v)' <=> Owed(v)
    BY <2>1 DEF Missing, Parseable, Beyond, Owed, On
  <2> QED
    BY <2>1, <2>2, <2>3 DEF ReachOK, Listing, Settling, Renumbered
<1>14. walk # "mixed" \/ walk' = "mixed"
  BY WalkMoves
<1>15. CASE walk' = "mixed"
  BY <1>15 DEF ReachOK
<1> QED
  BY <1>1, <1>2, <1>3, <1>4, <1>5, <1>6, <1>7, <1>8, <1>9, <1>10, <1>11, <1>12, <1>13,
     <1>14, <1>15, MailboxChanges DEF Next, Pass, Mailbox

(* "A sync stopped by a closed laptop must resume inside the hole it left, *)
(* not above it, or the mail in between is never fetched at all": whatever *)
(* the store lacks between two passes, the next one asks for, as long as   *)
(* no walk is stopped between its first mail and its first bookmark.       *)
THEOREM NoMailBehind ==
  ASSUME StopsBeforeBookmark = FALSE
  PROVE  Spec => []NothingUnreachable
<1>1. Init => ReachOK
  <2> SUFFICES ASSUME Init PROVE ReachOK
    OBVIOUS
  <2>1. pc = "idle" /\ On(held) = {}
    BY DEF Init, NoCopies, On
  <2> QED
    BY <2>1 DEF ReachOK, Listing, Settling, Beyond
<1>2. Inv /\ ReachOK /\ [Next]_vars => ReachOK'
  BY ReachStep
<1>3. Inv /\ ReachOK => NothingUnreachable
  <2> SUFFICES ASSUME Inv, ReachOK, pc = "idle", walk # "mixed",
                      NEW u \in On(box), Parseable(u), held[u] = None
               PROVE  Reachable(u)
    BY DEF NothingUnreachable
  <2>1. u \in Uid /\ Missing(u)
    BY OnUid DEF Missing
  <2>2. Renumbered \/ Beyond(u) \/ Owed(u)
    BY <2>1 DEF ReachOK
  <2>3. ASSUME Beyond(u), On(held) # {} PROVE u > Max(On(held))
    <3>1. On(held) \in SUBSET Uid
      BY OnUid
    <3>2. Max(On(held)) \in On(held)
      BY <2>3, <3>1, GreatestUid
    <3>3. Max(On(held)) < u /\ Max(On(held)) \in Nat /\ u \in Nat
      BY <2>1, <2>3, <3>1, <3>2, UidType DEF Beyond
    <3> QED
      BY <3>3
  <2> QED
    BY <2>2, <2>3 DEF Reachable, Owed
<1> QED
  BY <1>1, <1>2, <1>3, InvHolds, PTL DEF Spec

-----------------------------------------------------------------------------
(* A pass that ran undisturbed leaves a copy of the folder.                *)

(* No new UIDVALIDITY is the one the row remembers.                        *)
LEMMA RenumbersAnew ==
  ASSUME TypeOK, NumbersOK, Renumber
  PROVE  row'.validity # validity'
<1>1. row' = row /\ validity' = validity + 1
  BY RenumberMoves DEF store
<1>2. row.validity = None \/ (row.validity \in Nat /\ row.validity <= validity)
  BY RowFields DEF NumbersOK, OrNull
<1>3. validity + 1 \in Nat
  BY RowFields
<1> QED
  BY <1>1, <1>2, <1>3, RowFields, NullAssumption

LEMMA EmptyStep ==
  ASSUME Inv, EmptyOK, [Next]_vars
  PROVE  EmptyOK'
<1> USE RowFields DEF Inv
<1> SUFFICES ASSUME walk' = "whole" PROVE EmptyOK'
  BY DEF EmptyOK
<1>1. walk = "whole"
  BY WalkMoves
<1>2. CASE UNCHANGED vars
  BY <1>1, <1>2 DEF vars, store, pass, EmptyOK, On
<1>3. ASSUME NEW u \in Uid, Changes(u) PROVE EmptyOK'
  BY <1>1, <1>3 DEF Changes, store, pass, EmptyOK, On
<1>4. CASE Renumber
  BY <1>1, <1>4, RenumberMoves DEF store, EmptyOK, On
<1>5. CASE Examine
  <2>1. Renumbered => On(held)' = {}
    BY <1>5 DEF Examine, NoCopies, On
  <2>2. row.validity = None => On(held)' = {}
    <3>1. row.validity = None => ~Renumbered /\ On(held) = {}
      BY <1>1, <1>5 DEF Examine, EmptyOK
    <3>2. ~Renumbered => held' = held
      BY <1>5 DEF Examine, store
    <3> QED
      BY <3>1, <3>2 DEF On
  <2>3. pc' = "idle" => row'.validity # None
    BY <1>5 DEF Examine, Unchanged, store
  <2>4. first' = "yes" => row.validity = None \/ Renumbered
    BY <1>5 DEF Examine
  <2> QED
    BY <2>1, <2>2, <2>3, <2>4 DEF EmptyOK
<1>6. CASE List \/ FetchFresh \/ FetchBehind \/ StoreOne \/ Bookmark \/ FetchDone
           \/ ApplyFlags \/ ApplyExpunges
  <2>1. pc' \notin {"idle", "list"}
    BY <1>6 DEF List, FetchFresh, FetchBehind, FetchFrom, StoreOne, Bookmark, FetchDone, NextStage,
       ApplyFlags, ApplyExpunges
  <2> QED
    BY <2>1 DEF EmptyOK
<1>7. CASE RecordState
  <2>1. pc' = "idle" /\ row'.validity = opened.validity
    BY <1>7 DEF RecordState, TypeOK, Row
  <2> QED
    BY <2>1, NullAssumption DEF EmptyOK
<1>8. CASE Stop
  BY <1>1, <1>8 DEF Stop, store, EmptyOK
<1> QED
  BY <1>2, <1>3, <1>4, <1>5, <1>6, <1>7, <1>8, MailboxChanges DEF Next, Pass, Mailbox

LEMMA FlagsStep ==
  ASSUME Inv, FlagsOK, CopiesOK, [Next]_vars
  PROVE  FlagsOK'
<1> USE RowFields DEF Inv
<1> SUFFICES ASSUME walk' = "whole", row'.validity = validity', row'.modseq # None,
                    NEW v \in Uid, held'[v] # None, box'[v] # None,
                    changedAt'[v] <= row'.modseq
             PROVE  held'[v] = box'[v]
  BY DEF FlagsOK, On
<1>1. walk = "whole"
  BY WalkMoves
<1>2. ASSUME UNCHANGED <<row, held, server>> PROVE held'[v] = box'[v]
  BY <1>1, <1>2 DEF FlagsOK, On, server
<1>3. CASE UNCHANGED vars
  BY <1>2, <1>3 DEF vars, store
<1>4. ASSUME NEW u \in Uid, Changes(u) PROVE held'[v] = box'[v]
  <2>1. /\ UNCHANGED <<row, held, validity>> /\ modseq' = modseq + 1
        /\ changedAt' = [changedAt EXCEPT ![u] = modseq + 1]
        /\ v # u => box'[v] = box[v]
    BY <1>4 DEF Changes, store
  <2>2. row.validity = validity /\ row.modseq # None /\ changedAt'[v] <= row.modseq
    BY <2>1
  <2>3. row.modseq \in Nat /\ row.modseq <= modseq
    BY <2>2 DEF NumbersOK, OrNull
  <2>4. v # u
    BY <2>1, <2>2, <2>3 DEF TypeOK
  <2>5. box'[v] = box[v] /\ changedAt'[v] = changedAt[v]
    BY <2>1, <2>4 DEF TypeOK
  <2> QED
    BY <1>1, <2>1, <2>2, <2>5 DEF FlagsOK, On
<1>5. CASE Renumber
  BY <1>5, RenumbersAnew
<1>6. CASE Examine
  <2>1. ~Renumbered
    BY <1>6 DEF Examine, server, store, TypeOK, Row
  <2> QED
    BY <1>2, <1>6, <2>1 DEF Examine, store
<1>7. CASE List \/ FetchFresh \/ FetchBehind
  BY <1>2, <1>7 DEF List, FetchFresh, FetchBehind, FetchFrom, store
<1>8. CASE Bookmark \/ FetchDone
  <2>1. UNCHANGED <<held, server>> /\ row'.validity = row.validity /\ row'.modseq = row.modseq
    BY <1>8, SessionKept DEF Bookmark, FetchDone
  <2> QED
    BY <1>1, <2>1 DEF FlagsOK, On, server
<1>9. CASE StoreOne
  <2>1. PICK u \in On(batch) :
           /\ \A w \in Uid : w # u => held'[w] = held[w]
           /\ held'[u] = IF batch[u].mail \in Unparseable THEN held[u] ELSE batch[u]
    BY <1>9, OneStored
  <2>2. UNCHANGED <<server, row>> /\ pc = "store"
    BY <1>9 DEF StoreOne
  <2>3. Settled(v)
    BY <2>2 DEF SessionOK, NumbersOK, Settled, server, OrNull, TypeOK
  <2>4. v \in On(batch) => batch[v] = box[v]
    BY <1>1, <2>2, <2>3 DEF CopiesOK, CopyOK, On, server
  <2>5. held[v] # None => held[v] = box[v]
    BY <1>1, <2>2 DEF FlagsOK, On, server
  <2> QED
    BY <2>1, <2>2, <2>4, <2>5 DEF server
<1>10. CASE ApplyFlags
  <2>1. UNCHANGED <<server, row>> /\ pc = "flags"
    BY <1>10 DEF ApplyFlags
  <2>2. held[v] # None /\ box[v] # None /\ box' = box
    BY <1>10, <2>1, FlagsApplied DEF server
  <2>3. held[v] = box[v]
    BY <1>1, <2>1, <2>2 DEF FlagsOK, On, server
  <2> QED
    BY <1>10, <2>2, <2>3, FlagsApplied
<1>11. CASE ApplyExpunges
  <2>1. UNCHANGED <<server, row>> /\ held'[v] = held[v]
    BY <1>11 DEF ApplyExpunges, On
  <2> QED
    BY <1>1, <2>1 DEF FlagsOK, On, server
<1>12. CASE RecordState
  <2>1. UNCHANGED <<server, held>> /\ pc = "record" /\ row'.modseq = opened.modseq
    BY <1>12 DEF RecordState, TypeOK, Row
  <2>2. Settled(v)
    BY <2>1 DEF SessionOK, Settled, server
  <2> QED
    BY <1>1, <2>1, <2>2 DEF CopiesOK, CopyOK, On, server
<1>13. CASE Stop
  BY <1>2, <1>13 DEF Stop, store
<1> QED
  BY <1>3, <1>4, <1>5, <1>6, <1>7, <1>8, <1>9, <1>10, <1>11, <1>12, <1>13,
     MailboxChanges DEF Next, Pass, Mailbox

LEMMA SettledAfterChange ==
  ASSUME TypeOK, SessionOK, pc # "idle", NEW u \in Uid, Changes(u), NEW v \in Uid, Settled(v)'
  PROVE  v # u /\ Settled(v) /\ box'[v] = box[v] /\ still' = "no"
<1>1. /\ Condstore /\ changedAt'[v] <= opened.modseq /\ still' = "no"
      /\ changedAt' = [changedAt EXCEPT ![u] = modseq + 1]
  BY DEF Changes, pass, Settled
<1>2. opened.modseq \in Nat /\ opened.modseq <= modseq /\ modseq \in Nat
  BY <1>1, RowFields DEF SessionOK, OrNull
<1>3. v # u
  BY <1>1, <1>2 DEF TypeOK
<1> QED
  BY <1>1, <1>3 DEF Changes, Settled, TypeOK

LEMMA CopiesStep ==
  ASSUME Inv, EmptyOK, FlagsOK, CopiesOK, [Next]_vars
  PROVE  CopiesOK'
<1> USE DEF Inv
<1> SUFFICES ASSUME walk' = "whole" PROVE CopiesOK'
  BY DEF CopiesOK
<1>1. walk = "whole"
  BY WalkMoves
<1>2. CASE UNCHANGED vars
  BY <1>1, <1>2 DEF vars, server, store, pass, lists, history, CopiesOK, CopyOK, Settled, On, Listing
<1>3. ASSUME NEW u \in Uid, Changes(u) PROVE CopiesOK'
  <2>1. UNCHANGED <<held, batch, pc, first>>
    BY <1>3 DEF Changes, store, pass, lists
  <2>2. ASSUME pc # "idle", NEW v \in Uid, Settled(v)'
        PROVE  Settled(v) /\ box'[v] = box[v] /\ still' = "no"
    BY <1>3, <2>2, SettledAfterChange
  <2>3. still' = "no"
    BY <1>3 DEF Changes
  <2>4. pc # "idle" /\ CopyOK(held) => CopyOK(held)'
    BY <2>1, <2>2, <2>3 DEF CopyOK, On
  <2>5. pc # "idle" /\ CopyOK(batch) => CopyOK(batch)'
    BY <2>1, <2>2, <2>3 DEF CopyOK, On
  <2>6. pc = "expunge" => \A v \in On(held)' \cap On(box)' : Settled(v)' => held'[v] = box'[v]
    BY <1>1, <2>1, <2>2 DEF CopiesOK, On
  <2> QED
    BY <1>1, <2>1, <2>4, <2>5, <2>6 DEF CopiesOK, Listing
<1>4. CASE Renumber \/ Examine \/ RecordState \/ Stop
  <2>1. pc' \in {"idle", "list"}
    BY <1>4 DEF Renumber, Examine, RecordState, Stop
  <2> QED
    BY <2>1 DEF CopiesOK, Listing
<1>5. CASE List
  <2>1. /\ pc = "list" /\ pc' \in {"fetch", "flags", "record"} /\ held' = held /\ first' = first
        /\ pc' = "record" => first = "yes"
    BY <1>5 DEF List, NextStage, store
  <2>2. first = "yes" => On(held)' = {}
    BY <1>1, <2>1 DEF EmptyOK, On
  <2>3. first = "yes" => CopyOK(held)'
    BY <2>2 DEF CopyOK
  <2> QED
    BY <2>1, <2>3 DEF CopiesOK
<1>6. CASE FetchFresh \/ FetchBehind
  <2>1. \A v \in On(batch)' : batch'[v] = box[v] /\ v \in On(box)
    <3>1. fresh \in SUBSET Uid /\ behind \in SUBSET Uid
      BY DEF TypeOK
    <3>2. CASE FetchFresh
      <4>1. PICK b \in BatchesFrom(fresh, direction) : FetchFrom(b)
        BY <3>2 DEF FetchFresh
      <4>2. On(batch)' = b \cap On(box) /\ \A u \in On(batch)' : batch'[u] = box[u]
        BY <3>1, <4>1, BatchFetched
      <4> QED
        BY <4>2
    <3>3. CASE FetchBehind
      <4>1. PICK b \in BatchesFrom(behind, "hole") : FetchFrom(b)
        BY <3>3 DEF FetchBehind
      <4>2. On(batch)' = b \cap On(box) /\ \A u \in On(batch)' : batch'[u] = box[u]
        BY <3>1, <4>1, BatchFetched
      <4> QED
        BY <4>2
    <3> QED
      BY <1>6, <3>2, <3>3
  <2>2. /\ pc = "fetch" /\ pc' = "store"
        /\ UNCHANGED <<box, held, first, still, opened, changedAt>>
    BY <1>6 DEF FetchFresh, FetchBehind, FetchFrom, server, store, history
  <2>3. CopyOK(batch)'
    BY <2>1, <2>2 DEF CopyOK, On
  <2>4. first = "yes" => CopyOK(held)'
    BY <1>1, <2>2 DEF CopiesOK, CopyOK, Settled, On, Listing
  <2> QED
    BY <2>2, <2>3, <2>4 DEF CopiesOK
<1>7. CASE StoreOne
  <2>1. PICK u \in On(batch) :
           /\ On(batch)' = On(batch) \ {u}
           /\ \A v \in Uid : v # u => held'[v] = held[v] /\ batch'[v] = batch[v]
           /\ held'[u] = IF batch[u].mail \in Unparseable THEN held[u] ELSE batch[u]
    BY <1>7, OneStored
  <2>2. /\ pc = "store" /\ pc' = "store"
        /\ UNCHANGED <<box, first, still, opened, changedAt>>
    BY <1>7 DEF StoreOne, server, history
  <2>3. \A v \in Uid : Settled(v)' <=> Settled(v)
    BY <2>2 DEF Settled
  <2>4. CopyOK(batch)
    BY <1>1, <2>2 DEF CopiesOK
  <2>5. CopyOK(batch)'
    BY <2>1, <2>2, <2>3, <2>4 DEF CopyOK, On
  <2>6. ASSUME first = "yes" PROVE CopyOK(held)'
    <3>1. CopyOK(held)
      BY <1>1, <2>2, <2>6 DEF CopiesOK, Listing
    <3>2. ASSUME NEW v \in On(held)'
          PROVE  /\ still = "yes" => v \in On(box)
                 /\ v \in On(box) /\ Settled(v) => held'[v] = box[v]
      <4>1. v \in Uid /\ held'[v] # None
        BY <3>2 DEF On
      <4>2. (held[v] # None /\ held'[v] = held[v]) \/ (v \in On(batch) /\ held'[v] = batch[v])
        BY <2>1, <4>1
      <4> QED
        BY <2>4, <3>1, <4>1, <4>2 DEF CopyOK, On
    <3> QED
      BY <2>2, <2>3, <3>2 DEF CopyOK, On
  <2> QED
    BY <2>2, <2>5, <2>6 DEF CopiesOK
<1>8. CASE Bookmark \/ FetchDone
  <2>1. /\ pc \in {"fetch", "store"} /\ pc' \in {"fetch", "flags", "record"}
        /\ pc' = "record" => first = "yes"
        /\ UNCHANGED <<box, held, first, still, opened, changedAt>>
    BY <1>8, SessionKept DEF Bookmark, FetchDone, NextStage, server
  <2>2. first = "yes" => CopyOK(held)'
    BY <1>1, <2>1 DEF CopiesOK, CopyOK, Settled, On, Listing
  <2> QED
    BY <2>1, <2>2 DEF CopiesOK
<1>9. CASE ApplyFlags
  <2>1. pc = "flags" /\ pc' = "expunge" /\ UNCHANGED <<server, opened, still>>
    BY <1>9 DEF ApplyFlags, pass, history
  <2>2. ASSUME NEW v \in Uid, held'[v] # None, box[v] # None
        PROVE  held'[v] = box[v]
    <3>1. held[v] # None /\ held[v].mail = box[v].mail
      BY <1>1, <1>9, <2>1, <2>2, FlagsApplied DEF HeldOK, Right, On
    <3>2. first = "no" /\ row.validity = validity /\ since = row.modseq
      BY <2>1 DEF SessionOK
    <3>3. ASSUME ~(since = None \/ changedAt[v] > since) PROVE held[v] = box[v]
      <4>1. since \in Nat /\ changedAt[v] \in Nat
        BY <3>3 DEF TypeOK, OrNull
      <4>2. changedAt[v] <= since
        BY <3>3, <4>1
      <4> QED
        BY <1>1, <2>2, <3>1, <3>2, <3>3, <4>2 DEF FlagsOK, On
    <3> QED
      BY <1>9, <2>2, <3>1, <3>3, FlagsApplied
  <2>3. \A v \in On(held)' \cap On(box)' : held'[v] = box'[v]
    BY <2>1, <2>2 DEF server, On
  <2> QED
    BY <2>1, <2>3 DEF CopiesOK, Listing
<1>10. CASE ApplyExpunges
  <2>1. pc = "expunge" /\ pc' = "record" /\ UNCHANGED <<server, opened, still>>
    BY <1>10 DEF ApplyExpunges, pass, history
  <2>2. \A v \in Uid : held'[v] = IF box[v] # None THEN held[v] ELSE None
    BY <1>10 DEF ApplyExpunges, On
  <2>3. CopyOK(held)'
    BY <1>1, <2>1, <2>2 DEF CopiesOK, CopyOK, Settled, On, server
  <2> QED
    BY <2>1, <2>3 DEF CopiesOK, Listing
<1> QED
  BY <1>2, <1>3, <1>4, <1>5, <1>6, <1>7, <1>8, <1>9, <1>10,
     MailboxChanges DEF Next, Pass, Mailbox

(* The end of an undisturbed pass.                                         *)
LEMMA MirroredAtEnd ==
  ASSUME Inv, ReachOK, CopiesOK, pc = "record", still = "yes", walk = "whole"
  PROVE  Mirrored
<1> SUFFICES ASSUME NEW u \in Uid
             PROVE  held[u] = IF u \in On(box) /\ Parseable(u) THEN box[u] ELSE None
  BY DEF Mirrored
<1>1. CopyOK(held)
  BY DEF CopiesOK
<1>2. ~Missing(u)
  BY DEF ReachOK, Settling
<1>3. held[u] # None => held[u] = box[u] /\ u \in On(box)
  BY <1>1 DEF CopyOK, Settled, On
<1>4. held[u] # None => held[u].mail \notin Unparseable
  BY DEF Inv, HeldOK, On
<1> QED
  BY <1>2, <1>3, <1>4 DEF Missing, Parseable

LEMMA SkipStep ==
  ASSUME Inv, ReachOK, CopiesOK, SkipOK, [Next]_vars
  PROVE  SkipOK'
<1> USE RowFields DEF Inv
<1> SUFFICES ASSUME walk' = "whole", row'.validity = validity', row'.modseq # None,
                    row'.modseq = modseq'
             PROVE  pc' = "idle" /\ row'.owed = None /\ Mirrored'
  BY DEF SkipOK
<1>1. walk = "whole"
  BY WalkMoves
<1>2. CASE UNCHANGED vars
  BY <1>1, <1>2 DEF vars, server, store, SkipOK, Mirrored, On, Parseable
<1>3. ASSUME NEW u \in Uid, Changes(u) PROVE FALSE
  BY <1>3 DEF Changes, store, NumbersOK, OrNull
<1>4. CASE Renumber
  BY <1>4, RenumbersAnew
<1>5. CASE Examine
  <2>1. ~Renumbered /\ UNCHANGED <<box, validity, modseq>>
    BY <1>5 DEF Examine, server, store, TypeOK, Row
  <2>2. UNCHANGED <<held, row>>
    BY <1>5, <2>1 DEF Examine, store
  <2>3. row.owed = None /\ Mirrored
    BY <1>1, <2>1, <2>2 DEF SkipOK
  <2>4. Condstore
    BY <2>2 DEF NumbersOK
  <2>5. /\ first' = "no" /\ since' = row.modseq /\ cached' = row
        /\ opened'.modseq = modseq
    BY <1>5, <2>1, <2>2, <2>4 DEF Examine
  <2>6. Unchanged
    BY <2>1, <2>2, <2>3, <2>5 DEF Unchanged
  <2> QED
    BY <1>5, <2>1, <2>2, <2>3, <2>6 DEF Examine, Mirrored, On, Parseable
<1>6. CASE List \/ FetchFresh \/ FetchBehind \/ StoreOne \/ Bookmark \/ FetchDone
           \/ ApplyFlags \/ ApplyExpunges
  BY <1>1, <1>6, SessionKept DEF SkipOK, server
<1>7. CASE RecordState
  <2>1. /\ pc = "record" /\ pc' = "idle" /\ UNCHANGED <<server, held>>
        /\ row'.modseq = opened.modseq /\ row'.owed = row.owed
    BY <1>7 DEF RecordState, TypeOK, Row
  <2>2. still = "yes"
    BY <2>1 DEF SessionOK, server
  <2>3. Mirrored
    BY <1>1, <2>1, <2>2, MirroredAtEnd
  <2> QED
    BY <2>1, <2>3 DEF ListsOK, Settling, Mirrored, On, Parseable, server
<1>8. CASE Stop
  BY <1>1, <1>8 DEF Stop, server, store, SkipOK
<1> QED
  BY <1>2, <1>3, <1>4, <1>5, <1>6, <1>7, <1>8, MailboxChanges DEF Next, Pass, Mailbox

LEMMA MirrorStep ==
  ASSUME Inv, ReachOK, CopiesOK, SkipOK, MirrorsServer, [Next]_vars
  PROVE  MirrorsServer'
<1> USE RowFields DEF Inv
<1> SUFFICES ASSUME pc' = "idle", still' = "yes", walk' = "whole" PROVE Mirrored'
  BY DEF MirrorsServer
<1>1. walk = "whole"
  BY WalkMoves
<1>2. CASE UNCHANGED vars
  BY <1>1, <1>2 DEF vars, server, store, history, MirrorsServer, Mirrored, On, Parseable
<1>3. ASSUME NEW u \in Uid, Changes(u) PROVE FALSE
  BY <1>3 DEF Changes
<1>4. CASE Renumber \/ Stop
  BY <1>4 DEF Renumber, Stop
<1>5. CASE Examine
  <2>1. Unchanged
    BY <1>5 DEF Examine
  <2>2. first' = "no" /\ since' # None /\ since' = opened'.modseq
    BY <2>1 DEF Unchanged
  <2>3. ~Renumbered /\ row.validity = validity /\ since' = row.modseq
    BY <1>5, <2>2 DEF Examine
  <2>4. row.modseq = modseq
    BY <1>5, <2>2, <2>3 DEF Examine
  <2>5. Mirrored
    BY <1>1, <2>2, <2>3, <2>4 DEF SkipOK
  <2> QED
    BY <1>5, <2>3, <2>5 DEF Examine, server, store, Mirrored, On, Parseable
<1>6. CASE List \/ FetchFresh \/ FetchBehind \/ StoreOne \/ Bookmark \/ FetchDone
           \/ ApplyFlags \/ ApplyExpunges
  BY <1>6, SessionKept
<1>7. CASE RecordState
  <2>1. pc = "record" /\ still = "yes" /\ UNCHANGED <<server, held>>
    BY <1>7 DEF RecordState, history
  <2>2. Mirrored
    BY <1>1, <2>1, MirroredAtEnd
  <2> QED
    BY <2>1, <2>2 DEF Mirrored, On, Parseable, server
<1> QED
  BY <1>2, <1>3, <1>4, <1>5, <1>6, <1>7, MailboxChanges DEF Next, Pass, Mailbox

(* A pass that ends while nothing changes leaves the store with what the   *)
(* server has, also one that skips the folder because of its HIGHESTMODSEQ,*)
(* comes back to a half-walked one, or starts over under a new UIDVALIDITY.*)
THEOREM PassMirrors ==
  ASSUME StopsBeforeBookmark = FALSE
  PROVE  Spec => []MirrorsServer
<1> DEFINE J == ReachOK /\ EmptyOK /\ FlagsOK /\ CopiesOK /\ SkipOK /\ MirrorsServer
<1>1. Init => J
  <2> SUFFICES ASSUME Init PROVE J
    OBVIOUS
  <2>1. pc = "idle" /\ On(held) = {} /\ still = "no" /\ row.validity = None /\ validity # None
    BY RowFields, TypeInit DEF Init, NoCopies, On
  <2> QED
    BY <2>1 DEF ReachOK, Listing, Settling, Beyond, EmptyOK, FlagsOK, CopiesOK, SkipOK, MirrorsServer
<1>2. Inv /\ J /\ [Next]_vars => J'
  BY ReachStep, EmptyStep, FlagsStep, CopiesStep, SkipStep, MirrorStep
<1> HIDE DEF J
<1>3. J => MirrorsServer
  BY DEF J
<1> QED
  BY <1>1, <1>2, <1>3, InvHolds, PTL DEF Spec
=============================================================================
