----------------------------- MODULE FolderSync ----------------------------
(***************************************************************************)
(* One IMAP folder and the store's copy of it: sync_folder and fetch_new   *)
(* of core-proto, the folder and message_location tables of core-store.    *)
(*                                                                         *)
(* A first pass walks down from the newest mail in batches and writes a    *)
(* bookmark after each (backfill_uid); passes after it fill the hole, add  *)
(* what is new above, and reconcile flags and expunges; a new UIDVALIDITY  *)
(* starts over; an unchanged HIGHESTMODSEQ skips the folder.  The pass may *)
(* stop at any step, and the mailbox changes under it.                     *)
(*                                                                         *)
(* Where a batch ends is left open, which is all plan_batches decides: any *)
(* stretch of the UIDs listed may be one.                                  *)
(***************************************************************************)
EXTENDS Integers, FiniteSets, FiniteSetsExt

CONSTANTS
  Mail,         (* messages that may be in the folder                    *)
  Unparseable,  (* those parse_message cannot read                       *)
  None,         (* no message; SQL's NULL                                *)
  Condstore,    (* the server reports HIGHESTMODSEQ                      *)
  StopsBeforeBookmark, (* a walk may be stopped with mail of its first   *)
                (* batch stored and no bookmark written yet              *)
  MaxUid,       (* bound: UIDs handed out under one UIDVALIDITY          *)
  MaxStops,     (* bound: passes stopped                                 *)
  MaxChanges,   (* bound: flags changed, messages expunged               *)
  MaxRenumber   (* bound: new UIDVALIDITYs                               *)

Uid == 1..MaxUid

ASSUME MailAssumption == None \notin Mail /\ Unparseable \subseteq Mail
ASSUME FolderAssumption ==
  IsFiniteSet(Mail) /\ Cardinality(Mail) \in 1..MaxUid + 1
ASSUME ChoiceAssumption == Condstore \in BOOLEAN /\ StopsBeforeBookmark \in BOOLEAN
ASSUME BoundAssumption ==
  /\ MaxUid \in Nat /\ MaxStops \in Nat /\ MaxChanges \in Nat
  /\ MaxRenumber \in Nat

VARIABLES
  (* The server.                                                         *)
  box,        (* message and flags at each UID                           *)
  uidNext, validity, modseq,
  changedAt,  (* the MODSEQ of each UID's flags                          *)
  (* The store.                                                          *)
  held,       (* message_location                                        *)
  row,        (* folder: uid_validity, highest_modseq, backfill_uid      *)
  (* The pass.                                                           *)
  pc,
  cached,     (* the row as it was read first                            *)
  opened,     (* what EXAMINE answered                                   *)
  first,      (* first_pass                                              *)
  since,      (* known_modseq                                            *)
  direction,  (* adding at the top, walking down, doing so below this    *)
              (* walk's first bookmark, or filling an older hole         *)
  fresh,      (* UIDs listed above what was held, not yet fetched        *)
  behind,     (* UIDs listed in the hole, not yet fetched                *)
  lowest,     (* the lowest UID of the batch in hand                     *)
  batch,      (* what FETCH answered for it, not yet stored              *)
  (* Bounds and history.                                                 *)
  still,      (* the mailbox has not changed since EXAMINE               *)
  walk,       (* whether a first pass was stopped, and the folder        *)
              (* renumbered before it was taken up again                 *)
  stops, changes

server == <<box, uidNext, validity, modseq, changedAt>>
store  == <<held, row>>
lists  == <<direction, fresh, behind, lowest, batch>>
pass   == <<cached, opened, first, since, lists>>
history == <<still, walk, stops, changes>>
vars   == <<server, store, pc, pass, history>>

Copy   == [mail : Mail, seen : {"yes", "no"}]
Copies == [Uid -> Copy \cup {None}]
OrNull(S) == S \cup {None}

(* No message and no number is NULL.                                       *)
ASSUME NullAssumption == None \notin Copy /\ None \notin Nat

Row == [validity : OrNull(Nat), modseq : OrNull(Nat), owed : OrNull(Uid)]

TypeOK ==
  /\ box \in Copies /\ held \in Copies
  /\ uidNext \in 1..MaxUid + 1 /\ validity \in Nat /\ modseq \in Nat
  /\ changedAt \in [Uid -> Nat]
  /\ row \in Row /\ cached \in Row
  /\ pc \in {"idle", "list", "fetch", "store", "flags", "expunge", "record"}
  /\ opened \in [validity : Nat, uidNext : 1..MaxUid + 1, modseq : OrNull(Nat)]
  /\ first \in {"yes", "no"}
  /\ since \in OrNull(Nat)
  /\ direction \in {"up", "down", "lower", "hole"}
  /\ fresh \subseteq Uid /\ behind \subseteq Uid
  /\ lowest \in OrNull(Uid)
  /\ batch \in Copies
  /\ still \in {"yes", "no"} /\ walk \in {"whole", "stopped", "mixed"}
  /\ stops \in 0..MaxStops /\ changes \in 0..MaxChanges

-----------------------------------------------------------------------------
(* The server.                                                             *)

On(b) == {u \in Uid : b[u] # None}

NoCopies == [u \in Uid |-> None]

(* A folder with some mail in it, and a store that never heard of it.      *)
Init ==
  /\ uidNext = Cardinality(Mail)
  /\ \E mailAt \in [1..uidNext - 1 -> Mail] :
       /\ \A u, v \in 1..uidNext - 1 : mailAt[u] = mailAt[v] => u = v
       /\ box = [u \in Uid |-> IF u < uidNext
                  THEN [mail |-> mailAt[u], seen |-> "no"] ELSE None]
  /\ validity = 1 /\ modseq = 1
  /\ changedAt = [u \in Uid |-> IF u < uidNext THEN 1 ELSE 0]
  /\ held = NoCopies
  /\ row = [validity |-> None, modseq |-> None, owed |-> None]
  /\ pc = "idle"
  /\ cached = row
  /\ opened = [validity |-> 1, uidNext |-> 1, modseq |-> None]
  /\ first = "no" /\ since = None
  /\ direction = "up" /\ fresh = {} /\ behind = {}
  /\ lowest = None /\ batch = NoCopies
  /\ still = "no" /\ walk = "whole" /\ stops = 0 /\ changes = 0

Changed(u) ==
  /\ modseq' = modseq + 1
  /\ changedAt' = [changedAt EXCEPT ![u] = modseq + 1]
  /\ still' = "no"
  /\ UNCHANGED <<validity, store, pc, pass, walk, stops>>

Deliver(m) ==
  /\ uidNext <= MaxUid
  /\ \A u \in On(box) : box[u].mail # m
  /\ box' = [box EXCEPT ![uidNext] = [mail |-> m, seen |-> "no"]]
  /\ uidNext' = uidNext + 1
  /\ Changed(uidNext)
  /\ UNCHANGED changes

MarkSeen(u) ==
  /\ changes < MaxChanges /\ changes' = changes + 1
  /\ u \in On(box) /\ box[u].seen = "no"
  /\ box' = [box EXCEPT ![u].seen = "yes"]
  /\ Changed(u)
  /\ UNCHANGED uidNext

Expunge(u) ==
  /\ changes < MaxChanges /\ changes' = changes + 1
  /\ u \in On(box)
  /\ box' = [box EXCEPT ![u] = None]
  /\ Changed(u)
  /\ UNCHANGED uidNext

(* The folder is rebuilt under a new UIDVALIDITY, in any order; never      *)
(* under an open session.                                                  *)
Renumber ==
  /\ validity <= MaxRenumber
  /\ pc = "idle"
  /\ LET k == Cardinality(On(box))
     IN  /\ \E at \in [1..k -> On(box)] :
              /\ \A u, v \in 1..k : at[u] = at[v] => u = v
              /\ box' = [u \in Uid |-> IF u <= k THEN box[at[u]] ELSE None]
         /\ uidNext' = k + 1
         /\ changedAt' = [u \in Uid |-> IF u <= k THEN 1 ELSE 0]
  /\ validity' = validity + 1
  /\ modseq' = 1
  /\ still' = "no"
  /\ walk' = IF row.validity = None /\ On(held) # {} THEN "mixed" ELSE walk
  /\ UNCHANGED <<store, pc, pass, stops, changes>>

-----------------------------------------------------------------------------
(* sync_folder.                                                            *)

(* Nothing changed since the last pass, and no history is owed.            *)
Unchanged ==
  /\ since' # None /\ first' = "no" /\ cached'.owed = None
  /\ since' = opened'.modseq

(* Mutant: a renumbered folder keeps its UIDs.                             *)
NeverRenumbered == FALSE

Renumbered == row.validity # None /\ row.validity # validity

(* upsert_folder, EXAMINE, and what follows from the two: a renumbered     *)
(* folder starts over, but for the hole it owed, which was read before.    *)
Examine ==
  /\ pc = "idle"
  /\ cached' = row
  /\ opened' = [validity |-> validity, uidNext |-> uidNext,
                modseq |-> IF Condstore THEN modseq ELSE None]
  /\ first' = IF row.validity = None \/ Renumbered THEN "yes" ELSE "no"
  /\ since' = IF Renumbered THEN None ELSE row.modseq
  /\ IF Renumbered
     THEN /\ held' = NoCopies
          /\ row' = [row EXCEPT !.modseq = None, !.owed = None]
     ELSE UNCHANGED store
  /\ pc' = IF Unchanged THEN "idle" ELSE "list"
  /\ still' = "yes"
  /\ UNCHANGED <<server, lists, walk, stops, changes>>

NextStage == IF first = "yes" THEN "record" ELSE "flags"

Start == IF On(held) = {} THEN 1 ELSE Max(On(held)) + 1

(* fetch_new: what is above the highest UID held, and what is owed.        *)
List ==
  /\ pc = "list"
  /\ direction' = IF On(held) = {} THEN "down" ELSE "up"
  /\ fresh' = IF Start >= opened.uidNext THEN {} ELSE {u \in On(box) : u >= Start}
  /\ behind' = {u \in On(box) : cached.owed # None /\ u <= cached.owed}
  /\ pc' = IF Start >= opened.uidNext /\ cached.owed = None
           THEN NextStage ELSE "fetch"
  /\ UNCHANGED <<server, store, cached, opened, first, since, lowest, batch,
                 history>>

(* The batches of a list, from the top or from the bottom.                 *)
BatchesFrom(listed, way) ==
  {b \in SUBSET listed :
     /\ b # {}
     /\ \A u \in b, v \in listed \ b : IF way = "up" THEN u < v ELSE v < u}

FetchFrom(b) ==
  /\ lowest' = Min(b)
  /\ batch' = [u \in Uid |-> IF u \in b THEN box[u] ELSE None]
  /\ pc' = "store"
  /\ UNCHANGED <<server, store, cached, opened, first, since, history>>

FetchFresh ==
  /\ pc = "fetch"
  /\ \E b \in BatchesFrom(fresh, direction) :
       FetchFrom(b) /\ fresh' = fresh \ b
  /\ UNCHANGED <<direction, behind>>

FetchBehind ==
  /\ pc = "fetch" /\ fresh = {}
  /\ \E b \in BatchesFrom(behind, "hole") :
       FetchFrom(b) /\ behind' = behind \ b
  /\ direction' = "hole"
  /\ UNCHANGED fresh

(* store_message, in the order of the UIDs, as servers answer a FETCH.     *)
StoreOne ==
  /\ pc = "store"
  /\ \E u \in On(batch) :
       /\ \A v \in On(batch) : u <= v
       /\ held' = [held EXCEPT ![u] =
                     IF batch[u].mail \in Unparseable THEN @ ELSE batch[u]]
       /\ batch' = [batch EXCEPT ![u] = None]
  /\ UNCHANGED <<server, row, pc, cached, opened, first, since, direction,
                 fresh, behind, lowest, history>>

(* Mutants: the bookmark is forgotten, or is UID 0 at the bottom.          *)
NothingOwed(lo) == None
OwedDownTo0(lo) == lo - 1

StillOwed(lo) == IF lo > 1 THEN lo - 1 ELSE None

(* The batch is stored: set_folder_backfill, but not when it was fetched   *)
(* upwards, above what was held.                                           *)
Bookmark ==
  /\ pc = "store" /\ On(batch) = {}
  /\ row' = IF direction = "up" THEN row
            ELSE [row EXCEPT !.owed = StillOwed(lowest)]
  /\ direction' = IF direction = "down" THEN "lower" ELSE direction
  /\ lowest' = None
  /\ pc' = "fetch"
  /\ UNCHANGED <<server, held, cached, opened, first, since, fresh, behind,
                 batch, history>>

FetchDone ==
  /\ pc = "fetch" /\ fresh = {} /\ behind = {}
  /\ row' = IF direction = "up" /\ cached.owed = None
            THEN row ELSE [row EXCEPT !.owed = None]
  /\ pc' = NextStage
  /\ UNCHANGED <<server, held, pass, history>>

(* apply_flag_changes: all flags when no MODSEQ is known.                  *)
ApplyFlags ==
  /\ pc = "flags"
  /\ held' = [u \in Uid |->
       IF u \in On(held) \cap On(box) /\ (since = None \/ changedAt[u] > since)
       THEN [held[u] EXCEPT !.seen = box[u].seen] ELSE held[u]]
  /\ pc' = "expunge"
  /\ UNCHANGED <<server, row, pass, history>>

(* Mutant: expunged messages are left to a later pass.                     *)
KeepExpunged ==
  /\ pc = "expunge"
  /\ pc' = "record"
  /\ UNCHANGED <<server, store, pass, history>>

ApplyExpunges ==
  /\ pc = "expunge"
  /\ held' = [u \in Uid |-> IF u \in On(box) THEN held[u] ELSE None]
  /\ pc' = "record"
  /\ UNCHANGED <<server, row, pass, history>>

(* Mutant: the folder's state is asked for once more at the end.           *)
RecordStateNow ==
  /\ pc = "record"
  /\ row' = [row EXCEPT !.validity = validity,
                        !.modseq = IF Condstore THEN modseq ELSE None]
  /\ pc' = "idle"
  /\ UNCHANGED <<server, held, pass, history>>

(* set_folder_sync_state, with what EXAMINE answered.                      *)
RecordState ==
  /\ pc = "record"
  /\ row' = [row EXCEPT !.validity = opened.validity, !.modseq = opened.modseq]
  /\ pc' = "idle"
  /\ UNCHANGED <<server, held, pass, history>>

(* The laptop is closed, the connection breaks, the store cannot be        *)
(* written: the pass ends where it is, and what it wrote stays.            *)
BeforeBookmark ==
  /\ pc = "store" /\ direction = "down"
  /\ row.validity \in {None, validity}

Stop ==
  /\ pc # "idle"
  /\ stops < MaxStops
  /\ BeforeBookmark => StopsBeforeBookmark
  /\ stops' = stops + 1
  /\ walk' = IF row.validity = None /\ walk = "whole" THEN "stopped" ELSE walk
  /\ pc' = "idle"
  /\ still' = "no"
  /\ fresh' = {} /\ behind' = {} /\ lowest' = None /\ batch' = NoCopies
  /\ UNCHANGED <<server, store, cached, opened, first, since, direction, changes>>

Pass ==
  \/ Examine \/ List \/ FetchFresh \/ FetchBehind \/ StoreOne \/ Bookmark
  \/ FetchDone \/ ApplyFlags \/ ApplyExpunges \/ RecordState

Mailbox ==
  \/ \E m \in Mail : Deliver(m)
  \/ \E u \in Uid : MarkSeen(u) \/ Expunge(u)
  \/ Renumber

Next == Pass \/ Stop \/ Mailbox

Spec == Init /\ [][Next]_vars

(* The window syncs every five minutes.                                    *)
FairSpec == Spec /\ WF_vars(Pass)

-----------------------------------------------------------------------------
(* Properties.                                                             *)

Parseable(u) == box[u].mail \notin Unparseable

(* What the next pass will ask for.                                        *)
Reachable(u) ==
  \/ On(held) = {} \/ u > Max(On(held))
  \/ row.owed # None /\ u <= row.owed
  \/ Renumbered

(* "A sync stopped by a closed laptop must resume inside the hole it left, *)
(* not above it, or the mail in between is never fetched at all": between  *)
(* two passes, a message the store lacks is one the next pass asks for.    *)
NothingUnreachable ==
  pc = "idle" /\ walk # "mixed" => \A u \in On(box) : Parseable(u) =>
                   held[u] # None \/ Reachable(u)

(* "Anything less than a rebuild risks attaching stored messages to the    *)
(* wrong mail": under the UIDVALIDITY the store recorded, no UID it holds  *)
(* is another message's on the server.                                     *)
HeldIsRight ==
  row.validity = validity /\ walk # "mixed" =>
    \A u \in On(held) \cap On(box) : held[u].mail = box[u].mail

Mirrored ==
  \A u \in Uid : held[u] = IF u \in On(box) /\ Parseable(u) THEN box[u] ELSE None

(* A pass that ends while nothing changes leaves the store with what the   *)
(* server has: also one that skips the folder, comes back to a half-walked *)
(* one, or starts over; messages, flags and expunges.  (Not a first pass   *)
(* that was stopped and is taken up again: it reconciles nothing.)         *)
MirrorsServer ==
  pc = "idle" /\ still = "yes" /\ walk = "whole" => Mirrored

(* A mailbox left alone is mirrored in the end, however often passes were  *)
(* stopped before.                                                         *)
EventuallyMirrored ==
  ([](walk = "whole")) => <>[]Mirrored
=============================================================================
