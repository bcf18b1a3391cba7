--------------------------- MODULE MutationsProofs ---------------------------
(***************************************************************************)
(* Type correctness of Mutations, that no message is lost, that none is    *)
(* changed in place of another, and that a server with MOVE never holds    *)
(* one twice, for any messages, folders, operations and flushers.          *)
(*                                                                         *)
(* They rest on what a session is good for.  From the look at a UID to the *)
(* last command on it the folder stays open, so it is not renumbered; and  *)
(* a UID below UIDNEXT is given to nothing else.  So what is found there   *)
(* later is what the probe has seen, or nothing (AimOK).  A copy is        *)
(* appended above everything anybody is aiming at, and the original is     *)
(* marked only after that: at every moment a message has a copy nobody is  *)
(* about to mark (SafeOK), also with several moves of it under way.        *)
(***************************************************************************)
EXTENDS Mutations, TLAPS, FiniteSetTheorems, FunctionTheorems

GoodRow == {r \in Row : r.kind = "move" => r.target \in Folder}

RowsOK ==
  /\ row \in [OpId -> GoodRow \cup {None}]
  /\ \A p \in Flusher :
       /\ todo[p] \subseteq GoodRow
       /\ pc[p] \in {"probe", "act", "mark", "expunge", "settle"} => hand[p] \in GoodRow

(* UIDs from UIDNEXT on are vacant.                                        *)
BoxOK == \A f \in Folder, u \in Uid : u >= uidNext[f] => box[f][u] = None

(* A flusher that has looked at its UID has the folder open.               *)
Aiming(p) == pc[p] \in {"act", "mark", "expunge"}

SessionOK ==
  \A p \in Flusher :
    /\ pc[p] = "probe" => selected[p] = hand[p].folder
    /\ Aiming(p) => selected[p] = hand[p].folder /\ hand[p].uid < uidNext[hand[p].folder]

(* What a move by COPY is about to mark or to expunge.                     *)
Doomed(c) ==
  \E p \in Flusher : pc[p] \in {"mark", "expunge"} /\ c = <<hand[p].folder, hand[p].uid>>

SafeOK == \A m \in Mail \ discarded : \E c \in Kept(m) : ~Doomed(c)

IInv == TypeOK /\ RowsOK /\ BoxOK /\ SessionOK /\ SafeOK

(* At the UID is still the message the operation is for, or nothing.       *)
AimOK == \A p \in Flusher : Aiming(p) => Target(p) \in {None, hand[p].mail}

DistinctIds == \A m, n \in Mail : MessageIdOf[m] = MessageIdOf[n] => m = n

-----------------------------------------------------------------------------
(* The operations on a mailbox.                                            *)

LEMMA UidType == Uid \subseteq Nat \ {0} /\ IsFiniteSet(Uid) /\ Cardinality(Uid) = MaxUid
BY BoundAssumption, FS_Interval DEF Uid

LEMMA CopyType ==
  ASSUME NEW m \in Mail, NEW mark \in {"kept", "deleted"}
  PROVE  /\ [mail |-> m, mark |-> mark] \in Copy
         /\ [mail |-> m, mark |-> mark] # None
BY CopyAssumption DEF Copy

LEMMA MailAtType ==
  ASSUME TypeOK, NEW f \in Folder, NEW u \in Uid
  PROVE  /\ MailAt(box, f, u) \in Mail \cup {None}
         /\ MailAt(box, f, u) = None <=> box[f][u] = None
         /\ box[f][u] # None => box[f][u] \in Copy /\ MailAt(box, f, u) = box[f][u].mail
<1>1. box[f][u] \in Copy \cup {None}
  BY DEF TypeOK, Copies
<1> QED
  BY <1>1, NameAssumption DEF MailAt, Copy

(* What is appended goes to one place only.                                *)
LEMMA Appended ==
  ASSUME NEW b \in [Folder -> Copies], NEW g \in Folder, NEW m \in Mail,
         TypeOK, HasRoom(g)
  PROVE  /\ WithCopy(b, g, m) \in [Folder -> Copies]
         /\ uidNext[g] \in Uid
         /\ WithCopy(b, g, m)[g][uidNext[g]] = [mail |-> m, mark |-> "kept"]
         /\ \A f \in Folder, u \in Uid :
              f # g \/ u # uidNext[g] => WithCopy(b, g, m)[f][u] = b[f][u]
<1>1. uidNext[g] \in Uid
  BY BoundAssumption DEF TypeOK, HasRoom, Uid
<1> QED
  BY <1>1, CopyType DEF WithCopy, Copies

(* A renumbered folder has the same messages.                              *)
LEMMA Renumbered ==
  ASSUME NEW S \in SUBSET Uid, NEW at \in [1..Cardinality(S) -> S],
         \A i, j \in 1..Cardinality(S) : at[i] = at[j] => i = j
  PROVE  /\ Cardinality(S) \in 0..MaxUid
         /\ 1..Cardinality(S) \subseteq Uid
         /\ \A u \in S : \E i \in 1..Cardinality(S) : at[i] = u
<1>1. IsFiniteSet(S) /\ Cardinality(S) <= MaxUid /\ Cardinality(S) \in Nat
  BY UidType, FS_Subset, FS_CardinalityType
<1>2. IsFiniteSet(1..Cardinality(S)) /\ Cardinality(1..Cardinality(S)) = Cardinality(S)
  BY <1>1, FS_Interval
<1>3. at \in Injection(1..Cardinality(S), S)
  BY Fun_IsInj
<1>4. at \in Surjection(1..Cardinality(S), S)
  BY <1>1, <1>2, <1>3, FS_Injection
<1>5. \A u \in S : \E i \in 1..Cardinality(S) : at[i] = u
  BY <1>4 DEF Surjection
<1> QED
  BY <1>1, <1>5, BoundAssumption DEF Uid

(* What a command may do: nothing; append a copy of what is at its UID,    *)
(* the original staying or not; or take away what is at its UID.           *)
Aim(p) == <<hand[p].folder, hand[p].uid>>

Untouched(p) == \A f \in Folder, u \in Uid : <<f, u>> # Aim(p) => box'[f][u] = box[f][u]

(* A copy of what p has at its UID is appended to g.                       *)
Lands(p, g) ==
  /\ uidNext[g] \in Uid /\ uidNext' = [uidNext EXCEPT ![g] = @ + 1]
  /\ box'[g][uidNext[g]] = [mail |-> Target(p), mark |-> "kept"]
  /\ <<g, uidNext[g]>> # Aim(p)
  /\ box'[hand[p].folder][hand[p].uid] \in {None, box[hand[p].folder][hand[p].uid]}
  /\ \A f \in Folder, u \in Uid :
       <<f, u>> # Aim(p) /\ <<f, u>> # <<g, uidNext[g]>> => box'[f][u] = box[f][u]

LEMMA Effects ==
  ASSUME TypeOK, RowsOK, BoxOK, SessionOK, NEW p \in Flusher, Effect(p)
  PROVE  /\ Aiming(p) /\ hand[p] \in GoodRow
         /\ hand[p].folder \in Folder /\ hand[p].uid \in Uid /\ hand[p].mail \in Mail
         /\ box' \in [Folder -> Copies]
         /\ uidNext' \in [Folder -> 1..MaxUid + 1]
         /\ \/ /\ box' = box /\ uidNext' = uidNext
               /\ pc[p] = "act" /\ hand[p].kind = "move" => Target(p) = None
            \/ /\ pc[p] = "act" /\ hand[p].kind = "move" /\ Target(p) \in Mail
               /\ \E g \in Folder : Lands(p, g)
            \/ /\ pc[p] \in {"mark", "expunge"} /\ Target(p) \in Mail
               /\ Untouched(p) /\ uidNext' = uidNext
               /\ MailAt(box', hand[p].folder, hand[p].uid) \in {None, Target(p)}
<1> DEFINE f == hand[p].folder
           u == hand[p].uid
<1>1. Aiming(p) /\ hand[p] \in GoodRow
  BY DEF Effect, Aiming, RowsOK
<1>2. f \in Folder /\ u \in Uid /\ hand[p].mail \in Mail
  BY <1>1 DEF GoodRow, Row
<1>3. /\ Target(p) \in Mail \cup {None}
      /\ Target(p) = None <=> box[f][u] = None
      /\ Target(p) # None => box[f][u] \in Copy /\ Target(p) = box[f][u].mail
  BY <1>2, MailAtType DEF Target
<1>4. box \in [Folder -> Copies] /\ uidNext \in [Folder -> 1..MaxUid + 1]
  BY DEF TypeOK
<1>5. CASE /\ box' = box /\ uidNext' = uidNext
           /\ pc[p] = "act" /\ hand[p].kind = "move" => Target(p) = None
  BY <1>1, <1>2, <1>4, <1>5
<1>6. ASSUME pc[p] = "act", hand[p].kind = "move", Target(p) # None,
             NEW b, b \in {box, [box EXCEPT ![f][u] = None]}, Appends(p, b)
      PROVE  /\ box' \in [Folder -> Copies] /\ uidNext' \in [Folder -> 1..MaxUid + 1]
             /\ Target(p) \in Mail
             /\ \E g \in Folder : Lands(p, g)
  <2> DEFINE g == hand[p].target
  <2>1. g \in Folder /\ Target(p) \in Mail /\ HasRoom(g)
    BY <1>1, <1>3, <1>6 DEF GoodRow, Appends
  <2>2. /\ b \in [Folder -> Copies] /\ b[f][u] \in {None, box[f][u]}
        /\ \A h \in Folder, w \in Uid : <<h, w>> # Aim(p) => b[h][w] = box[h][w]
    BY <1>2, <1>4, <1>6 DEF Copies, Aim
  <2>3. box' = WithCopy(b, g, Target(p)) /\ uidNext' = [uidNext EXCEPT ![g] = @ + 1]
    BY <1>6 DEF Appends
  <2>4. /\ WithCopy(b, g, Target(p)) \in [Folder -> Copies]
        /\ uidNext[g] \in Uid
        /\ WithCopy(b, g, Target(p))[g][uidNext[g]] = [mail |-> Target(p), mark |-> "kept"]
        /\ \A h \in Folder, w \in Uid :
             h # g \/ w # uidNext[g] => WithCopy(b, g, Target(p))[h][w] = b[h][w]
    BY <2>1, <2>2, Appended
  <2>5. u < uidNext[f] /\ u \in Nat
    BY <1>1, <1>2, UidType DEF SessionOK
  <2>6. <<g, uidNext[g]>> # Aim(p) /\ (f # g \/ u # uidNext[g])
    BY <2>5 DEF Aim
  <2>7. uidNext' \in [Folder -> 1..MaxUid + 1]
    BY <1>4, <2>1, <2>3, <2>4, BoundAssumption DEF Uid
  <2>8. box'[f][u] \in {None, box[f][u]}
    BY <1>2, <2>2, <2>3, <2>4, <2>6
  <2>9. \A h \in Folder, w \in Uid :
          <<h, w>> # Aim(p) /\ <<h, w>> # <<g, uidNext[g]>> => box'[h][w] = box[h][w]
    BY <2>2, <2>3, <2>4
  <2> QED
    BY <2>1, <2>3, <2>4, <2>6, <2>7, <2>8, <2>9 DEF Lands
<1>7. CASE /\ pc[p] = "act" /\ hand[p].kind = "move" /\ Target(p) # None
           /\ Moves(p) \/ CopiesOver(p)
  BY <1>1, <1>2, <1>6, <1>7 DEF Moves, CopiesOver
<1>8. ASSUME pc[p] \in {"mark", "expunge"}, Target(p) # None, uidNext' = uidNext,
             NEW x \in Copy \cup {None}, x = None \/ x.mail = Target(p),
             box' = [box EXCEPT ![f][u] = x]
      PROVE  /\ box' \in [Folder -> Copies] /\ Untouched(p) /\ Target(p) \in Mail
             /\ MailAt(box', f, u) \in {None, Target(p)}
  BY <1>2, <1>3, <1>4, <1>8 DEF Copies, Untouched, Aim, MailAt
<1>9. CASE pc[p] = "mark" /\ Marks(p) /\ Target(p) # None
  <2>1. box' = [box EXCEPT ![f][u] = [box[f][u] EXCEPT !.mark = "deleted"]] /\ uidNext' = uidNext
    BY <1>2, <1>4, <1>9 DEF Marks, Copies
  <2>2. [box[f][u] EXCEPT !.mark = "deleted"] \in Copy
        /\ [box[f][u] EXCEPT !.mark = "deleted"].mail = Target(p)
    BY <1>3, <1>9 DEF Copy
  <2> QED
    BY <1>1, <1>2, <1>4, <1>8, <1>9, <2>1, <2>2
<1>10. CASE pc[p] = "expunge" /\ Expunges(p) /\ Target(p) # None /\ box' # box
  BY <1>1, <1>2, <1>4, <1>8, <1>10 DEF Expunges
<1> QED
  BY <1>3, <1>5, <1>7, <1>9, <1>10 DEF Effect, Appends, Moves, CopiesOver, Marks, Expunges

LEMMA AffectedType ==
  ASSUME TypeOK, RowsOK, BoxOK, SessionOK, NEW p \in Flusher, Effect(p)
  PROVE  Affected(p) \subseteq Mail
<1>1. hand[p].folder \in Folder /\ hand[p].uid \in Uid
  BY Effects
<1>2. Target(p) \in Mail \cup {None}
  BY <1>1, MailAtType DEF Target
<1>3. \A f \in Folder, u \in Uid : box[f][u] # None => box[f][u].mail \in Mail
  BY DEF TypeOK, Copies, Copy
<1> QED
  BY <1>2, <1>3 DEF Affected

-----------------------------------------------------------------------------
(* Type correctness.                                                       *)

LEMMA PersonTyped ==
  ASSUME TypeOK, Person
  PROVE  TypeOK'
<1>1. ASSUME NEW kind \in {"move", "flag"}, NEW m \in Mail, NEW target \in Folder \cup {None},
             NEW window \in {"none", "open"}, Enqueue(kind, m, target, window)
      PROVE  TypeOK'
  <2>1. made' \in 1..MaxOps /\ made + 1 \in 1..MaxOps
    BY <1>1, BoundAssumption DEF Enqueue, TypeOK
  <2>2. row' \in [OpId -> Row \cup {None}]
    <3>1. PICK c \in Chosen(m, target) :
            row' = [i \in OpId |->
              IF i = NextId
              THEN [id |-> i, serial |-> made + 1, state |-> "pending",
                    window |-> window, kind |-> kind, mail |-> m,
                    folder |-> c[1], uid |-> c[2],
                    validity |-> knownValidity[c[1]], target |-> target]
              ELSE IF Superseded(i, kind, m)
              THEN [row[i] EXCEPT !.state = "cancelled"] ELSE row[i]]
      BY <1>1 DEF Enqueue
    <3>2. c[1] \in Folder /\ c[2] \in Uid /\ knownValidity[c[1]] \in Nat
      BY DEF Chosen, Candidates, TypeOK
    <3>3. \A i \in OpId : row[i] \in Row \cup {None}
      BY DEF TypeOK
    <3>4. \A i \in OpId : Superseded(i, kind, m) => row[i] \in Row
      BY <3>3 DEF Superseded, Pending, Rows
    <3>5. \A r \in Row : [r EXCEPT !.state = "cancelled"] \in Row
      BY DEF Row, OpState
    <3>6. \A i \in OpId :
            [id |-> i, serial |-> made + 1, state |-> "pending",
             window |-> window, kind |-> kind, mail |-> m,
             folder |-> c[1], uid |-> c[2],
             validity |-> knownValidity[c[1]], target |-> target] \in Row
      BY <2>1, <3>2 DEF Row, OpState
    <3> QED
      BY <3>1, <3>3, <3>4, <3>5, <3>6
  <2> QED
    BY <1>1, <2>1, <2>2, BoundAssumption DEF Enqueue, TypeOK, server, seen, conn, told
<1>2. CASE Undo
  <2>1. PICK i \in OpId : Offered(i) /\ row' = [row EXCEPT ![i].state = "cancelled"]
    BY <1>2 DEF Undo
  <2>2. row[i] \in Row
    BY <2>1 DEF Offered, Pending, Rows, TypeOK
  <2>3. [row[i] EXCEPT !.state = "cancelled"] \in Row
    BY <2>2 DEF Row, OpState
  <2> QED
    BY <1>2, <2>1, <2>3 DEF Undo, TypeOK, server, seen, conn, told, bounds
<1> QED
  BY <1>1, <1>2 DEF Person

LEMMA EnvironmentTyped ==
  ASSUME TypeOK, Environment
  PROVE  TypeOK'
<1>1. ASSUME NEW f \in Folder, NEW u \in Uid, OtherDeletes(f, u)
      PROVE  TypeOK'
  <2>1. box[f][u] \in Copy
    BY <1>1 DEF OtherDeletes, Occupied, TypeOK, Copies
  <2>2. [box[f][u] EXCEPT !.mark = "deleted"] \in Copy /\ box[f][u].mail \in Mail
    BY <2>1 DEF Copy
  <2>3. \/ box' = [box EXCEPT ![f][u] = None]
        \/ box' = [box EXCEPT ![f][u] = [box[f][u] EXCEPT !.mark = "deleted"]]
    BY <1>1 DEF OtherDeletes, TypeOK, Copies
  <2>4. \A x \in Copy \cup {None} : [box EXCEPT ![f][u] = x] \in [Folder -> Copies]
    BY DEF TypeOK, Copies
  <2>5. box' \in [Folder -> Copies]
    BY <2>2, <2>3, <2>4
  <2> QED
    BY <1>1, <2>2, <2>5, BoundAssumption DEF OtherDeletes, TypeOK, seen, conn, told
<1>2. ASSUME NEW f \in Folder, NEW g \in Folder, NEW u \in Uid, OtherMoves(f, u, g)
      PROVE  TypeOK'
  <2>1. box[f][u].mail \in Mail /\ HasRoom(g)
    BY <1>2 DEF OtherMoves, Occupied, TypeOK, Copies, Copy
  <2>2. WithCopy(box, g, box[f][u].mail) \in [Folder -> Copies] /\ uidNext[g] \in Uid
    BY <2>1, Appended DEF TypeOK
  <2>3. box' \in [Folder -> Copies]
    BY <1>2, <2>2 DEF OtherMoves, Copies
  <2>4. uidNext' \in [Folder -> 1..MaxUid + 1]
    BY <1>2, <2>2, BoundAssumption DEF OtherMoves, TypeOK, Uid
  <2> QED
    BY <1>2, <2>1, <2>3, <2>4, BoundAssumption DEF OtherMoves, TypeOK, seen, conn, told
<1>3. ASSUME NEW f \in Folder, Renumber(f)
      PROVE  TypeOK'
  <2> DEFINE S == Occupied(f)
             k == Cardinality(S)
  <2>1. PICK at \in [1..k -> S] :
          /\ \A i, j \in 1..k : at[i] = at[j] => i = j
          /\ box' = [box EXCEPT ![f] =
                       [u \in Uid |-> IF u <= k THEN box[f][at[u]] ELSE None]]
    BY <1>3 DEF Renumber
  <2>2. S \subseteq Uid
    BY DEF Occupied
  <2>3. k \in 0..MaxUid
    BY <2>1, <2>2, Renumbered
  <2>4. \A u \in Uid : u <= k => u \in 1..k /\ at[u] \in Uid
    BY <2>1, <2>2, <2>3, UidType
  <2> DEFINE rebuilt == [u \in Uid |-> IF u <= k THEN box[f][at[u]] ELSE None]
  <2>5. box' \in [Folder -> Copies]
    <3>1. \A u \in Uid : box[f][u] \in Copy \cup {None}
      BY DEF TypeOK, Copies
    <3>2. rebuilt \in Copies
      BY <2>4, <3>1 DEF Copies
    <3>3. box' = [box EXCEPT ![f] = rebuilt]
      BY <2>1
    <3> HIDE DEF rebuilt
    <3> QED
      BY <3>2, <3>3 DEF TypeOK
  <2>6. uidNext' \in [Folder -> 1..MaxUid + 1]
    <3>1. uidNext' = [uidNext EXCEPT ![f] = k + 1]
      BY <1>3 DEF Renumber
    <3>2. k + 1 \in 1..MaxUid + 1
      BY <2>3, BoundAssumption
    <3> HIDE DEF k
    <3> QED
      BY <3>1, <3>2 DEF TypeOK
  <2>7. validity' \in [Folder -> Nat] /\ others' \in 0..MaxOthers
    BY <1>3, BoundAssumption DEF Renumber, TypeOK
  <2> QED
    BY <1>3, <2>5, <2>6, <2>7 DEF Renumber, TypeOK, seen, conn, told
<1>4. ASSUME NEW i \in OpId, WindowElapses(i)
      PROVE  TypeOK'
  <2>1. row[i] \in Row
    BY <1>4 DEF WindowElapses, Rows, TypeOK
  <2>2. [row[i] EXCEPT !.window = "elapsed"] \in Row
    BY <2>1 DEF Row
  <2> QED
    BY <1>4, <2>2 DEF WindowElapses, TypeOK, server, seen, conn, told, bounds
<1> QED
  BY <1>1, <1>2, <1>3, <1>4 DEF Environment

LEMMA EffectTyped ==
  ASSUME TypeOK, RowsOK, BoxOK, SessionOK, NEW p \in Flusher, Effect(p)
  PROVE  /\ box' \in [Folder -> Copies] /\ uidNext' \in [Folder -> 1..MaxUid + 1]
         /\ asked' \subseteq Row /\ touched' \subseteq Mail \X Mail
<1>1. /\ hand[p] \in Row /\ hand[p].mail \in Mail
      /\ box' \in [Folder -> Copies] /\ uidNext' \in [Folder -> 1..MaxUid + 1]
  BY Effects DEF GoodRow
<1>2. Affected(p) \subseteq Mail
  BY AffectedType
<1> QED
  BY <1>1, <1>2 DEF Effect, Touch, TypeOK

LEMMA FlusherTyped ==
  ASSUME TypeOK, RowsOK, BoxOK, SessionOK, NEW p \in Flusher,
         Flush(p) \/ Sync(p) \/ Breaks(p) \/ GivesUp(p)
  PROVE  TypeOK'
<1>1. CASE StartFlush(p)
  <2>1. {row[i] : i \in {j \in OpId : IsDue(j)}} \subseteq Row
    BY DEF IsDue, Pending, Rows, TypeOK
  <2> QED
    BY <1>1, <2>1 DEF StartFlush, TypeOK, Step, server, seen, told, bounds
<1>2. CASE Take(p)
  <2>1. PICK o \in Oldest(p) :
          /\ hand' = [hand EXCEPT ![p] = o]
          /\ todo' = [todo EXCEPT ![p] = @ \ {o}]
          /\ selected' = [selected EXCEPT ![p] = o.folder]
          /\ Decide(p, "failed") \/ GoTo(p, "probe")
    BY <1>2 DEF Take
  <2>2. o \in Row /\ o.folder \in Folder
    BY DEF Oldest, TypeOK, Row
  <2>3. /\ todo' \in [Flusher -> SUBSET Row] /\ hand' \in [Flusher -> Row \cup {None}]
        /\ selected' \in [Flusher -> Folder \cup {None}]
    BY <2>1, <2>2 DEF TypeOK
  <2>4. pc' \in [Flusher -> Step] /\ verdict' \in [Flusher -> OpState]
    BY <2>1 DEF Decide, GoTo, TypeOK, Step, OpState
  <2> QED
    BY <1>2, <2>3, <2>4 DEF Take, TypeOK, server, seen, told, bounds
<1>3. CASE Probe(p)
  BY <1>3 DEF Probe, Decide, GoTo, TypeOK, Step, OpState, server, seen, told, bounds
<1>4. CASE Command(p)
  <2>1. pc' \in [Flusher -> Step] /\ verdict' \in [Flusher -> OpState]
    BY <1>4 DEF Command, GoTo, Decide, TypeOK, Step, OpState
  <2> QED
    BY <1>4, <2>1, EffectTyped DEF Command, TypeOK, seen, bounds
<1>5. CASE Breaks(p)
  <2>1. pc' \in [Flusher -> Step] /\ verdict' \in [Flusher -> OpState]
    BY <1>5 DEF Breaks, Decide, AfterBreak, TypeOK, Step, OpState
  <2>2. errors' \in 0..MaxErrors
    BY <1>5, BoundAssumption DEF Breaks, TypeOK
  <2> QED
    BY <1>5, <2>1, <2>2, EffectTyped DEF Breaks, TypeOK, server, told, seen
<1>6. CASE Settle(p)
  <2> DEFINE v == verdict[p]
  <2>1. v \in OpState
    BY DEF TypeOK
  <2>2. \A r \in Row : [r EXCEPT !.state = v] \in Row
    <3> HIDE DEF v
    <3> QED
      BY <2>1 DEF Row
  <2>3. \A i \in OpId : row[i] # None => [row[i] EXCEPT !.state = verdict[p]] \in Row
    BY <2>2 DEF TypeOK
  <2>4. row' \in [OpId -> Row \cup {None}]
    BY <1>6, <2>3 DEF Settle, TypeOK
  <2> QED
    BY <1>6, <2>4 DEF Settle, Leave, TypeOK, Step, OpState, server, seen, told, bounds
<1>7. CASE Finish(p)
  BY <1>7 DEF Finish, StartSync, TypeOK, Step, server, seen, told, bounds
<1>8. ASSUME NEW f \in Folder, Invalidate(p, f)
      PROVE  TypeOK'
  BY <1>8 DEF Invalidate, WithoutOperationsOn, TypeOK, server, told, bounds
<1>9. ASSUME NEW f \in Folder, SyncFolder(p, f)
      PROVE  TypeOK'
  <2>1. \A u \in Uid : MailAt(box, f, u) \in Mail \cup {None}
    BY MailAtType
  <2> QED
    BY <1>9, <2>1 DEF SyncFolder, TypeOK, server, told, bounds
<1>10. CASE Collect(p)
  BY <1>10 DEF Collect, Leave, WithoutOperationsOn, TypeOK, Step, OpState,
               server, seen, told, bounds
<1>11. CASE GivesUp(p)
  BY <1>11, BoundAssumption DEF GivesUp, Leave, TypeOK, Step, OpState, server, seen, told
<1> QED
  BY <1>1, <1>2, <1>3, <1>4, <1>5, <1>6, <1>7, <1>8, <1>9, <1>10, <1>11 DEF Flush, Sync

LEMMA TypeStep ==
  ASSUME TypeOK, RowsOK, BoxOK, SessionOK, [Next]_vars
  PROVE  TypeOK'
<1>1. CASE UNCHANGED vars
  BY <1>1 DEF vars, server, seen, conn, told, bounds, TypeOK
<1> QED
  BY <1>1, PersonTyped, EnvironmentTyped, FlusherTyped DEF Next

-----------------------------------------------------------------------------
(* What the flushers hold are rows, and a move has a folder to go to.      *)

LEMMA GoodRows ==
  ASSUME NEW r \in GoodRow, NEW state \in OpState, NEW window \in {"none", "open", "elapsed"}
  PROVE  [r EXCEPT !.state = state] \in GoodRow /\ [r EXCEPT !.window = window] \in GoodRow
BY DEF GoodRow, Row

LEMMA EnqueuedGood ==
  ASSUME TypeOK, RowsOK, NEW kind \in {"move", "flag"}, NEW m \in Mail,
         NEW target \in Folder \cup {None}, kind = "move" => target \in Folder,
         NEW window \in {"none", "open"}, Enqueue(kind, m, target, window)
  PROVE  row' \in [OpId -> GoodRow \cup {None}]
<1>1. PICK c \in Chosen(m, target) :
        row' = [i \in OpId |->
          IF i = NextId
          THEN [id |-> i, serial |-> made + 1, state |-> "pending",
                window |-> window, kind |-> kind, mail |-> m,
                folder |-> c[1], uid |-> c[2],
                validity |-> knownValidity[c[1]], target |-> target]
          ELSE IF Superseded(i, kind, m)
          THEN [row[i] EXCEPT !.state = "cancelled"] ELSE row[i]]
  BY DEF Enqueue
<1>2. c[1] \in Folder /\ c[2] \in Uid /\ knownValidity[c[1]] \in Nat
  BY DEF Chosen, Candidates, TypeOK
<1>3. made + 1 \in 1..MaxOps
  BY BoundAssumption DEF Enqueue, TypeOK
<1>4. \A i \in OpId : row[i] \in GoodRow \cup {None}
  BY DEF RowsOK
<1>5. \A i \in OpId : Superseded(i, kind, m) => [row[i] EXCEPT !.state = "cancelled"] \in GoodRow
  BY <1>4, GoodRows DEF Superseded, Pending, Rows, OpState
<1>6. \A i \in OpId :
        [id |-> i, serial |-> made + 1, state |-> "pending",
         window |-> window, kind |-> kind, mail |-> m,
         folder |-> c[1], uid |-> c[2],
         validity |-> knownValidity[c[1]], target |-> target] \in GoodRow
  BY <1>2, <1>3 DEF GoodRow, Row, OpState
<1> QED
  BY <1>1, <1>4, <1>5, <1>6

LEMMA RowsStep ==
  ASSUME TypeOK, RowsOK, [Next]_vars
  PROVE  RowsOK'
<1>1. CASE UNCHANGED vars
  BY <1>1 DEF vars, conn, RowsOK
<1>2. CASE Person
  <2>1. CASE Undo
    <3>1. PICK i \in OpId : Offered(i) /\ row' = [row EXCEPT ![i].state = "cancelled"]
      BY <2>1 DEF Undo
    <3>2. [row[i] EXCEPT !.state = "cancelled"] \in GoodRow
      BY <3>1, GoodRows DEF Offered, Pending, Rows, RowsOK, OpState
    <3> QED
      BY <2>1, <3>1, <3>2 DEF Undo, RowsOK, conn
  <2>2. ASSUME NEW m \in Mail, NEW target \in Folder, NEW window \in {"none", "open"},
               Enqueue("move", m, target, window)
        PROVE  RowsOK'
    <3>1. row' \in [OpId -> GoodRow \cup {None}]
      BY <2>2, EnqueuedGood
    <3> QED
      BY <2>2, <3>1 DEF Enqueue, RowsOK, conn
  <2>3. ASSUME NEW m \in Mail, NEW window \in {"none", "open"}, Enqueue("flag", m, None, window)
        PROVE  RowsOK'
    <3>1. row' \in [OpId -> GoodRow \cup {None}]
      BY <2>3, EnqueuedGood
    <3> QED
      BY <2>3, <3>1 DEF Enqueue, RowsOK, conn
  <2> QED
    BY <1>2, <2>1, <2>2, <2>3 DEF Person
<1>3. CASE Environment
  <2>1. ASSUME NEW i \in OpId, WindowElapses(i)
        PROVE  RowsOK'
    <3>1. [row[i] EXCEPT !.window = "elapsed"] \in GoodRow
      BY <2>1, GoodRows DEF WindowElapses, Rows, RowsOK, OpState
    <3> QED
      BY <2>1, <3>1 DEF WindowElapses, RowsOK, conn
  <2> QED
    BY <1>3, <2>1 DEF Environment, OtherDeletes, OtherMoves, Renumber, RowsOK, conn
<1>4. ASSUME NEW p \in Flusher, StartFlush(p)
      PROVE  RowsOK'
  <2>1. {row[i] : i \in {j \in OpId : IsDue(j)}} \subseteq GoodRow
    BY DEF IsDue, Pending, Rows, RowsOK
  <2> QED
    BY <1>4, <2>1 DEF StartFlush, RowsOK, TypeOK
<1>5. ASSUME NEW p \in Flusher, Take(p)
      PROVE  RowsOK'
  <2>1. PICK o \in Oldest(p) :
          /\ hand' = [hand EXCEPT ![p] = o]
          /\ todo' = [todo EXCEPT ![p] = @ \ {o}]
          /\ Decide(p, "failed") \/ GoTo(p, "probe")
    BY <1>5 DEF Take
  <2>2. o \in GoodRow /\ row' = row
    BY <1>5 DEF Oldest, RowsOK, Take
  <2>3. \A q \in Flusher : q # p => pc'[q] = pc[q]
    BY <2>1 DEF Decide, GoTo, TypeOK
  <2> QED
    BY <2>1, <2>2, <2>3 DEF RowsOK, TypeOK
<1>6. ASSUME NEW p \in Flusher, Probe(p) \/ Command(p) \/ Breaks(p)
      PROVE  RowsOK'
  <2>1. pc[p] \in {"probe", "act", "mark", "expunge"} /\ row' = row /\ todo' = todo /\ hand' = hand
    BY <1>6 DEF Probe, Command, Effect, Breaks
  <2>2. \A q \in Flusher : q # p => pc'[q] = pc[q]
    BY <1>6 DEF Probe, Command, Breaks, Decide, GoTo, TypeOK
  <2> QED
    BY <2>1, <2>2 DEF RowsOK
<1>7. ASSUME NEW p \in Flusher, Settle(p)
      PROVE  RowsOK'
  <2> DEFINE v == verdict[p]
  <2>1. v \in OpState
    BY DEF TypeOK
  <2>2. \A i \in OpId : row[i] # None => [row[i] EXCEPT !.state = v] \in GoodRow
    <3> HIDE DEF v
    <3> QED
      BY <2>1, GoodRows DEF RowsOK
  <2>3. row' \in [OpId -> GoodRow \cup {None}]
    BY <1>7, <2>2 DEF Settle, RowsOK
  <2> QED
    BY <1>7, <2>3 DEF Settle, Leave, RowsOK, TypeOK
<1>8. ASSUME NEW p \in Flusher, Sync(p) \/ GivesUp(p) \/ Finish(p)
      PROVE  RowsOK'
  BY <1>8 DEF Sync, Invalidate, SyncFolder, Collect, WithoutOperationsOn, GivesUp, Leave,
              Finish, StartSync, RowsOK, TypeOK
<1> QED
  BY <1>1, <1>2, <1>3, <1>4, <1>5, <1>6, <1>7, <1>8 DEF Next, Flush

-----------------------------------------------------------------------------
(* What is at a UID, from one step to the next.                            *)

(* UIDNEXT grows, unless a folder nobody has open is renumbered.           *)
Grows(f) == uidNext'[f] >= uidNext[f]

IsOpen(f) == \E p \in Flusher : selected[p] = f

(* What is below UIDNEXT stays as it is, or goes.                          *)
Stays(f, u) == u < uidNext[f] => MailAt(box', f, u) \in {None, MailAt(box, f, u)}

LEMMA OneAppended ==
  ASSUME TypeOK, BoxOK, NEW g \in Folder, uidNext[g] \in Uid,
         uidNext' = [uidNext EXCEPT ![g] = @ + 1],
         \A f \in Folder, u \in Uid :
           f # g \/ u # uidNext[g] => box'[f][u] \in {None, box[f][u]}
  PROVE  BoxOK' /\ \A f \in Folder : Grows(f) /\ \A u \in Uid : Stays(f, u)
<1>1. \A f \in Folder : uidNext[f] \in Nat /\ uidNext'[f] \in Nat
  BY BoundAssumption DEF TypeOK
<1>2. \A f \in Folder : uidNext'[f] >= uidNext[f] /\ (f = g => uidNext'[f] = uidNext[f] + 1)
  BY <1>1 DEF TypeOK
<1>3. ASSUME NEW f \in Folder, NEW u \in Uid, u >= uidNext'[f]
      PROVE  box'[f][u] = None
  <2>1. u \in Nat /\ u >= uidNext[f] /\ (f # g \/ u # uidNext[g])
    BY <1>1, <1>2, <1>3, UidType
  <2> QED
    BY <2>1 DEF BoxOK
<1>4. ASSUME NEW f \in Folder, NEW u \in Uid, u < uidNext[f]
      PROVE  MailAt(box', f, u) \in {None, MailAt(box, f, u)}
  <2>1. f # g \/ u # uidNext[g]
    BY <1>1, <1>4, UidType
  <2> QED
    BY <2>1 DEF MailAt
<1> QED
  BY <1>2, <1>3, <1>4 DEF BoxOK, Grows, Stays

LEMMA BoxStep ==
  ASSUME TypeOK, RowsOK, BoxOK, SessionOK, [Next]_vars
  PROVE  /\ BoxOK'
         /\ \A f \in Folder : IsOpen(f) => Grows(f) /\ \A u \in Uid : Stays(f, u)
<1> DEFINE Goal == /\ BoxOK'
                   /\ \A f \in Folder : IsOpen(f) => Grows(f) /\ \A u \in Uid : Stays(f, u)
<1>1. uidNext \in [Folder -> 1..MaxUid + 1] /\ box \in [Folder -> Copies]
  BY DEF TypeOK
<1>2. CASE box' = box /\ uidNext' = uidNext
  BY <1>1, <1>2 DEF BoxOK, Grows, Stays
<1>3. ASSUME NEW f \in Folder, NEW u \in Uid, OtherDeletes(f, u)
      PROVE  Goal
  <2>1. box[f][u] \in Copy /\ box[f][u] # None /\ uidNext' = uidNext
    BY <1>1, <1>3 DEF OtherDeletes, Occupied, Copies
  <2>2. \A g \in Folder, w \in Uid : <<g, w>> # <<f, u>> => box'[g][w] = box[g][w]
    BY <1>1, <1>3 DEF OtherDeletes, Copies
  <2>3. box'[f][u] \in {None, [box[f][u] EXCEPT !.mark = "deleted"]}
    BY <1>1, <1>3 DEF OtherDeletes, Copies
  <2>4. MailAt(box', f, u) \in {None, MailAt(box, f, u)} /\ (u >= uidNext[f] => FALSE)
    BY <2>1, <2>3 DEF MailAt, Copy, BoxOK
  <2> QED
    BY <1>1, <2>1, <2>2, <2>4 DEF BoxOK, Grows, Stays, MailAt
<1>4. ASSUME NEW f \in Folder, NEW g \in Folder, NEW u \in Uid, OtherMoves(f, u, g)
      PROVE  Goal
  <2> DEFINE m == box[f][u].mail
  <2>1. m \in Mail /\ HasRoom(g) /\ f # g
    BY <1>1, <1>4 DEF OtherMoves, Occupied, Copies, Copy
  <2>2. /\ WithCopy(box, g, m) \in [Folder -> Copies] /\ uidNext[g] \in Uid
        /\ \A h \in Folder, w \in Uid :
             h # g \/ w # uidNext[g] => WithCopy(box, g, m)[h][w] = box[h][w]
    BY <1>1, <2>1, Appended
  <2>3. /\ box' = [WithCopy(box, g, m) EXCEPT ![f][u] = None]
        /\ uidNext' = [uidNext EXCEPT ![g] = @ + 1]
    BY <1>4 DEF OtherMoves
  <2>4. \A h \in Folder, w \in Uid :
          h # g \/ w # uidNext[g] => box'[h][w] \in {None, box[h][w]}
    BY <2>2, <2>3 DEF Copies
  <2> QED
    BY <2>2, <2>3, <2>4, OneAppended
<1>5. ASSUME NEW f \in Folder, Renumber(f)
      PROVE  Goal
  <2> DEFINE k == Cardinality(Occupied(f))
  <2>1. PICK at \in [1..k -> Occupied(f)] :
          /\ \A i, j \in 1..k : at[i] = at[j] => i = j
          /\ box' = [box EXCEPT ![f] =
                       [u \in Uid |-> IF u <= k THEN box[f][at[u]] ELSE None]]
    BY <1>5 DEF Renumber
  <2>2. uidNext' = [uidNext EXCEPT ![f] = k + 1] /\ \A p \in Flusher : selected[p] # f
    BY <1>5 DEF Renumber
  <2>3. k \in 0..MaxUid
    <3>1. Occupied(f) \subseteq Uid
      BY DEF Occupied
    <3> QED
      BY <2>1, <3>1, Renumbered
  <2>4. \A g \in Folder : g # f => uidNext'[g] = uidNext[g] /\ box'[g] = box[g]
    BY <1>1, <2>1, <2>2
  <2>5. \A u \in Uid : u >= uidNext'[f] => box'[f][u] = None
    BY <1>1, <2>1, <2>2, <2>3, UidType, BoundAssumption
  <2> QED
    BY <1>1, <2>2, <2>4, <2>5 DEF BoxOK, IsOpen, Grows, Stays, MailAt
<1>6. ASSUME NEW p \in Flusher, Effect(p)
      PROVE  Goal
  <2>1. hand[p].folder \in Folder /\ hand[p].uid \in Uid /\ hand[p].uid < uidNext[hand[p].folder]
    BY <1>6, Effects DEF SessionOK
  <2>2. CASE box' = box /\ uidNext' = uidNext
    BY <1>2, <2>2
  <2>3. ASSUME NEW g \in Folder, Lands(p, g)
        PROVE  Goal
    <3>1. \A h \in Folder, w \in Uid :
            h # g \/ w # uidNext[g] => box'[h][w] \in {None, box[h][w]}
      BY <2>3 DEF Aim, Lands
    <3> QED
      BY <2>3, <3>1, OneAppended DEF Lands
  <2>4. CASE /\ Untouched(p) /\ uidNext' = uidNext
             /\ MailAt(box', hand[p].folder, hand[p].uid) \in {None, Target(p)}
    <3>1. \A f \in Folder, u \in Uid :
            f # hand[p].folder \/ u # hand[p].uid => box'[f][u] = box[f][u]
      BY <2>4 DEF Untouched, Aim
    <3>2. \A f \in Folder : uidNext[f] \in Nat
      BY <1>1, BoundAssumption
    <3>3. BoxOK'
      BY <2>1, <2>4, <3>1, <3>2, UidType DEF BoxOK
    <3>4. \A f \in Folder, u \in Uid : Stays(f, u)
      BY <2>4, <3>1 DEF Stays, MailAt, Target
    <3> QED
      BY <2>4, <3>2, <3>3, <3>4 DEF Grows
  <2>5. CASE pc[p] = "act" /\ ~(box' = box /\ uidNext' = uidNext)
    BY <1>6, <2>3, <2>5, Effects
  <2>6. CASE pc[p] \in {"mark", "expunge"} /\ ~(box' = box /\ uidNext' = uidNext)
    <3>1. /\ Untouched(p) /\ uidNext' = uidNext
          /\ MailAt(box', hand[p].folder, hand[p].uid) \in {None, Target(p)}
      BY <1>6, <2>6, Effects
    <3> QED
      BY <2>4, <3>1
  <2> HIDE DEF Goal
  <2> QED
    BY <1>6, <2>2, <2>5, <2>6 DEF Effect
<1> QED
  <2>1. CASE UNCHANGED vars
    BY <1>2, <2>1 DEF vars, server
  <2>2. CASE Person
    BY <1>2, <2>2 DEF Person, Enqueue, Undo, server
  <2>3. CASE Environment
    BY <1>2, <1>3, <1>4, <1>5, <2>3 DEF Environment, WindowElapses, server
  <2>4. ASSUME NEW p \in Flusher, Flush(p) \/ Sync(p) \/ Breaks(p) \/ GivesUp(p)
        PROVE  Goal
    <3>1. Effect(p) \/ UNCHANGED <<box, uidNext>>
      BY <2>4 DEF Flush, StartFlush, Take, Probe, Command, Settle, Finish, Sync, Invalidate,
                  SyncFolder, Collect, Breaks, GivesUp, server
    <3> QED
      BY <1>2, <1>6, <3>1
  <2> QED
    BY <2>1, <2>2, <2>3, <2>4 DEF Next

-----------------------------------------------------------------------------
(* From the probe to the last command the folder stays open.               *)

LEMMA ProbedRow ==
  ASSUME RowsOK, NEW p \in Flusher, pc[p] = "probe" \/ Aiming(p)
  PROVE  /\ hand[p] \in GoodRow
         /\ hand[p].folder \in Folder /\ hand[p].uid \in Uid /\ hand[p].mail \in Mail
BY DEF RowsOK, Aiming, GoodRow, Row

(* Which flusher moves on, and to where.                                   *)
LEMMA FlusherSteps ==
  ASSUME TypeOK, [Next]_vars
  PROVE  \A p \in Flusher :
           \/ pc'[p] = pc[p] /\ hand'[p] = hand[p] /\ selected'[p] = selected[p]
           \/ pc'[p] = "sync"
           \/ pc'[p] \in {"idle", "next", "settle"}
           \/ pc'[p] = "probe" /\ selected'[p] = hand'[p].folder
           \/ Probe(p) /\ pc'[p] = "act"
           \/ /\ Effect(p) /\ pc'[p] \in {"mark", "expunge"}
              /\ pc[p] = "act" => hand[p].kind = "move"
              /\ hand'[p] = hand[p] /\ selected'[p] = selected[p]
<1> DEFINE Goal(p) ==
           \/ pc'[p] = pc[p] /\ hand'[p] = hand[p] /\ selected'[p] = selected[p]
           \/ pc'[p] = "sync"
           \/ pc'[p] \in {"idle", "next", "settle"}
           \/ pc'[p] = "probe" /\ selected'[p] = hand'[p].folder
           \/ Probe(p) /\ pc'[p] = "act"
           \/ /\ Effect(p) /\ pc'[p] \in {"mark", "expunge"}
              /\ pc[p] = "act" => hand[p].kind = "move"
              /\ hand'[p] = hand[p] /\ selected'[p] = selected[p]
<1>1. ASSUME UNCHANGED <<pc, hand, selected>>
      PROVE  \A p \in Flusher : Goal(p)
  BY <1>1
<1>2. ASSUME NEW q \in Flusher, StartFlush(q)
      PROVE  \A p \in Flusher : Goal(p)
  BY <1>2 DEF StartFlush, TypeOK
<1>3. ASSUME NEW q \in Flusher, Take(q)
      PROVE  \A p \in Flusher : Goal(p)
  <2>1. PICK o \in Oldest(q) :
          /\ hand' = [hand EXCEPT ![q] = o]
          /\ selected' = [selected EXCEPT ![q] = o.folder]
          /\ Decide(q, "failed") \/ GoTo(q, "probe")
    BY <1>3 DEF Take
  <2> QED
    BY <2>1 DEF Decide, GoTo, TypeOK
<1>4. ASSUME NEW q \in Flusher, Probe(q)
      PROVE  \A p \in Flusher : Goal(p)
  <2>1. pc' = [pc EXCEPT ![q] = "settle"] \/ pc' = [pc EXCEPT ![q] = "act"]
    BY <1>4 DEF Probe, Decide, GoTo
  <2>2. UNCHANGED <<hand, selected>>
    BY <1>4 DEF Probe
  <2> QED
    BY <1>4, <2>1, <2>2 DEF TypeOK
<1>5. ASSUME NEW q \in Flusher, Command(q)
      PROVE  \A p \in Flusher : Goal(p)
  <2>1. \/ pc' = [pc EXCEPT ![q] = "settle"]
        \/ pc' = [pc EXCEPT ![q] = "mark"] /\ hand[q].kind = "move"
        \/ pc' = [pc EXCEPT ![q] = "expunge"] /\ pc[q] # "act"
    BY <1>5 DEF Command, Decide, GoTo
  <2>2. Effect(q) /\ UNCHANGED <<hand, selected>>
    BY <1>5 DEF Command
  <2> QED
    BY <2>1, <2>2 DEF TypeOK
<1>6. ASSUME NEW q \in Flusher, Breaks(q)
      PROVE  \A p \in Flusher : Goal(p)
  BY <1>6 DEF Breaks, Decide, TypeOK
<1>7. ASSUME NEW q \in Flusher, Settle(q)
      PROVE  \A p \in Flusher : Goal(p)
  BY <1>7 DEF Settle, Leave, TypeOK
<1>8. ASSUME NEW q \in Flusher, Finish(q) \/ Collect(q) \/ GivesUp(q)
      PROVE  \A p \in Flusher : Goal(p)
  BY <1>8 DEF Finish, StartSync, Collect, GivesUp, Leave, TypeOK
<1>9. ASSUME NEW q \in Flusher, NEW f \in Folder, Invalidate(q, f) \/ SyncFolder(q, f)
      PROVE  \A p \in Flusher : Goal(p)
  <2>1. /\ pc[q] = "sync" /\ selected' = [selected EXCEPT ![q] = f]
        /\ pc' = pc /\ hand' = hand
    BY <1>9 DEF Invalidate, SyncFolder
  <2> QED
    BY <2>1 DEF TypeOK
<1> HIDE DEF Goal
<1>10. ASSUME UNCHANGED vars \/ Person \/ Environment
       PROVE  \A p \in Flusher : Goal(p)
  BY <1>1, <1>10 DEF vars, conn, Person, Enqueue, Undo, Environment, OtherDeletes, OtherMoves,
                     Renumber, WindowElapses
<1>11. \A p \in Flusher : Goal(p)
  BY <1>2, <1>3, <1>4, <1>5, <1>6, <1>7, <1>8, <1>9, <1>10 DEF Next, Flush, Sync
<1> QED
  BY <1>11 DEF Goal

LEMMA SessionStep ==
  ASSUME TypeOK, RowsOK, BoxOK, SessionOK, [Next]_vars
  PROVE  SessionOK'
<1> SUFFICES ASSUME NEW p \in Flusher
             PROVE  /\ pc'[p] = "probe" => selected'[p] = hand'[p].folder
                    /\ pc'[p] \in {"act", "mark", "expunge"} =>
                         /\ selected'[p] = hand'[p].folder
                         /\ hand'[p].uid < uidNext'[hand'[p].folder]
  BY DEF SessionOK, Aiming
<1>1. ASSUME Aiming(p), hand'[p] = hand[p], selected'[p] = selected[p]
      PROVE  /\ selected'[p] = hand'[p].folder
             /\ hand'[p].uid < uidNext'[hand'[p].folder]
  <2>1. hand[p].folder \in Folder /\ hand[p].uid \in Nat
    BY <1>1, ProbedRow, UidType
  <2>2. selected[p] = hand[p].folder /\ hand[p].uid < uidNext[hand[p].folder]
    BY <1>1 DEF SessionOK
  <2>3. uidNext'[hand[p].folder] >= uidNext[hand[p].folder]
    BY <2>1, <2>2, BoxStep DEF IsOpen, Grows
  <2>4. uidNext'[hand[p].folder] \in Nat /\ uidNext[hand[p].folder] \in Nat
    BY <2>1, TypeStep, BoundAssumption DEF TypeOK
  <2> QED
    BY <1>1, <2>1, <2>2, <2>3, <2>4
<1>2. CASE pc'[p] = pc[p] /\ hand'[p] = hand[p] /\ selected'[p] = selected[p]
  BY <1>1, <1>2 DEF SessionOK, Aiming
<1>3. CASE Probe(p) /\ pc'[p] = "act"
  <2>1. Target(p) # None /\ hand' = hand /\ selected' = selected /\ uidNext' = uidNext
    BY <1>3 DEF Probe, Decide, TypeOK, server
  <2>2. pc[p] = "probe" /\ hand[p].folder \in Folder /\ hand[p].uid \in Uid
    BY <1>3, ProbedRow DEF Probe
  <2>3. box[hand[p].folder][hand[p].uid] # None
    BY <2>1 DEF Target, MailAt
  <2>4. ~(hand[p].uid >= uidNext[hand[p].folder])
    BY <2>2, <2>3 DEF BoxOK
  <2>5. hand[p].uid \in Nat /\ uidNext[hand[p].folder] \in Nat
    BY <2>2, UidType, BoundAssumption DEF TypeOK
  <2> QED
    BY <1>3, <2>1, <2>2, <2>4, <2>5 DEF SessionOK
<1>4. CASE /\ Effect(p) /\ pc'[p] \in {"mark", "expunge"}
           /\ hand'[p] = hand[p] /\ selected'[p] = selected[p]
  <2>1. Aiming(p)
    BY <1>4 DEF Effect, Aiming
  <2> QED
    BY <1>1, <1>4, <2>1
<1>5. CASE pc'[p] = "probe" /\ selected'[p] = hand'[p].folder
  BY <1>5
<1>6. CASE pc'[p] \in {"sync", "idle", "next", "settle"}
  BY <1>6
<1> QED
  BY <1>2, <1>3, <1>4, <1>5, <1>6, FlusherSteps

-----------------------------------------------------------------------------
(* A message that is not about to be marked anywhere.                      *)

Safe(m) == \E c \in Kept(m) : ~Doomed(c)

LEMMA DoomedPlaces ==
  ASSUME TypeOK, RowsOK, SessionOK, NEW c, Doomed(c)
  PROVE  /\ c \in Folder \X Uid /\ c[2] < uidNext[c[1]] /\ IsOpen(c[1])
<1>1. PICK p \in Flusher : pc[p] \in {"mark", "expunge"} /\ c = <<hand[p].folder, hand[p].uid>>
  BY DEF Doomed
<1>2. hand[p].folder \in Folder /\ hand[p].uid \in Uid
  BY <1>1, ProbedRow DEF Aiming
<1>3. selected[p] = hand[p].folder /\ hand[p].uid < uidNext[hand[p].folder]
  BY <1>1 DEF SessionOK, Aiming
<1> QED
  BY <1>1, <1>2, <1>3 DEF IsOpen

(* Only a move that has copied what it is at comes to threaten it.         *)
LEMMA NewlyDoomed ==
  ASSUME TypeOK, [Next]_vars, NEW c, Doomed(c)', ~Doomed(c)
  PROVE  \E p \in Flusher :
           /\ Effect(p) /\ pc[p] = "act" /\ hand[p].kind = "move" /\ c = Aim(p)
<1>1. PICK p \in Flusher : pc'[p] \in {"mark", "expunge"} /\ c = <<hand'[p].folder, hand'[p].uid>>
  BY DEF Doomed
<1>2. ~(pc[p] \in {"mark", "expunge"} /\ c = <<hand[p].folder, hand[p].uid>>)
  BY DEF Doomed
<1>3. /\ Effect(p) /\ hand'[p] = hand[p]
      /\ pc[p] = "act" => hand[p].kind = "move"
  BY <1>1, <1>2, FlusherSteps
<1>4. pc[p] = "act"
  BY <1>1, <1>2, <1>3 DEF Effect
<1> QED
  BY <1>1, <1>3, <1>4 DEF Aim

LEMMA DoomedNext ==
  ASSUME TypeOK, RowsOK, SessionOK, [Next]_vars, NEW c, Doomed(c)'
  PROVE  /\ c \in Folder \X Uid /\ c[2] < uidNext[c[1]] /\ IsOpen(c[1])
         /\ ~Doomed(c) =>
              \E p \in Flusher :
                Effect(p) /\ pc[p] = "act" /\ hand[p].kind = "move" /\ c = Aim(p)
<1>1. CASE Doomed(c)
  BY <1>1, DoomedPlaces
<1>2. CASE ~Doomed(c)
  <2>1. PICK p \in Flusher : Effect(p) /\ pc[p] = "act" /\ hand[p].kind = "move" /\ c = Aim(p)
    BY <1>2, NewlyDoomed
  <2>2. Aiming(p) /\ hand[p].folder \in Folder /\ hand[p].uid \in Uid
    BY <2>1, ProbedRow DEF Aiming
  <2>3. selected[p] = hand[p].folder /\ hand[p].uid < uidNext[hand[p].folder]
    BY <2>2 DEF SessionOK
  <2> QED
    BY <2>1, <2>2, <2>3 DEF Aim, IsOpen
<1> QED
  BY <1>1, <1>2

LEMMA FreshIsSafe ==
  ASSUME TypeOK, RowsOK, SessionOK, [Next]_vars, NEW m \in Mail,
         NEW g \in Folder, uidNext[g] \in Uid,
         box'[g][uidNext[g]] = [mail |-> m, mark |-> "kept"]
  PROVE  Safe(m)'
<1>1. PICK u \in Uid : u = uidNext[g]
  OBVIOUS
<1>2. PICK c \in Folder \X Uid : c = <<g, u>>
  OBVIOUS
<1>3. box'[c[1]][c[2]] = [mail |-> m, mark |-> "kept"]
  BY <1>1, <1>2
<1>4. c \in Kept(m)'
  <2>1. [mail |-> m, mark |-> "kept"] # None
    BY CopyType
  <2> QED
    BY <1>3, <2>1 DEF Kept, MailAt
<1>5. ~Doomed(c)'
  <2>1. ASSUME Doomed(c)' PROVE c[2] < uidNext[c[1]]
    BY <2>1, DoomedNext
  <2>2. ~(c[2] < uidNext[c[1]])
    BY <1>1, <1>2, UidType
  <2> QED
    BY <2>1, <2>2
<1> QED
  BY <1>4, <1>5 DEF Safe

LEMMA KeptStays ==
  ASSUME NEW m \in Mail, NEW c \in Kept(m), ~Doomed(c)', box'[c[1]][c[2]] = box[c[1]][c[2]]
  PROVE  Safe(m)'
BY DEF Safe, Kept, MailAt

LEMMA SafeStep ==
  ASSUME TypeOK, RowsOK, BoxOK, SessionOK, SafeOK, [Next]_vars
  PROVE  SafeOK'
<1> SUFFICES ASSUME NEW m \in Mail, m \notin discarded'
             PROVE  Safe(m)'
  BY DEF SafeOK, Safe
<1>1. m \notin discarded
  <2>1. discarded \subseteq discarded'
    BY DEF Next, vars, bounds, Person, Enqueue, Undo, Environment, OtherDeletes, OtherMoves,
           Renumber, WindowElapses, Flush, StartFlush, Take, Probe, Command, Settle, Finish,
           Sync, Invalidate, SyncFolder, Collect, Breaks, GivesUp
  <2> QED
    BY <2>1
<1>2. CASE \E q \in Flusher :
             Effect(q) /\ pc[q] = "act" /\ hand[q].kind = "move" /\ Target(q) = m
  <2>1. PICK q \in Flusher :
          Effect(q) /\ pc[q] = "act" /\ hand[q].kind = "move" /\ Target(q) = m
    BY <1>2
  <2>2. \E g \in Folder : /\ uidNext[g] \in Uid
                          /\ box'[g][uidNext[g]] = [mail |-> m, mark |-> "kept"]
    BY <2>1, Effects, NameAssumption DEF Lands
  <2> QED
    BY <2>2, FreshIsSafe
<1>3. CASE ~\E q \in Flusher :
             Effect(q) /\ pc[q] = "act" /\ hand[q].kind = "move" /\ Target(q) = m
  <2>1. PICK c \in Kept(m) : ~Doomed(c)
    BY <1>1 DEF SafeOK
  <2>2. /\ c \in Folder \X Uid /\ c = <<c[1], c[2]>> /\ c[1] \in Folder /\ c[2] \in Uid
        /\ MailAt(box, c[1], c[2]) = m /\ box[c[1]][c[2]].mark = "kept"
    BY DEF Kept
  <2>3. box[c[1]][c[2]] # None /\ box[c[1]][c[2]] \in Copy /\ box[c[1]][c[2]].mail = m
    BY <2>2, MailAtType, NameAssumption
  <2>4. c[2] < uidNext[c[1]] /\ c[2] \in Nat /\ uidNext[c[1]] \in Nat
    <3>1. ~(c[2] >= uidNext[c[1]])
      BY <2>2, <2>3 DEF BoxOK
    <3>2. c[2] \in Nat
      BY <2>2, UidType
    <3>3. uidNext[c[1]] \in 1..MaxUid + 1
      BY <2>2 DEF TypeOK
    <3>4. uidNext[c[1]] \in Nat
      BY <3>3, BoundAssumption
    <3> QED
      BY <3>1, <3>2, <3>4
  <2>5. ~Doomed(c)'
    <3>1. ASSUME NEW q \in Flusher, c = Aim(q)
          PROVE  Target(q) = m
      BY <2>2, <3>1 DEF Aim, Target
    <3> QED
      BY <1>3, <2>1, <3>1, DoomedNext
  <2>6. CASE box'[c[1]][c[2]] = box[c[1]][c[2]]
    BY <2>5, <2>6, KeptStays
  <2>7. ASSUME NEW f \in Folder, NEW u \in Uid, OtherDeletes(f, u)
        PROVE  Safe(m)'
    <3>1. box[f][u].mail # m
      BY <2>7 DEF OtherDeletes
    <3>2. c # <<f, u>>
      BY <2>2, <2>3, <3>1
    <3>3. box'[c[1]][c[2]] = box[c[1]][c[2]]
      BY <2>2, <2>7, <3>2 DEF OtherDeletes, TypeOK, Copies
    <3> QED
      BY <2>6, <3>3
  <2>8. ASSUME NEW f \in Folder, NEW g \in Folder, NEW u \in Uid, OtherMoves(f, u, g)
        PROVE  Safe(m)'
    <3> DEFINE n == box[f][u].mail
    <3>1. n \in Mail /\ HasRoom(g) /\ f # g /\ box \in [Folder -> Copies]
      BY <2>8 DEF OtherMoves, Occupied, TypeOK, Copies, Copy
    <3>2. /\ WithCopy(box, g, n) \in [Folder -> Copies] /\ uidNext[g] \in Uid
          /\ WithCopy(box, g, n)[g][uidNext[g]] = [mail |-> n, mark |-> "kept"]
          /\ \A h \in Folder, w \in Uid :
               h # g \/ w # uidNext[g] => WithCopy(box, g, n)[h][w] = box[h][w]
      BY <3>1, Appended
    <3>3. box' = [WithCopy(box, g, n) EXCEPT ![f][u] = None]
      BY <2>8 DEF OtherMoves
    <3> HIDE DEF n
    <3>4. CASE n = m
      <4>1. box'[g][uidNext[g]] = [mail |-> m, mark |-> "kept"]
        BY <3>1, <3>2, <3>3, <3>4 DEF Copies
      <4> QED
        BY <3>2, <4>1, FreshIsSafe
    <3>5. CASE n # m
      <4>1. c # <<f, u>>
        BY <2>2, <2>3, <3>5 DEF n
      <4>2. c[1] # g \/ c[2] # uidNext[g]
        BY <2>4
      <4>3. box'[c[1]][c[2]] = WithCopy(box, g, n)[c[1]][c[2]]
        BY <2>2, <3>2, <3>3, <4>1 DEF Copies
      <4> QED
        BY <2>2, <2>6, <3>2, <4>2, <4>3
    <3> QED
      BY <3>4, <3>5
  <2>9. ASSUME NEW f \in Folder, Renumber(f)
        PROVE  Safe(m)'
    <3> DEFINE k == Cardinality(Occupied(f))
    <3>1. PICK at \in [1..k -> Occupied(f)] :
            /\ \A i, j \in 1..k : at[i] = at[j] => i = j
            /\ box' = [box EXCEPT ![f] =
                         [u \in Uid |-> IF u <= k THEN box[f][at[u]] ELSE None]]
      BY <2>9 DEF Renumber
    <3>2. CASE c[1] # f
      BY <2>2, <2>6, <3>1, <3>2 DEF TypeOK
    <3>3. CASE c[1] = f
      <4>1. c[2] \in Occupied(f) /\ Occupied(f) \subseteq Uid
        BY <2>2, <2>3, <3>3 DEF Occupied
      <4>2. /\ k \in 0..MaxUid /\ 1..k \subseteq Uid
            /\ \A u \in Occupied(f) : \E i \in 1..k : at[i] = u
        BY <3>1, <4>1, Renumbered
      <4>3. PICK i \in 1..k : at[i] = c[2]
        BY <4>1, <4>2
      <4>4. i \in Uid /\ i <= k
        BY <4>2
      <4>5. box'[f][i] = box[f][c[2]]
        BY <3>1, <4>3, <4>4 DEF TypeOK
      <4>6. <<f, i>> \in Kept(m)'
        BY <2>2, <3>3, <4>4, <4>5 DEF Kept, MailAt
      <4>7. ~IsOpen(f)
        BY <2>9 DEF Renumber, IsOpen
      <4>8. ~Doomed(<<f, i>>)'
        <5>1. ASSUME Doomed(<<f, i>>)' PROVE IsOpen(<<f, i>>[1])
          BY <5>1, DoomedNext
        <5> QED
          BY <4>7, <5>1
      <4> QED
        BY <4>6, <4>8 DEF Safe
    <3> QED
      BY <3>2, <3>3
  <2>10. ASSUME NEW p \in Flusher, Effect(p)
         PROVE  Safe(m)'
    <3>1. c = Aim(p) => Target(p) = m
      BY <2>2 DEF Aim, Target
    <3>2. CASE pc[p] = "act" /\ box' # box
      <4>1. Target(p) # m
        BY <1>3, <2>10, <3>2, Effects
      <4>2. PICK g \in Folder : Lands(p, g)
        BY <2>10, <3>2, Effects
      <4>3. c # <<g, uidNext[g]>>
        BY <2>4
      <4> QED
        BY <2>2, <2>6, <3>1, <4>1, <4>2, <4>3 DEF Lands
    <3>3. CASE pc[p] \in {"mark", "expunge"} /\ box' # box
      <4>1. c # Aim(p)
        BY <2>1, <3>3 DEF Doomed, Aim
      <4>2. Untouched(p)
        BY <2>10, <3>3, Effects
      <4> QED
        BY <2>2, <2>6, <4>1, <4>2 DEF Untouched
    <3> QED
      BY <2>6, <2>10, <3>2, <3>3 DEF Effect
  <2>11. CASE Environment
    BY <2>6, <2>7, <2>8, <2>9, <2>11 DEF Environment, WindowElapses, server
  <2>12. CASE Person \/ UNCHANGED vars
    BY <2>6, <2>12 DEF Person, Enqueue, Undo, vars, server
  <2>13. ASSUME NEW p \in Flusher, Flush(p) \/ Sync(p) \/ Breaks(p) \/ GivesUp(p)
         PROVE  Safe(m)'
    <3>1. Effect(p) \/ box' = box
      BY <2>13 DEF Flush, StartFlush, Take, Probe, Command, Settle, Finish, Sync, Invalidate,
                   SyncFolder, Collect, Breaks, GivesUp, server
    <3> QED
      BY <2>6, <2>10, <3>1
  <2> QED
    BY <2>11, <2>12, <2>13 DEF Next
<1> QED
  BY <1>2, <1>3

-----------------------------------------------------------------------------
(* What is at the UID, when no two messages have one Message-ID.           *)

LEMMA AimStep ==
  ASSUME DistinctIds, TypeOK, RowsOK, BoxOK, SessionOK, AimOK, [Next]_vars
  PROVE  AimOK'
<1> SUFFICES ASSUME NEW p \in Flusher, pc'[p] \in {"act", "mark", "expunge"}
             PROVE  MailAt(box', hand'[p].folder, hand'[p].uid) \in {None, hand'[p].mail}
  BY DEF AimOK, Aiming, Target
<1>1. ASSUME Aiming(p), hand'[p] = hand[p]
      PROVE  MailAt(box', hand'[p].folder, hand'[p].uid) \in {None, hand'[p].mail}
  <2>1. hand[p].folder \in Folder /\ hand[p].uid \in Uid
    BY <1>1, ProbedRow
  <2>2. IsOpen(hand[p].folder) /\ hand[p].uid < uidNext[hand[p].folder]
    BY <1>1 DEF SessionOK, IsOpen
  <2>3. MailAt(box', hand[p].folder, hand[p].uid) \in {None, Target(p)}
    BY <2>1, <2>2, BoxStep DEF Stays, Target
  <2> QED
    BY <1>1, <2>3 DEF AimOK
<1>2. CASE Probe(p) /\ pc'[p] = "act"
  <2>1. SameMessageId(Target(p), hand[p].mail) /\ Target(p) # None
    BY <1>2 DEF Probe, Decide, TypeOK
  <2>2. hand' = hand /\ box' = box
    BY <1>2 DEF Probe, server
  <2>3. hand[p].folder \in Folder /\ hand[p].uid \in Uid /\ hand[p].mail \in Mail
    BY <1>2, ProbedRow DEF Probe
  <2>4. Target(p) \in Mail
    BY <2>1, <2>3, MailAtType DEF Target
  <2>5. Target(p) = hand[p].mail
    BY <2>1, <2>3, <2>4 DEF DistinctIds, SameMessageId
  <2> QED
    BY <2>2, <2>5 DEF Target
<1>3. CASE pc'[p] = pc[p] /\ hand'[p] = hand[p]
  BY <1>1, <1>3 DEF Aiming
<1>4. CASE Effect(p) /\ hand'[p] = hand[p]
  <2>1. Aiming(p)
    BY <1>4 DEF Effect, Aiming
  <2> QED
    BY <1>1, <1>4, <2>1
<1> QED
  BY <1>2, <1>3, <1>4, FlusherSteps

(* A command changes the message it is for, and nothing else.              *)
LEMMA AffectedOne ==
  ASSUME TypeOK, RowsOK, BoxOK, SessionOK, AimOK, NEW p \in Flusher, Effect(p)
  PROVE  Affected(p) \subseteq {hand[p].mail}
<1>1. /\ Target(p) \in {None, hand[p].mail} /\ hand[p].mail \in Mail
      /\ hand[p].folder \in Folder /\ hand[p].uid \in Uid
  BY Effects DEF AimOK
<1>2. ASSUME NEW c \in Folder \X Uid, box[c[1]][c[2]] \notin {None, box'[c[1]][c[2]]}
      PROVE  c = Aim(p)
  <2>1. c = <<c[1], c[2]>> /\ c[1] \in Folder /\ c[2] \in Uid
    OBVIOUS
  <2>2. ASSUME NEW g \in Folder, Lands(p, g)
        PROVE  c = Aim(p)
    <3>1. uidNext[g] \in Nat
      BY <2>2, UidType DEF Lands
    <3>2. box[g][uidNext[g]] = None
      BY <2>2, <3>1 DEF Lands, BoxOK
    <3>3. c # <<g, uidNext[g]>>
      BY <1>2, <3>2
    <3> QED
      BY <1>2, <2>1, <2>2, <3>3 DEF Lands
  <2>3. CASE Untouched(p)
    BY <1>2, <2>1, <2>3 DEF Untouched
  <2> QED
    BY <1>2, <2>2, <2>3, Effects
<1>3. ASSUME NEW c \in Folder \X Uid, box[c[1]][c[2]] \notin {None, box'[c[1]][c[2]]}
      PROVE  box[c[1]][c[2]].mail = hand[p].mail
  <2>1. box[hand[p].folder][hand[p].uid] # None
    BY <1>2, <1>3 DEF Aim
  <2>2. /\ Target(p) # None
        /\ Target(p) = box[hand[p].folder][hand[p].uid].mail
    BY <1>1, <2>1, MailAtType DEF Target
  <2> QED
    BY <1>1, <1>2, <1>3, <2>2 DEF Aim
<1> QED
  BY <1>1, <1>3 DEF Affected

LEMMA TouchedStep ==
  ASSUME TypeOK, RowsOK, BoxOK, SessionOK, AimOK, OnlyIntended, [Next]_vars
  PROVE  OnlyIntended'
<1>1. ASSUME NEW p \in Flusher, Effect(p)
      PROVE  OnlyIntended'
  <2>1. touched' = touched \cup ({hand[p].mail} \X Affected(p))
    BY <1>1 DEF Effect, Touch
  <2>2. Affected(p) \subseteq {hand[p].mail}
    BY <1>1, AffectedOne
  <2> QED
    BY <2>1, <2>2 DEF OnlyIntended
<1>2. CASE touched' = touched
  BY <1>2 DEF OnlyIntended
<1> QED
  BY <1>1, <1>2 DEF Next, vars, told, Person, Enqueue, Undo, Environment, OtherDeletes, OtherMoves,
           Renumber, WindowElapses, Flush, StartFlush, Take, Probe, Command, Settle, Finish,
           Sync, Invalidate, SyncFolder, Collect, Breaks, GivesUp

-----------------------------------------------------------------------------
LEMMA InitIInv == Init => IInv /\ AimOK /\ OnlyIntended
<1> SUFFICES ASSUME Init
             PROVE  IInv /\ AimOK /\ OnlyIntended
  OBVIOUS
<1> DEFINE n == Cardinality(Mail)
<1>1. n \in Nat /\ n <= MaxUid /\ MaxUid \in Nat /\ MaxOps \in Nat
      /\ MaxErrors \in Nat /\ MaxOthers \in Nat
  BY MailAssumption, BoundAssumption, FS_CardinalityType
<1>2. PICK uidOf \in [Mail -> 1..n] :
        /\ \A m, k \in Mail : uidOf[m] = uidOf[k] => m = k
        /\ known = [f \in Folder |-> [u \in Uid |->
             IF f = Inbox /\ \E m \in Mail : uidOf[m] = u
             THEN CHOOSE m \in Mail : uidOf[m] = u ELSE None]]
  BY DEF Init
<1> HIDE DEF n
<1>3. \A f \in Folder, u \in Uid :
        known[f][u] \in Mail \cup {None} /\ (u > n => known[f][u] = None)
                                        /\ (f # Inbox => known[f][u] = None)
  BY <1>1, <1>2, UidType
<1>4. known \in [Folder -> [Uid -> Mail \cup {None}]]
  BY <1>2, <1>3
<1>5. box = [f \in Folder |-> [u \in Uid |->
        IF known[f][u] = None THEN None ELSE [mail |-> known[f][u], mark |-> "kept"]]]
  BY DEF Init
<1>6. uidNext = [f \in Folder |-> IF f = Inbox THEN n + 1 ELSE 1]
  BY DEF Init, n
<1>7. TypeOK
  <2>1. box \in [Folder -> Copies]
    BY <1>3, <1>5, CopyType DEF Copies
  <2>2. uidNext \in [Folder -> 1..MaxUid + 1]
    BY <1>1, <1>6
  <2>3. validity \in [Folder -> Nat] /\ knownValidity \in [Folder -> Nat] /\ moves \in HasMove
    BY DEF Init
  <2>4. row \in [OpId -> Row \cup {None}] /\ made \in 0..MaxOps
        /\ errors \in 0..MaxErrors /\ others \in 0..MaxOthers
    BY <1>1 DEF Init
  <2>5. /\ pc \in [Flusher -> Step] /\ todo \in [Flusher -> SUBSET Row]
        /\ hand \in [Flusher -> Row \cup {None}] /\ selected \in [Flusher -> Folder \cup {None}]
        /\ verdict \in [Flusher -> OpState] /\ unseen \in [Flusher -> SUBSET Folder]
    BY DEF Init, Step, OpState
  <2>6. asked \subseteq Row /\ touched \subseteq Mail \X Mail
        /\ discarded \subseteq Mail /\ displaced \subseteq Mail
    BY DEF Init
  <2> QED
    BY <1>4, <2>1, <2>2, <2>3, <2>4, <2>5, <2>6 DEF TypeOK
<1>8. \A p \in Flusher : pc[p] = "idle" /\ todo[p] = {}
  BY DEF Init
<1>9. RowsOK
  BY <1>8 DEF Init, RowsOK
<1>10. BoxOK
  <2>1. ASSUME NEW f \in Folder, NEW u \in Uid, u >= uidNext[f]
        PROVE  known[f][u] = None
    BY <1>1, <1>3, <1>6, <2>1, UidType
  <2> QED
    BY <1>5, <2>1 DEF BoxOK
<1>11. SessionOK /\ AimOK
  BY <1>8 DEF SessionOK, AimOK, Aiming
<1>12. ASSUME NEW m \in Mail
       PROVE  \E c \in Kept(m) : ~Doomed(c)
  <2>1. uidOf[m] \in Uid
    BY <1>1, <1>2 DEF Uid
  <2>2. known[Inbox][uidOf[m]] = m
    BY <1>2, <2>1, NameAssumption
  <2>3. box[Inbox][uidOf[m]] = [mail |-> m, mark |-> "kept"]
    BY <1>5, <2>1, <2>2, NameAssumption
  <2>4. [mail |-> m, mark |-> "kept"] # None
    BY CopyType
  <2>5. <<Inbox, uidOf[m]>> \in Kept(m)
    BY <2>1, <2>3, <2>4, NameAssumption DEF Kept, MailAt
  <2> QED
    BY <1>8, <2>5 DEF Doomed
<1>13. OnlyIntended
  BY DEF Init, OnlyIntended
<1> QED
  BY <1>7, <1>9, <1>10, <1>11, <1>12, <1>13 DEF IInv, SafeOK

LEMMA NextIInv == IInv /\ [Next]_vars => IInv'
BY TypeStep, RowsStep, BoxStep, SessionStep, SafeStep DEF IInv

LEMMA Invariance == Spec => []IInv
BY InitIInv, NextIInv, PTL DEF Spec

(* Every variable stays within its type.                                   *)
THEOREM TypeCorrect == Spec => []TypeOK
<1>1. IInv => TypeOK
  BY DEF IInv
<1> QED
  BY <1>1, Invariance, PTL

(* However moves are interrupted, tried again, and made by several         *)
(* flushers at once, on a server with or without MOVE (uid_move): a        *)
(* message no other client deleted has a copy that is not marked.          *)
THEOREM NoMailLost == Spec => []NothingLost
<1>1. IInv => NothingLost
  BY DEF IInv, SafeOK, NothingLost
<1> QED
  BY <1>1, Invariance, PTL

(* When no two messages have one Message-ID, the look at the UID in        *)
(* uid_probe is enough: no command changes a message other than the one    *)
(* the person acted on.                                                    *)
THEOREM OnlyTheOneMeant ==
  ASSUME DistinctIds
  PROVE  Spec => []OnlyIntended
<1> DEFINE Inv == IInv /\ AimOK /\ OnlyIntended
<1>1. Init => Inv
  BY InitIInv
<1>2. Inv /\ [Next]_vars => Inv'
  <2>1. IInv /\ AimOK /\ OnlyIntended /\ [Next]_vars => AimOK' /\ OnlyIntended'
    BY AimStep, TouchedStep DEF IInv
  <2> QED
    BY <2>1, NextIInv
<1>3. Inv => OnlyIntended
  OBVIOUS
<1> QED
  BY <1>1, <1>2, <1>3, PTL DEF Spec

-----------------------------------------------------------------------------
(* One copy of each message, on a server that moves in one step.           *)

Single(b) ==
  \A f, g \in Folder, u, v \in Uid :
    MailAt(b, f, u) # None /\ MailAt(b, f, u) = MailAt(b, g, v) => f = g /\ u = v

SingleOK == moves => Single(box)

LEMMA InitSingle == Init => SingleOK
<1> SUFFICES ASSUME Init
             PROVE  Single(box)
  BY DEF SingleOK
<1>1. PICK uidOf \in [Mail -> 1..Cardinality(Mail)] :
        known = [f \in Folder |-> [u \in Uid |->
             IF f = Inbox /\ \E m \in Mail : uidOf[m] = u
             THEN CHOOSE m \in Mail : uidOf[m] = u ELSE None]]
  BY DEF Init
<1>2. box = [f \in Folder |-> [u \in Uid |->
        IF known[f][u] = None THEN None ELSE [mail |-> known[f][u], mark |-> "kept"]]]
  BY DEF Init
<1>3. ASSUME NEW f \in Folder, NEW u \in Uid, known[f][u] # None
      PROVE  f = Inbox /\ uidOf[known[f][u]] = u
  BY <1>1, <1>3
<1>4. ASSUME NEW f \in Folder, NEW u \in Uid
      PROVE  MailAt(box, f, u) = known[f][u]
  <2>1. CASE known[f][u] = None
    BY <1>2, <2>1 DEF MailAt
  <2>2. CASE known[f][u] # None
    <3>1. known[f][u] \in Mail
      BY <1>1, <2>2
    <3>2. box[f][u] = [mail |-> known[f][u], mark |-> "kept"] /\ box[f][u] # None
      BY <1>2, <2>2, <3>1, CopyType
    <3> QED
      BY <3>2 DEF MailAt
  <2> QED
    BY <2>1, <2>2
<1> QED
  BY <1>3, <1>4 DEF Single

LEMMA SingleLeft ==
  ASSUME Single(box),
         \A f \in Folder, u \in Uid : MailAt(box', f, u) \in {None, MailAt(box, f, u)}
  PROVE  Single(box')
BY DEF Single

(* What is at one place goes to another.                                   *)
LEMMA SingleMoved ==
  ASSUME Single(box), NEW f \in Folder, NEW u \in Uid, NEW g \in Folder, NEW w \in Uid,
         <<g, w>> # <<f, u>>, MailAt(box', f, u) = None,
         MailAt(box', g, w) = MailAt(box, f, u),
         \A h \in Folder, v \in Uid :
           <<h, v>> # <<g, w>> => MailAt(box', h, v) \in {None, MailAt(box, h, v)}
  PROVE  Single(box')
<1> SUFFICES ASSUME NEW h \in Folder, NEW v \in Uid, NEW k \in Folder, NEW x \in Uid,
                    MailAt(box', h, v) # None, MailAt(box', h, v) = MailAt(box', k, x)
             PROVE  h = k /\ v = x
  BY DEF Single
<1>1. ASSUME NEW a \in Folder, NEW y \in Uid, MailAt(box', a, y) # None, <<a, y>> # <<g, w>>
      PROVE  MailAt(box', a, y) # MailAt(box, f, u)
  <2>1. MailAt(box, a, y) = MailAt(box', a, y) /\ <<a, y>> # <<f, u>>
    BY <1>1
  <2> QED
    BY <1>1, <2>1 DEF Single
<1>2. CASE <<h, v>> = <<g, w>> \/ <<k, x>> = <<g, w>>
  BY <1>1, <1>2
<1>3. CASE <<h, v>> # <<g, w>> /\ <<k, x>> # <<g, w>>
  BY <1>3 DEF Single
<1> QED
  BY <1>2, <1>3

LEMMA SingleRenumbered ==
  ASSUME TypeOK, Single(box), NEW f \in Folder, Renumber(f)
  PROVE  Single(box')
<1> DEFINE k == Cardinality(Occupied(f))
<1>1. PICK at \in [1..k -> Occupied(f)] :
        /\ \A i, j \in 1..k : at[i] = at[j] => i = j
        /\ box' = [box EXCEPT ![f] =
                     [u \in Uid |-> IF u <= k THEN box[f][at[u]] ELSE None]]
  BY DEF Renumber
<1>2. Occupied(f) \subseteq Uid
  BY DEF Occupied
<1>3. k \in Nat
  <2>1. k \in 0..MaxUid
    BY <1>1, <1>2, Renumbered
  <2> QED
    BY <2>1, BoundAssumption
<1>4. \A g \in Folder : g # f => box'[g] = box[g]
  BY <1>1 DEF TypeOK
<1>5. ASSUME NEW u \in Uid, MailAt(box', f, u) # None
      PROVE  u \in 1..k /\ at[u] \in Uid /\ MailAt(box', f, u) = MailAt(box, f, at[u])
  <2>1. box'[f][u] = IF u <= k THEN box[f][at[u]] ELSE None
    BY <1>1 DEF TypeOK
  <2>2. u <= k
    BY <1>5, <2>1 DEF MailAt
  <2>3. u \in 1..k
    BY <1>3, <2>2, UidType
  <2> QED
    BY <1>1, <1>2, <2>1, <2>2, <2>3 DEF MailAt
<1> HIDE DEF k
<1>6. ASSUME NEW g \in Folder, NEW h \in Folder, NEW u \in Uid, NEW v \in Uid,
             MailAt(box', g, u) # None, MailAt(box', g, u) = MailAt(box', h, v)
      PROVE  g = h /\ u = v
  <2>1. CASE g = f /\ h = f
    <3>1. at[u] = at[v]
      BY <1>5, <1>6, <2>1 DEF Single
    <3> QED
      BY <1>1, <1>5, <1>6, <2>1, <3>1
  <2>2. CASE g = f /\ h # f
    <3>1. MailAt(box', h, v) = MailAt(box, h, v)
      BY <1>4, <2>2 DEF MailAt
    <3> QED
      BY <1>5, <1>6, <2>2, <3>1 DEF Single
  <2>3. CASE g # f /\ h = f
    <3>1. MailAt(box', g, u) = MailAt(box, g, u)
      BY <1>4, <2>3 DEF MailAt
    <3>2. at[v] \in Uid /\ MailAt(box', h, v) = MailAt(box, f, at[v])
      BY <1>5, <1>6, <2>3
    <3> QED
      BY <1>6, <2>3, <3>1, <3>2 DEF Single
  <2>4. CASE g # f /\ h # f
    <3>1. MailAt(box', g, u) = MailAt(box, g, u) /\ MailAt(box', h, v) = MailAt(box, h, v)
      BY <1>4, <2>4 DEF MailAt
    <3>2. MailAt(box, g, u) # None /\ MailAt(box, g, u) = MailAt(box, h, v)
      BY <1>6, <3>1
    <3> QED
      BY <3>2 DEF Single
  <2> QED
    BY <2>1, <2>2, <2>3, <2>4
<1> QED
  BY <1>6 DEF Single

(* The server's MOVE takes away what it appends.                           *)
LEMMA SingleEffect ==
  ASSUME TypeOK, RowsOK, BoxOK, SessionOK, moves, Single(box), NEW p \in Flusher, Effect(p)
  PROVE  Single(box')
<1> DEFINE f == hand[p].folder
           u == hand[p].uid
           g == hand[p].target
           b == [box EXCEPT ![f][u] = None]
<1>1. f \in Folder /\ u \in Uid /\ hand[p] \in GoodRow /\ Aiming(p)
  BY Effects
<1>2. CASE box' = box
  BY <1>2, SingleLeft
<1>3. CASE pc[p] = "act" /\ box' # box
  <2>1. hand[p].kind = "move" /\ Target(p) \in Mail /\ Moves(p)
    BY <1>3, Effects DEF Effect
  <2>2. g \in Folder /\ HasRoom(g) /\ box' = WithCopy(b, g, Target(p))
    BY <1>1, <2>1, NameAssumption DEF Moves, Appends, GoodRow
  <2>3. /\ b \in [Folder -> Copies] /\ b[f][u] = None
        /\ \A h \in Folder, v \in Uid : <<h, v>> # <<f, u>> => b[h][v] = box[h][v]
    BY <1>1 DEF TypeOK, Copies
  <2> HIDE DEF b
  <2>4. /\ uidNext[g] \in Uid
        /\ box'[g][uidNext[g]] = [mail |-> Target(p), mark |-> "kept"]
        /\ \A h \in Folder, v \in Uid : h # g \/ v # uidNext[g] => box'[h][v] = b[h][v]
    BY <2>1, <2>2, <2>3, Appended
  <2>5. u < uidNext[f] /\ u \in Nat
    BY <1>1, UidType DEF SessionOK
  <2>6. <<g, uidNext[g]>> # <<f, u>>
    BY <2>5
  <2> HIDE DEF f, u, g
  <2>7. box'[f][u] = None
    BY <1>1, <2>3, <2>4, <2>6
  <2>8. MailAt(box', f, u) = None
    BY <2>7 DEF MailAt
  <2>9. MailAt(box', g, uidNext[g]) = MailAt(box, f, u)
    <3>2. [mail |-> Target(p), mark |-> "kept"] # None
      BY <2>1, CopyType
    <3>1. MailAt(box', g, uidNext[g]) = Target(p)
      BY <2>4, <3>2 DEF MailAt
    <3> QED
      BY <3>1 DEF Target, f, u
  <2>10. \A h \in Folder, v \in Uid :
           <<h, v>> # <<g, uidNext[g]>> => MailAt(box', h, v) \in {None, MailAt(box, h, v)}
    BY <2>3, <2>4, <2>7 DEF MailAt
  <2> QED
    BY <1>1, <2>2, <2>4, <2>6, <2>8, <2>9, <2>10, SingleMoved
<1>4. CASE pc[p] # "act" /\ box' # box
  <2>1. /\ Untouched(p) /\ MailAt(box', f, u) \in {None, Target(p)}
    BY <1>4, Effects
  <2>2. \A h \in Folder, v \in Uid : MailAt(box', h, v) \in {None, MailAt(box, h, v)}
    BY <2>1 DEF Untouched, Aim, Target, MailAt
  <2> QED
    BY <2>2, SingleLeft
<1> QED
  BY <1>2, <1>3, <1>4

LEMMA SingleStep ==
  ASSUME TypeOK, RowsOK, BoxOK, SessionOK, SingleOK, [Next]_vars
  PROVE  SingleOK'
<1>1. moves' = moves
  BY DEF Next, vars, server, Person, Enqueue, Undo, Environment, OtherDeletes, OtherMoves,
         Renumber, WindowElapses, Flush, StartFlush, Take, Probe, Command, Settle, Finish,
         Sync, Invalidate, SyncFolder, Collect, Breaks, GivesUp
<1> SUFFICES ASSUME moves, Single(box)
             PROVE  Single(box')
  BY <1>1 DEF SingleOK
<1>2. CASE box' = box
  BY <1>2, SingleLeft
<1>3. ASSUME NEW f \in Folder, NEW u \in Uid, OtherDeletes(f, u)
      PROVE  Single(box')
  <2>1. box[f][u] \in Copy /\ box[f][u] # None
    BY <1>3 DEF OtherDeletes, Occupied, TypeOK, Copies
  <2>2. \A h \in Folder, v \in Uid : <<h, v>> # <<f, u>> => box'[h][v] = box[h][v]
    BY <1>3 DEF OtherDeletes, TypeOK, Copies
  <2>3. box'[f][u] \in {None, [box[f][u] EXCEPT !.mark = "deleted"]}
    BY <1>3 DEF OtherDeletes, TypeOK, Copies
  <2>4. MailAt(box', f, u) \in {None, MailAt(box, f, u)}
    BY <2>1, <2>3 DEF MailAt, Copy
  <2>5. \A h \in Folder, v \in Uid : MailAt(box', h, v) \in {None, MailAt(box, h, v)}
    BY <2>2, <2>4 DEF MailAt
  <2> QED
    BY <2>5, SingleLeft
<1>4. ASSUME NEW f \in Folder, NEW g \in Folder, NEW u \in Uid, OtherMoves(f, u, g)
      PROVE  Single(box')
  <2> DEFINE n == box[f][u].mail
  <2>1. n \in Mail /\ HasRoom(g) /\ f # g /\ box \in [Folder -> Copies] /\ MailAt(box, f, u) = n
    BY <1>4 DEF OtherMoves, Occupied, TypeOK, Copies, Copy, MailAt
  <2>2. /\ WithCopy(box, g, n) \in [Folder -> Copies] /\ uidNext[g] \in Uid
        /\ WithCopy(box, g, n)[g][uidNext[g]] = [mail |-> n, mark |-> "kept"]
        /\ \A h \in Folder, w \in Uid :
             h # g \/ w # uidNext[g] => WithCopy(box, g, n)[h][w] = box[h][w]
    BY <2>1, Appended
  <2>3. box' = [WithCopy(box, g, n) EXCEPT ![f][u] = None]
    BY <1>4 DEF OtherMoves
  <2> HIDE DEF n
  <2>4. /\ box'[f][u] = None
        /\ \A h \in Folder, w \in Uid :
             <<h, w>> # <<f, u>> => box'[h][w] = WithCopy(box, g, n)[h][w]
    BY <2>2, <2>3 DEF Copies
  <2>5. box'[g][uidNext[g]] = [mail |-> n, mark |-> "kept"]
    BY <2>1, <2>2, <2>4
  <2>6. MailAt(box', f, u) = None /\ MailAt(box', g, uidNext[g]) = MailAt(box, f, u)
    <3>2. [mail |-> n, mark |-> "kept"] # None
      BY <2>1, CopyType
    <3>1. MailAt(box', g, uidNext[g]) = n
      BY <2>5, <3>2 DEF MailAt
    <3> QED
      BY <2>1, <2>4, <3>1 DEF MailAt
  <2>7. \A h \in Folder, w \in Uid :
          <<h, w>> # <<g, uidNext[g]>> => MailAt(box', h, w) \in {None, MailAt(box, h, w)}
    BY <2>2, <2>4 DEF MailAt
  <2> QED
    BY <2>1, <2>2, <2>6, <2>7, SingleMoved
<1>5. ASSUME NEW f \in Folder, Renumber(f)
      PROVE  Single(box')
  BY <1>5, SingleRenumbered
<1>6. ASSUME NEW p \in Flusher, Effect(p)
      PROVE  Single(box')
  BY <1>6, SingleEffect
<1>7. CASE Environment
  BY <1>2, <1>3, <1>4, <1>5, <1>7 DEF Environment, WindowElapses, server
<1>8. CASE Person \/ UNCHANGED vars
  BY <1>2, <1>8 DEF Person, Enqueue, Undo, vars, server
<1>9. ASSUME NEW p \in Flusher, Flush(p) \/ Sync(p) \/ Breaks(p) \/ GivesUp(p)
      PROVE  Single(box')
  <2>1. Effect(p) \/ box' = box
    BY <1>9 DEF Flush, StartFlush, Take, Probe, Command, Settle, Finish, Sync, Invalidate,
                SyncFolder, Collect, Breaks, GivesUp, server
  <2> QED
    BY <1>2, <1>6, <2>1
<1> QED
  BY <1>7, <1>8, <1>9 DEF Next

(* On a server with MOVE a message is nowhere twice, however its moves are *)
(* interrupted and tried again and by however many flushers (uid_move).    *)
THEOREM NoneTwice == Spec => []NothingRepeated
<1>1. Init => IInv /\ SingleOK
  BY InitIInv, InitSingle
<1>2. (IInv /\ SingleOK) /\ [Next]_vars => (IInv /\ SingleOK)'
  BY NextIInv, SingleStep DEF IInv
<1>3. SingleOK => NothingRepeated
  <2> SUFFICES ASSUME moves, Single(box), NEW m \in Mail
               PROVE  Cardinality(Kept(m)) <= 1
    BY DEF SingleOK, NothingRepeated
  <2>1. \A c, d \in Kept(m) : c = d
    BY NameAssumption DEF Single, Kept
  <2>2. CASE Kept(m) = {}
    BY <2>2, FS_EmptySet
  <2>3. CASE Kept(m) # {}
    <3>1. PICK c : Kept(m) = {c}
      BY <2>1, <2>3
    <3> QED
      BY <3>1, FS_Singleton
  <2> QED
    BY <2>2, <2>3
<1> QED
  BY <1>1, <1>2, <1>3, PTL DEF Spec
=============================================================================
