------------------------ MODULE MutationsTableProofs ------------------------
(***************************************************************************)
(* What the operation table is worth when one flusher at a time drains it, *)
(* as the window has it, which syncs one account after the other and holds *)
(* a lock against a second window: a row that says done is right, an undo  *)
(* that comes before the flush has read a change is final, and the last    *)
(* word on a flag wins.                                                    *)
(*                                                                         *)
(* A flush works on rows it has read, and settles them by id.  It finds    *)
(* them where they were: rows are deleted by a sync only, after the flush, *)
(* so no id is handed out again meanwhile (ReadOK).  An older change of a  *)
(* flag can be pending beside a newer one only when it was being sent as   *)
(* the newer one came, and its connection broke; then it has been due, so  *)
(* that every later flush reads it too, and takes it first (FlagsOK).      *)
(*                                                                         *)
(* A sync gives up a waiting change of a message it has found nowhere.     *)
(* While it runs no flush moves anything, so a message it has not found is *)
(* in a folder it has yet to visit, unless another client took it (SeenOK).*)
(***************************************************************************)
EXTENDS MutationsProofs, WellFoundedInduction

OneFlusher == \A p, q \in Flusher : p = q

InHand(p)  == pc[p] \in {"probe", "act", "mark", "expunge", "settle"}
InFlush(p) == InHand(p) \/ pc[p] = "next"

Held(p) == todo[p] \cup ({hand[p]} \ {None})

(* Ids and serials of the rows rise together.                              *)
TableOK ==
  /\ \A i \in Rows : row[i].id = i /\ i <= made /\ row[i].serial <= made
  /\ \A i, j \in Rows : i < j => row[i].serial < row[j].serial

(* What a flush holds is still in the table, and was due.                  *)
InTable(o) ==
  /\ o.id \in Rows /\ row[o.id].window # "open"
  /\ row[o.id].serial = o.serial /\ row[o.id].kind = o.kind /\ row[o.id].mail = o.mail

ReadOK ==
  \A p \in Flusher :
    /\ ~InFlush(p) => todo[p] = {}
    /\ InHand(p) <=> hand[p] # None
    /\ None \notin todo[p] /\ \A a, b \in todo[p] : a.id = b.id => a = b
    /\ \A o \in Held(p) : InTable(o)
    /\ InHand(p) => \A o \in todo[p] : hand[p].id < o.id

AskedOK ==
  /\ \A o \in asked : o.serial <= made
  /\ \A p \in Flusher : pc[p] = "settle" /\ verdict[p] = "done" => hand[p] \in asked

(* Of the changes of one flag.                                             *)
SameFlag(a, b) == a.kind = "flag" /\ b.kind = "flag" /\ a.mail = b.mail

FlagsOK ==
  /\ \A i, j \in Rows :
       Pending(i) /\ i < j /\ SameFlag(row[i], row[j]) =>
         /\ row[i].window # "open"
         /\ \A p \in Flusher : InFlush(p) => \E o \in Held(p) : o.id = i
  /\ \A before \in asked, i \in Rows :
       Pending(i) /\ SameFlag(before, row[i]) => before.serial <= row[i].serial
  /\ \A before \in asked, p \in Flusher : \A o \in Held(p) :
       SameFlag(before, o) => before.serial <= o.serial

TableInv == IInv /\ TableOK /\ ReadOK /\ AskedOK /\ DoneWasAsked /\ FlagsOK

-----------------------------------------------------------------------------
(* The id of a new row.                                                    *)

Less == {ss \in Nat \X Nat : ss[1] < ss[2]}

LEMMA LessIsWellFounded == IsWellFoundedOn(Less, Nat)
BY NatLessThanWellFounded DEF OpToRel, Less

LEMMA LeastNumber ==
  ASSUME NEW S \in SUBSET Nat, S # {}
  PROVE  \E x \in S : \A y \in S : x <= y
<1>1. PICK x \in S : \A y \in S : ~(<<y, x>> \in Less)
  BY LessIsWellFounded, WFMin
<1>2. \A y \in S : <<y, x>> \in Less <=> y < x
  BY DEF Less
<1>3. \A y \in S : ~(y < x)
  BY <1>1, <1>2
<1> QED
  BY <1>3

LEMMA NextIdIs ==
  ASSUME TypeOK, TableOK, made < MaxOps
  PROVE  NextId \in OpId /\ NextId <= made + 1 /\ \A j \in Rows : j < NextId
<1>1. made \in Nat /\ MaxOps \in Nat /\ OpId \subseteq Nat /\ Rows \subseteq OpId
  BY BoundAssumption DEF TypeOK, OpId, Rows
<1> DEFINE Above == {i \in Nat : i >= 1 /\ \A j \in Rows : j < i}
<1>2. made + 1 \in Above
  BY <1>1 DEF TableOK
<1>3. PICK x \in Above : \A y \in Above : x <= y
  BY <1>2, LeastNumber
<1>4. x = 1 \/ x - 1 \in Rows
  <2>1. SUFFICES ASSUME x # 1, x - 1 \notin Rows
                 PROVE  FALSE
    OBVIOUS
  <2>2. x - 1 \in Nat /\ x - 1 >= 1
    BY <2>1
  <2>3. \A j \in Rows : j < x - 1
    BY <1>1, <2>1
  <2>4. x - 1 \in Above
    BY <2>2, <2>3
  <2> QED
    BY <1>3, <2>4
<1>5. x \in OpId
  BY <1>1, <1>2, <1>3 DEF OpId
<1>6. \E i \in OpId : (\A j \in Rows : j < i) /\ (i = 1 \/ i - 1 \in Rows)
  BY <1>4, <1>5
<1>7. NextId \in OpId /\ (\A j \in Rows : j < NextId) /\ (NextId = 1 \/ NextId - 1 \in Rows)
  BY <1>6 DEF NextId
<1>8. NextId - 1 \in Rows => NextId <= made + 1
  BY <1>1, <1>7 DEF TableOK
<1> QED
  BY <1>1, <1>7, <1>8

-----------------------------------------------------------------------------
(* What becomes of a row in a step.                                        *)

Stands(i)    == row'[i] = row[i]
Dropped(i)   == row'[i] = None /\ \E p \in Flusher : pc[p] = "sync"
Cancelled(i) == Pending(i) /\ row'[i] = [row[i] EXCEPT !.state = "cancelled"]
Elapsed(i)   == i \in Rows /\ row'[i] = [row[i] EXCEPT !.window = "elapsed"]
Settled(i)   == /\ i \in Rows
                /\ \E p \in Flusher : /\ Settle(p) /\ hand[p].id = i
                                      /\ row'[i] = [row[i] EXCEPT !.state = verdict[p]]

(* A new change of a flag leaves no older one of it pending.               *)
New(i) ==
  /\ made' = made + 1 /\ i <= made + 1 /\ UNCHANGED <<pc, conn, told>>
  /\ \A j \in Rows : j < i
  /\ row'[i] \in Row /\ row'[i].id = i /\ row'[i].serial = made + 1
  /\ row'[i].state = "pending"
  /\ \A j \in Rows :
       /\ Stands(j) \/ Cancelled(j)
       /\ Pending(j) /\ row[j].kind = "flag" /\ row'[i].kind = "flag" /\ row[j].mail = row'[i].mail
            => Cancelled(j)
  /\ \A j \in OpId : j \notin Rows /\ j # i => row'[j] = None

Fate(i) ==
  Stands(i) \/ Dropped(i) \/ Cancelled(i) \/ Elapsed(i) \/ Settled(i) \/ New(i)

LEMMA EnqueueIsNew ==
  ASSUME TypeOK, TableOK, NEW kind \in {"move", "flag"}, NEW m \in Mail,
         NEW target \in Folder \cup {None}, NEW window \in {"none", "open"},
         Enqueue(kind, m, target, window)
  PROVE  New(NextId) /\ \A i \in OpId : Fate(i)
<1>1. PICK c \in Chosen(m, target) :
        row' = [i \in OpId |->
          IF i = NextId
          THEN [id |-> i, serial |-> made + 1, state |-> "pending",
                window |-> window, kind |-> kind, mail |-> m,
                folder |-> c[1], uid |-> c[2],
                validity |-> knownValidity[c[1]], target |-> target]
          ELSE IF Superseded(i, kind, m)
          THEN [row[i] EXCEPT !.state = "cancelled"] ELSE row[i]]
  BY DEF Enqueue
<1>2. c[1] \in Folder /\ c[2] \in Uid /\ knownValidity[c[1]] \in Nat
  BY DEF Chosen, Candidates, TypeOK
<1>3. made < MaxOps /\ made' = made + 1 /\ UNCHANGED <<pc, conn, told>>
  BY DEF Enqueue
<1>4. made + 1 \in 1..MaxOps
  BY <1>3, BoundAssumption DEF TypeOK
<1>5. NextId \in OpId /\ NextId <= made + 1 /\ \A j \in Rows : j < NextId
  BY <1>3, NextIdIs
<1>6. \A j \in Rows : j \in OpId /\ j # NextId
  BY <1>5, BoundAssumption DEF Rows, OpId
<1> DEFINE fresh == [id |-> NextId, serial |-> made + 1, state |-> "pending",
                     window |-> window, kind |-> kind, mail |-> m,
                     folder |-> c[1], uid |-> c[2],
                     validity |-> knownValidity[c[1]], target |-> target]
<1>7. fresh \in Row /\ fresh.id = NextId /\ fresh.serial = made + 1
      /\ fresh.state = "pending" /\ fresh.kind = kind /\ fresh.mail = m
  BY <1>2, <1>4, <1>5 DEF Row, OpState
<1>8. row'[NextId] = fresh
  BY <1>1, <1>5
<1> HIDE DEF fresh
<1>9. \A j \in OpId : j # NextId =>
        row'[j] = IF Superseded(j, kind, m)
                  THEN [row[j] EXCEPT !.state = "cancelled"] ELSE row[j]
  BY <1>1
<1>10. \A j \in OpId : j # NextId =>
         /\ Superseded(j, kind, m) => Cancelled(j)
         /\ ~Superseded(j, kind, m) => Stands(j)
  BY <1>9 DEF Superseded, Cancelled, Stands
<1>11. \A j \in OpId : j \notin Rows /\ j # NextId => row'[j] = None
  BY <1>9 DEF Superseded, Pending, Rows
<1>12. New(NextId)
  BY <1>3, <1>5, <1>6, <1>7, <1>8, <1>10, <1>11 DEF New, Superseded
<1> QED
  BY <1>10, <1>12 DEF Fate

LEMMA Fates ==
  ASSUME TypeOK, TableOK, [Next]_vars
  PROVE  \A i \in OpId : Fate(i)
<1>1. CASE row' = row
  BY <1>1 DEF Fate, Stands
<1>2. CASE Person
  <2>1. CASE Undo
    <3>1. PICK i \in OpId : Offered(i) /\ row' = [row EXCEPT ![i].state = "cancelled"]
      BY <2>1 DEF Undo
    <3>2. Cancelled(i) /\ \A j \in OpId : j # i => Stands(j)
      BY <3>1 DEF Offered, Cancelled, Stands, TypeOK
    <3> QED
      BY <3>2 DEF Fate
  <2> QED
    BY <1>2, <2>1, EnqueueIsNew DEF Person
<1>3. ASSUME NEW i \in OpId, WindowElapses(i)
      PROVE  \A j \in OpId : Fate(j)
  <2>1. Elapsed(i) /\ \A j \in OpId : j # i => Stands(j)
    BY <1>3 DEF WindowElapses, Elapsed, Stands, TypeOK
  <2> QED
    BY <2>1 DEF Fate
<1>4. ASSUME NEW p \in Flusher, Settle(p)
      PROVE  \A j \in OpId : Fate(j)
  <2>1. row' = [row EXCEPT ![hand[p].id] =
                  IF @ = None THEN None ELSE [@ EXCEPT !.state = verdict[p]]]
    BY <1>4 DEF Settle
  <2>2. \A j \in OpId : j # hand[p].id \/ row[j] = None => Stands(j)
    BY <2>1 DEF Stands, TypeOK
  <2>3. \A j \in OpId : j = hand[p].id /\ row[j] # None => Settled(j)
    BY <1>4, <2>1 DEF Settled, Rows, TypeOK
  <2> QED
    BY <2>2, <2>3 DEF Fate
<1>5. ASSUME NEW p \in Flusher, Sync(p)
      PROVE  \A j \in OpId : Fate(j)
  <2>1. pc[p] = "sync"
    BY <1>5 DEF Sync, Invalidate, SyncFolder, Collect
  <2>2. \A j \in OpId : row'[j] \in {None, row[j]}
    BY <1>5 DEF Sync, Invalidate, SyncFolder, Collect, WithoutOperationsOn
  <2> QED
    BY <2>1, <2>2 DEF Fate, Stands, Dropped
<1> QED
  BY <1>1, <1>2, <1>3, <1>4, <1>5
     DEF Next, vars, Environment, OtherDeletes, OtherMoves, Renumber, Flush, StartFlush, Take,
         Probe, Command, Finish, Breaks, GivesUp

(* A row that was there keeps what it is, whatever becomes of it.          *)
Remains(i) ==
  /\ i \in Rows /\ row'[i] \in Row
  /\ row'[i].id = row[i].id /\ row'[i].serial = row[i].serial
  /\ row'[i].kind = row[i].kind /\ row'[i].mail = row[i].mail
  /\ row[i].window # "open" => row'[i].window # "open"

LEMMA RowsNext ==
  ASSUME TypeOK, TypeOK', TableOK, [Next]_vars, NEW i \in OpId, row'[i] # None
  PROVE  Remains(i) \/ New(i)
<1>1. row'[i] \in Row
  BY DEF TypeOK
<1>2. \A r \in Row, state \in OpState :
        LET q == [r EXCEPT !.state = state]
        IN  q.id = r.id /\ q.serial = r.serial /\ q.kind = r.kind /\ q.mail = r.mail
            /\ q.window = r.window
  BY DEF Row
<1>3. \A r \in Row :
        LET q == [r EXCEPT !.window = "elapsed"]
        IN  q.id = r.id /\ q.serial = r.serial /\ q.kind = r.kind /\ q.mail = r.mail
            /\ q.window = "elapsed"
  BY DEF Row
<1>4. i \in Rows => row[i] \in Row
  BY DEF Rows, TypeOK
<1>5. CASE Stands(i)
  BY <1>1, <1>5 DEF Stands, Rows, Remains
<1>6. CASE Cancelled(i)
  BY <1>1, <1>2, <1>4, <1>6 DEF Cancelled, Pending, OpState, Remains
<1>7. CASE Elapsed(i)
  BY <1>1, <1>3, <1>4, <1>7 DEF Elapsed, Remains
<1>8. CASE Settled(i)
  <2>1. PICK p \in Flusher : row'[i] = [row[i] EXCEPT !.state = verdict[p]]
    BY <1>8 DEF Settled
  <2>2. verdict[p] \in OpState
    BY DEF TypeOK
  <2> QED
    BY <1>1, <1>2, <1>4, <1>8, <2>1, <2>2 DEF Settled, Remains
<1> QED
  BY <1>5, <1>6, <1>7, <1>8, Fates DEF Fate, Dropped

LEMMA MadeGrows ==
  ASSUME TypeOK, [Next]_vars
  PROVE  made \in Nat /\ made' \in Nat /\ made' >= made
<1>1. made \in Nat
  BY BoundAssumption DEF TypeOK
<1>2. made' = made \/ made' = made + 1
  BY DEF Next, vars, bounds, Person, Enqueue, Undo, Environment, OtherDeletes, OtherMoves,
         Renumber, WindowElapses, Flush, StartFlush, Take, Probe, Command, Settle, Finish,
         Sync, Invalidate, SyncFolder, Collect, Breaks, GivesUp
<1> QED
  BY <1>1, <1>2

LEMMA TableStep ==
  ASSUME TypeOK, TypeOK', TableOK, [Next]_vars
  PROVE  TableOK'
<1>1. \A i \in Rows : i \in OpId /\ i \in Nat /\ row[i].serial \in Nat
  BY BoundAssumption DEF Rows, OpId, TypeOK, Row
<1>2. \A i \in OpId : row'[i] # None => Remains(i) \/ New(i)
  BY RowsNext
<1>3. ASSUME NEW i \in OpId, row'[i] # None
      PROVE  row'[i].id = i /\ i <= made' /\ row'[i].serial <= made'
  <2>1. CASE Remains(i)
    BY <1>1, <2>1, MadeGrows DEF Remains, TableOK
  <2>2. CASE New(i)
    BY <2>2, MadeGrows DEF New
  <2> QED
    BY <1>2, <1>3, <2>1, <2>2
<1>4. ASSUME NEW i \in OpId, NEW j \in OpId, row'[i] # None, row'[j] # None, i < j
      PROVE  row'[i].serial < row'[j].serial
  <2>1. CASE Remains(i) /\ Remains(j)
    BY <1>4, <2>1 DEF Remains, TableOK
  <2>2. CASE Remains(i) /\ New(j)
    BY <1>1, <2>2, MadeGrows DEF Remains, New, TableOK
  <2>3. CASE New(i)
    <3>1. \A k \in Rows : k < i
      BY <2>3 DEF New
    <3>2. i \in Nat /\ j \in Nat /\ j # i /\ j \notin Rows
      BY <1>4, <3>1, BoundAssumption DEF OpId
    <3>3. row'[j] = None
      BY <2>3, <3>2 DEF New
    <3> QED
      BY <1>4, <3>3
  <2> QED
    BY <1>2, <1>4, <2>1, <2>2, <2>3
<1> QED
  BY <1>3, <1>4 DEF TableOK, Rows

LEMMA InTableStays ==
  ASSUME TypeOK, TypeOK', TableOK, [Next]_vars, \A p \in Flusher : pc[p] # "sync",
         NEW o \in Row, InTable(o)
  PROVE  InTable(o)'
<1>1. o.id \in OpId /\ o.id \in Rows
  BY DEF InTable, Rows
<1>2. row[o.id] \in Row /\ row[o.id] # None
  BY <1>1 DEF Rows, TypeOK
<1>3. row'[o.id] # None
  <2>1. \A state \in OpState : [row[o.id] EXCEPT !.state = state] # None
    BY <1>2, RowAssumption DEF Row
  <2>2. [row[o.id] EXCEPT !.window = "elapsed"] # None
    BY <1>2, RowAssumption DEF Row
  <2>3. \A p \in Flusher : verdict[p] \in OpState
    BY DEF TypeOK
  <2>4. New(o.id) => row'[o.id] # None
    BY RowAssumption DEF New
  <2>5. Fate(o.id)
    BY <1>1, Fates
  <2> QED
    BY <1>2, <2>1, <2>2, <2>3, <2>4, <2>5
       DEF Fate, Stands, Dropped, Cancelled, Elapsed, Settled, OpState
<1>4. ~New(o.id)
  <2>1. o.id \in Nat
    BY <1>1, BoundAssumption DEF OpId
  <2> QED
    BY <1>1, <2>1 DEF New
<1>5. Remains(o.id)
  BY <1>1, <1>3, <1>4, RowsNext
<1> QED
  BY <1>1, <1>3, <1>5 DEF InTable, Remains, Rows

-----------------------------------------------------------------------------
(* What a flush holds, from one step to the next.                          *)

Working(p) == pc[p] \in {"probe", "act", "mark", "expunge"}

(* What a flusher itself does with what it holds.                          *)
Rests(p)   == UNCHANGED <<pc[p], todo[p], hand[p], verdict[p]>>
Reads(p)   == /\ StartFlush(p)
              /\ pc'[p] = "next" /\ hand'[p] = hand[p] /\ verdict'[p] = verdict[p]
              /\ todo'[p] = {row[i] : i \in {j \in OpId : IsDue(j)}}
Takes(p)   == /\ pc[p] = "next" /\ pc'[p] \in {"probe", "settle"}
              /\ hand'[p] \in Oldest(p) /\ todo'[p] = todo[p] \ {hand'[p]}
              /\ pc'[p] = "settle" => verdict'[p] = "failed"
Goes(p)    == /\ Working(p) /\ (Working(p)' \/ pc'[p] = "settle")
              /\ UNCHANGED <<todo[p], hand[p]>>
              /\ pc'[p] = "settle" =>
                   \/ verdict'[p] \in {"pending", "obsolete", "failed"}
                   \/ verdict'[p] = "done" /\ hand[p] \in asked'
PutsAway(p) == /\ Settle(p) /\ pc[p] = "settle" /\ pc'[p] = "next" /\ verdict[p] # "pending"
               /\ hand'[p] = None /\ todo'[p] = todo[p]
Stops(p)   == pc'[p] \in {"idle", "sync"} /\ hand'[p] = None /\ todo'[p] = {}

LEMMA FlusherMoves ==
  ASSUME TypeOK, [Next]_vars
  PROVE  \A p \in Flusher :
           Rests(p) \/ Reads(p) \/ Takes(p) \/ Goes(p) \/ PutsAway(p) \/ Stops(p)
<1> DEFINE Goal(p) ==
           Rests(p) \/ Reads(p) \/ Takes(p) \/ Goes(p) \/ PutsAway(p) \/ Stops(p)
<1>1. ASSUME UNCHANGED <<pc, todo, hand, verdict>>
      PROVE  \A p \in Flusher : Goal(p)
  BY <1>1 DEF Rests
<1>2. ASSUME NEW q \in Flusher, StartFlush(q)
      PROVE  \A p \in Flusher : Goal(p)
  <2>1. Reads(q)
    BY <1>2 DEF StartFlush, Reads, TypeOK
  <2>2. \A p \in Flusher : p # q => Rests(p)
    BY <1>2 DEF StartFlush, Rests, TypeOK
  <2> QED
    BY <2>1, <2>2
<1>3. ASSUME NEW q \in Flusher, Take(q)
      PROVE  \A p \in Flusher : Goal(p)
  <2>1. PICK o \in Oldest(q) :
          /\ hand' = [hand EXCEPT ![q] = o]
          /\ todo' = [todo EXCEPT ![q] = @ \ {o}]
          /\ Decide(q, "failed") \/ GoTo(q, "probe")
    BY <1>3 DEF Take
  <2>2. Takes(q)
    BY <1>3, <2>1 DEF Take, Decide, GoTo, Takes, TypeOK
  <2>3. \A p \in Flusher : p # q => Rests(p)
    BY <2>1 DEF Decide, GoTo, Rests, TypeOK
  <2> QED
    BY <2>2, <2>3
<1>4. ASSUME NEW q \in Flusher, Probe(q) \/ Command(q) \/ Breaks(q)
      PROVE  \A p \in Flusher : Goal(p)
  <2>1. UNCHANGED <<todo, hand>> /\ Working(q)
    BY <1>4 DEF Probe, Command, Effect, Breaks, Working
  <2>2. \/ \E step \in {"act", "mark", "expunge"} : GoTo(q, step)
        \/ \E v \in {"pending", "obsolete", "failed"} : Decide(q, v)
        \/ Decide(q, "done") /\ hand[q] \in asked'
    BY <1>4 DEF Probe, Command, Effect, Touch, Breaks, AfterBreak
  <2>3. Goes(q)
    BY <2>1, <2>2 DEF GoTo, Decide, Goes, Working, TypeOK
  <2>4. \A p \in Flusher : p # q => Rests(p)
    BY <2>1, <2>2 DEF GoTo, Decide, Rests, TypeOK
  <2> QED
    BY <2>3, <2>4
<1>5. ASSUME NEW q \in Flusher, Settle(q)
      PROVE  \A p \in Flusher : Goal(p)
  <2>1. CASE verdict[q] = "pending"
    BY <1>5, <2>1 DEF Settle, Leave, Stops, Rests, TypeOK
  <2>2. CASE verdict[q] # "pending"
    <3>1. /\ pc[q] = "settle" /\ pc' = [pc EXCEPT ![q] = "next"]
          /\ hand' = [hand EXCEPT ![q] = None] /\ todo' = todo
          /\ verdict' = [verdict EXCEPT ![q] = "pending"]
      BY <1>5, <2>2 DEF Settle
    <3>2. PutsAway(q)
      BY <1>5, <2>2, <3>1 DEF PutsAway, TypeOK
    <3>3. \A p \in Flusher : p # q => Rests(p)
      BY <3>1 DEF Rests, TypeOK
    <3> QED
      BY <3>2, <3>3
  <2> QED
    BY <2>1, <2>2
<1>6. ASSUME NEW q \in Flusher, Finish(q) \/ Collect(q) \/ GivesUp(q)
      PROVE  \A p \in Flusher : Goal(p)
  BY <1>6 DEF Finish, StartSync, Collect, GivesUp, Leave, Stops, Rests, TypeOK
<1> HIDE DEF Goal
<1>7. ASSUME \/ UNCHANGED vars \/ Person \/ Environment
             \/ \E q \in Flusher, f \in Folder : Invalidate(q, f) \/ SyncFolder(q, f)
      PROVE  \A p \in Flusher : Goal(p)
  BY <1>1, <1>7 DEF vars, conn, Person, Enqueue, Undo, Environment, OtherDeletes, OtherMoves,
                    Renumber, WindowElapses, Invalidate, SyncFolder
<1>8. \A p \in Flusher : Goal(p)
  BY <1>2, <1>3, <1>4, <1>5, <1>6, <1>7 DEF Next, Flush, Sync
<1> QED
  BY <1>8 DEF Goal

LEMMA HeldRows ==
  ASSUME TypeOK, ReadOK, NEW p \in Flusher
  PROVE  /\ Held(p) \subseteq Row
         /\ Held(p) # {} => InFlush(p)
         /\ InHand(p) => hand[p] \in Held(p)
         /\ ~InHand(p) => Held(p) = todo[p]
BY DEF TypeOK, ReadOK, Held, InFlush

LEMMA ReadStep ==
  ASSUME OneFlusher, TypeOK, TypeOK', TableOK, ReadOK, [Next]_vars
  PROVE  ReadOK'
<1> SUFFICES ASSUME NEW p \in Flusher
             PROVE  /\ ~InFlush(p)' => todo'[p] = {}
                    /\ InHand(p)' <=> hand'[p] # None
                    /\ None \notin todo'[p]
                    /\ \A a, b \in todo'[p] : a.id = b.id => a = b
                    /\ \A o \in Held(p)' : InTable(o)'
                    /\ InHand(p)' => \A o \in todo'[p] : hand'[p].id < o.id
  BY DEF ReadOK
<1>1. /\ ~InFlush(p) => todo[p] = {}
      /\ InHand(p) <=> hand[p] # None
      /\ None \notin todo[p]
      /\ \A a, b \in todo[p] : a.id = b.id => a = b
      /\ \A o \in Held(p) : InTable(o)
      /\ InHand(p) => \A o \in todo[p] : hand[p].id < o.id
  BY DEF ReadOK
<1>2. \A o \in Held(p) : InTable(o)'
  <2>1. SUFFICES ASSUME NEW o \in Held(p)
                 PROVE  InTable(o)'
    OBVIOUS
  <2>2. o \in Row /\ InFlush(p)
    BY HeldRows
  <2>3. \A q \in Flusher : pc[q] # "sync"
    BY <2>2 DEF OneFlusher, InFlush, InHand
  <2> QED
    BY <1>1, <2>2, <2>3, InTableStays
<1>3. CASE Rests(p)
  BY <1>1, <1>2, <1>3 DEF Rests, InFlush, InHand, Held
<1>4. CASE Reads(p)
  <2>1. pc[p] = "idle" /\ row' = row
    BY <1>4 DEF Reads, StartFlush
  <2>2. hand'[p] = None /\ pc'[p] = "next"
    BY <1>1, <1>4, <2>1 DEF Reads, InHand
  <2>3. \A o \in todo'[p] : \E i \in Rows : o = row[i] /\ row[i].window # "open" /\ row[i].id = i
    BY <1>4 DEF Reads, IsDue, Pending, TableOK
  <2>4. \A o \in todo'[p] : o # None /\ InTable(o)'
    BY <2>1, <2>3 DEF InTable, Rows
  <2>5. \A a, b \in todo'[p] : a.id = b.id => a = b
    BY <2>3
  <2> QED
    BY <2>2, <2>4, <2>5 DEF InFlush, InHand, Held
<1>5. CASE Takes(p)
  <2>1. ~InHand(p) /\ hand[p] = None /\ Held(p) = todo[p]
    BY <1>1, <1>5, HeldRows DEF Takes, InHand
  <2>2. hand'[p] \in todo[p] /\ \A o \in todo[p] : hand'[p].id <= o.id
    BY <1>5 DEF Takes, Oldest
  <2>3. \A o \in todo[p] : o.id \in Nat
    BY BoundAssumption DEF TypeOK, Row, OpId
  <2>4. \A o \in todo'[p] : o \in todo[p] /\ hand'[p].id < o.id
    BY <1>1, <1>5, <2>2, <2>3 DEF Takes
  <2>5. Held(p)' \subseteq Held(p)
    BY <2>1, <2>2, <2>4 DEF Held
  <2> QED
    BY <1>1, <1>2, <1>5, <2>2, <2>4, <2>5 DEF Takes, InFlush, InHand
<1>6. CASE Goes(p)
  BY <1>1, <1>2, <1>6 DEF Goes, Working, InFlush, InHand, Held
<1>7. CASE PutsAway(p)
  BY <1>1, <1>2, <1>7 DEF PutsAway, InFlush, InHand, Held
<1>8. CASE Stops(p)
  BY <1>8 DEF Stops, InFlush, InHand, Held
<1> QED
  BY <1>3, <1>4, <1>5, <1>6, <1>7, <1>8, FlusherMoves

-----------------------------------------------------------------------------
(* What the server has been told.                                          *)

LEMMA AskedGrows ==
  ASSUME [Next]_vars
  PROVE  \/ asked' = asked
         \/ \E p \in Flusher : Working(p) /\ asked' = asked \cup {hand[p]}
<1>1. ASSUME NEW p \in Flusher, Effect(p)
      PROVE  Working(p) /\ asked' = asked \cup {hand[p]}
  BY <1>1 DEF Effect, Touch, Working
<1> QED
  BY <1>1 DEF Next, vars, told, Person, Enqueue, Undo, Environment, OtherDeletes, OtherMoves,
         Renumber, WindowElapses, Flush, StartFlush, Take, Probe, Command, Settle, Finish,
         Sync, Invalidate, SyncFolder, Collect, Breaks, GivesUp

LEMMA AskedStep ==
  ASSUME TypeOK, TableOK, ReadOK, AskedOK, [Next]_vars
  PROVE  AskedOK'
<1>1. asked \subseteq asked'
  BY AskedGrows
<1>2. ASSUME NEW o \in asked'
      PROVE  o.serial <= made'
  <2>1. CASE o \in asked
    <3>1. o.serial <= made /\ o.serial \in Nat
      BY <2>1 DEF AskedOK, TypeOK, Row
    <3> QED
      BY <3>1, MadeGrows
  <2>2. ASSUME NEW p \in Flusher, Working(p), o = hand[p]
        PROVE  o.serial <= made'
    <3>1. o \in Held(p) /\ o \in Row
      BY <2>2, HeldRows DEF Working, InHand
    <3>2. o.serial <= made /\ o.serial \in Nat
      BY <3>1 DEF ReadOK, InTable, TableOK, Row
    <3> QED
      BY <3>2, MadeGrows
  <2> QED
    BY <1>2, <2>1, <2>2, AskedGrows
<1>3. ASSUME NEW p \in Flusher, pc'[p] = "settle", verdict'[p] = "done"
      PROVE  hand'[p] \in asked'
  BY <1>1, <1>3, FlusherMoves
     DEF Rests, Reads, Takes, Goes, PutsAway, Stops, AskedOK
<1> QED
  BY <1>2, <1>3 DEF AskedOK

LEMMA DoneStep ==
  ASSUME TypeOK, TypeOK', TableOK, ReadOK, AskedOK, DoneWasAsked, [Next]_vars
  PROVE  DoneWasAsked'
<1> SUFFICES ASSUME NEW i \in OpId, row'[i] # None, row'[i].state = "done"
             PROVE  \E o \in asked' : o.serial = row'[i].serial
  BY DEF DoneWasAsked, Rows
<1>1. asked \subseteq asked'
  BY AskedGrows
<1>2. i \in Rows => row[i] \in Row
  BY DEF Rows, TypeOK
<1>3. CASE Stands(i)
  BY <1>1, <1>3 DEF Stands, DoneWasAsked, Rows
<1>4. CASE Cancelled(i)
  BY <1>2, <1>4 DEF Cancelled, Pending, Row
<1>5. CASE Elapsed(i)
  <2>1. row'[i].state = row[i].state /\ row'[i].serial = row[i].serial
    BY <1>2, <1>5 DEF Elapsed, Row
  <2> QED
    BY <1>1, <1>5, <2>1 DEF Elapsed, DoneWasAsked
<1>6. CASE Settled(i)
  <2>1. PICK p \in Flusher : /\ Settle(p) /\ hand[p].id = i
                             /\ row'[i] = [row[i] EXCEPT !.state = verdict[p]]
    BY <1>6 DEF Settled
  <2>2. verdict[p] = "done" /\ row'[i].serial = row[i].serial
    BY <1>2, <1>6, <2>1 DEF Settled, Row
  <2>3. hand[p] \in asked /\ hand[p] \in Held(p)
    BY <2>1, <2>2, HeldRows DEF Settle, AskedOK, InHand
  <2>4. hand[p].serial = row[i].serial
    BY <2>1, <2>3 DEF ReadOK, InTable
  <2> QED
    BY <1>1, <2>2, <2>3, <2>4
<1>7. CASE New(i)
  BY <1>7 DEF New
<1> QED
  BY <1>3, <1>4, <1>5, <1>6, <1>7, Fates DEF Fate, Dropped

-----------------------------------------------------------------------------
(* Undo.                                                                   *)

(* Nothing comes into a flush but what is due.                             *)
LEMMA HeldNext ==
  ASSUME TypeOK, ReadOK, [Next]_vars, NEW p \in Flusher, NEW o \in Held(p)'
  PROVE  \/ o \in Held(p)
         \/ Reads(p) /\ \E i \in OpId : IsDue(i) /\ o = row[i]
<1>1. CASE Reads(p)
  <2>1. hand[p] = None /\ hand'[p] = None
    BY <1>1 DEF Reads, StartFlush, ReadOK, InHand
  <2> QED
    BY <1>1, <2>1 DEF Reads, Held
<1>2. o \in todo'[p] \/ (o = hand'[p] /\ o # None)
  BY DEF Held
<1>3. CASE Takes(p)
  <2>1. hand'[p] \in todo[p] /\ todo'[p] \subseteq todo[p]
    BY <1>3 DEF Takes, Oldest
  <2> QED
    BY <1>2, <2>1 DEF Held
<1>4. CASE Rests(p) \/ Goes(p) \/ PutsAway(p)
  <2>1. todo'[p] = todo[p] /\ hand'[p] \in {None, hand[p]}
    BY <1>4 DEF Rests, Goes, PutsAway
  <2> QED
    BY <1>2, <2>1 DEF Held
<1>5. CASE Stops(p)
  BY <1>2, <1>5 DEF Stops
<1> QED
  BY <1>1, <1>3, <1>4, <1>5, FlusherMoves

LEMMA SerialsDiffer ==
  ASSUME TypeOK, TableOK, NEW i \in Rows, NEW j \in Rows, row[i].serial = row[j].serial
  PROVE  i = j
<1>1. i \in Nat /\ j \in Nat /\ row[i].serial \in Nat
  BY BoundAssumption DEF Rows, OpId, TypeOK, Row
<1> QED
  BY <1>1 DEF TableOK

LEMMA UndoStep ==
  ASSUME TypeOK, TypeOK', TableOK, ReadOK, [Next]_vars, NEW i \in Rows,
         row[i].state = "cancelled", \A p \in Flusher : row[i].serial \notin Read(p)
  PROVE  /\ \A p \in Flusher : row[i].serial \notin Read(p)'
         /\ {o \in asked' : o.serial = row[i].serial} \subseteq asked
         /\ row'[i] # None /\ row'[i].serial = row[i].serial => row'[i].state = "cancelled"
<1>1. \A p \in Flusher, o \in Row : o \in Held(p) => o.serial # row[i].serial
  BY DEF Read, Held
<1>2. ASSUME NEW p \in Flusher, NEW o \in Held(p)', o.serial = row[i].serial
      PROVE  FALSE
  <2>1. o \notin Held(p)
    BY <1>1, <1>2, HeldRows
  <2>2. PICK j \in OpId : IsDue(j) /\ o = row[j]
    BY <2>1, HeldNext
  <2>3. j \in Rows /\ row[j].state = "pending"
    BY <2>2 DEF IsDue, Pending
  <2>4. j = i
    BY <1>2, <2>2, <2>3, SerialsDiffer
  <2> QED
    BY <2>3, <2>4
<1>3. \A p \in Flusher : row[i].serial \notin Read(p)'
  BY <1>2 DEF Read, Held
<1>4. \A p \in Flusher : Working(p) => hand[p].serial # row[i].serial
  BY <1>1, HeldRows DEF Working, InHand
<1>5. {o \in asked' : o.serial = row[i].serial} \subseteq asked
  BY <1>4, AskedGrows
<1>6. ASSUME row'[i] # None
      PROVE  row'[i].state = "cancelled"
  <2>1. i \in OpId /\ row[i] \in Row /\ i \in Nat
    BY BoundAssumption DEF Rows, TypeOK, OpId
  <2>2. ~Settled(i)
    <3>1. ASSUME NEW p \in Flusher, Settle(p), hand[p].id = i
          PROVE  FALSE
      <4>1. hand[p] \in Held(p) /\ hand[p] \in Row
        BY <3>1, HeldRows DEF Settle, InHand
      <4>2. hand[p].serial = row[i].serial
        BY <3>1, <4>1 DEF ReadOK, InTable
      <4> QED
        BY <1>1, <4>1, <4>2
    <3> QED
      BY <3>1 DEF Settled
  <2>3. ~New(i)
    BY <2>1 DEF New
  <2>4. Elapsed(i) => row'[i].state = row[i].state
    BY <2>1 DEF Elapsed, Row
  <2> QED
    BY <1>6, <2>1, <2>2, <2>3, <2>4, Fates DEF Fate, Stands, Dropped, Cancelled, Pending
<1> QED
  BY <1>3, <1>5, <1>6

-----------------------------------------------------------------------------
(* The last word.                                                          *)

LEMMA OlderPending ==
  ASSUME OneFlusher, TypeOK, TypeOK', TableOK, TableOK', ReadOK, FlagsOK, [Next]_vars,
         NEW i \in OpId, NEW j \in OpId, row'[i] # None, row'[j] # None, i < j,
         row'[i].state = "pending", SameFlag(row'[i], row'[j])
  PROVE  /\ row'[i].window # "open"
         /\ \A p \in Flusher : InFlush(p)' => \E o \in Held(p)' : o.id = i
<1>1. ~New(i)
  <2>1. ASSUME New(i), j \in Rows
        PROVE  FALSE
    BY <2>1, BoundAssumption DEF New, OpId
  <2>2. j # i
    BY BoundAssumption DEF OpId
  <2> QED
    BY <2>1, <2>2 DEF New
<1>2. Remains(i)
  BY <1>1, RowsNext
<1>3. row[i] \in Row
  BY <1>2 DEF Remains, Rows, TypeOK
<1>4. ~New(j)
  <2>1. ASSUME New(j)
        PROVE  FALSE
    <3>1. Stands(i) \/ Cancelled(i)
      BY <1>2, <2>1 DEF New, Remains
    <3>2. ~Cancelled(i)
      BY <1>3 DEF Cancelled, Row
    <3>3. Pending(i)
      BY <1>2, <3>1, <3>2 DEF Stands, Pending, Remains
    <3> QED
      BY <1>2, <2>1, <3>2, <3>3 DEF New, Remains, SameFlag
  <2> QED
    BY <2>1
<1>5. Remains(j)
  BY <1>4, RowsNext
<1>6. i \in Rows /\ j \in Rows /\ SameFlag(row[i], row[j])
  BY <1>2, <1>5 DEF Remains, SameFlag
<1>7. CASE Pending(i)
  <2>1. /\ row[i].window # "open"
        /\ \A p \in Flusher : InFlush(p) => \E o \in Held(p) : o.id = i
    BY <1>6, <1>7 DEF FlagsOK
  <2>2. row'[i].window # "open"
    BY <1>2, <2>1 DEF Remains
  <2>3. ASSUME NEW p \in Flusher, InFlush(p)'
        PROVE  \E o \in Held(p)' : o.id = i
    <3>1. CASE Rests(p) \/ Goes(p)
      BY <2>1, <2>3, <3>1 DEF Rests, Goes, Working, InFlush, InHand, Held
    <3>2. CASE Reads(p)
      <4>1. row[i] \in todo'[p] /\ row[i].id = i
        BY <1>6, <1>7, <2>1, <3>2 DEF Reads, IsDue, TableOK
      <4> QED
        BY <4>1 DEF Held
    <3>3. CASE Takes(p)
      <4>1. PICK o \in Held(p) : o.id = i
        BY <2>1, <3>3 DEF Takes, InFlush
      <4>2. o \in todo[p] /\ None \notin todo[p]
        BY <3>3 DEF Takes, Held, ReadOK, InHand
      <4>3. o \in Held(p)'
        BY <3>3, <4>2 DEF Takes, Oldest, Held
      <4> QED
        BY <4>1, <4>3
    <3>4. CASE PutsAway(p)
      <4>1. PICK o \in Held(p) : o.id = i
        BY <2>1, <3>4 DEF PutsAway, InFlush, InHand
      <4>2. hand[p].id # i
        <5>1. ASSUME hand[p].id = i
              PROVE  row'[i].state = verdict[p]
          <6>1. row' = [row EXCEPT ![i] =
                          IF @ = None THEN None ELSE [@ EXCEPT !.state = verdict[p]]]
            BY <3>4, <5>1 DEF PutsAway, Settle
          <6>2. row'[i] = [row[i] EXCEPT !.state = verdict[p]]
            BY <1>6, <6>1 DEF Rows, TypeOK
          <6> QED
            BY <1>3, <6>2 DEF Row
        <5> QED
          BY <3>4, <5>1 DEF PutsAway
      <4>3. o \in todo[p]
        BY <4>1, <4>2 DEF Held
      <4>4. o \in Held(p)'
        BY <3>4, <4>3 DEF PutsAway, Held
      <4> QED
        BY <4>1, <4>4
    <3>5. ~Stops(p)
      BY <2>3 DEF Stops, InFlush, InHand
    <3> QED
      BY <3>1, <3>2, <3>3, <3>4, <3>5, FlusherMoves
  <2> QED
    BY <2>2, <2>3
<1>8. CASE ~Pending(i)
  <2>1. Settled(i)
    <3>1. Elapsed(i) => row'[i].state = row[i].state
      BY <1>3 DEF Elapsed, Row
    <3>2. ~Cancelled(i)
      BY <1>8 DEF Cancelled
    <3> QED
      BY <1>1, <1>6, <1>8, <3>1, <3>2, Fates DEF Fate, Stands, Dropped, Pending
  <2>2. PICK q \in Flusher : /\ Settle(q) /\ hand[q].id = i
                             /\ row'[i] = [row[i] EXCEPT !.state = verdict[q]]
    BY <2>1 DEF Settled
  <2>3. verdict[q] = "pending"
    BY <1>3, <2>2 DEF Row
  <2>4. ~InFlush(q)'
    BY <2>2, <2>3 DEF Settle, Leave, InFlush, InHand, TypeOK
  <2>5. hand[q] \in Held(q)
    BY <2>2, HeldRows DEF Settle, InHand
  <2>6. row'[i].window # "open"
    BY <1>2, <2>2, <2>5 DEF ReadOK, InTable, Remains
  <2> QED
    BY <2>4, <2>6 DEF OneFlusher
<1> QED
  BY <1>7, <1>8

(* What is being sent is the oldest there is of its flag.                  *)
LEMMA HandIsOldest ==
  ASSUME TypeOK, TableOK, ReadOK, FlagsOK, NEW p \in Flusher, Working(p),
         NEW i \in Rows, Pending(i), SameFlag(hand[p], row[i])
  PROVE  hand[p].serial <= row[i].serial
<1>1. hand[p] \in Held(p) /\ hand[p] \in Row /\ InFlush(p) /\ InHand(p)
  BY HeldRows DEF Working, InHand, InFlush
<1> DEFINE j == hand[p].id
<1>2. /\ j \in Rows /\ row[j].serial = hand[p].serial
      /\ row[j].kind = hand[p].kind /\ row[j].mail = hand[p].mail
  BY <1>1 DEF ReadOK, InTable
<1>3. i \in Nat /\ j \in Nat /\ row[i].serial \in Nat /\ row[j].serial \in Nat
  <2>1. \A k \in Rows : k \in Nat /\ row[k].serial \in Nat
    BY BoundAssumption DEF Rows, OpId, TypeOK, Row
  <2> HIDE DEF j
  <2> QED
    BY <1>2, <2>1
<1>4. ~(i < j)
  <2>1. ASSUME i < j
        PROVE  FALSE
    <3>1. PICK o \in Held(p) : o.id = i
      BY <1>1, <1>2, <2>1 DEF FlagsOK, SameFlag
    <3>2. o \in todo[p]
      BY <1>3, <2>1, <3>1 DEF Held
    <3>3. j < o.id
      BY <1>1, <3>2 DEF ReadOK
    <3> QED
      BY <1>3, <2>1, <3>1, <3>3
  <2> QED
    BY <2>1
<1>5. i = j \/ j < i
  BY <1>3, <1>4
<1> QED
  BY <1>2, <1>3, <1>5 DEF TableOK

LEMMA AskedBeforePending ==
  ASSUME TypeOK, TypeOK', TableOK, ReadOK, AskedOK, FlagsOK, [Next]_vars,
         NEW before \in asked', NEW i \in OpId, row'[i] # None, row'[i].state = "pending",
         SameFlag(before, row'[i])
  PROVE  before.serial <= row'[i].serial
<1>1. CASE New(i)
  <2>1. before \in asked
    BY <1>1 DEF New, told
  <2>2. before.serial <= made /\ before.serial \in Nat /\ made \in Nat
    BY <2>1, MadeGrows DEF AskedOK, TypeOK, Row
  <2> QED
    BY <1>1, <2>2 DEF New
<1>2. CASE Remains(i)
  <2>1. /\ i \in Rows /\ row[i] \in Row
        /\ SameFlag(before, row[i]) /\ row'[i].serial = row[i].serial
    BY <1>2 DEF Remains, SameFlag, Rows, TypeOK
  <2>2. CASE Pending(i)
    <3>1. CASE before \in asked
      BY <2>1, <2>2, <3>1 DEF FlagsOK
    <3>2. ASSUME NEW p \in Flusher, Working(p), before = hand[p]
          PROVE  before.serial <= row[i].serial
      BY <2>1, <2>2, <3>2, HandIsOldest
    <3> QED
      BY <2>1, <3>1, <3>2, AskedGrows
  <2>3. CASE ~Pending(i) /\ ~New(i)
    <3>1. Settled(i)
      <4>1. Elapsed(i) => row'[i].state = row[i].state
        BY <2>1 DEF Elapsed, Row
      <4>2. ~Cancelled(i)
        BY <2>3 DEF Cancelled
      <4> QED
        BY <2>1, <2>3, <4>1, <4>2, Fates DEF Fate, Stands, Dropped, Pending
    <3>2. PICK p \in Flusher : Settle(p) /\ hand[p].id = i
      BY <3>1 DEF Settled
    <3>3. hand[p] \in Held(p) /\ before \in asked
      BY <3>2, HeldRows DEF Settle, InHand, told
    <3>4. /\ row[i].serial = hand[p].serial
          /\ row[i].kind = hand[p].kind /\ row[i].mail = hand[p].mail
      BY <3>2, <3>3 DEF ReadOK, InTable
    <3> QED
      BY <2>1, <3>3, <3>4 DEF FlagsOK, SameFlag
  <2> QED
    BY <1>1, <2>2, <2>3
<1> QED
  BY <1>1, <1>2, RowsNext

LEMMA AskedBeforeHeld ==
  ASSUME OneFlusher, TypeOK, TableOK, ReadOK, FlagsOK, [Next]_vars,
         NEW before \in asked', NEW p \in Flusher, NEW o \in Held(p)', SameFlag(before, o)
  PROVE  before.serial <= o.serial
<1>1. CASE o \in Held(p)
  <2>1. CASE before \in asked
    BY <1>1, <2>1 DEF FlagsOK
  <2>2. ASSUME Working(p), before = hand[p]
        PROVE  before.serial <= o.serial
    <3>1. InHand(p) /\ hand[p] \in Held(p)
      BY <2>2, HeldRows DEF Working, InHand
    <3>2. CASE o = hand[p]
      <4>1. o.serial \in Nat
        BY <1>1, HeldRows DEF Row
      <4> QED
        BY <2>2, <3>2, <4>1
    <3>3. CASE o \in todo[p]
      <4>1. hand[p].id < o.id
        BY <3>1, <3>3 DEF ReadOK
      <4>2. /\ hand[p].id \in Rows /\ row[hand[p].id].serial = hand[p].serial
            /\ o.id \in Rows /\ row[o.id].serial = o.serial
        BY <1>1, <3>1 DEF ReadOK, InTable
      <4>3. hand[p].serial < o.serial
        BY <4>1, <4>2 DEF TableOK
      <4>4. hand[p].serial \in Nat /\ o.serial \in Nat
        BY <1>1, <3>1, HeldRows DEF Row
      <4> QED
        BY <2>2, <4>3, <4>4
    <3> QED
      BY <1>1, <3>2, <3>3 DEF Held
  <2> QED
    BY <2>1, <2>2, AskedGrows DEF OneFlusher
<1>2. ASSUME Reads(p), NEW i \in OpId, IsDue(i), o = row[i]
      PROVE  before.serial <= o.serial
  <2>1. before \in asked /\ i \in Rows /\ Pending(i)
    BY <1>2 DEF Reads, StartFlush, told, IsDue, Pending
  <2> QED
    BY <1>2, <2>1 DEF FlagsOK
<1> QED
  BY <1>1, <1>2, HeldNext

LEMMA FlagsStep ==
  ASSUME OneFlusher, TypeOK, TypeOK', TableOK, TableOK', ReadOK, AskedOK, FlagsOK, [Next]_vars
  PROVE  FlagsOK'
<1>1. ASSUME NEW i \in Rows', NEW j \in Rows', Pending(i)', i < j,
             SameFlag(row'[i], row'[j])
      PROVE  /\ row'[i].window # "open"
             /\ \A p \in Flusher : InFlush(p)' => \E o \in Held(p)' : o.id = i
  BY <1>1, OlderPending DEF Rows, Pending
<1>2. ASSUME NEW before \in asked', NEW i \in Rows', Pending(i)', SameFlag(before, row'[i])
      PROVE  before.serial <= row'[i].serial
  BY <1>2, AskedBeforePending DEF Rows, Pending
<1>3. ASSUME NEW before \in asked', NEW p \in Flusher, NEW o \in Held(p)', SameFlag(before, o)
      PROVE  before.serial <= o.serial
  BY <1>3, AskedBeforeHeld
<1> QED
  BY <1>1, <1>2, <1>3 DEF FlagsOK, SameFlag

LEMMA LastWordStep ==
  ASSUME TypeOK, ReadOK, FlagsOK, [Next]_vars, NEW o \in asked', NEW before \in asked,
         SameFlag(before, o)
  PROVE  o \in asked \/ before.serial <= o.serial
<1>1. ASSUME NEW p \in Flusher, Working(p), o = hand[p]
      PROVE  before.serial <= o.serial
  <2>1. o \in Held(p)
    BY <1>1, HeldRows DEF Working, InHand
  <2> QED
    BY <2>1 DEF FlagsOK
<1> QED
  BY <1>1, AskedGrows

-----------------------------------------------------------------------------
LEMMA InitTable == Init => TableInv
<1> SUFFICES ASSUME Init
             PROVE  TableInv
  OBVIOUS
<1>1. Rows = {} /\ asked = {}
  BY DEF Init, Rows
<1>2. \A p \in Flusher : pc[p] = "idle" /\ todo[p] = {} /\ hand[p] = None
  BY DEF Init
<1>3. TableOK /\ AskedOK /\ DoneWasAsked /\ FlagsOK
  BY <1>1, <1>2 DEF TableOK, AskedOK, DoneWasAsked, FlagsOK
<1>4. ReadOK
  BY <1>2 DEF ReadOK, InFlush, InHand, Held
<1> QED
  BY <1>3, <1>4, InitIInv DEF TableInv

LEMMA NextTable ==
  ASSUME OneFlusher
  PROVE  TableInv /\ [Next]_vars => TableInv'
<1> SUFFICES ASSUME TableInv, [Next]_vars
             PROVE  TableInv'
  OBVIOUS
<1>1. IInv' /\ TypeOK /\ TypeOK'
  BY NextIInv DEF TableInv, IInv
<1>2. TableOK'
  BY <1>1, TableStep DEF TableInv
<1>3. ReadOK' /\ AskedOK' /\ DoneWasAsked' /\ FlagsOK'
  BY <1>1, <1>2, ReadStep, AskedStep, DoneStep, FlagsStep DEF TableInv
<1> QED
  BY <1>1, <1>2, <1>3 DEF TableInv

LEMMA TableInvariance ==
  ASSUME OneFlusher
  PROVE  Spec => []TableInv
<1>1. TableInv /\ [Next]_vars => TableInv'
  BY NextTable
<1> QED
  BY <1>1, InitTable, PTL DEF Spec

(* settle_operation names a row by its id.  With one flusher it is right   *)
(* about it all the same: a row that says done was carried out, however    *)
(* connections broke and ids were handed out again.                        *)
THEOREM DoneIsTrue ==
  ASSUME OneFlusher
  PROVE  Spec => []DoneWasAsked
<1>1. TableInv => DoneWasAsked
  BY DEF TableInv
<1> QED
  BY <1>1, TableInvariance, PTL

(* cancel_latest_operation: what was undone before a flush had read it is  *)
(* read by none, and the server is never told of it.                       *)
THEOREM UndoIsFinal ==
  ASSUME OneFlusher
  PROVE  Spec => UndoHolds
<1>1. TableInv /\ TableInv' /\ [Next]_vars =>
        \A i \in Rows :
          LET n == row[i].serial
          IN  row[i].state = "cancelled" /\ (\A p \in Flusher : n \notin Read(p)) =>
                /\ \A p \in Flusher : n \notin Read(p)'
                /\ {o \in asked' : o.serial = n} \subseteq asked
                /\ row'[i] # None /\ row'[i].serial = n => row'[i].state = "cancelled"
  <2> SUFFICES ASSUME TableInv, TableInv', [Next]_vars, NEW i \in Rows,
                      row[i].state = "cancelled",
                      \A p \in Flusher : row[i].serial \notin Read(p)
               PROVE  /\ \A p \in Flusher : row[i].serial \notin Read(p)'
                      /\ {o \in asked' : o.serial = row[i].serial} \subseteq asked
                      /\ row'[i] # None /\ row'[i].serial = row[i].serial =>
                           row'[i].state = "cancelled"
    OBVIOUS
  <2> QED
    BY UndoStep DEF TableInv, IInv
<1> QED
  BY <1>1, TableInvariance, PTL DEF Spec, UndoHolds

(* "The user's last word wins" (core-store lib.rs, enqueue_operation): no  *)
(* older change of a flag is carried out after a newer one.                *)
THEOREM LastWord ==
  ASSUME OneFlusher
  PROVE  Spec => LastFlagWordWins
<1>1. TableInv /\ [Next]_vars =>
        \A o \in asked', before \in asked :
          o.kind = "flag" /\ before.kind = "flag" /\ o.mail = before.mail =>
            o \in asked \/ before.serial <= o.serial
  BY LastWordStep DEF TableInv, IInv, SameFlag
<1> QED
  BY <1>1, TableInvariance, PTL DEF Spec, LastFlagWordWins

-----------------------------------------------------------------------------
(* What a sync has yet to visit, or has seen.                              *)

Awaits(p, m) == \E f \in unseen[p], u \in Uid : MailAt(box, f, u) = m
Found(p, m)  == \E f \in Folder \ unseen[p], u \in Uid : known[f][u] = m

SeenOK ==
  \A p \in Flusher : pc[p] = "sync" =>
    \A m \in Mail \ (discarded \cup displaced) : Awaits(p, m) \/ Found(p, m)

(* Only another client takes a message away before a sync has come to it.  *)
LEMMA StillThere ==
  ASSUME TypeOK, BoxOK, Environment, NEW f \in Folder, NEW u \in Uid, NEW m \in Mail,
         MailAt(box, f, u) = m, m \notin discarded', m \notin displaced'
  PROVE  \E v \in Uid : MailAt(box', f, v) = m
<1>0. box[f][u] # None /\ box[f][u].mail = m
  BY MailAtType, NameAssumption
<1>1. CASE box' = box
  BY <1>1
<1>2. ASSUME NEW g \in Folder, NEW w \in Uid, OtherDeletes(g, w)
      PROVE  \E v \in Uid : MailAt(box', f, v) = m
  <2>1. <<f, u>> # <<g, w>>
    BY <1>0, <1>2 DEF OtherDeletes
  <2>2. box'[f][u] = box[f][u]
    BY <1>2, <2>1 DEF OtherDeletes, TypeOK, Copies
  <2> QED
    BY <2>2 DEF MailAt
<1>3. ASSUME NEW g \in Folder, NEW h \in Folder, NEW w \in Uid, OtherMoves(g, w, h)
      PROVE  \E v \in Uid : MailAt(box', f, v) = m
  <2> DEFINE n == box[g][w].mail
  <2>1. n \in Mail /\ HasRoom(h) /\ box \in [Folder -> Copies] /\ n # m
    BY <1>3 DEF OtherMoves, Occupied, TypeOK, Copies, Copy
  <2>2. /\ WithCopy(box, h, n) \in [Folder -> Copies] /\ uidNext[h] \in Uid
        /\ WithCopy(box, h, n)[h][uidNext[h]] = [mail |-> n, mark |-> "kept"]
        /\ \A k \in Folder, v \in Uid :
             k # h \/ v # uidNext[h] => WithCopy(box, h, n)[k][v] = box[k][v]
    BY <2>1, Appended
  <2>3. box' = [WithCopy(box, h, n) EXCEPT ![g][w] = None]
    BY <1>3 DEF OtherMoves
  <2>4. <<f, u>> # <<g, w>>
    BY <1>0, <2>1
  <2> HIDE DEF n
  <2>5. box'[f][u] = WithCopy(box, h, n)[f][u]
    BY <2>2, <2>3, <2>4 DEF Copies
  <2>6. f # h \/ u # uidNext[h]
    <3>1. ~(u >= uidNext[f])
      BY <1>0 DEF BoxOK
    <3>2. u \in Nat
      BY UidType
    <3> QED
      BY <3>1, <3>2
  <2> QED
    BY <2>2, <2>5, <2>6 DEF MailAt
<1>4. ASSUME NEW g \in Folder, Renumber(g)
      PROVE  \E v \in Uid : MailAt(box', f, v) = m
  <2> DEFINE k == Cardinality(Occupied(g))
  <2>1. PICK at \in [1..k -> Occupied(g)] :
          /\ \A i, j \in 1..k : at[i] = at[j] => i = j
          /\ box' = [box EXCEPT ![g] =
                       [v \in Uid |-> IF v <= k THEN box[g][at[v]] ELSE None]]
    BY <1>4 DEF Renumber
  <2>2. CASE f # g
    BY <2>1, <2>2 DEF TypeOK, MailAt
  <2>3. CASE f = g
    <3>1. u \in Occupied(g) /\ Occupied(g) \subseteq Uid
      BY <1>0, <2>3 DEF Occupied
    <3>2. /\ k \in 0..MaxUid /\ 1..k \subseteq Uid
          /\ \A v \in Occupied(g) : \E i \in 1..k : at[i] = v
      BY <2>1, <3>1, Renumbered
    <3>3. PICK i \in 1..k : at[i] = u
      BY <3>1, <3>2
    <3>4. i \in Uid /\ i <= k
      BY <3>2
    <3>5. box'[f][i] = box[f][u]
      BY <2>1, <2>3, <3>3, <3>4 DEF TypeOK
    <3>6. MailAt(box', f, i) = m
      BY <3>5 DEF MailAt
    <3> QED
      BY <3>4, <3>6
  <2> QED
    BY <2>2, <2>3
<1> QED
  BY <1>1, <1>2, <1>3, <1>4 DEF Environment, WindowElapses, server

LEMMA SeenStep ==
  ASSUME OneFlusher, IInv, IInv', SeenOK, [Next]_vars
  PROVE  SeenOK'
<1> SUFFICES ASSUME NEW p \in Flusher, pc'[p] = "sync", NEW m \in Mail,
                    m \notin discarded', m \notin displaced'
             PROVE  Awaits(p, m)' \/ Found(p, m)'
  BY DEF SeenOK
<1>0. TypeOK /\ BoxOK
  BY DEF IInv
<1>1. discarded \subseteq discarded' /\ displaced \subseteq displaced'
  BY DEF Next, vars, bounds, Person, Enqueue, Undo, Environment, OtherDeletes, OtherMoves,
         Renumber, WindowElapses, Flush, StartFlush, Take, Probe, Command, Settle, Finish,
         Sync, Invalidate, SyncFolder, Collect, Breaks, GivesUp
<1>2. pc[p] = "sync" => Awaits(p, m) \/ Found(p, m)
  BY <1>1 DEF SeenOK
<1>3. CASE UNCHANGED <<box, known, unseen, pc>>
  BY <1>2, <1>3 DEF Awaits, Found
<1>4. CASE Environment
  <2>1. UNCHANGED <<known, unseen, pc>>
    BY <1>4 DEF Environment, OtherDeletes, OtherMoves, Renumber, WindowElapses, seen, conn
  <2>2. CASE Found(p, m)
    BY <2>1, <2>2 DEF Found
  <2>3. CASE Awaits(p, m)
    <3>1. PICK f \in unseen[p], u \in Uid : MailAt(box, f, u) = m
      BY <2>3 DEF Awaits
    <3>2. f \in Folder
      BY <1>0 DEF TypeOK
    <3>3. \E v \in Uid : MailAt(box', f, v) = m
      BY <1>0, <1>4, <3>1, <3>2, StillThere
    <3> QED
      BY <2>1, <3>1, <3>3 DEF Awaits
  <2> QED
    BY <1>2, <2>1, <2>2, <2>3
<1>5. CASE Person \/ UNCHANGED vars
  BY <1>3, <1>5 DEF Person, Enqueue, Undo, vars, server, seen, conn
<1>6. ASSUME NEW q \in Flusher, Flush(q) \/ Sync(q) \/ Breaks(q) \/ GivesUp(q)
      PROVE  Awaits(p, m)' \/ Found(p, m)'
  <2>0. q = p
    BY DEF OneFlusher
  <2>1. CASE Finish(p)
    <3>1. unseen'[p] = Folder
      BY <1>0, <2>1 DEF Finish, StartSync, TypeOK
    <3>2. \E f \in Folder, u \in Uid : MailAt(box', f, u) = m
      BY DEF IInv, SafeOK, Kept
    <3> QED
      BY <3>1, <3>2 DEF Awaits
  <2>2. ASSUME NEW f \in Folder, Invalidate(p, f)
        PROVE  Awaits(p, m)' \/ Found(p, m)'
    <3>1. /\ pc[p] = "sync" /\ f \in unseen[p] /\ UNCHANGED <<box, unseen>>
          /\ known' = [known EXCEPT ![f] = [u \in Uid |-> None]]
      BY <2>2 DEF Invalidate, server
    <3>2. CASE Awaits(p, m)
      BY <3>1, <3>2 DEF Awaits
    <3>3. CASE Found(p, m)
      BY <1>0, <3>1, <3>3 DEF Found, TypeOK
    <3> QED
      BY <1>2, <3>1, <3>2, <3>3
  <2>3. ASSUME NEW f \in Folder, SyncFolder(p, f)
        PROVE  Awaits(p, m)' \/ Found(p, m)'
    <3>1. /\ pc[p] = "sync" /\ f \in unseen[p] /\ box' = box
          /\ unseen'[p] = unseen[p] \ {f}
          /\ known' = [known EXCEPT ![f] = [u \in Uid |-> MailAt(box, f, u)]]
      BY <1>0, <2>3 DEF SyncFolder, server, TypeOK
    <3>2. CASE Found(p, m)
      BY <1>0, <3>1, <3>2 DEF Found, TypeOK
    <3>3. ASSUME NEW g \in unseen[p], NEW u \in Uid, MailAt(box, g, u) = m
          PROVE  Awaits(p, m)' \/ Found(p, m)'
      <4>1. CASE g = f
        <5>1. known'[f][u] = m
          BY <1>0, <3>1, <3>3, <4>1 DEF TypeOK
        <5> QED
          BY <3>1, <5>1 DEF Found
      <4>2. CASE g # f
        BY <3>1, <3>3, <4>2 DEF Awaits
      <4> QED
        BY <4>1, <4>2
    <3> QED
      BY <1>2, <3>1, <3>2, <3>3 DEF Awaits
  <2>4. ~(Flush(p) /\ ~Finish(p)) /\ ~Collect(p) /\ ~Breaks(p) /\ ~GivesUp(p)
    BY <1>0 DEF Flush, StartFlush, Take, Probe, Command, Effect, Settle, Collect, Breaks, GivesUp,
       Leave, Decide, GoTo, TypeOK
  <2> QED
    BY <1>6, <2>0, <2>1, <2>2, <2>3, <2>4 DEF Sync
<1> QED
  BY <1>4, <1>5, <1>6 DEF Next

(* A change that waits disappears only by the sync of a renumbered folder, *)
(* or when its message has no place left.                                  *)
LEMMA ForgottenStep ==
  ASSUME OneFlusher, IInv, TableOK, SeenOK, [Next]_vars, NEW i \in Rows, row'[i] = None,
         knownValidity = validity
  PROVE  row[i].mail \in discarded \cup displaced
<1>0. TypeOK
  BY DEF IInv
<1>1. i \in OpId /\ row[i] \in Row /\ row[i].mail \in Mail
  BY <1>0 DEF Rows, TypeOK, Row
<1>2. \A state \in OpState : [row[i] EXCEPT !.state = state] # None
  BY <1>1, RowAssumption DEF Row
<1>3. [row[i] EXCEPT !.window = "elapsed"] # None
  BY <1>1, RowAssumption DEF Row
<1>4. Dropped(i)
  <2>1. \A p \in Flusher : verdict[p] \in OpState
    BY <1>0 DEF TypeOK
  <2>2. Fate(i)
    BY <1>0, <1>1, Fates
  <2>3. ~New(i)
    BY RowAssumption DEF New
  <2>4. "cancelled" \in OpState
    BY DEF OpState
  <2> QED
    BY <1>2, <1>3, <2>1, <2>2, <2>3, <2>4 DEF Fate, Stands, Cancelled, Elapsed, Settled, Rows
<1>5. PICK p \in Flusher : pc[p] = "sync"
  BY <1>4 DEF Dropped
<1>6. Collect(p)
  <2>1. ~UNCHANGED row
    BY DEF Rows
  <2>2. ~(Person \/ Environment)
    <3>1. CASE Person
      <4>1. ASSUME NEW kind \in {"move", "flag"}, NEW m \in Mail, NEW target \in Folder \cup {None},
                   NEW window \in {"none", "open"}, Enqueue(kind, m, target, window)
            PROVE  FALSE
        <5>1. New(NextId)
          BY <1>0, <4>1, EnqueueIsNew
        <5>2. Stands(i) \/ Cancelled(i)
          BY <5>1 DEF New
        <5> QED
          BY <1>2, <5>2 DEF Stands, Cancelled, Rows, OpState
      <4>2. CASE Undo
        <5>1. PICK j \in OpId : row' = [row EXCEPT ![j].state = "cancelled"]
          BY <4>2 DEF Undo
        <5> QED
          BY <1>0, <1>1, <1>2, <5>1 DEF Rows, TypeOK, OpState
      <4> QED
        BY <3>1, <4>1, <4>2 DEF Person
    <3>2. CASE Environment
      <4>1. PICK j \in OpId : row' = [row EXCEPT ![j].window = "elapsed"]
        BY <2>1, <3>2 DEF Environment, OtherDeletes, OtherMoves, Renumber, WindowElapses
      <4> QED
        BY <1>0, <1>1, <1>3, <4>1 DEF Rows, TypeOK
    <3> QED
      BY <3>1, <3>2
  <2>3. \A q \in Flusher : q = p
    BY DEF OneFlusher
  <2>4. ~Flush(p) /\ ~Breaks(p)
    BY <1>5, <2>1 DEF Flush, StartFlush, Take, Probe, Command, Effect, Settle, Finish, Breaks
  <2>5. ~GivesUp(p) /\ \A f \in Folder : ~SyncFolder(p, f)
    BY <2>1 DEF GivesUp, SyncFolder
  <2>6. \A f \in Folder : ~Invalidate(p, f)
    BY DEF Invalidate
  <2> QED
    BY <2>1, <2>2, <2>3, <2>4, <2>5, <2>6 DEF Next, Sync, vars
<1>7. row[i].mail \in Homeless(known) /\ unseen[p] = {}
  BY <1>1, <1>6 DEF Collect, WithoutOperationsOn, AllSeen, Rows
<1>8. ~Awaits(p, row[i].mail) /\ ~Found(p, row[i].mail)
  BY <1>7 DEF Homeless, Awaits, Found
<1> QED
  BY <1>1, <1>5, <1>8 DEF SeenOK

(* "Only now, with every folder seen" (sync.rs, delete_orphaned_messages): *)
(* a sync that collects orphans drops no change that waits, unless another *)
(* client deleted or moved its message.                                    *)
THEOREM NoneForgotten ==
  ASSUME OneFlusher
  PROVE  Spec => NoChangeForgotten
<1> DEFINE J == TableInv /\ SeenOK
           Remembers == \A i \in Rows : Pending(i) /\ row'[i] = None /\ knownValidity = validity =>
                      row[i].mail \in discarded \cup displaced
<1>1. Init => J
  BY InitTable DEF Init, SeenOK
<1>2. J /\ [Next]_vars => J'
  <2> SUFFICES ASSUME TableInv, SeenOK, [Next]_vars
               PROVE  TableInv' /\ SeenOK'
    OBVIOUS
  <2>1. TableInv'
    BY NextTable
  <2> QED
    BY <2>1, SeenStep DEF TableInv
<1>3. J /\ [Next]_vars => Remembers
  BY ForgottenStep DEF TableInv
<1> HIDE DEF J
<1>4. J /\ [Next]_vars => [Remembers]_vars
  BY <1>3
<1> QED
  BY <1>1, <1>2, <1>4, PTL DEF Spec, NoChangeForgotten
=============================================================================
