---------------------------- MODULE TasksProofs ----------------------------
(***************************************************************************)
(* That no run of the standing tasks deals with a message twice, however   *)
(* many runs overlap; that what has been dealt with stays so; and that a   *)
(* task for new mail only leaves earlier mail alone.  For any number of    *)
(* tasks, runs and messages.                                               *)
(*                                                                         *)
(* OncePerRun is not inductive: it has to count the runs that have dealt   *)
(* with a message and not marked it yet (Acted), and those that still mean *)
(* to (Yet).  Before the mark, each deed has a run in Acted, or a fault    *)
(* that took its run away; after it, no further run takes the message up.  *)
(***************************************************************************)
EXTENDS Tasks, TLAPS, FiniteSetTheorems

(* The mail a run is at, at each of its steps.                             *)
PlacesOK ==
  \A r \in Run :
    /\ pc[r] \in {"idle", "rules"} => todo[r] = {} /\ dealing[r] = {}
    /\ pc[r] = "ask" => dealing[r] = {}
    /\ pc[r] = "act" => todo[r] \subseteq dealing[r]
    /\ pc[r] = "mark" => dealing[r] \cap todo[r] = {}

Acted(j) == {r \in Run : j \in dealing[r] \ todo[r]}
Yet(j)   == {r \in Run : j \in todo[r]}

CountedOK ==
  \A j \in Job :
    /\ j \notin seen => dealt[j] <= Cardinality(Acted(j)) + faults
    /\ dealt[j] + Cardinality(Yet(j)) <= Cardinality(Run) + faults

(* A task that is not saved yet is nowhere.                                *)
UnsavedOK ==
  \A t \in Task : since[t] = None =>
    /\ ~enabled[t] /\ t \notin later
    /\ \A r \in Run : t \notin plan[r] /\ \A m \in Mail : ~InHand(r, <<t, m>>)
    /\ \A m \in Mail : dealt[<<t, m>>] = 0

(* Earlier mail of a task for new mail only.                               *)
EarlierOK ==
  \A t \in later \ early : \A m \in 1..since[t] :
    /\ m \in 1..arrived
    /\ t \notin marking => <<t, m>> \in seen
    /\ dealt[<<t, m>>] = 0
    /\ \A r \in Run : <<t, m>> \notin todo[r]

IInv == TypeOK /\ PlacesOK /\ CountedOK /\ UnsavedOK /\ EarlierOK

-----------------------------------------------------------------------------
(* What a run reads is mail that is there and not dealt with.              *)
LEMMA ReadIsUnseen ==
  ASSUME TypeOK, NEW t \in Task
  PROVE  /\ Unseen(t) \subseteq Mail /\ BatchOf(t) \subseteq Unseen(t)
         /\ \A m \in Unseen(t) : m \in 1..arrived /\ <<t, m>> \notin seen
BY BoundAssumption DEF Unseen, BatchOf, Newest, SeenBy, TypeOK, Mail

LEMMA TypeStep ==
  ASSUME TypeOK, [Next]_vars
  PROVE  TypeOK'
<1> USE BoundAssumption, LimitAssumption, NoneAssumption
<1>1. CASE Arrive
  BY <1>1 DEF Arrive, TypeOK, tables, run, Mail, Job
<1>2. ASSUME NEW t \in Task, Save(t) \/ MarkExisting(t) \/ LeftUnmarked(t) \/ Switch(t)
      PROVE  TypeOK'
  <2>1. CASE Save(t)
    BY <2>1 DEF Save, TypeOK, run
  <2>2. CASE MarkExisting(t)
    <3>1. {t} \X Existing \subseteq Job
      BY DEF Existing, TypeOK, Job, Mail
    <3> QED
      BY <3>1, <2>2 DEF MarkExisting, TypeOK, run
  <2>3. CASE LeftUnmarked(t)
    BY <2>3 DEF LeftUnmarked, TypeOK, run
  <2>4. CASE Switch(t)
    BY <2>4 DEF Switch, TypeOK, run
  <2> QED
    BY <1>2, <2>1, <2>2, <2>3, <2>4
<1>3. ASSUME NEW r \in Run, Steps(r) \/ EndsWithRules(r) \/ Stops(r)
      PROVE  TypeOK'
  <2>1. CASE Start(r)
    BY <2>1 DEF Start, GoTo, TypeOK, tables
  <2>2. CASE ReadUnseen(r)
    <3>1. PICK t \in plan[r] :
            /\ plan' = [plan EXCEPT ![r] = @ \ {t}]
            /\ todo' = [todo EXCEPT ![r] = {t} \X Unseen(t)]
            /\ dealing' = [dealing EXCEPT ![r] = {t} \X Unseen(t)]
            /\ early' = early \cup ({t} \cap marking)
      BY <2>2 DEF ReadUnseen
    <3>2. t \in Task /\ {t} \X Unseen(t) \subseteq Job
      BY ReadIsUnseen DEF TypeOK, Job
    <3> QED
      BY <2>2, <3>1, <3>2 DEF ReadUnseen, GoTo, TypeOK, tables
  <2>3. CASE ActByRule(r)
    BY <2>3 DEF ActByRule, Deals, Foremost, TypeOK, tables
  <2>4. CASE MarkRule(r)
    BY <2>4 DEF MarkRule, Marked, GoTo, TypeOK
  <2>5. CASE ReadJobs(r)
    <3> DEFINE mine == {t \in Task : enabled[t] /\ asks[t]}
    <3>1. UNION {{t} \X BatchOf(t) : t \in mine} \subseteq Job
      BY ReadIsUnseen DEF Job
    <3>2. /\ todo' = [todo EXCEPT ![r] = UNION {{t} \X BatchOf(t) : t \in mine}]
          /\ early' = early \cup (mine \cap marking)
      BY <2>5 DEF ReadJobs
    <3> HIDE DEF mine
    <3> QED
      BY <2>5, <3>1, <3>2 DEF ReadJobs, GoTo, TypeOK, tables
  <2>6. CASE Answer(r)
    BY <2>6 DEF Answer, Deals, Foremost, GoTo, TypeOK, tables
  <2>7. CASE MarkAnswered(r)
    BY <2>7 DEF MarkAnswered, Marked, GoTo, TypeOK
  <2>8. CASE ModelFails(r)
    <3>1. /\ faults' \in 0..MaxFaults /\ failures' \in [Run -> 0..(Patience - 1)]
          /\ pc' \in [Run -> {"idle", "rules", "act", "ask", "mark"}]
      BY <2>8 DEF ModelFails, GivesUp, Leave, GoTo, TypeOK
    <3>2. /\ todo' \in [Run -> SUBSET Job] /\ dealing' \in [Run -> SUBSET Job]
          /\ plan' \in [Run -> SUBSET Task]
      BY <2>8 DEF ModelFails, Leave, TypeOK
    <3> QED
      BY <2>8, <3>1, <3>2 DEF ModelFails, TypeOK, tables
  <2>9. CASE Unrecorded(r)
    <3>1. /\ faults' \in 0..MaxFaults
          /\ todo' \in [Run -> SUBSET Job] /\ dealing' \in [Run -> SUBSET Job]
      BY <2>9 DEF Unrecorded, TypeOK
    <3> QED
      BY <2>9, <3>1 DEF Unrecorded, GoTo, TypeOK, tables
  <2>10. CASE EndsWithJobs(r) \/ EndsWithRules(r)
    BY <2>10 DEF EndsWithJobs, EndsWithRules, Leave, GoTo, TypeOK, tables
  <2>11. CASE Stops(r)
    BY <2>11 DEF Stops, Leave, GoTo, TypeOK, tables
  <2> QED
    BY <1>3, <2>1, <2>2, <2>3, <2>4, <2>5, <2>6, <2>7, <2>8, <2>9, <2>10, <2>11 DEF Steps
<1>4. CASE UNCHANGED vars
  BY <1>4 DEF vars, tables, run, TypeOK
<1> QED
  BY <1>1, <1>2, <1>3, <1>4 DEF Next

-----------------------------------------------------------------------------
(* Where a run has its mail, and where a task that is not saved yet is     *)
(* not: the steps of a run.                                                *)
LEMMA PlacesStep ==
  ASSUME TypeOK, PlacesOK, [Next]_vars
  PROVE  PlacesOK'
<1> USE DEF PlacesOK
<1>1. CASE UNCHANGED run
  BY <1>1 DEF run
<1>2. ASSUME NEW r \in Run, Steps(r) \/ EndsWithRules(r) \/ Stops(r)
      PROVE  PlacesOK'
  <2>1. CASE Start(r)
    BY <2>1 DEF Start, GoTo, TypeOK
  <2>2. CASE ReadUnseen(r)
    BY <2>2 DEF ReadUnseen, GoTo, TypeOK
  <2>3. CASE ActByRule(r)
    BY <2>3 DEF ActByRule, TypeOK
  <2>4. CASE MarkRule(r)
    BY <2>4 DEF MarkRule, GoTo, TypeOK
  <2>5. CASE ReadJobs(r)
    <3>1. /\ pc[r] = "rules" /\ dealing' = dealing
          /\ pc' = [pc EXCEPT ![r] = "ask"]
          /\ \A s \in Run \ {r} : todo'[s] = todo[s]
      BY <2>5 DEF ReadJobs, GoTo, TypeOK
    <3> QED
      BY <3>1 DEF TypeOK
  <2>6. CASE Answer(r)
    BY <2>6 DEF Answer, Foremost, GoTo, TypeOK
  <2>7. CASE MarkAnswered(r)
    BY <2>7 DEF MarkAnswered, GoTo, TypeOK
  <2>8. CASE ModelFails(r)
    <3>1. CASE Leave(r)
      BY <3>1 DEF Leave, GoTo, TypeOK
    <3>2. CASE /\ \E j \in todo[r] : todo' = [todo EXCEPT ![r] = @ \ {j}]
               /\ UNCHANGED <<pc, plan, dealing>>
      BY <2>8, <3>2 DEF ModelFails, TypeOK
    <3> QED
      BY <2>8, <3>1, <3>2 DEF ModelFails, Foremost
  <2>9. CASE Unrecorded(r)
    BY <2>9 DEF Unrecorded, Foremost, GoTo, TypeOK
  <2>10. CASE EndsWithJobs(r) \/ EndsWithRules(r) \/ Stops(r)
    BY <2>10 DEF EndsWithJobs, EndsWithRules, Stops, Leave, GoTo, TypeOK
  <2> QED
    BY <1>2, <2>1, <2>2, <2>3, <2>4, <2>5, <2>6, <2>7, <2>8, <2>9, <2>10 DEF Steps
<1>3. CASE Arrive \/ \E t \in Task : Save(t) \/ MarkExisting(t) \/ LeftUnmarked(t) \/ Switch(t)
  BY <1>1, <1>3 DEF Arrive, Save, MarkExisting, LeftUnmarked, Switch
<1> QED
  BY <1>1, <1>2, <1>3 DEF Next, vars

(* What a step of a run does to any one task's message j: the run deals    *)
(* with it; takes it up, unseen; or leaves its count alone, where a run    *)
(* that lets go of it unmarked has dealt with it only if it failed.        *)
Taking(r, j) ==
  /\ j \notin seen /\ j \notin todo[r] \cup dealing[r]
  /\ dealt' = dealt /\ seen' = seen /\ faults' = faults
  /\ j \notin dealing'[r] \ todo'[r]

Dealing(r, j) ==
  /\ j \in todo[r] /\ j \in dealing'[r] /\ j \notin todo'[r]
  /\ dealt'[j] = dealt[j] + 1
  /\ seen' = seen /\ faults' = faults

Keeping(r, j) ==
  /\ dealt'[j] = dealt[j] /\ seen \subseteq seen' /\ faults' \in {faults, faults + 1}
  /\ j \in todo'[r] => j \in todo[r]
  /\ j \in dealing'[r] \ todo'[r] <=> j \in dealing[r] \ todo[r]

LettingGo(r, j) ==
  /\ dealt'[j] = dealt[j] /\ seen \subseteq seen' /\ faults' \in {faults, faults + 1}
  /\ j \notin todo'[r] /\ j \in dealing[r] \ todo[r]
  /\ j \in seen' \/ faults' = faults + 1

Only(r) == \A s \in Run \ {r} : todo'[s] = todo[s] /\ dealing'[s] = dealing[s]

LEMMA StepOfRun ==
  ASSUME TypeOK, PlacesOK, NEW r \in Run,
         Steps(r) \/ EndsWithRules(r) \/ Stops(r), NEW j \in Job
  PROVE  /\ Only(r)
         /\ Taking(r, j) \/ Dealing(r, j) \/ Keeping(r, j) \/ LettingGo(r, j)
<1> USE DEF PlacesOK, Only
<1>0. /\ faults \in Nat
      /\ j[1] \in Task /\ j[2] \in Mail /\ j = <<j[1], j[2]>>
  BY BoundAssumption DEF TypeOK, Job
<1>1. CASE Start(r)
  BY <1>1 DEF Start, Keeping, tables
<1>2. CASE ReadUnseen(r)
  <2>1. PICK t \in plan[r] :
          /\ todo' = [todo EXCEPT ![r] = {t} \X Unseen(t)]
          /\ dealing' = [dealing EXCEPT ![r] = {t} \X Unseen(t)]
    BY <1>2 DEF ReadUnseen
  <2>2. t \in Task
    BY DEF TypeOK
  <2>3. j \in {t} \X Unseen(t) => j \notin seen
    BY <1>0, <2>2, ReadIsUnseen
  <2>4. /\ dealt' = dealt /\ seen' = seen /\ faults' = faults
        /\ todo[r] = {} /\ dealing[r] = {}
        /\ todo'[r] = {t} \X Unseen(t) /\ dealing'[r] = {t} \X Unseen(t)
    BY <1>2, <2>1 DEF ReadUnseen, tables, TypeOK
  <2>5. CASE j \in {t} \X Unseen(t)
    BY <2>3, <2>4, <2>5, <2>1 DEF Taking, TypeOK
  <2>6. CASE j \notin {t} \X Unseen(t)
    BY <2>4, <2>6, <2>1 DEF Keeping, TypeOK
  <2> QED
    BY <2>5, <2>6
<1>3. CASE ActByRule(r)
  <2>1. PICK k \in todo[r] : /\ todo' = [todo EXCEPT ![r] = @ \ {k}]
                             /\ Deals(k)
    BY <1>3 DEF ActByRule, Foremost
  <2>2. seen' = seen /\ faults' = faults /\ dealing' = dealing /\ todo[r] \subseteq dealing[r]
    BY <1>3 DEF ActByRule, tables
  <2>3. CASE j = k
    BY <2>1, <2>2, <2>3 DEF Deals, Dealing, TypeOK
  <2>4. CASE j # k
    BY <2>1, <2>2, <2>4 DEF Deals, Keeping, TypeOK
  <2> QED
    BY <2>3, <2>4
<1>4. CASE MarkRule(r)
  BY <1>4 DEF MarkRule, Marked, Keeping, LettingGo, TypeOK
<1>5. CASE ReadJobs(r)
  <2> DEFINE mine == {t \in Task : enabled[t] /\ asks[t]}
             jobs == UNION {{t} \X BatchOf(t) : t \in mine}
  <2>1. /\ todo' = [todo EXCEPT ![r] = jobs]
        /\ dealt' = dealt /\ seen' = seen /\ faults' = faults /\ dealing' = dealing
        /\ todo[r] = {} /\ dealing[r] = {}
    BY <1>5 DEF ReadJobs, tables
  <2>2. j \in jobs => j \notin seen
    BY <1>0, ReadIsUnseen
  <2> HIDE DEF jobs
  <2>3. todo'[r] = jobs
    BY <2>1 DEF TypeOK
  <2>4. CASE j \in jobs
    BY <2>1, <2>2, <2>3, <2>4 DEF Taking, TypeOK
  <2>5. CASE j \notin jobs
    BY <2>1, <2>3, <2>5 DEF Keeping, TypeOK
  <2> QED
    BY <2>4, <2>5
<1>6. CASE Answer(r)
  <2>1. PICK k \in todo[r] : /\ todo' = [todo EXCEPT ![r] = @ \ {k}]
                             /\ dealing' = [dealing EXCEPT ![r] = {k}]
                             /\ Deals(k)
    BY <1>6 DEF Answer, Foremost
  <2>2. seen' = seen /\ faults' = faults /\ dealing[r] = {}
    BY <1>6 DEF Answer, tables
  <2>3. CASE j = k
    BY <2>1, <2>2, <2>3 DEF Deals, Dealing, TypeOK
  <2>4. CASE j # k
    BY <2>1, <2>2, <2>4 DEF Deals, Keeping, TypeOK
  <2> QED
    BY <2>3, <2>4
<1>7. CASE MarkAnswered(r)
  BY <1>7 DEF MarkAnswered, Marked, Keeping, LettingGo, TypeOK
<1>8. CASE ModelFails(r)
  <2>1. /\ dealt' = dealt /\ seen' = seen /\ faults' \in {faults, faults + 1}
        /\ dealing[r] = {}
    BY <1>8 DEF ModelFails, tables
  <2>2. /\ todo'[r] \subseteq todo[r] /\ dealing'[r] = {}
        /\ Only(r)
    <3>1. CASE Leave(r)
      BY <3>1 DEF Leave, TypeOK
    <3>2. CASE /\ \E k \in todo[r] : todo' = [todo EXCEPT ![r] = @ \ {k}]
               /\ UNCHANGED <<pc, plan, dealing>>
      BY <2>1, <3>2 DEF TypeOK
    <3> QED
      BY <1>8, <3>1, <3>2 DEF ModelFails, Foremost
  <2> QED
    BY <2>1, <2>2 DEF Keeping
<1>9. CASE Unrecorded(r)
  <2>1. dealt' = dealt /\ seen' = seen
    BY <1>9 DEF Unrecorded, tables
  <2>2. CASE pc[r] = "ask"
    BY <1>9, <2>1, <2>2 DEF Unrecorded, Foremost, Keeping, TypeOK
  <2>3. CASE pc[r] = "mark"
    BY <1>9, <2>1, <2>3 DEF Unrecorded, Keeping, LettingGo, TypeOK
  <2> QED
    BY <1>9, <2>2, <2>3 DEF Unrecorded
<1>10. CASE EndsWithJobs(r) \/ EndsWithRules(r)
  BY <1>10 DEF EndsWithJobs, EndsWithRules, Leave, Keeping, tables, TypeOK
<1>11. CASE Stops(r)
  BY <1>11 DEF Stops, Leave, Keeping, LettingGo, tables, TypeOK
<1> QED
  BY <1>1, <1>2, <1>3, <1>4, <1>5, <1>6, <1>7, <1>8, <1>9, <1>10, <1>11 DEF Steps

-----------------------------------------------------------------------------
(* OncePerRun.                                                             *)

(* Counting runs.                                                          *)
LEMMA Counts ==
  ASSUME NEW A \in SUBSET Run, NEW B \in SUBSET Run
  PROVE  /\ Cardinality(A) \in Nat /\ Cardinality(Run) \in Nat
         /\ A \subseteq B => Cardinality(A) <= Cardinality(B)
         /\ A \cap B = {} => Cardinality(A) + Cardinality(B) <= Cardinality(Run)
         /\ \A r \in Run : A \subseteq B \cup {r} => Cardinality(A) <= Cardinality(B) + 1
         /\ \A r \in A : B = A \ {r} => Cardinality(B) + 1 = Cardinality(A)
<1>1. /\ IsFiniteSet(A) /\ IsFiniteSet(B)
      /\ Cardinality(A) \in Nat /\ Cardinality(B) \in Nat /\ Cardinality(Run) \in Nat
  BY RunAssumption, FS_Subset, FS_CardinalityType
<1>2. A \subseteq B => Cardinality(A) <= Cardinality(B)
  BY <1>1, FS_Subset
<1>3. A \cap B = {} => Cardinality(A) + Cardinality(B) <= Cardinality(Run)
  <2> HAVE A \cap B = {}
  <2>1. Cardinality(A \cup B) = Cardinality(A) + Cardinality(B) - Cardinality(A \cap B)
    BY <1>1, FS_Union
  <2>2. Cardinality(A \cap B) = 0
    BY FS_EmptySet
  <2>3. Cardinality(A \cup B) <= Cardinality(Run)
    BY RunAssumption, FS_Subset
  <2> QED
    BY <1>1, <2>1, <2>2, <2>3
<1>4. \A r \in Run : A \subseteq B \cup {r} => Cardinality(A) <= Cardinality(B) + 1
  <2> SUFFICES ASSUME NEW r \in Run, A \subseteq B \cup {r}
               PROVE  Cardinality(A) <= Cardinality(B) + 1
    OBVIOUS
  <2>1. /\ IsFiniteSet(B \cup {r})
        /\ Cardinality(B \cup {r}) =
             IF r \in B THEN Cardinality(B) ELSE Cardinality(B) + 1
    BY <1>1, FS_AddElement
  <2>2. Cardinality(A) <= Cardinality(B \cup {r})
    BY <2>1, FS_Subset
  <2> QED
    BY <1>1, <2>1, <2>2
<1>5. \A r \in A : B = A \ {r} => Cardinality(B) + 1 = Cardinality(A)
  BY <1>1, FS_RemoveElement
<1> QED
  BY <1>1, <1>2, <1>3, <1>4, <1>5

LEMMA CountedStep ==
  ASSUME TypeOK, TypeOK', PlacesOK, CountedOK, [Next]_vars
  PROVE  CountedOK'
<1>1. ASSUME NEW j \in Job
      PROVE  /\ dealt[j] \in Nat /\ dealt'[j] \in Nat
             /\ faults \in Nat /\ faults' \in Nat
             /\ Acted(j) \in SUBSET Run /\ Yet(j) \in SUBSET Run
             /\ Acted(j)' \in SUBSET Run /\ Yet(j)' \in SUBSET Run
             /\ Acted(j) \cap Yet(j) = {} /\ Acted(j)' \cap Yet(j)' = {}
  BY BoundAssumption DEF TypeOK, Acted, Yet
<1>2. CASE UNCHANGED <<todo, dealing, dealt>> /\ faults' \in {faults, faults + 1} /\ seen \subseteq seen'
  <2>1. \A j \in Job : Acted(j)' = Acted(j) /\ Yet(j)' = Yet(j)
    BY <1>2 DEF Acted, Yet
  <2>2. \A j \in Job : Cardinality(Acted(j)) \in Nat /\ Cardinality(Yet(j)) \in Nat
                       /\ Cardinality(Run) \in Nat
    BY <1>1, Counts
  <2>3. \A j \in Job : dealt[j] \in Nat /\ faults \in Nat
    BY <1>1
  <2> QED
    BY <1>2, <2>1, <2>2, <2>3 DEF CountedOK
<1>3. ASSUME NEW r \in Run, Steps(r) \/ EndsWithRules(r) \/ Stops(r), NEW j \in Job
      PROVE  /\ j \notin seen' => dealt'[j] <= Cardinality(Acted(j)') + faults'
             /\ dealt'[j] + Cardinality(Yet(j)') <= Cardinality(Run) + faults'
  <2> DEFINE a == Cardinality(Acted(j))
             y == Cardinality(Yet(j))
             b == Cardinality(Acted(j)')
             z == Cardinality(Yet(j)')
             all == Cardinality(Run)
  <2>1. Only(r) /\ (Taking(r, j) \/ Dealing(r, j) \/ Keeping(r, j) \/ LettingGo(r, j))
    BY <1>3, StepOfRun
  <2>2. a \in Nat /\ y \in Nat /\ b \in Nat /\ z \in Nat /\ all \in Nat
        /\ a + y <= all /\ b + z <= all
    BY <1>1, Counts
  <2>3. /\ j \notin seen => dealt[j] <= a + faults
        /\ dealt[j] + y <= all + faults
    BY DEF CountedOK
  <2>4. CASE Taking(r, j)
    <3>1. Acted(j) \subseteq Acted(j)'
      BY <2>1, <2>4 DEF Only, Taking, Acted
    <3>2. a <= b
      BY <3>1, <1>1, Counts
    <3>3. dealt'[j] <= b + faults'
      BY <1>1, <2>2, <2>3, <2>4, <3>2 DEF Taking
    <3> QED
      BY <1>1, <2>2, <3>3
  <2>5. CASE Dealing(r, j)
    <3>1. r \in Acted(j)' /\ Acted(j) = Acted(j)' \ {r}
          /\ r \in Yet(j) /\ Yet(j)' = Yet(j) \ {r}
      BY <2>1, <2>5 DEF Only, Dealing, Acted, Yet
    <3>2. a + 1 = b /\ z + 1 = y
      BY <3>1, <1>1, Counts
    <3> QED
      BY <1>1, <2>2, <2>3, <2>5, <3>2 DEF Dealing
  <2>6. CASE Keeping(r, j)
    <3>1. Acted(j) \subseteq Acted(j)' /\ Yet(j)' \subseteq Yet(j)
      BY <2>1, <2>6 DEF Only, Keeping, Acted, Yet
    <3>2. a <= b /\ z <= y
      BY <3>1, <1>1, Counts
    <3> QED
      BY <1>1, <2>2, <2>3, <2>6, <3>2 DEF Keeping
  <2>7. CASE LettingGo(r, j)
    <3>1. Acted(j) \subseteq Acted(j)' \cup {r} /\ Yet(j)' \subseteq Yet(j)
      BY <2>1, <2>7 DEF Only, LettingGo, Acted, Yet
    <3>2. a <= b + 1 /\ z <= y
      BY <3>1, <1>1, Counts
    <3> QED
      BY <1>1, <2>2, <2>3, <2>7, <3>2 DEF LettingGo
  <2> QED
    BY <2>1, <2>4, <2>5, <2>6, <2>7
<1>4. CASE Arrive \/ \E t \in Task : Save(t) \/ MarkExisting(t) \/ LeftUnmarked(t) \/ Switch(t)
  BY <1>2, <1>4 DEF Arrive, Save, MarkExisting, LeftUnmarked, Switch, tables, run
<1>5. CASE UNCHANGED vars
  BY <1>2, <1>5 DEF vars, tables, run
<1> QED
  BY <1>3, <1>4, <1>5 DEF Next, CountedOK

-----------------------------------------------------------------------------
(* FromNowOn.                                                              *)

(* What a run takes up is of a task that is enabled, or that it planned,   *)
(* and is there and unseen; and a task whose mail is not marked is early.  *)
LEMMA TakenUp ==
  ASSUME TypeOK, UnsavedOK, NEW r \in Run, Steps(r) \/ EndsWithRules(r) \/ Stops(r)
  PROVE  /\ \A t \in Task : t \in plan'[r] => since[t] # None
         /\ \A t \in Task, m \in Mail : <<t, m>> \in todo'[r] \cup dealing'[r] =>
              <<t, m>> \in todo[r] \cup dealing[r] \/ since[t] # None
         /\ \A t \in Task, m \in Mail : <<t, m>> \in todo'[r] =>
              \/ <<t, m>> \in todo[r]
              \/ <<t, m>> \notin seen /\ (t \in marking => t \in early')
         /\ \A j \in Job : dealt'[j] # dealt[j] => j \in todo[r]
         /\ \A s \in Run \ {r} : plan'[s] = plan[s] /\ todo'[s] = todo[s] /\ dealing'[s] = dealing[s]
<1> USE DEF UnsavedOK
<1>1. CASE Start(r)
  BY <1>1 DEF Start, TypeOK
<1>2. CASE ReadUnseen(r)
  <2>1. PICK t \in plan[r] :
          /\ plan' = [plan EXCEPT ![r] = @ \ {t}]
          /\ todo' = [todo EXCEPT ![r] = {t} \X Unseen(t)]
          /\ dealing' = [dealing EXCEPT ![r] = {t} \X Unseen(t)]
          /\ early' = early \cup ({t} \cap marking)
    BY <1>2 DEF ReadUnseen
  <2>2. t \in Task /\ since[t] # None /\ dealt' = dealt
    BY <1>2 DEF ReadUnseen, TypeOK
  <2>3. \A m \in Mail : m \in Unseen(t) => <<t, m>> \notin seen
    BY <2>2, ReadIsUnseen
  <2>4. /\ plan'[r] \subseteq plan[r]
        /\ todo'[r] = {t} \X Unseen(t) /\ dealing'[r] = {t} \X Unseen(t)
        /\ \A s \in Run \ {r} : plan'[s] = plan[s] /\ todo'[s] = todo[s] /\ dealing'[s] = dealing[s]
    BY <2>1 DEF TypeOK
  <2>5. ASSUME NEW u \in Task, NEW m \in Mail, <<u, m>> \in {t} \X Unseen(t)
        PROVE  u = t /\ m \in Unseen(t)
    BY <2>5
  <2> QED
    BY <2>1, <2>2, <2>3, <2>4, <2>5 DEF TypeOK
<1>3. CASE ActByRule(r)
  BY <1>3 DEF ActByRule, Foremost, Deals, TypeOK
<1>4. CASE MarkRule(r)
  BY <1>4 DEF MarkRule, TypeOK
<1>5. CASE ReadJobs(r)
  <2> DEFINE mine == {t \in Task : enabled[t] /\ asks[t]}
             jobs == UNION {{t} \X BatchOf(t) : t \in mine}
  <2>1. /\ todo' = [todo EXCEPT ![r] = jobs]
        /\ early' = early \cup (mine \cap marking)
        /\ dealt' = dealt /\ dealing' = dealing /\ plan' = plan
    BY <1>5 DEF ReadJobs
  <2>2. \A t \in Task, m \in Mail : <<t, m>> \in jobs =>
          t \in mine /\ <<t, m>> \notin seen
    BY ReadIsUnseen
  <2>3. \A t \in mine : since[t] # None
    OBVIOUS
  <2> HIDE DEF jobs, mine
  <2> QED
    BY <2>1, <2>2, <2>3 DEF TypeOK
<1>6. CASE Answer(r)
  BY <1>6 DEF Answer, Foremost, Deals, TypeOK
<1>7. CASE MarkAnswered(r)
  BY <1>7 DEF MarkAnswered, TypeOK
<1>8. CASE ModelFails(r)
  <2>1. CASE Leave(r)
    BY <1>8, <2>1 DEF ModelFails, Leave, TypeOK
  <2>2. CASE /\ \E j \in todo[r] : todo' = [todo EXCEPT ![r] = @ \ {j}]
             /\ UNCHANGED <<pc, plan, dealing>>
    BY <1>8, <2>2 DEF ModelFails, TypeOK
  <2> QED
    BY <1>8, <2>1, <2>2 DEF ModelFails, Foremost
<1>9. CASE Unrecorded(r)
  BY <1>9 DEF Unrecorded, Foremost, TypeOK
<1>10. CASE EndsWithJobs(r) \/ EndsWithRules(r) \/ Stops(r)
  BY <1>10 DEF EndsWithJobs, EndsWithRules, Stops, Leave, TypeOK
<1> QED
  BY <1>1, <1>2, <1>3, <1>4, <1>5, <1>6, <1>7, <1>8, <1>9, <1>10 DEF Steps

(* A run changes nothing in the task table but what is seen.               *)
LEMMA RunKeepsTasks ==
  ASSUME NEW r \in Run, Steps(r) \/ EndsWithRules(r) \/ Stops(r)
  PROVE  /\ UNCHANGED <<arrived, since, asks, enabled, later, marking>>
         /\ seen \subseteq seen' /\ early \subseteq early'
<1>1. CASE Start(r) \/ ReadUnseen(r) \/ ActByRule(r) \/ MarkRule(r) \/ ReadJobs(r)
  BY <1>1 DEF Start, ReadUnseen, ActByRule, MarkRule, ReadJobs, tables
<1>2. CASE Answer(r) \/ MarkAnswered(r) \/ ModelFails(r) \/ Unrecorded(r) \/ EndsWithJobs(r)
  BY <1>2 DEF Answer, MarkAnswered, ModelFails, Unrecorded, EndsWithJobs, tables
<1>3. CASE EndsWithRules(r) \/ Stops(r)
  BY <1>3 DEF EndsWithRules, Stops, tables
<1> QED
  BY <1>1, <1>2, <1>3 DEF Steps

LEMMA UnsavedStep ==
  ASSUME TypeOK, PlacesOK, UnsavedOK, [Next]_vars
  PROVE  UnsavedOK'
<1> USE DEF UnsavedOK, InHand
<1>1. CASE Arrive \/ UNCHANGED vars
  BY <1>1 DEF Arrive, vars, tables, run
<1>2. ASSUME NEW t \in Task, Save(t) \/ MarkExisting(t) \/ LeftUnmarked(t) \/ Switch(t)
      PROVE  UnsavedOK'
  <2>1. CASE Save(t)
    <3>1. since'[t] # None
      BY <2>1, NoneAssumption, BoundAssumption DEF Save, TypeOK
    <3> QED
      BY <2>1, <3>1 DEF Save, run, TypeOK
  <2>2. CASE MarkExisting(t) \/ LeftUnmarked(t)
    BY <2>2 DEF MarkExisting, LeftUnmarked, run
  <2>3. CASE Switch(t)
    BY <2>3 DEF Switch, run, TypeOK
  <2> QED
    BY <1>2, <2>1, <2>2, <2>3
<1>3. ASSUME NEW r \in Run, Steps(r) \/ EndsWithRules(r) \/ Stops(r)
      PROVE  UnsavedOK'
  <2>1. UNCHANGED <<since, enabled, later>>
    BY <1>3, RunKeepsTasks
  <2>2. ASSUME NEW t \in Task, since[t] = None
        PROVE  /\ \A s \in Run : t \notin plan'[s]
               /\ \A s \in Run, m \in Mail : <<t, m>> \notin todo'[s] \cup dealing'[s]
               /\ \A m \in Mail : dealt'[<<t, m>>] = 0
    <3>1. \A m \in Mail : <<t, m>> \in Job /\ <<t, m>> \notin todo[r]
      BY <2>2 DEF Job
    <3> QED
      BY <1>3, <2>2, <3>1, TakenUp
  <2> QED
    BY <2>1, <2>2
<1> QED
  BY <1>1, <1>2, <1>3 DEF Next

LEMMA EarlierStep ==
  ASSUME TypeOK, PlacesOK, UnsavedOK, EarlierOK, [Next]_vars
  PROVE  EarlierOK'
<1> USE BoundAssumption, NoneAssumption DEF EarlierOK
<1>0. later \subseteq Task /\ \A t \in later : since[t] # None
  BY DEF TypeOK, UnsavedOK
<1>1. CASE Arrive \/ UNCHANGED vars
  <2>1. /\ UNCHANGED <<since, seen, later, marking, todo, dealt, early>>
        /\ 1..arrived \subseteq 1..arrived'
    BY <1>1 DEF Arrive, vars, tables, run, TypeOK
  <2> QED
    BY <2>1
<1>2. ASSUME NEW t \in Task, Save(t) \/ MarkExisting(t) \/ LeftUnmarked(t) \/ Switch(t)
      PROVE  EarlierOK'
  <2>1. CASE Save(t)
    <3>1. /\ UNCHANGED <<arrived, seen, todo, dealt, early>>
          /\ \/ later' = later /\ marking' = marking
             \/ later' = later \cup {t} /\ marking' = marking \cup {t}
          /\ since[t] = None /\ since' = [since EXCEPT ![t] = arrived]
      BY <2>1 DEF Save, run
    <3>2. t \notin later
      BY <1>0, <3>1
    <3>3. \A m \in 1..arrived : m \in Mail
      BY DEF TypeOK, Mail
    <3>4. \A m \in 1..arrived : dealt[<<t, m>>] = 0 /\ \A r \in Run : <<t, m>> \notin todo[r]
      BY <3>1, <3>3 DEF UnsavedOK, InHand
    <3>5. \A u \in later : since'[u] = since[u]
      BY <1>0, <3>1, <3>2 DEF TypeOK
    <3>6. since'[t] = arrived
      BY <3>1 DEF TypeOK
    <3>7. ASSUME NEW u \in later' \ early', NEW m \in 1..since'[u]
          PROVE  /\ m \in 1..arrived'
                 /\ u \notin marking' => <<u, m>> \in seen'
                 /\ dealt'[<<u, m>>] = 0
                 /\ \A r \in Run : <<u, m>> \notin todo'[r]
      <4>1. CASE u = t
        BY <3>1, <3>2, <3>4, <3>6, <3>7, <4>1
      <4>2. CASE u # t
        <5>1. u \in later \ early /\ m \in 1..since[u] /\ (u \notin marking' => u \notin marking)
          BY <3>1, <3>5, <3>7, <4>2
        <5> QED
          BY <3>1, <5>1
      <4> QED
        BY <4>1, <4>2
    <3> QED
      BY <3>7
  <2>2. CASE MarkExisting(t)
    <3>1. /\ UNCHANGED <<arrived, since, later, todo, dealt, early>>
          /\ marking' = marking \ {t}
          /\ seen' = seen \cup ({t} \X (1..arrived))
      BY <2>2 DEF MarkExisting, Existing, run
    <3> QED
      BY <3>1
  <2>3. CASE LeftUnmarked(t)
    BY <2>3 DEF LeftUnmarked, run
  <2>4. CASE Switch(t)
    BY <2>4 DEF Switch, run
  <2> QED
    BY <1>2, <2>1, <2>2, <2>3, <2>4
<1>3. ASSUME NEW r \in Run, Steps(r) \/ EndsWithRules(r) \/ Stops(r)
      PROVE  EarlierOK'
  <2>1. /\ UNCHANGED <<arrived, since, later, marking>>
        /\ seen \subseteq seen' /\ early \subseteq early'
    BY <1>3, RunKeepsTasks
  <2>2. ASSUME NEW t \in later \ early', NEW m \in 1..since[t]
        PROVE  /\ dealt'[<<t, m>>] = 0
               /\ \A s \in Run : <<t, m>> \notin todo'[s]
    <3>1. /\ t \in Task /\ t \notin early /\ m \in 1..arrived
          /\ m \in Mail /\ <<t, m>> \in Job
      BY <1>0, <2>1, <2>2 DEF TypeOK, Job, Mail
    <3>2. /\ t \notin marking => <<t, m>> \in seen
          /\ dealt[<<t, m>>] = 0 /\ \A s \in Run : <<t, m>> \notin todo[s]
      BY <2>2, <3>1
    <3>3. <<t, m>> \notin todo'[r]
      BY <1>3, <2>2, <3>1, <3>2, TakenUp
    <3> QED
      BY <1>3, <3>1, <3>2, <3>3, TakenUp
  <2> QED
    BY <2>1, <2>2
<1> QED
  BY <1>1, <1>2, <1>3 DEF Next

-----------------------------------------------------------------------------
LEMMA InitIInv == Init => IInv
<1> SUFFICES ASSUME Init PROVE IInv
  OBVIOUS
<1>1. TypeOK
  BY BoundAssumption, LimitAssumption DEF Init, TypeOK, Mail, Job
<1>2. PlacesOK /\ UnsavedOK /\ EarlierOK
  BY DEF Init, PlacesOK, UnsavedOK, EarlierOK, InHand, Job
<1>3. CountedOK
  <2>1. \A j \in Job : Acted(j) = {} /\ Yet(j) = {} /\ dealt[j] = 0 /\ faults = 0
    BY DEF Init, Acted, Yet
  <2>2. Cardinality({}) = 0 /\ Cardinality(Run) \in Nat
    BY RunAssumption, FS_EmptySet, FS_CardinalityType
  <2> SUFFICES ASSUME NEW j \in Job
               PROVE  /\ dealt[j] <= Cardinality(Acted(j)) + faults
                      /\ dealt[j] + Cardinality(Yet(j)) <= Cardinality(Run) + faults
    BY DEF CountedOK
  <2>3. /\ dealt[j] = 0 /\ faults = 0
        /\ Cardinality(Acted(j)) = 0 /\ Cardinality(Yet(j)) = 0
    BY <2>1, <2>2
  <2> QED
    BY <2>2, <2>3
<1> QED
  BY <1>1, <1>2, <1>3 DEF IInv

LEMMA NextIInv == IInv /\ [Next]_vars => IInv'
BY TypeStep, PlacesStep, CountedStep, UnsavedStep, EarlierStep DEF IInv

THEOREM Invariance == Spec => []IInv
BY InitIInv, NextIInv, PTL DEF Spec

(* Type correctness of the tasks and their runs.                           *)
THEOREM TypeCorrect == Spec => []TypeOK
<1>1. IInv => TypeOK
  BY DEF IInv
<1> QED
  BY <1>1, Invariance, PTL

(* A message is dealt with once by each of the runs at most, and once more *)
(* for each run cut short between the deed and the mark.                   *)
THEOREM EachRunOnce == Spec => []OncePerRun
<1>1. IInv => OncePerRun
  <2> SUFFICES ASSUME IInv, NEW j \in Job
               PROVE  dealt[j] <= Cardinality(Run) + faults
    BY DEF OncePerRun
  <2>1. dealt[j] + Cardinality(Yet(j)) <= Cardinality(Run) + faults
    BY DEF IInv, CountedOK
  <2>2. Cardinality(Yet(j)) \in Nat /\ Cardinality(Run) \in Nat
    BY Counts DEF Yet
  <2>3. dealt[j] \in Nat /\ faults \in Nat
    BY BoundAssumption DEF IInv, TypeOK
  <2> QED
    BY <2>1, <2>2, <2>3
<1> QED
  BY <1>1, Invariance, PTL

(* A task saved for new mail leaves alone what was there before.           *)
THEOREM EarlierMailIsLeft == Spec => []FromNowOn
<1>1. IInv => FromNowOn
  BY DEF IInv, EarlierOK, FromNowOn
<1> QED
  BY <1>1, Invariance, PTL

(* What is marked, and in no run's hands, is dealt with never again.       *)
THEOREM MarkedIsFinal == Spec => SeenIsFinal
<1> DEFINE Final == \A j \in seen :
      (\A r \in Run : ~InHand(r, j)) =>
        j \in seen' /\ dealt'[j] = dealt[j] /\ \A r \in Run : ~InHand(r, j)'
<1>1. IInv /\ [Next]_vars => [Final]_vars
  <2> SUFFICES ASSUME IInv, Next,
                      NEW j \in seen, \A r \in Run : ~InHand(r, j)
               PROVE  j \in seen' /\ dealt'[j] = dealt[j] /\ \A r \in Run : ~InHand(r, j)'
    OBVIOUS
  <2>0. j \in Job
    BY DEF IInv, TypeOK
  <2>1. CASE Arrive
    BY <2>1 DEF Arrive, tables, run, InHand
  <2>2. CASE \E t \in Task : Save(t) \/ MarkExisting(t) \/ LeftUnmarked(t) \/ Switch(t)
    BY <2>2 DEF Save, MarkExisting, LeftUnmarked, Switch, run, InHand
  <2>3. ASSUME NEW r \in Run, Steps(r) \/ EndsWithRules(r) \/ Stops(r)
        PROVE  j \in seen' /\ dealt'[j] = dealt[j] /\ \A s \in Run : ~InHand(s, j)'
    <3>1. Keeping(r, j) /\ Only(r)
      BY <2>0, <2>3, StepOfRun DEF IInv, Taking, Dealing, LettingGo, InHand
    <3> QED
      BY <3>1 DEF Keeping, Only, InHand
  <2> QED
    BY <2>1, <2>2, <2>3 DEF Next
<1> QED
  BY <1>1, Invariance, PTL DEF Spec, SeenIsFinal
=============================================================================
