----------------------------- MODULE JobsProofs ------------------------------
(***************************************************************************)
(* Scheduled runs neither overlap nor repeat an occurrence, keep the link  *)
(* to their template, and the file follows the list, for any number of     *)
(* jobs, commands, occurrences and restarts.                               *)
(***************************************************************************)
EXTENDS Jobs, FiniteSetTheorems, WellFoundedInduction, TLAPS

Statuses == {"queued", "running", "done", "failed", "cancelled"}
Schedules ==
    [enabled : BOOLEAN, cron : Cron \cup {{}}, next : Nat, keep : Retention \cup {Unlimited}]
Records ==
    [id : JobId, kind : AllKinds, status : Statuses, schedule : Schedules,
     parent : JobId \cup {NoParent}, created : Nat]

(* A list of the store: every record under its own id. *)
IsList(js) ==
    /\ js = [i \in DOMAIN js |-> js[i]]
    /\ DOMAIN js \subseteq JobId
    /\ \A i \in DOMAIN js : js[i] \in Records /\ js[i].id = i

RunnerPcs == {"none", "spawned", "start", "created", "register", "work", "unregister", "finish", "leave", "ended"}
Runners ==
    [pc : RunnerPcs, kind : AllKinds \cup {"none"}, template : JobId \cup {NoParent},
     out : Finished \cup {"none"}]
Commands ==
    [pc : {"none", "cancelling", "scheduling"}, id : JobId \cup {NoParent}, copy : Records \cup {NoJob}]
SchedulerStates ==
    [pc : {"idle", "next", "advance", "permit"}, due : SUBSET Records,
     cur : Records \cup {NoJob}, run : RunId \cup {NoParent},
     cleanup : SUBSET (JobId \X (Retention \cup {Unlimited}))]

Types ==
    /\ now \in Nat /\ stamp \in Nat /\ crashes \in Nat /\ lapses \in Nat /\ repeats \in Nat
    /\ IsList(jobs) /\ IsList(disk)
    /\ runner \in [JobId -> Runners]
    /\ ui \in [Ui -> Commands]
    /\ sch \in SchedulerStates
    /\ \A f \in fires : f[2] \in 1..now

Busy == sch.pc \in {"advance", "permit"}
Scheduling(c) == ui[c].pc = "scheduling"
Cancelling(c) == ui[c].pc = "cancelling"

(* Every id somebody holds has been given out, so that a new one is new. *)
IdsUsed ==
    /\ DOMAIN jobs \subseteq used /\ DOMAIN disk \subseteq used /\ DOMAIN active \subseteq used
    /\ \A j \in JobId : runner[j].pc # "none" => j \in used
    /\ \A c \in Ui : Scheduling(c) \/ Cancelling(c) => ui[c].id \in used
    /\ Busy => sch.run \in used

(* A job started from the interface has no template. *)
UserTemplates == \A j \in JobId \ RunId : runner[j].template = NoParent

(* What the scheduler and the commands have in hand. *)
InHand ==
    /\ Busy => /\ sch.cur \in Records /\ sch.run \in RunId
               /\ runner[sch.run].pc = "none"
               /\ \A m \in sch.due : m.id # sch.cur.id
    /\ \A j \in JobId :
         /\ runner[j].pc # "none" => runner[j].kind \in AllKinds
         /\ runner[j].pc \in {"unregister", "finish"} => runner[j].out \in Finished
    /\ UserTemplates
    /\ \A m, n \in sch.due : m.id = n.id => m = n
    /\ \A m \in sch.due : m.schedule.next \in 1..now
    /\ \A c \in Ui : Scheduling(c) => ui[c].copy \in Records /\ ui[c].copy.id = ui[c].id

(* A template is in in_flight from before its run is spawned to its end. *)
RunsInFlight ==
    /\ OneRunPerTemplate
    /\ \A r \in Executing : runner[r].template \in inFlight
    /\ sch.pc = "advance" => sch.cur.id \notin inFlight
    /\ sch.pc = "permit" =>
         /\ sch.cur.id \in inFlight
         /\ \A r \in Executing : runner[r].template # sch.cur.id

(* The record of run r, and the copies commands have read of it, name its  *)
(* template t, unless the user deleted it.                                 *)
LinkedTo(r, t) ==
    r \notin deleted =>
      /\ r \in DOMAIN jobs => jobs[r].parent = t
      /\ \A c \in Ui : Scheduling(c) /\ ui[c].id = r => ui[c].copy.parent = t

(* Until its runner makes the record of a run again, the record stays      *)
(* queued, so that no clean-up removes it; only the user can.              *)
Untouched(r) ==
    /\ r \notin DOMAIN jobs => r \in deleted
    /\ r \in DOMAIN jobs => jobs[r].status = "queued"
    /\ r \notin DOMAIN active
    /\ \A c \in Ui : Cancelling(c) => ui[c].id # r
    /\ \A c \in Ui : Scheduling(c) /\ ui[c].id = r => ui[c].copy.status = "queued"

Links ==
    /\ \A r \in Executing :
         /\ LinkedTo(r, runner[r].template)
         /\ runner[r].pc \in {"spawned", "start"} => Untouched(r)
    /\ Busy => LinkedTo(sch.run, sch.cur.id) /\ Untouched(sch.run)

(* The templates whose next_run_at, in a list or in the copies of the      *)
(* scheduler, is an occurrence a run was made for already.                 *)
Debt(js) == {i \in DOMAIN js : <<i, js[i].schedule.next>> \in fires}
DueDebt == {m.id : m \in {d \in sch.due : <<d.id, d.schedule.next>> \in fires}}

(* The template the scheduler is about to advance, until it is done in the *)
(* list, and until it is on disk.                                          *)
Advancing == IF sch.pc = "advance" THEN {sch.cur.id} ELSE {}
Excused ==
    IF sch.pc = "advance" \/ (sch.pc = "permit" /\ "sched" \in saving)
    THEN {sch.cur.id} ELSE {}

Owed == (Debt(jobs) \ Advancing) \cup (Debt(disk) \ Excused) \cup DueDebt

(* Each debt is the trace of a restart, of a write that failed or of a     *)
(* schedule that came too late, that no repetition has used.               *)
RepeatsBounded ==
    \E S \in SUBSET JobId :
      IsFiniteSet(S) /\ Owed \subseteq S /\ repeats + Cardinality(S) <= crashes + lapses

IInv == Types /\ IdsUsed /\ InHand /\ RunsInFlight /\ Links /\ RepeatsBounded /\ FileMatchesWhenSaved

-----------------------------------------------------------------------------
(* The earliest of a set of occurrences. *)
LEMMA Earliest ==
    ASSUME NEW T \in SUBSET Nat, T # {}
    PROVE  Min(T) \in T
<1>1. PICK x \in T : \A y \in T : ~(<<y, x>> \in OpToRel(<, Nat))
  BY WFMin, NatLessThanWellFounded
<1>2. \A y \in T : x <= y
  <2> SUFFICES ASSUME NEW y \in T PROVE ~(y < x)
    OBVIOUS
  <2>1. ~(<<y, x>> \in {ss \in Nat \X Nat : ss[1] < ss[2]})
    BY <1>1, Zenon DEF OpToRel
  <2> QED
    BY <2>1
<1> QED
  BY <1>2 DEF Min

(* create_job puts one record; nothing else changes. *)
LEMMA CreateShape ==
    ASSUME NEW js, IsList(js), NEW m \in Records
    PROVE  LET new == CreateJob(js, m) IN
           /\ IsList(new)
           /\ DOMAIN new = DOMAIN js \cup {m.id}
           /\ \A i \in DOMAIN js \ {m.id} : new[i] = js[i]
           /\ new[m.id].status = m.status
           /\ m.id \in DOMAIN js /\ m.parent = NoParent => new[m.id].parent = js[m.id].parent
           /\ m.id \notin DOMAIN js \/ m.parent # NoParent => new[m.id].parent = m.parent
           /\ \/ new[m.id].schedule = m.schedule
              \/ m.id \in DOMAIN js /\ new[m.id].schedule = js[m.id].schedule
<1> DEFINE new == CreateJob(js, m)
<1> DEFINE kept == IF m.id \notin DOMAIN js THEN m
                   ELSE [m EXCEPT !.schedule = IF m.schedule = NoSchedule THEN js[m.id].schedule ELSE m.schedule,
                                  !.parent = IF m.parent = NoParent THEN js[m.id].parent ELSE m.parent]
<1>1. new = [i \in {m.id} \cup DOMAIN js |-> IF i = m.id THEN kept ELSE js[i]]
  BY DEF CreateJob, Put
<1>2. kept \in Records /\ kept.id = m.id /\ kept.status = m.status
  BY DEF IsList, Records
<1> QED
  BY <1>1, <1>2 DEF IsList, Records

(* update_status changes one status. *)
LEMMA StatusShape ==
    ASSUME NEW js, IsList(js), NEW id, NEW st \in Statuses
    PROVE  LET new == UpdateStatus(js, id, st) IN
           /\ IsList(new) /\ DOMAIN new = DOMAIN js
           /\ \A i \in DOMAIN js \ {id} : new[i] = js[i]
           /\ \A i \in DOMAIN js : new[i].parent = js[i].parent /\ new[i].schedule = js[i].schedule
<1>1. CASE id \in DOMAIN js
  <2> DEFINE x == [js[id] EXCEPT !.status = st]
  <2>1. UpdateStatus(js, id, st) = [js EXCEPT ![id] = x]
    BY <1>1, Zenon DEF UpdateStatus
  <2>2. js[id] \in Records /\ js[id].id = id
    BY <1>1 DEF IsList
  <2>3. x \in Records /\ x.id = id /\ x.parent = js[id].parent /\ x.schedule = js[id].schedule
    BY <2>2 DEF Records
  <2> HIDE DEF x
  <2> QED
    BY <1>1, <2>1, <2>3 DEF IsList
<1>2. CASE id \notin DOMAIN js
  BY <1>2 DEF UpdateStatus
<1> QED
  BY <1>1, <1>2

(* update_next_run changes one next_run_at, of a record with a schedule. *)
LEMMA NextRunShape ==
    ASSUME NEW js, IsList(js), NEW id, NEW t \in Nat
    PROVE  LET new == UpdateNextRun(js, id, t) IN
           /\ IsList(new) /\ DOMAIN new = DOMAIN js
           /\ \A i \in DOMAIN js \ {id} : new[i] = js[i]
           /\ \A i \in DOMAIN js : new[i].parent = js[i].parent /\ new[i].status = js[i].status
           /\ id \in DOMAIN js => new[id].schedule.next \in {t, Never}
<1>1. CASE id \in DOMAIN js /\ js[id].schedule # NoSchedule
  <2> DEFINE y == [js[id].schedule EXCEPT !.next = t]
             x == [js[id] EXCEPT !.schedule = y]
  <2>1. UpdateNextRun(js, id, t) = [js EXCEPT ![id] = x]
    BY <1>1 DEF UpdateNextRun
  <2>2. js[id] \in Records /\ js[id].id = id
    BY <1>1 DEF IsList
  <2>3. y \in Schedules /\ y.next = t
    BY <2>2 DEF Records, Schedules
  <2> HIDE DEF y
  <2>4. /\ x \in Records /\ x.id = id /\ x.parent = js[id].parent /\ x.status = js[id].status
        /\ x.schedule = y
    BY <2>2, <2>3 DEF Records
  <2> HIDE DEF x
  <2> QED
    <3> DEFINE new == UpdateNextRun(js, id, t)
    <3>1. /\ DOMAIN new = DOMAIN js /\ new[id] = x /\ \A i \in DOMAIN js \ {id} : new[i] = js[i]
          /\ new = [i \in DOMAIN new |-> new[i]]
      BY <1>1, <2>1 DEF IsList
    <3> HIDE DEF new
    <3>2. new[id].schedule.next = t
      BY <2>3, <2>4, <3>1
    <3>3. IsList(new)
      BY <3>1, <2>4 DEF IsList
    <3> QED
      BY <3>1, <3>2, <3>3, <2>4 DEF new
<1>2. CASE ~(id \in DOMAIN js /\ js[id].schedule # NoSchedule)
  <2>1. UpdateNextRun(js, id, t) = js
    BY <1>2 DEF UpdateNextRun
  <2> QED
    BY <1>2, <2>1 DEF NoSchedule
<1> QED
  BY <1>1, <1>2

(* delete_job and cleanup_retention only remove. *)
LEMMA RestrictShape ==
    ASSUME NEW js, IsList(js), NEW S \in SUBSET (DOMAIN js)
    PROVE  LET new == Restrict(js, S) IN
           IsList(new) /\ DOMAIN new = S /\ \A i \in S : new[i] = js[i]
BY DEF Restrict, IsList

(* cleanup_retention removes finished runs. *)
LEMMA CleanupShape ==
    ASSUME NEW js, IsList(js), NEW t, NEW keep
    PROVE  LET new == CleanupRetention(js, t, keep) IN
           /\ IsList(new) /\ DOMAIN new \subseteq DOMAIN js
           /\ \A i \in DOMAIN new : new[i] = js[i]
           /\ \A i \in DOMAIN js \ DOMAIN new : js[i].status \in Finished
<1> DEFINE runs == {i \in DOMAIN js : js[i].parent = t /\ js[i].status \in Finished}
           Newer(i) == {j \in runs : js[j].created > js[i].created}
           S == {i \in DOMAIN js : i \in runs => Cardinality(Newer(i)) < keep}
<1>1. CleanupRetention(js, t, keep) = Restrict(js, S)
  BY DEF CleanupRetention
<1>2. S \subseteq DOMAIN js /\ \A i \in DOMAIN js \ S : i \in runs
  OBVIOUS
<1>3. \A i \in DOMAIN js \ S : js[i].status \in Finished
  BY <1>2
<1> HIDE DEF S
<1> QED
  BY <1>1, <1>2, <1>3, RestrictShape

LEMMA NextOccurrence ==
    ASSUME now \in Nat, NEW cron \in Cron \cup {{}}
    PROVE  NextRunFromCron(cron) \in Nat /\ (NextRunFromCron(cron) = Never \/ NextRunFromCron(cron) > now)
<1> DEFINE T == {t \in cron : t > now}
<1>1. T \in SUBSET Nat
  BY JobsAssumption
<1>2. CASE T # {}
  <2>1. Min(T) \in T
    BY <1>1, <1>2, Earliest
  <2>2. NextRunFromCron(cron) = Min(T)
    BY <1>2 DEF NextRunFromCron
  <2> QED
    BY <1>1, <2>1, <2>2
<1>3. CASE T = {}
  BY <1>3 DEF NextRunFromCron, Never
<1> QED
  BY <1>2, <1>3

LEMMA NewIdIsNew ==
    ASSUME RunId \ used # {}
    PROVE  NewId \in RunId /\ NewId \notin used
BY DEF NewId

(* A record as the runners and rerun_job make it. *)
LEMMA NewJobShape ==
    ASSUME stamp \in Nat, NEW id \in JobId, NEW kind \in AllKinds
    PROVE  /\ NewJob(id, kind) \in Records
           /\ NewJob(id, kind).id = id /\ NewJob(id, kind).status = "queued"
           /\ NewJob(id, kind).parent = NoParent /\ NewJob(id, kind).schedule = NoSchedule
<1>1. NoSchedule \in Schedules
  BY DEF NoSchedule, Schedules, Never
<1>2. PICK k \in Nat : k = stamp + 1
  OBVIOUS
<1> QED
  BY <1>1, <1>2 DEF NewJob, Records, Statuses

-----------------------------------------------------------------------------
(* Steps that only touch records *)

(* No record of the new list is at an occurrence that it was not at before *)
(* and that has passed.                                                    *)
NoneBack(js, new) ==
    \A i \in DOMAIN new :
      \/ i \in DOMAIN js /\ new[i].schedule.next = js[i].schedule.next
      \/ new[i].schedule.next = Never
      \/ new[i].schedule.next > now

OthersNotBack(js, new, id) ==
    \A i \in DOMAIN new \ {id} :
      \/ i \in DOMAIN js /\ new[i].schedule.next = js[i].schedule.next
      \/ new[i].schedule.next = Never
      \/ new[i].schedule.next > now

(* What a change of the list leaves alone: but for a schedule that is      *)
(* written after its occurrence, all that is to come stays to come.        *)
InTime == NoneBack(jobs, jobs') /\ lapses' = lapses
TooLate == \E id \in JobId : OthersNotBack(jobs, jobs', id) /\ lapses' = lapses + 1
ListStep ==
    /\ IsList(jobs') /\ (InTime \/ TooLate) /\ disk' = disk /\ fresh' = fresh /\ saving \subseteq saving'
    /\ jobs' = jobs \/ saving' # {}
    /\ UNCHANGED <<now, sch, crashes, fires, repeats>>

LEMMA NoNewDebt ==
    ASSUME Types, NEW js, IsList(js), NEW new, IsList(new), NoneBack(js, new)
    PROVE  Debt(new) \subseteq Debt(js)
<1> SUFFICES ASSUME NEW i \in DOMAIN new, <<i, new[i].schedule.next>> \in fires
             PROVE  i \in Debt(js)
  BY DEF Debt
<1>1. <<i, new[i].schedule.next>>[2] \in 1..now
  BY DEF Types
<1>2. new[i].schedule.next \in 1..now
  BY <1>1
<1>3. new[i].schedule.next # Never /\ ~(new[i].schedule.next > now)
  BY <1>2 DEF Never, Types
<1> QED
  BY <1>3 DEF NoneBack, Debt

LEMMA LateDebt ==
    ASSUME Types, NEW js, IsList(js), NEW new, IsList(new), NEW id, OthersNotBack(js, new, id)
    PROVE  Debt(new) \subseteq Debt(js) \cup {id}
<1> SUFFICES ASSUME NEW i \in DOMAIN new, <<i, new[i].schedule.next>> \in fires, i # id
             PROVE  i \in Debt(js)
  BY DEF Debt
<1>1. <<i, new[i].schedule.next>>[2] \in 1..now
  BY DEF Types
<1>2. new[i].schedule.next \in 1..now
  BY <1>1
<1>3. new[i].schedule.next # Never /\ ~(new[i].schedule.next > now)
  BY <1>2 DEF Never, Types
<1> QED
  BY <1>3 DEF OthersNotBack, Debt

(* At most one debt more for one reason more. *)
LEMMA OneMore ==
    ASSUME Types, NEW D \in SUBSET JobId, \A a, b \in D : a = b, NEW k \in Nat,
           RepeatsBounded, Owed' \subseteq Owed \cup D, repeats' = repeats,
           k = crashes + lapses + 1, crashes' + lapses' = k
    PROVE  RepeatsBounded'
<1>1. PICK S \in SUBSET JobId :
        IsFiniteSet(S) /\ Owed \subseteq S /\ repeats + Cardinality(S) <= crashes + lapses
  BY DEF RepeatsBounded
<1>2. /\ IsFiniteSet(S \cup D) /\ Cardinality(S \cup D) \in {Cardinality(S), Cardinality(S) + 1}
      /\ Cardinality(S) \in Nat
  <2>1. CASE D = {}
    <3>1. S \cup D = S
      BY <2>1
    <3> QED
      BY <1>1, <3>1, FS_CardinalityType
  <2>2. CASE D # {}
    <3>1. PICK d \in D : TRUE
      BY <2>2
    <3>2. D = {d}
      OBVIOUS
    <3> QED
      BY <1>1, <3>2, FS_AddElement, FS_CardinalityType
  <2> QED
    BY <2>1, <2>2
<1>3. repeats' + Cardinality(S \cup D) <= crashes' + lapses'
  <2>1. repeats + Cardinality(S \cup D) <= k
    BY <1>1, <1>2 DEF Types
  <2> QED
    BY <2>1
<1>4. Owed' \subseteq S \cup D /\ S \cup D \in SUBSET JobId
  BY <1>1
<1> QED
  BY <1>2, <1>3, <1>4 DEF RepeatsBounded

LEMMA OneExcused ==
    ASSUME InHand
    PROVE  Excused \in SUBSET JobId /\ \A a, b \in Excused : a = b
BY DEF Excused, InHand, Busy, Records

LEMMA RepeatsStay ==
    ASSUME RepeatsBounded, UNCHANGED <<repeats, crashes, lapses>>, Owed' \subseteq Owed
    PROVE  RepeatsBounded'
<1>1. PICK S \in SUBSET JobId :
        IsFiniteSet(S) /\ Owed \subseteq S /\ repeats + Cardinality(S) <= crashes + lapses
  BY DEF RepeatsBounded
<1>2. Owed' \subseteq S /\ repeats' + Cardinality(S) <= crashes' + lapses'
  BY <1>1
<1> QED
  BY <1>1, <1>2 DEF RepeatsBounded

LEMMA ListStepRepeats ==
    ASSUME Types, RepeatsBounded, ListStep
    PROVE  RepeatsBounded' /\ lapses' \in Nat /\ \A f \in fires' : f[2] \in 1..now'
<1>1. /\ Debt(jobs)' = Debt(jobs') /\ Debt(disk)' = Debt(disk) /\ DueDebt' = DueDebt
  BY DEF ListStep, Debt, DueDebt
<1>2. Excused \subseteq Excused' /\ Advancing' = Advancing
  BY DEF ListStep, Excused, Advancing
<1>3. \A f \in fires' : f[2] \in 1..now'
  BY DEF Types, ListStep
<1>4. CASE InTime
  <2>1. Debt(jobs') \subseteq Debt(jobs)
    BY <1>4, NoNewDebt DEF Types, ListStep, InTime
  <2>2. Owed' \subseteq Owed
    BY <1>1, <1>2, <2>1 DEF Owed
  <2> QED
    BY <1>3, <1>4, <2>2, RepeatsStay DEF InTime, ListStep, Types
<1>5. CASE TooLate
  <2>1. PICK id \in JobId : OthersNotBack(jobs, jobs', id) /\ lapses' = lapses + 1
    BY <1>5 DEF TooLate
  <2>2. Debt(jobs') \subseteq Debt(jobs) \cup {id}
    BY <2>1, LateDebt DEF Types, ListStep
  <2>3. Owed' \subseteq Owed \cup {id}
    BY <1>1, <1>2, <2>2 DEF Owed
  <2>4. PICK k \in Nat : k = crashes + lapses + 1
    BY DEF Types
  <2>5. crashes' + lapses' = k /\ repeats' = repeats /\ lapses' \in Nat
    BY <2>1, <2>4 DEF ListStep, Types
  <2> QED
    BY <1>3, <2>3, <2>4, <2>5, OneMore, {id} \in SUBSET JobId, \A a, b \in {id} : a = b
<1> QED
  BY <1>4, <1>5 DEF ListStep

LEMMA SavedStep ==
    ASSUME FileMatchesWhenSaved, disk' = disk, fresh' = fresh, jobs' = jobs \/ saving' # {}, saving \subseteq saving'
    PROVE  FileMatchesWhenSaved'
BY DEF FileMatchesWhenSaved

(* The changes of the list the processes make. *)
LEMMA CreateNoneBack ==
    ASSUME Types, NEW m \in Records, m.schedule.next = Never \/ m.schedule.next > now
    PROVE  NoneBack(jobs, CreateJob(jobs, m))
<1> DEFINE new == CreateJob(jobs, m)
<1>1. /\ DOMAIN new = DOMAIN jobs \cup {m.id} /\ \A i \in DOMAIN jobs \ {m.id} : new[i] = jobs[i]
      /\ \/ new[m.id].schedule = m.schedule
         \/ m.id \in DOMAIN jobs /\ new[m.id].schedule = jobs[m.id].schedule
  BY CreateShape DEF Types
<1> HIDE DEF new
<1> SUFFICES NoneBack(jobs, new)
  BY DEF new
<1> QED
  BY <1>1 DEF NoneBack

-----------------------------------------------------------------------------
(* What a step of the runner of j does *)

(* It changes at most the record of j, and keeps its parent. *)
RecordOf(j) ==
    /\ DOMAIN jobs \subseteq DOMAIN jobs' /\ DOMAIN jobs' \subseteq DOMAIN jobs \cup {j}
    /\ \A i \in DOMAIN jobs \ {j} : jobs'[i] = jobs[i]
    /\ j \in DOMAIN jobs => jobs'[j].parent = jobs[j].parent
    /\ j \in DOMAIN jobs' \ DOMAIN jobs => runner[j].pc = "start"

(* It moves on under the same template; before the record is made again it *)
(* changes nothing else.                                                   *)
MovesTo(j, x) ==
    /\ runner' = [runner EXCEPT ![j] = x] /\ x.template = runner[j].template
    /\ runner[j].pc \notin {"none", "ended"} /\ x.pc # "none"
    /\ x.kind \in AllKinds /\ (x.pc \in {"unregister", "finish"} => x.out \in Finished)
    /\ x.pc \in {"spawned", "start"} => runner[j].pc = "spawned" /\ jobs' = jobs /\ active' = active
    /\ inFlight' = inFlight \/ (x.pc = "ended" /\ inFlight' = inFlight \ {x.template})

RunnerMoves(j) ==
    /\ ListStep /\ RecordOf(j) /\ \E x \in Runners : MovesTo(j, x)
    /\ DOMAIN active' \subseteq DOMAIN active \cup {j}
    /\ UNCHANGED <<ui, used, deleted>> /\ stamp' \in Nat

LEMMA UnstoredMoves ==
    ASSUME Types, Unstored, RunnerOnly, NEW j
    PROVE  ListStep /\ RecordOf(j)
BY DEF Types, Unstored, RunnerOnly, history, ListStep, InTime, RecordOf, NoneBack

LEMMA StatusMoves ==
    ASSUME Types, RunnerOnly, NEW j \in JobId, NEW p, NEW st \in Statuses,
           Store(p, UpdateStatus(jobs, j, st))
    PROVE  ListStep /\ RecordOf(j)
<1>1. jobs' = UpdateStatus(jobs, j, st) /\ disk' = disk /\ fresh' = fresh /\ saving' = saving \cup {p}
  BY DEF Store
<1>2. /\ IsList(jobs') /\ DOMAIN jobs' = DOMAIN jobs
      /\ \A i \in DOMAIN jobs \ {j} : jobs'[i] = jobs[i]
      /\ \A i \in DOMAIN jobs : jobs'[i].parent = jobs[i].parent /\ jobs'[i].schedule = jobs[i].schedule
  BY <1>1, StatusShape DEF Types
<1>3. NoneBack(jobs, jobs')
  BY <1>2 DEF NoneBack
<1> QED
  BY <1>1, <1>2, <1>3 DEF RunnerOnly, history, ListStep, InTime, RecordOf

LEMMA FailsMoves ==
    ASSUME Types, RunnerOnly, NEW j \in JobId, Fails(j)
    PROVE  ListStep /\ RecordOf(j)
<1>1. CASE Unstored
  BY <1>1, UnstoredMoves
<1>2. CASE Store(j, UpdateStatus(jobs, j, "failed"))
  BY <1>2, StatusMoves DEF Statuses
<1> QED
  BY <1>1, <1>2 DEF Fails

LEMMA GotoMoves ==
    ASSUME Types, InHand, NEW j \in JobId, NEW pc \in RunnerPcs, Goto(j, pc),
           runner[j].pc \notin {"none", "ended"}, pc \notin {"none", "spawned"},
           pc \in {"unregister", "finish"} => runner[j].out \in Finished,
           pc = "start" => runner[j].pc = "spawned" /\ jobs' = jobs /\ active' = active,
           inFlight' = inFlight \/ (pc = "ended" /\ inFlight' = inFlight \ {runner[j].template})
    PROVE  \E x \in Runners : MovesTo(j, x)
<1> DEFINE x == [runner[j] EXCEPT !.pc = pc]
<1>1. runner[j] \in Runners /\ runner[j].kind \in AllKinds
  BY DEF Types, InHand
<1>2. /\ x \in Runners /\ x.pc = pc /\ x.template = runner[j].template /\ x.kind = runner[j].kind
      /\ x.out = runner[j].out
  BY <1>1 DEF Runners
<1>3. runner' = [runner EXCEPT ![j] = x]
  BY DEF Goto
<1> HIDE DEF x
<1>4. MovesTo(j, x)
  BY <1>1, <1>2, <1>3 DEF MovesTo
<1> QED
  BY <1>2, <1>4

LEMMA RunnerStepMoves ==
    ASSUME Types, InHand, NEW j \in JobId, RunnerStep(j)
    PROVE  RunnerMoves(j)
<1> USE DEF RunnerMoves
<1>a. stamp \in Nat /\ stamp + 1 \in Nat
  BY DEF Types
<1>b. ASSUME RunnerOnly PROVE UNCHANGED <<ui, used, deleted>>
  BY <1>b DEF RunnerOnly, history
<1>1. CASE PrepareFails(j)
  <2> USE <1>1 DEF PrepareFails, Runner
  <2>1. \E x \in Runners : MovesTo(j, x)
    BY GotoMoves DEF RunnerPcs
  <2>2. ListStep /\ RecordOf(j)
    BY FailsMoves
  <2> QED
    BY <1>a, <1>b, <2>1, <2>2
<1>2. CASE CreateRecord(j)
  <2> USE <1>2 DEF CreateRecord, Runner
  <2>1. \E x \in Runners : MovesTo(j, x)
    BY GotoMoves DEF RunnerPcs
  <2> DEFINE m == NewJob(j, runner[j].kind)
  <2>2. /\ m \in Records /\ m.id = j /\ m.parent = NoParent /\ m.schedule = NoSchedule
    BY <1>a, NewJobShape DEF InHand
  <2>3. jobs' = CreateJob(jobs, m) /\ disk' = disk /\ fresh' = fresh /\ saving' = saving \cup {j}
    BY DEF Store
  <2>4. NoSchedule.next = Never
    BY DEF NoSchedule
  <2> HIDE DEF m
  <2>5. NoneBack(jobs, jobs')
    BY <2>2, <2>3, <2>4, CreateNoneBack
  <2>6. /\ IsList(jobs') /\ DOMAIN jobs' = DOMAIN jobs \cup {j}
        /\ \A i \in DOMAIN jobs \ {j} : jobs'[i] = jobs[i]
        /\ j \in DOMAIN jobs => jobs'[j].parent = jobs[j].parent
    <3> DEFINE new == CreateJob(jobs, m)
    <3>1. /\ IsList(new) /\ DOMAIN new = DOMAIN jobs \cup {m.id}
          /\ \A i \in DOMAIN jobs \ {m.id} : new[i] = jobs[i]
          /\ m.id \in DOMAIN jobs /\ m.parent = NoParent => new[m.id].parent = jobs[m.id].parent
      BY <2>2, CreateShape DEF Types
    <3>2. jobs' = new
      BY <2>3
    <3> HIDE DEF new
    <3> QED
      BY <3>1, <3>2, <2>2
  <2>7. ListStep /\ RecordOf(j)
    BY <2>3, <2>5, <2>6 DEF ListStep, InTime, RecordOf, RunnerOnly, history
  <2> QED
    BY <1>a, <1>b, <2>1, <2>7
<1>3. CASE MarkRunning(j)
  <2> USE <1>3 DEF MarkRunning, Runner
  <2>1. \E x \in Runners : MovesTo(j, x)
    BY GotoMoves DEF RunnerPcs
  <2>2. ListStep /\ RecordOf(j)
    BY StatusMoves DEF Statuses
  <2> QED
    BY <1>a, <1>b, <2>1, <2>2
<1>4. CASE Register(j)
  <2> USE <1>4 DEF Register, Runner
  <2>1. \E x \in Runners : MovesTo(j, x)
    BY GotoMoves DEF RunnerPcs
  <2>2. ListStep /\ RecordOf(j)
    BY UnstoredMoves
  <2>3. DOMAIN active' = DOMAIN active \cup {j}
    BY DEF Put
  <2> QED
    BY <1>a, <1>b, <2>1, <2>2, <2>3
<1>5. CASE Work(j)
  <2> USE <1>5 DEF Work, Runner
  <2>1. PICK out \in Finished : runner' = [runner EXCEPT ![j].pc = "unregister", ![j].out = out]
    OBVIOUS
  <2> DEFINE x == [runner[j] EXCEPT !.pc = "unregister", !.out = out]
  <2>2. runner[j] \in Runners /\ runner[j].kind \in AllKinds
    BY DEF Types, InHand
  <2>3. /\ x \in Runners /\ x.pc = "unregister" /\ x.template = runner[j].template
        /\ x.kind = runner[j].kind /\ x.out = out
    BY <2>2 DEF Runners, RunnerPcs
  <2>4. runner' = [runner EXCEPT ![j] = x]
    BY <2>1 DEF Types
  <2> HIDE DEF x
  <2>5. MovesTo(j, x)
    BY <2>2, <2>3, <2>4 DEF MovesTo
  <2>6. ListStep /\ RecordOf(j)
    BY UnstoredMoves
  <2> QED
    BY <1>a, <1>b, <2>3, <2>5, <2>6
<1>6. CASE WorkReturnsEarly(j)
  <2> USE <1>6 DEF WorkReturnsEarly, Runner
  <2>1. \E x \in Runners : MovesTo(j, x)
    BY GotoMoves DEF RunnerPcs
  <2>2. ListStep /\ RecordOf(j)
    BY FailsMoves
  <2> QED
    BY <1>a, <1>b, <2>1, <2>2
<1>7. CASE Unregister(j)
  <2> USE <1>7 DEF Unregister, Runner
  <2>1. \E x \in Runners : MovesTo(j, x)
    BY GotoMoves DEF RunnerPcs, InHand
  <2>2. ListStep /\ RecordOf(j)
    BY UnstoredMoves
  <2>3. DOMAIN active' \subseteq DOMAIN active
    BY DEF Restrict
  <2> QED
    BY <1>a, <1>b, <2>1, <2>2, <2>3
<1>8. CASE Finish(j)
  <2> USE <1>8 DEF Finish, Runner
  <2>1. \E x \in Runners : MovesTo(j, x)
    BY GotoMoves DEF RunnerPcs
  <2>2. runner[j].out \in Statuses
    BY DEF InHand, Finished, Statuses
  <2>3. ListStep /\ RecordOf(j)
    BY <2>2, StatusMoves
  <2> QED
    BY <1>a, <1>b, <2>1, <2>3
<1>9. CASE Leave(j)
  <2> USE <1>9 DEF Leave, Runner
  <2>1. \E x \in Runners : MovesTo(j, x)
    BY GotoMoves DEF RunnerPcs
  <2>2. ListStep /\ RecordOf(j)
    BY UnstoredMoves
  <2> QED
    BY <1>a, <1>b, <2>1, <2>2
<1>10. CASE ExecuteScheduledJob(j)
  <2> USE <1>10 DEF ExecuteScheduledJob, Runner
  <2>1. CASE Goto(j, "leave")
    <3>1. \E x \in Runners : MovesTo(j, x)
      BY <2>1, GotoMoves DEF RunnerPcs
    <3>2. CASE Unstored
      BY <1>a, <1>b, <3>1, <3>2, UnstoredMoves
    <3>3. CASE Store(j, UpdateStatus(jobs, j, "failed"))
      <4>1. ListStep /\ RecordOf(j)
        BY <3>3, StatusMoves DEF Statuses
      <4> QED
        BY <1>a, <1>b, <3>1, <4>1
    <3>4. CASE Goto(j, "start") /\ Unstored
      BY <3>4, <3>2
    <3> QED
      BY <3>2, <3>3, <3>4
  <2>2. CASE Goto(j, "start") /\ Unstored
    <3>1. \E x \in Runners : MovesTo(j, x)
      BY <2>2, GotoMoves DEF RunnerPcs, Unstored
    <3>2. ListStep /\ RecordOf(j)
      BY <2>2, UnstoredMoves
    <3> QED
      BY <1>a, <1>b, <3>1, <3>2
  <2> QED
    BY <2>1, <2>2
<1> QED
  BY <1>1, <1>2, <1>3, <1>4, <1>5, <1>6, <1>7, <1>8, <1>9, <1>10 DEF RunnerStep

LEMMA RunnerKeeps ==
    ASSUME IInv, NEW j \in JobId, RunnerMoves(j)
    PROVE  IInv'
<1> USE DEF IInv
<1>1. ListStep /\ RecordOf(j) /\ UNCHANGED <<ui, used, deleted>> /\ stamp' \in Nat
  BY DEF RunnerMoves
<1>2. PICK x \in Runners : MovesTo(j, x)
  BY DEF RunnerMoves
<1>3. /\ runner' \in [JobId -> Runners] /\ runner'[j] = x
      /\ \A r \in JobId \ {j} : runner'[r] = runner[r]
  BY <1>2 DEF MovesTo, Types
<1>4. RepeatsBounded' /\ lapses' \in Nat /\ \A f \in fires' : f[2] \in 1..now'
  BY <1>1, ListStepRepeats
<1>5. FileMatchesWhenSaved'
  BY <1>1, SavedStep DEF ListStep
<1>6. Types'
  BY <1>1, <1>3, <1>4 DEF Types, ListStep
<1>7. runner[j].pc \notin {"none", "ended"} /\ j \in used
  BY <1>2 DEF MovesTo, IdsUsed
<1>8. IdsUsed'
  <2>1. DOMAIN active' \subseteq DOMAIN active \cup {j}
    BY DEF RunnerMoves
  <2> QED
    BY <1>1, <1>3, <1>7, <2>1 DEF IdsUsed, ListStep, RecordOf, Busy, Scheduling, Cancelling
<1>9. InHand'
  <2>1. Busy => sch.run # j
    BY <1>7 DEF InHand
  <2>2. (Busy => runner[sch.run].pc = "none")'
    BY <1>1, <1>3, <2>1 DEF ListStep, InHand, Busy, JobId
  <2>3. \A i \in JobId : (/\ runner[i].pc # "none" => runner[i].kind \in AllKinds
                          /\ runner[i].pc \in {"unregister", "finish"} => runner[i].out \in Finished)'
    BY <1>2, <1>3 DEF MovesTo, InHand
  <2>4. UserTemplates'
    BY <1>2, <1>3 DEF MovesTo, InHand, UserTemplates
  <2> QED
    BY <1>1, <2>2, <2>3, <2>4 DEF ListStep, InHand, Busy, Scheduling
<1>10. Executing' \subseteq Executing /\ \A r \in Executing' : runner'[r].template = runner[r].template
  BY <1>2, <1>3 DEF Executing, MovesTo, JobId
<1>11. RunsInFlight'
  <2>1. ASSUME NEW r \in Executing' PROVE runner[r].template \in inFlight'
    <3>1. runner[r].template \in inFlight /\ r \in Executing
      BY <2>1, <1>10 DEF RunsInFlight
    <3>2. CASE inFlight' = inFlight
      BY <3>1, <3>2
    <3>3. CASE x.pc = "ended" /\ inFlight' = inFlight \ {x.template}
      <4>1. r # j
        BY <2>1, <1>3, <3>3 DEF Executing
      <4>2. runner[r].template # NoParent /\ r \in RunId
        BY <3>1 DEF Executing
      <4>3. CASE runner[r].template = x.template
        <5>1. j \in JobId /\ runner[j].template = x.template
          BY <1>2 DEF MovesTo
        <5>2. CASE j \in RunId
          <6>1. j \in Executing
            BY <1>7, <4>2, <4>3, <5>1, <5>2 DEF Executing
          <6> QED
            BY <3>1, <4>1, <4>3, <5>1, <6>1 DEF RunsInFlight, OneRunPerTemplate
        <5>3. CASE j \notin RunId
          BY <4>2, <4>3, <5>1, <5>3 DEF UserTemplates, InHand
        <5> QED
          BY <5>2, <5>3
      <4> QED
        BY <3>1, <3>3, <4>3
    <3> QED
      BY <3>2, <3>3, <1>2 DEF MovesTo
  <2>2. OneRunPerTemplate'
    BY <1>10 DEF RunsInFlight, OneRunPerTemplate
  <2>3. ASSUME sch.pc = "permit" PROVE sch.cur.id \in inFlight'
    <3>1. CASE inFlight' = inFlight
      BY <2>3, <3>1 DEF RunsInFlight
    <3>2. CASE x.pc = "ended" /\ inFlight' = inFlight \ {x.template}
      <4>1. sch.cur.id \in JobId
        BY <2>3 DEF InHand, Busy, Records
      <4>2. CASE x.template = sch.cur.id
        <5>1. j \in Executing
          BY <1>2, <1>7, <4>1, <4>2, JobsAssumption DEF MovesTo, Executing, UserTemplates, InHand, JobId
        <5> QED
          BY <1>2, <2>3, <4>2, <5>1 DEF MovesTo, RunsInFlight
      <4> QED
        BY <2>3, <3>2, <4>2 DEF RunsInFlight
    <3> QED
      BY <3>1, <3>2, <1>2 DEF MovesTo
  <2>4. inFlight' \subseteq inFlight
    BY <1>2 DEF MovesTo
  <2>5. sch' = sch
    BY <1>1 DEF ListStep
  <2> QED
    BY <2>1, <2>2, <2>3, <2>4, <2>5, <1>10 DEF RunsInFlight
<1>12. ASSUME NEW r \in JobId, NEW t, LinkedTo(r, t), r = j => runner[j].pc # "start" \/ Untouched(j)
       PROVE  LinkedTo(r, t)'
  BY <1>1, <1>12 DEF LinkedTo, RecordOf, Scheduling, Untouched
<1>13. ASSUME NEW r \in JobId \ {j}, Untouched(r)
       PROVE  Untouched(r)'
  <2>1. DOMAIN active' \subseteq DOMAIN active \cup {j}
    BY DEF RunnerMoves
  <2> QED
    BY <1>1, <1>13, <2>1 DEF Untouched, RecordOf, Scheduling, Cancelling
<1>14. Links'
  <2>1. ASSUME NEW r \in Executing'
        PROVE  LinkedTo(r, runner[r].template)' /\ (runner'[r].pc \in {"spawned", "start"} => Untouched(r)')
    <3>1. r \in Executing /\ r \in JobId /\ runner'[r].template = runner[r].template
      BY <1>10 DEF Executing, JobId
    <3>2. LinkedTo(r, runner[r].template) /\ (runner[r].pc \in {"spawned", "start"} => Untouched(r))
      BY <3>1 DEF Links
    <3>3. PICK t : t = runner[r].template
      OBVIOUS
    <3>4. LinkedTo(r, t)'
      BY <1>12, <3>1, <3>2, <3>3
    <3>5. ASSUME runner'[r].pc \in {"spawned", "start"} PROVE Untouched(r)'
      <4>1. CASE r = j
        BY <1>1, <1>2, <1>3, <3>2, <3>5, <4>1 DEF MovesTo, Untouched, Scheduling, Cancelling
      <4>2. CASE r # j
        BY <1>3, <1>13, <3>1, <3>2, <3>5, <4>2
      <4> QED
        BY <4>1, <4>2
    <3> QED
      BY <3>1, <3>3, <3>4, <3>5
  <2>2. ASSUME Busy PROVE LinkedTo(sch.run, sch.cur.id)' /\ Untouched(sch.run)'
    <3>1. PICK r \in JobId, t \in {sch.cur.id} : r = sch.run /\ t = sch.cur.id
      BY <2>2 DEF InHand, JobId
    <3>2. r # j
      BY <1>7, <2>2, <3>1 DEF InHand
    <3>3. LinkedTo(r, t)' /\ Untouched(r)'
      BY <1>12, <1>13, <2>2, <3>1, <3>2 DEF Links
    <3>4. sch' = sch
      BY <1>1 DEF ListStep
    <3> QED
      BY <3>1, <3>3, <3>4
  <2>3. Busy' = Busy
    BY <1>1 DEF ListStep, Busy
  <2> QED
    BY <2>1, <2>2, <2>3 DEF Links
<1> QED
  BY <1>4, <1>5, <1>6, <1>8, <1>9, <1>11, <1>14

-----------------------------------------------------------------------------
(* What a command of the interface does *)

(* Nothing to the runs whose ids are in use, but delete them. *)
RunsLeft ==
    \A r \in used :
      /\ \A t \in JobId : LinkedTo(r, t) => LinkedTo(r, t)'
      /\ Untouched(r) => Untouched(r)'

CommandsFit ==
    /\ ui \in [Ui -> Commands]
    /\ \A c \in Ui : Scheduling(c) \/ Cancelling(c) => ui[c].id \in used
    /\ \A c \in Ui : Scheduling(c) => ui[c].copy \in Records /\ ui[c].copy.id = ui[c].id

UiMoves ==
    /\ ListStep /\ RunsLeft /\ CommandsFit' /\ UNCHANGED <<inFlight, runner>>
    /\ stamp' \in Nat /\ used \subseteq used'
    /\ DOMAIN jobs' \subseteq used' /\ DOMAIN active' \subseteq used'

LEMMA UiKeeps ==
    ASSUME IInv, UiMoves
    PROVE  IInv'
<1> USE DEF IInv
<1>1. /\ UNCHANGED <<now, sch, inFlight, runner, crashes, fires, repeats, disk, fresh>> /\ IsList(jobs')
      /\ ListStep
  BY DEF UiMoves, ListStep
<1>2. RepeatsBounded' /\ lapses' \in Nat /\ \A f \in fires' : f[2] \in 1..now'
  BY <1>1, ListStepRepeats
<1>3. FileMatchesWhenSaved'
  BY <1>1, SavedStep DEF ListStep
<1>4. Types'
  BY <1>1, <1>2 DEF Types, UiMoves, CommandsFit
<1>5. IdsUsed'
  BY <1>1 DEF IdsUsed, UiMoves, CommandsFit, Busy
<1>6. InHand'
  BY <1>1 DEF InHand, UiMoves, CommandsFit, Busy, UserTemplates
<1>7. Executing' = Executing
  BY <1>1 DEF Executing
<1>8. RunsInFlight'
  BY <1>1, <1>7 DEF RunsInFlight, OneRunPerTemplate
<1>9. Links'
  <2>1. ASSUME NEW r \in Executing
        PROVE  LinkedTo(r, runner[r].template)' /\ (runner[r].pc \in {"spawned", "start"} => Untouched(r)')
    <3>1. r \in used /\ runner[r].template \in JobId
      BY DEF Executing, IdsUsed, JobId, Types, Runners
    <3>2. PICK t \in JobId : t = runner[r].template
      BY <3>1
    <3>3. LinkedTo(r, t)'
      BY <3>1, <3>2 DEF Links, UiMoves, RunsLeft
    <3>4. runner[r].pc \in {"spawned", "start"} => Untouched(r)'
      BY <3>1 DEF Links, UiMoves, RunsLeft
    <3> QED
      BY <1>1, <3>2, <3>3, <3>4
  <2>2. ASSUME Busy PROVE LinkedTo(sch.run, sch.cur.id)' /\ Untouched(sch.run)'
    <3>1. PICK r \in used, t \in JobId : r = sch.run /\ t = sch.cur.id
      BY <2>2 DEF InHand, IdsUsed, Records
    <3>2. LinkedTo(r, t)' /\ Untouched(r)'
      BY <2>2, <3>1 DEF Links, UiMoves, RunsLeft
    <3> QED
      BY <1>1, <3>1, <3>2
  <2> QED
    BY <1>1, <1>7, <2>1, <2>2 DEF Links, Busy
<1> QED
  BY <1>2, <1>3, <1>4, <1>5, <1>6, <1>8, <1>9

LEMMA Rescheduled ==
    ASSUME NEW copy \in Records, NEW sc \in Schedules
    PROVE  \E m \in Records : /\ m = [copy EXCEPT !.schedule = sc] /\ m.id = copy.id /\ m.schedule = sc
                              /\ m.parent = copy.parent /\ m.status = copy.status
<1> DEFINE m == [copy EXCEPT !.schedule = sc]
<1>1. m \in Records /\ m.id = copy.id /\ m.schedule = sc /\ m.parent = copy.parent /\ m.status = copy.status
  BY DEF Records
<1> QED
  BY <1>1

LEMMA UiStepMoves ==
    ASSUME IInv, NEW c \in Ui, UiStep(c)
    PROVE  UiMoves
<1> USE DEF IInv
<1>a. stamp \in Nat /\ stamp + 1 \in Nat /\ IsList(jobs) /\ ui \in [Ui -> Commands] /\ CommandsFit
  BY DEF Types, CommandsFit, IdsUsed, InHand
<1>b. DOMAIN jobs \subseteq used /\ DOMAIN active \subseteq used
  BY DEF IdsUsed
<1>c. ASSUME Unstored, UiOnly, lapses' = lapses PROVE ListStep
  BY <1>a, <1>c DEF Unstored, UiOnly, ListStep, InTime, NoneBack
<1>d. ASSUME NEW js, Store(c, js), UiOnly, IsList(js), NoneBack(jobs, js), lapses' = lapses
      PROVE  ListStep
  BY <1>d DEF Store, UiOnly, ListStep, InTime
<1>e. ASSUME NEW js, Store(c, js), UiOnly, IsList(js), TooLate
      PROVE  ListStep
  BY <1>e DEF Store, UiOnly, ListStep
<1>1. ASSUME NEW j \in JobId, CancelFlag(c, j) PROVE UiMoves
  <2> USE <1>1 DEF CancelFlag, Begin, Command
  <2>1. j \in DOMAIN active /\ j \in used /\ DOMAIN active' = DOMAIN active
    BY <1>b
  <2>2. PICK pc \in {"none", "cancelling"} :
          ui' = [ui EXCEPT ![c].pc = pc, ![c].id = IF pc = "none" THEN NoParent ELSE j]
    OBVIOUS
  <2>3. PICK i \in JobId \cup {NoParent} : i = IF pc = "none" THEN NoParent ELSE j
    OBVIOUS
  <2> DEFINE x == [ui[c] EXCEPT !.pc = pc, !.id = i]
  <2>4. x \in Commands /\ x.pc = pc /\ x.id = i /\ x.pc # "scheduling"
    BY <1>a DEF Commands
  <2>5. ui' = [ui EXCEPT ![c] = x]
    BY <1>a, <2>2, <2>3
  <2> HIDE DEF x
  <2>6. ui'[c] = x /\ \A d \in Ui \ {c} : ui'[d] = ui[d]
    BY <1>a, <2>5
  <2>7. CommandsFit'
    BY <1>a, <2>1, <2>3, <2>4, <2>5, <2>6 DEF CommandsFit, Scheduling, Cancelling
  <2>8. RunsLeft
    BY <2>1, <2>3, <2>4, <2>6 DEF RunsLeft, LinkedTo, Untouched, Scheduling, Cancelling, Unstored
  <2> QED
    BY <1>a, <1>b, <1>c, <2>1, <2>7, <2>8 DEF UiMoves, UiOnly, Unstored
<1>2. CASE CancelJob(c)
  <2> USE <1>2 DEF CancelJob, Command
  <2> DEFINE id == ui[c].id
  <2>1. jobs' = UpdateStatus(jobs, id, "cancelled") /\ Store(c, jobs')
    BY DEF Store
  <2>2. /\ IsList(jobs') /\ DOMAIN jobs' = DOMAIN jobs
        /\ \A i \in DOMAIN jobs \ {id} : jobs'[i] = jobs[i]
        /\ \A i \in DOMAIN jobs : jobs'[i].parent = jobs[i].parent /\ jobs'[i].schedule = jobs[i].schedule
    <3> HIDE <1>2
    <3> QED
      BY <1>a, <2>1, StatusShape DEF Statuses
  <2>3. NoneBack(jobs, jobs')
    BY <2>2 DEF NoneBack
  <2>4. ui'[c] = NoCommand /\ (\A d \in Ui \ {c} : ui'[d] = ui[d]) /\ NoCommand \in Commands
    BY <1>a DEF NoCommand, Commands
  <2>5. CommandsFit'
    BY <1>a, <2>4 DEF CommandsFit, Scheduling, Cancelling, NoCommand
  <2>6. RunsLeft
    <3>1. ASSUME NEW r \in used, NEW t \in JobId, LinkedTo(r, t) PROVE LinkedTo(r, t)'
      BY <2>2, <2>4, <3>1 DEF LinkedTo, Scheduling, NoCommand
    <3>2. ASSUME NEW r \in used, Untouched(r) PROVE Untouched(r)'
      <4>1. r # id
        BY <3>2 DEF Untouched, Cancelling
      <4> QED
        BY <2>2, <2>4, <3>2, <4>1 DEF Untouched, Scheduling, Cancelling, NoCommand
    <3> QED
      BY <3>1, <3>2 DEF RunsLeft
  <2> QED
    BY <1>a, <1>b, <1>d, <2>1, <2>2, <2>3, <2>5, <2>6 DEF UiMoves, UiOnly
<1>3. ASSUME NEW j \in JobId, DeleteRecord(c, j) PROVE UiMoves
  <2> USE <1>3 DEF DeleteRecord, Begin
  <2>1. jobs' = Restrict(jobs, DOMAIN jobs \ {j}) /\ Store(c, jobs')
    BY DEF Store, DeleteJob
  <2>2. IsList(jobs') /\ DOMAIN jobs' = DOMAIN jobs \ {j} /\ \A i \in DOMAIN jobs' : jobs'[i] = jobs[i]
    <3> HIDE <1>3
    <3> QED
      BY <1>a, <2>1, RestrictShape
  <2>3. NoneBack(jobs, jobs')
    BY <2>2 DEF NoneBack
  <2>4. CommandsFit'
    BY <1>a DEF CommandsFit, Scheduling, Cancelling
  <2>5. RunsLeft
    BY <2>2 DEF RunsLeft, LinkedTo, Untouched, Scheduling, Cancelling
  <2> QED
    BY <1>a, <1>b, <1>d, <2>1, <2>2, <2>3, <2>4, <2>5 DEF UiMoves, UiOnly
<1>4. ASSUME NEW j \in JobId, RerunJob(c, j) PROVE UiMoves
  <2> USE <1>4 DEF RerunJob, Begin
  <2>1. NewId \in RunId /\ NewId \notin used
    BY NewIdIsNew
  <2>2. PICK m : m = NewJob(NewId, jobs[j].kind)
    OBVIOUS
  <2>3. m \in Records /\ m.id = NewId /\ m.schedule.next = Never
    BY <1>a, <2>1, <2>2, NewJobShape DEF JobId, IsList, Records, NoSchedule
  <2>4. jobs' = CreateJob(jobs, m) /\ Store(c, jobs') /\ used' = used \cup {NewId}
    BY <2>2 DEF Store
  <2>5. NoneBack(jobs, jobs')
    BY <2>3, <2>4, CreateNoneBack
  <2>6. /\ IsList(jobs') /\ DOMAIN jobs' = DOMAIN jobs \cup {NewId}
        /\ \A i \in DOMAIN jobs \ {NewId} : jobs'[i] = jobs[i]
    <3> HIDE <1>4
    <3>1. LET new == CreateJob(jobs, m) IN
            /\ IsList(new) /\ DOMAIN new = DOMAIN jobs \cup {m.id}
            /\ \A i \in DOMAIN jobs \ {m.id} : new[i] = jobs[i]
      BY <1>a, <2>3, CreateShape
    <3> QED
      BY <2>3, <2>4, <3>1
  <2>7. CommandsFit'
    BY <1>a, <2>4 DEF CommandsFit, Scheduling, Cancelling
  <2>8. RunsLeft
    BY <2>1, <2>6 DEF RunsLeft, LinkedTo, Untouched, Scheduling, Cancelling
  <2> QED
    BY <1>a, <1>b, <1>d, <2>4, <2>5, <2>6, <2>7, <2>8 DEF UiMoves, UiOnly
<1>5. ASSUME NEW j \in JobId, ReadForSchedule(c, j) PROVE UiMoves
  <2> USE <1>5 DEF ReadForSchedule, Begin
  <2>1. PICK on \in BOOLEAN, cron \in Cron, keep \in Retention :
          ui' = [ui EXCEPT ![c] = [pc |-> "scheduling", id |-> j, copy |-> [jobs[j] EXCEPT !.schedule =
            [enabled |-> on, cron |-> cron, keep |-> keep,
             next |-> IF on THEN NextRunFromCron(cron) ELSE Never]]]]
    OBVIOUS
  <2>2. PICK n \in Nat : n = IF on THEN NextRunFromCron(cron) ELSE Never
    BY NextOccurrence DEF Types, Never
  <2>3. PICK sc \in Schedules : sc = [enabled |-> on, cron |-> cron, keep |-> keep, next |-> n]
    BY DEF Schedules
  <2>4. jobs[j] \in Records /\ jobs[j].id = j /\ j \in used
    BY <1>a, <1>b DEF IsList
  <2>5. PICK m \in Records : /\ m = [jobs[j] EXCEPT !.schedule = sc] /\ m.id = j
                             /\ m.parent = jobs[j].parent /\ m.status = jobs[j].status
    BY <2>4, Rescheduled
  <2> DEFINE x == [pc |-> "scheduling", id |-> j, copy |-> m]
  <2>6. x \in Commands /\ x.pc = "scheduling" /\ x.id = j /\ x.copy = m
    BY DEF Commands
  <2>7. ui' = [ui EXCEPT ![c] = x]
    BY <2>1, <2>2, <2>3, <2>5, Zenon
  <2> HIDE DEF x
  <2>8. ui'[c] = x /\ (\A d \in Ui \ {c} : ui'[d] = ui[d]) /\ ui' \in [Ui -> Commands]
    BY <1>a, <2>6, <2>7
  <2> HIDE <1>5
  <2>9. jobs' = jobs /\ active' = active /\ deleted' = deleted /\ used' = used /\ j \in DOMAIN jobs
    BY <1>5 DEF Unstored
  <2>10. CommandsFit'
    BY <1>a, <2>4, <2>5, <2>6, <2>8, <2>9 DEF CommandsFit, Scheduling, Cancelling
  <2>11. RunsLeft
    <3>1. ASSUME NEW r \in used, NEW t \in JobId, LinkedTo(r, t) PROVE LinkedTo(r, t)'
      BY <2>5, <2>6, <2>8, <2>9, <3>1 DEF LinkedTo, Scheduling
    <3>2. ASSUME NEW r \in used, Untouched(r) PROVE Untouched(r)'
      <4>1. \A d \in Ui : Cancelling(d)' => ui'[d].id # r
        BY <2>6, <2>8, <3>2 DEF Untouched, Cancelling
      <4>2. \A d \in Ui : Scheduling(d)' /\ ui'[d].id = r => ui'[d].copy.status = "queued"
        <5>1. r = j => m.status = "queued"
          BY <2>5, <2>9, <3>2 DEF Untouched
        <5>2. ui'[c].id = r => ui'[c].copy.status = "queued"
          BY <2>6, <2>8, <5>1
        <5>3. \A d \in Ui \ {c} : Scheduling(d)' /\ ui'[d].id = r => ui'[d].copy.status = "queued"
          BY <2>8, <3>2 DEF Untouched, Scheduling
        <5> QED
          BY <5>2, <5>3
      <4> QED
        BY <2>9, <3>2, <4>1, <4>2 DEF Untouched
    <3> QED
      BY <3>1, <3>2 DEF RunsLeft
  <2>12. ListStep
    BY <1>5, <1>c
  <2> QED
    BY <1>5, <1>a, <1>b, <2>9, <2>10, <2>11, <2>12 DEF UiMoves, UiOnly
<1>6. CASE UpdateSchedule(c)
  <2> USE <1>6 DEF UpdateSchedule, Command
  <2> DEFINE copy == ui[c].copy
  <2>4. copy \in Records /\ copy.id = ui[c].id /\ ui[c].id \in used
    BY <1>a DEF CommandsFit, Scheduling
  <2>5. PICK m \in Records : m = copy
    BY <2>4
  <2>6. jobs' = CreateJob(jobs, m) /\ Store(c, jobs')
    BY <2>5, Zenon DEF Store
  <2>8. /\ IsList(jobs') /\ DOMAIN jobs' = DOMAIN jobs \cup {copy.id}
        /\ \A i \in DOMAIN jobs \ {copy.id} : jobs'[i] = jobs[i]
        /\ jobs'[copy.id].status = copy.status
        /\ copy.id \in DOMAIN jobs /\ copy.parent = NoParent => jobs'[copy.id].parent = jobs[copy.id].parent
        /\ copy.id \notin DOMAIN jobs \/ copy.parent # NoParent => jobs'[copy.id].parent = copy.parent
    <3> HIDE <1>6
    <3>1. LET new == CreateJob(jobs, m) IN
            /\ IsList(new) /\ DOMAIN new = DOMAIN jobs \cup {m.id}
            /\ \A i \in DOMAIN jobs \ {m.id} : new[i] = jobs[i]
            /\ new[m.id].status = m.status
            /\ m.id \in DOMAIN jobs /\ m.parent = NoParent => new[m.id].parent = jobs[m.id].parent
            /\ m.id \notin DOMAIN jobs \/ m.parent # NoParent => new[m.id].parent = m.parent
      BY <1>a, CreateShape
    <3> QED
      BY <2>5, <2>6, <3>1
  <2>9. ui'[c] = NoCommand /\ (\A d \in Ui \ {c} : ui'[d] = ui[d]) /\ NoCommand \in Commands
    BY <1>a DEF NoCommand, Commands
  <2>10. CommandsFit'
    BY <1>a, <2>9 DEF CommandsFit, Scheduling, Cancelling, NoCommand
  <2>11. RunsLeft
    <3>1. ASSUME NEW r \in used, NEW t \in JobId, LinkedTo(r, t) PROVE LinkedTo(r, t)'
      <4>1. r = copy.id /\ r \notin deleted => copy.parent = t
        BY <2>4, <3>1 DEF LinkedTo, Scheduling
      <4> QED
        BY <2>8, <2>9, <3>1, <4>1 DEF LinkedTo, Scheduling, NoCommand
    <3>2. ASSUME NEW r \in used, Untouched(r) PROVE Untouched(r)'
      <4>1. r = copy.id => copy.status = "queued"
        BY <2>4, <3>2 DEF Untouched, Scheduling
      <4> QED
        BY <2>8, <2>9, <3>2, <4>1 DEF Untouched, Scheduling, Cancelling, NoCommand
    <3> QED
      BY <3>1, <3>2 DEF RunsLeft
  <2>12. ListStep
    <3>1. PICK n \in Nat : n = m.schedule.next
      BY DEF Records, Schedules
    <3>2. CASE n \in 1 .. now
      <4>1. lapses' = lapses + 1
        BY <2>5, <3>1, <3>2
      <4>2. OthersNotBack(jobs, jobs', copy.id) /\ copy.id \in JobId
        BY <2>4, <2>8 DEF OthersNotBack, Records
      <4> QED
        BY <1>e, <2>6, <2>8, <4>1, <4>2 DEF TooLate
    <3>3. CASE n \notin 1 .. now
      <4>1. lapses' = lapses
        BY <2>5, <3>1, <3>3 DEF Types
      <4>2. m.schedule.next = Never \/ m.schedule.next > now
        BY <3>1, <3>3 DEF Never, Types
      <4>3. NoneBack(jobs, jobs')
        BY <2>6, <4>2, CreateNoneBack
      <4> QED
        BY <1>d, <2>6, <2>8, <4>1, <4>3
    <3> QED
      BY <3>2, <3>3
  <2> QED
    BY <1>a, <1>b, <2>4, <2>8, <2>10, <2>11, <2>12 DEF UiMoves, UiOnly
<1> QED
  BY <1>1, <1>2, <1>3, <1>4, <1>5, <1>6 DEF UiStep

-----------------------------------------------------------------------------
(* The scheduler *)

(* The executing runs are the same and so are their records. *)
LEMMA LinksStay ==
    ASSUME Types, IdsUsed, Links, RunsLeft, runner' = runner, deleted' = deleted,
           (Busy => LinkedTo(sch.run, sch.cur.id) /\ Untouched(sch.run))'
    PROVE  Links'
<1>1. Executing' = Executing
  BY DEF Executing
<1>2. ASSUME NEW r \in Executing
      PROVE  LinkedTo(r, runner[r].template)' /\ (runner[r].pc \in {"spawned", "start"} => Untouched(r)')
  <2>1. r \in used /\ runner[r].template \in JobId
    BY DEF Executing, IdsUsed, JobId, Types, Runners
  <2>2. PICK t \in JobId : t = runner[r].template
    BY <2>1
  <2>3. LinkedTo(r, t)' /\ (runner[r].pc \in {"spawned", "start"} => Untouched(r)')
    BY <2>1, <2>2 DEF Links, RunsLeft
  <2> QED
    BY <2>2, <2>3
<1> QED
  BY <1>1, <1>2 DEF Links

LEMMA SameRecordsLeft ==
    ASSUME UNCHANGED <<jobs, ui, active, deleted>>
    PROVE  RunsLeft
BY DEF RunsLeft, LinkedTo, Untouched, Scheduling, Cancelling

LEMMA TickKeeps ==
    ASSUME IInv, Tick
    PROVE  IInv'
<1> USE DEF IInv
<1>1. /\ UNCHANGED <<now, jobs, active, disk, fresh, saving, inFlight, runner, ui, used, stamp, crashes, lapses, deleted, fires, repeats>>
      /\ sch.pc = "idle" /\ sch' = [Idle EXCEPT !.pc = "next", !.due = DueJobs(jobs)]
  BY DEF Tick, Scheduler, Unstored, SchedulerOnly
<1>2. ASSUME NEW m \in DueJobs(jobs)
      PROVE  /\ m.id \in DOMAIN jobs /\ m = jobs[m.id] /\ m \in Records /\ m.schedule.next \in 1..now
  <2>1. PICK i \in DOMAIN jobs : m = jobs[i] /\ jobs[i].schedule.next \in 1..now
    BY DEF DueJobs
  <2> QED
    BY <2>1 DEF Types, IsList
<1>3. /\ sch' = [pc |-> "next", due |-> DueJobs(jobs), cur |-> NoJob, run |-> NoParent, cleanup |-> {}]
  BY <1>1 DEF Idle
<1>4. sch' \in SchedulerStates
  BY <1>2, <1>3 DEF SchedulerStates
<1>5. Types'
  BY <1>1, <1>4 DEF Types
<1>6. ~Busy' /\ sch'.pc = "next"
  BY <1>3 DEF Busy
<1>7. IdsUsed'
  BY <1>1, <1>6 DEF IdsUsed, Scheduling, Cancelling
<1>8. InHand'
  BY <1>1, <1>2, <1>3, <1>6 DEF InHand, UserTemplates, Scheduling
<1>9. RunsInFlight'
  BY <1>1, <1>6 DEF RunsInFlight, OneRunPerTemplate, Executing
<1>10. Links'
  BY <1>1, <1>6, LinksStay, SameRecordsLeft
<1>11. Debt(jobs)' = Debt(jobs) /\ Debt(disk)' = Debt(disk)
  BY <1>1 DEF Debt
<1>12. DueDebt' \subseteq Debt(jobs)
  BY <1>1, <1>2, <1>3 DEF DueDebt, Debt
<1>13. RepeatsBounded'
  BY <1>1, <1>6, <1>11, <1>12, RepeatsStay DEF Owed, Advancing, Excused
<1> QED
  BY <1>1, <1>5, <1>7, <1>8, <1>9, <1>10, <1>13 DEF FileMatchesWhenSaved

(* Steps that only shorten the list of due templates. *)
LEMMA FewerDueKeeps ==
    ASSUME IInv, sch.pc = "next", sch'.pc \in {"next", "idle"}, sch'.due \subseteq sch.due,
           sch' \in SchedulerStates,
           UNCHANGED <<now, jobs, active, disk, fresh, saving, inFlight, runner, ui, used, stamp, crashes, lapses,
                       deleted, fires, repeats>>
    PROVE  IInv'
<1> USE DEF IInv
<1>1. Types'
  BY DEF Types
<1>2. ~Busy' /\ sch'.pc # "permit"
  BY DEF Busy
<1>3. IdsUsed'
  BY <1>2 DEF IdsUsed, Scheduling, Cancelling
<1>4. InHand'
  BY <1>2 DEF InHand, UserTemplates, Scheduling
<1>5. RunsInFlight'
  BY DEF RunsInFlight, OneRunPerTemplate, Executing
<1>6. Links'
  BY <1>2, LinksStay, SameRecordsLeft
<1>7. Debt(jobs)' = Debt(jobs) /\ Debt(disk)' = Debt(disk) /\ DueDebt' \subseteq DueDebt
  BY DEF Debt, DueDebt
<1>8. RepeatsBounded'
  BY <1>2, <1>7, RepeatsStay DEF Owed, Advancing, Excused
<1> QED
  BY <1>1, <1>3, <1>4, <1>5, <1>6, <1>8 DEF FileMatchesWhenSaved

LEMMA SkipKeeps ==
    ASSUME IInv, SkipInFlight
    PROVE  IInv'
<1>1. PICK m \in sch.due : sch' = [sch EXCEPT !.due = @ \ {m}]
  BY DEF SkipInFlight
<1>2. sch \in SchedulerStates
  BY DEF IInv, Types
<1>3. sch' \in SchedulerStates /\ sch'.due \subseteq sch.due /\ sch'.pc = sch.pc
  BY <1>1, <1>2 DEF SchedulerStates
<1>4. /\ sch.pc = "next"
      /\ UNCHANGED <<now, jobs, active, disk, fresh, saving, inFlight, runner, ui, used, stamp, crashes, lapses,
                     deleted, fires, repeats>>
  BY DEF SkipInFlight, Scheduler, Unstored, SchedulerOnly
<1> QED
  BY <1>3, <1>4, FewerDueKeeps

LEMMA EndTickKeeps ==
    ASSUME IInv, EndTick
    PROVE  IInv'
<1>1. sch' = Idle /\ Idle \in SchedulerStates /\ Idle.due = {} /\ Idle.pc = "idle"
  BY DEF EndTick, Idle, SchedulerStates
<1>2. /\ sch.pc = "next"
      /\ UNCHANGED <<now, jobs, active, disk, fresh, saving, inFlight, runner, ui, used, stamp, crashes, lapses,
                     deleted, fires, repeats>>
  BY DEF EndTick, Scheduler, Unstored, SchedulerOnly
<1> QED
  BY <1>1, <1>2, FewerDueKeeps

LEMMA SpawnKeeps ==
    ASSUME IInv, Spawn
    PROVE  IInv'
<1> USE DEF IInv
<1> DEFINE x == [pc |-> "spawned", kind |-> sch.cur.kind, template |-> sch.cur.id, out |-> "none"]
<1>1. /\ UNCHANGED <<now, jobs, active, disk, fresh, saving, inFlight, ui, used, stamp, crashes, lapses, deleted, fires, repeats>>
      /\ sch.pc = "permit" /\ "sched" \notin saving
      /\ runner' = [runner EXCEPT ![sch.run] = x]
      /\ sch' = [sch EXCEPT !.pc = "next", !.cur = NoJob, !.run = NoParent]
  BY DEF Spawn, Scheduler, Unstored, SchedulerOnly
<1>2. Busy /\ sch.cur \in Records /\ sch.run \in RunId /\ sch.run \in JobId /\ sch \in SchedulerStates
  BY <1>1 DEF Busy, InHand, JobId, Types
<1>3. x \in Runners /\ x.pc = "spawned" /\ x.kind \in AllKinds /\ x.template = sch.cur.id
  BY <1>2 DEF Runners, RunnerPcs, Records
<1> HIDE DEF x
<1>4. /\ runner' \in [JobId -> Runners] /\ runner'[sch.run] = x
      /\ \A r \in JobId \ {sch.run} : runner'[r] = runner[r]
  BY <1>1, <1>2, <1>3 DEF Types
<1>5. sch' \in SchedulerStates /\ sch'.pc = "next" /\ sch'.due = sch.due
  BY <1>1, <1>2 DEF SchedulerStates
<1>6. Types'
  BY <1>1, <1>4, <1>5 DEF Types
<1>7. ~Busy' /\ sch'.pc # "permit"
  BY <1>5 DEF Busy
<1>8. IdsUsed'
  BY <1>1, <1>2, <1>4, <1>7 DEF IdsUsed, Scheduling, Cancelling
<1>9. InHand'
  <2>1. UserTemplates'
    BY <1>2, <1>4, JobsAssumption DEF InHand, UserTemplates, JobId
  <2>2. \A i \in JobId : (/\ runner[i].pc # "none" => runner[i].kind \in AllKinds
                          /\ runner[i].pc \in {"unregister", "finish"} => runner[i].out \in Finished)'
    BY <1>3, <1>4 DEF InHand
  <2> QED
    BY <1>1, <1>5, <1>7, <2>1, <2>2 DEF InHand, Scheduling
<1>10. Executing' \subseteq Executing \cup {sch.run}
  BY <1>4 DEF Executing, JobId
<1>11. sch.run \notin Executing
  BY <1>2 DEF Executing, InHand
<1>12. \A r \in Executing : runner'[r] = runner[r]
  BY <1>4, <1>11 DEF Executing, JobId
<1>13. RunsInFlight'
  <2>1. \A r \in Executing' : runner'[r].template \in inFlight
    BY <1>1, <1>3, <1>4, <1>10, <1>12 DEF RunsInFlight
  <2>2. OneRunPerTemplate'
    BY <1>1, <1>3, <1>4, <1>10, <1>12 DEF RunsInFlight, OneRunPerTemplate
  <2> QED
    BY <1>1, <1>5, <2>1, <2>2 DEF RunsInFlight
<1>14. Links'
  <2>1. ASSUME NEW r \in Executing'
        PROVE  LinkedTo(r, runner[r].template)' /\ (runner'[r].pc \in {"spawned", "start"} => Untouched(r)')
    <3>1. PICK t : t = runner'[r].template
      OBVIOUS
    <3>2. LinkedTo(r, t) /\ (runner'[r].pc \in {"spawned", "start"} => Untouched(r))
      BY <1>2, <1>3, <1>4, <1>10, <1>12, <3>1 DEF Links
    <3>3. LinkedTo(r, t)' /\ (runner'[r].pc \in {"spawned", "start"} => Untouched(r)')
      BY <1>1, <3>2 DEF LinkedTo, Untouched, Scheduling, Cancelling
    <3> QED
      BY <3>1, <3>3
  <2> QED
    BY <1>7, <2>1 DEF Links
<1>15. Debt(jobs)' = Debt(jobs) /\ Debt(disk)' = Debt(disk) /\ DueDebt' = DueDebt
  BY <1>1, <1>5 DEF Debt, DueDebt
<1>16. RepeatsBounded'
  BY <1>1, <1>5, <1>7, <1>15, RepeatsStay DEF Owed, Advancing, Excused
<1> QED
  BY <1>1, <1>6, <1>8, <1>9, <1>13, <1>14, <1>16 DEF FileMatchesWhenSaved

LEMMA CleanupKeeps ==
    ASSUME IInv, Cleanup
    PROVE  IInv'
<1> USE DEF IInv
<1>1. PICK q \in sch.cleanup :
        /\ IF CleanupRetention(jobs, q[1], q[2]) # jobs
           THEN Store("sched", CleanupRetention(jobs, q[1], q[2])) ELSE Unstored
        /\ sch' = [sch EXCEPT !.cleanup = @ \ {q}]
  BY DEF Cleanup
<1>2. sch.pc = "next" /\ UNCHANGED <<now, active, ui, crashes, lapses, deleted, inFlight, runner, used, stamp, fires, repeats>>
  BY DEF Cleanup, Scheduler, SchedulerOnly
<1>3. sch \in SchedulerStates /\ IsList(jobs)
  BY DEF Types
<1>4. sch' \in SchedulerStates /\ sch'.pc = "next" /\ sch'.due = sch.due
  BY <1>1, <1>2, <1>3 DEF SchedulerStates
<1>5. /\ IsList(jobs') /\ DOMAIN jobs' \subseteq DOMAIN jobs
      /\ \A i \in DOMAIN jobs' : jobs'[i] = jobs[i]
      /\ \A i \in DOMAIN jobs \ DOMAIN jobs' : jobs[i].status \in Finished
  <2> DEFINE new == CleanupRetention(jobs, q[1], q[2])
  <2>1. /\ IsList(new) /\ DOMAIN new \subseteq DOMAIN jobs
        /\ \A i \in DOMAIN new : new[i] = jobs[i]
        /\ \A i \in DOMAIN jobs \ DOMAIN new : jobs[i].status \in Finished
    BY <1>3, CleanupShape
  <2>2. jobs' = new \/ jobs' = jobs
    BY <1>1 DEF Store, Unstored
  <2> HIDE DEF new
  <2> QED
    BY <1>3, <2>1, <2>2
<1>6. disk' = disk /\ fresh' = fresh /\ saving \subseteq saving' /\ (jobs' = jobs \/ saving' # {})
  BY <1>1 DEF Store, Unstored
<1>7. Types'
  BY <1>2, <1>4, <1>5, <1>6 DEF Types
<1>8. ~Busy' /\ sch'.pc # "permit"
  BY <1>4 DEF Busy
<1>9. IdsUsed'
  BY <1>2, <1>5, <1>6, <1>8 DEF IdsUsed, Scheduling, Cancelling
<1>10. InHand'
  BY <1>2, <1>4, <1>8 DEF InHand, UserTemplates, Scheduling
<1>11. RunsInFlight'
  BY <1>2, <1>4 DEF RunsInFlight, OneRunPerTemplate, Executing
<1>12. RunsLeft
  <2>1. ASSUME NEW r \in used, NEW t \in JobId, LinkedTo(r, t) PROVE LinkedTo(r, t)'
    BY <1>2, <1>5, <2>1 DEF LinkedTo, Scheduling
  <2>2. ASSUME NEW r \in used, Untouched(r) PROVE Untouched(r)'
    <3>1. r \in DOMAIN jobs => r \in DOMAIN jobs'
      BY <1>5, <2>2 DEF Untouched, Finished
    <3> QED
      BY <1>2, <1>5, <2>2, <3>1 DEF Untouched, Scheduling, Cancelling
  <2> QED
    BY <2>1, <2>2 DEF RunsLeft
<1>13. Links'
  BY <1>2, <1>8, <1>12, LinksStay
<1>14. Debt(jobs)' \subseteq Debt(jobs) /\ Debt(disk)' = Debt(disk) /\ DueDebt' = DueDebt
  BY <1>2, <1>4, <1>5, <1>6 DEF Debt, DueDebt
<1>15. RepeatsBounded'
  BY <1>2, <1>8, <1>14, RepeatsStay DEF Owed, Advancing, Excused
<1>16. FileMatchesWhenSaved'
  BY <1>6, SavedStep
<1> QED
  BY <1>7, <1>9, <1>10, <1>11, <1>13, <1>15, <1>16

LEMMA AdvanceKeeps ==
    ASSUME IInv, Advance
    PROVE  IInv'
<1> USE DEF IInv
<1> DEFINE m == sch.cur
           next == NextRunFromCron(m.schedule.cron)
<1>1. /\ jobs' = UpdateNextRun(jobs, m.id, next) /\ disk' = disk /\ fresh' = fresh /\ saving' = saving \cup {"sched"}
      /\ sch.pc = "advance" /\ inFlight' = inFlight \cup {m.id}
      /\ sch' = [sch EXCEPT !.pc = "permit",
                    !.cleanup = IF next = Never \/ m.schedule.keep = Unlimited THEN @
                                ELSE @ \cup {<<m.id, m.schedule.keep>>}]
      /\ UNCHANGED <<now, active, ui, crashes, lapses, deleted, runner, used, stamp, fires, repeats>>
  BY DEF Advance, Store, Scheduler, SchedulerOnly
<1>2. Busy /\ m \in Records /\ m.id \in JobId /\ m.schedule \in Schedules /\ sch \in SchedulerStates
  BY <1>1 DEF Busy, InHand, Records, Types
<1>3. next \in Nat /\ (next = Never \/ next > now)
  BY <1>2, NextOccurrence DEF Types, Schedules
<1> HIDE DEF next
<1>4. PICK cl \in SUBSET (JobId \X (Retention \cup {Unlimited})) :
        cl = IF next = Never \/ m.schedule.keep = Unlimited THEN sch.cleanup
             ELSE sch.cleanup \cup {<<m.id, m.schedule.keep>>}
  <2>1. sch.cleanup \in SUBSET (JobId \X (Retention \cup {Unlimited})) /\ m.schedule.keep \in Retention \cup {Unlimited}
    BY <1>2 DEF Schedules, SchedulerStates
  <2>2. sch.cleanup \cup {<<m.id, m.schedule.keep>>} \in SUBSET (JobId \X (Retention \cup {Unlimited}))
    BY <1>2, <2>1
  <2>3. CASE next = Never \/ m.schedule.keep = Unlimited
    BY <2>1, <2>3
  <2>4. CASE ~(next = Never \/ m.schedule.keep = Unlimited)
    BY <2>2, <2>4
  <2> QED
    BY <2>3, <2>4
<1>5. sch' = [sch EXCEPT !.pc = "permit", !.cleanup = cl]
  BY <1>1, <1>4
<1>6. sch' \in SchedulerStates /\ sch'.pc = "permit" /\ sch'.due = sch.due /\ sch'.cur = sch.cur /\ sch'.run = sch.run
  BY <1>2, <1>5 DEF SchedulerStates
<1>7. /\ IsList(jobs') /\ DOMAIN jobs' = DOMAIN jobs
      /\ \A i \in DOMAIN jobs \ {m.id} : jobs'[i] = jobs[i]
      /\ \A i \in DOMAIN jobs : jobs'[i].parent = jobs[i].parent /\ jobs'[i].status = jobs[i].status
      /\ m.id \in DOMAIN jobs => jobs'[m.id].schedule.next \in {next, Never}
  <2> DEFINE new == UpdateNextRun(jobs, m.id, next)
  <2>1. /\ IsList(new) /\ DOMAIN new = DOMAIN jobs
        /\ \A i \in DOMAIN jobs \ {m.id} : new[i] = jobs[i]
        /\ \A i \in DOMAIN jobs : new[i].parent = jobs[i].parent /\ new[i].status = jobs[i].status
        /\ m.id \in DOMAIN jobs => new[m.id].schedule.next \in {next, Never}
    BY <1>3, NextRunShape DEF Types
  <2>2. jobs' = new
    BY <1>1
  <2> HIDE DEF new
  <2> QED
    BY <2>1, <2>2
<1>8. Types'
  BY <1>1, <1>6, <1>7 DEF Types
<1>9. Busy'
  BY <1>6 DEF Busy
<1>10. IdsUsed'
  BY <1>1, <1>2, <1>6, <1>7 DEF IdsUsed, Scheduling, Cancelling
<1>11. InHand'
  BY <1>1, <1>2, <1>6 DEF InHand, UserTemplates, Scheduling
<1>12. Executing' = Executing
  BY <1>1 DEF Executing
<1>13. RunsInFlight'
  BY <1>1, <1>6, <1>12 DEF RunsInFlight, OneRunPerTemplate
<1>14. RunsLeft
  <2>1. ASSUME NEW r \in used, NEW t \in JobId, LinkedTo(r, t) PROVE LinkedTo(r, t)'
    BY <1>1, <1>7, <2>1 DEF LinkedTo, Scheduling
  <2>2. ASSUME NEW r \in used, Untouched(r) PROVE Untouched(r)'
    BY <1>1, <1>7, <2>2 DEF Untouched, Scheduling, Cancelling
  <2> QED
    BY <2>1, <2>2 DEF RunsLeft
<1>15. (LinkedTo(sch.run, sch.cur.id) /\ Untouched(sch.run))'
  <2>1. PICK r \in used, t \in JobId : r = sch.run /\ t = sch.cur.id
    BY <1>2 DEF IdsUsed
  <2>2. LinkedTo(r, t)' /\ Untouched(r)'
    BY <1>2, <1>14, <2>1 DEF Links, RunsLeft
  <2> QED
    BY <1>6, <2>1, <2>2
<1>16. Links'
  BY <1>1, <1>14, <1>15, LinksStay
<1>17. NoneBack(jobs, jobs')
  BY <1>3, <1>7 DEF NoneBack
<1>18. Debt(jobs') \subseteq Debt(jobs)
  BY <1>7, <1>17, NoNewDebt DEF Types
<1>19. Debt(jobs)' = Debt(jobs') /\ Debt(disk)' = Debt(disk) /\ DueDebt' = DueDebt
  BY <1>1, <1>6 DEF Debt, DueDebt
<1>20. m.id \notin Debt(jobs')
  <2> SUFFICES ASSUME m.id \in DOMAIN jobs, <<m.id, jobs'[m.id].schedule.next>> \in fires PROVE FALSE
    BY <1>7 DEF Debt
  <2>1. <<m.id, jobs'[m.id].schedule.next>>[2] \in 1..now
    BY DEF Types
  <2>2. jobs'[m.id].schedule.next \in 1..now /\ jobs'[m.id].schedule.next \in {next, Never}
    BY <1>7, <2>1
  <2> HIDE DEF m
  <2> QED
    BY <1>3, <2>2 DEF Never, Types
<1>21. RepeatsBounded'
  <2>1. Excused' = Excused
    BY <1>1, <1>6 DEF Excused
  <2> QED
    BY <1>1, <1>6, <1>18, <1>19, <1>20, <2>1, RepeatsStay DEF Owed, Advancing
<1>22. FileMatchesWhenSaved'
  BY <1>1 DEF FileMatchesWhenSaved
<1> QED
  BY <1>8, <1>10, <1>11, <1>13, <1>16, <1>21, <1>22

LEMMA QueueRunKeeps ==
    ASSUME IInv, QueueRun
    PROVE  IInv'
<1> USE DEF IInv
<1>1. RunId \ used # {}
  BY DEF QueueRun
<1>2. PICK r \in RunId : r = NewId /\ r \notin used
  BY <1>1, NewIdIsNew
<1>3. PICK m \in sch.due :
        /\ MayStart(m)
        /\ Store("sched", CreateJob(jobs, [NewJob(r, m.kind) EXCEPT !.parent = m.id]))
        /\ sch' = [sch EXCEPT !.pc = "advance", !.due = @ \ {m}, !.cur = m, !.run = r]
        /\ used' = used \cup {r} /\ stamp' = stamp + 1
        /\ fires' = fires \cup {<<m.id, m.schedule.next>>}
        /\ repeats' = repeats + (IF <<m.id, m.schedule.next>> \in fires THEN 1 ELSE 0)
  BY <1>2 DEF QueueRun
<1>4. sch.pc = "next" /\ UNCHANGED <<now, active, ui, crashes, lapses, deleted, inFlight, runner>>
  BY DEF QueueRun, Scheduler, SchedulerOnly
<1>5. /\ m \in Records /\ m.id \in JobId /\ m.id # NoParent /\ m.kind \in AllKinds
      /\ m.schedule.next \in 1..now /\ sch \in SchedulerStates /\ IsList(jobs) /\ r \in JobId
  BY JobsAssumption DEF Types, SchedulerStates, Records, InHand, JobId
<1>6. PICK n \in Records : n = NewJob(r, m.kind) /\ n.id = r /\ n.status = "queued" /\ n.schedule = NoSchedule
  BY <1>5, NewJobShape DEF Types
<1>7. PICK rec \in Records : /\ rec = [n EXCEPT !.parent = m.id] /\ rec.id = r /\ rec.status = "queued"
                             /\ rec.schedule = NoSchedule /\ rec.parent = m.id
  <2> DEFINE rec == [n EXCEPT !.parent = m.id]
  <2>1. /\ rec \in Records /\ rec.id = n.id /\ rec.status = n.status /\ rec.schedule = n.schedule
        /\ rec.parent = m.id
    BY <1>5 DEF Records
  <2> HIDE DEF rec
  <2>2. rec.id = r /\ rec.status = "queued" /\ rec.schedule = NoSchedule
    BY <1>6, <2>1
  <2> QED
    BY <2>1, <2>2, Zenon DEF rec
<1>8. jobs' = CreateJob(jobs, rec) /\ disk' = disk /\ fresh' = fresh /\ saving' = saving \cup {"sched"}
  BY <1>3, <1>6, <1>7 DEF Store
<1>9. /\ IsList(jobs') /\ DOMAIN jobs' = DOMAIN jobs \cup {r}
      /\ \A i \in DOMAIN jobs \ {r} : jobs'[i] = jobs[i]
      /\ jobs'[r].status = "queued" /\ jobs'[r].parent = m.id
  <2> DEFINE new == CreateJob(jobs, rec)
  <2>1. /\ IsList(new) /\ DOMAIN new = DOMAIN jobs \cup {rec.id}
        /\ \A i \in DOMAIN jobs \ {rec.id} : new[i] = jobs[i]
        /\ new[rec.id].status = rec.status
        /\ rec.parent # NoParent => new[rec.id].parent = rec.parent
    BY <1>5, CreateShape
  <2>2. jobs' = new
    BY <1>8
  <2> HIDE DEF new
  <2> QED
    BY <1>5, <1>7, <2>1, <2>2
<1>10. NoneBack(jobs, jobs')
  <2>1. NoSchedule.next = Never
    BY DEF NoSchedule
  <2> QED
    BY <1>7, <1>8, <2>1, CreateNoneBack
<1>11. /\ sch' \in SchedulerStates /\ sch'.pc = "advance" /\ sch'.due = sch.due \ {m}
       /\ sch'.cur = m /\ sch'.run = r
  BY <1>3, <1>5 DEF SchedulerStates
<1>12. Types'
  <2>1. \A f \in fires' : f[2] \in 1..now'
    BY <1>3, <1>4, <1>5 DEF Types
  <2>2. repeats' \in Nat /\ stamp' \in Nat
    BY <1>3 DEF Types
  <2> QED
    BY <1>4, <1>8, <1>9, <1>11, <2>1, <2>2 DEF Types
<1>13. IdsUsed'
  BY <1>3, <1>4, <1>8, <1>9, <1>11 DEF IdsUsed, Scheduling, Cancelling
<1>14. runner[r].pc = "none"
  BY <1>2, <1>5 DEF IdsUsed
<1>15. InHand'
  <2>1. \A k \in sch.due \ {m} : k.id # m.id
    BY DEF InHand
  <2> QED
    BY <1>4, <1>5, <1>11, <1>14, <2>1 DEF InHand, UserTemplates, Scheduling
<1>16. Executing' = Executing
  BY <1>4 DEF Executing
<1>17. RunsInFlight'
  BY <1>3, <1>4, <1>11, <1>16 DEF RunsInFlight, OneRunPerTemplate, MayStart
<1>18. RunsLeft
  <2>1. ASSUME NEW i \in used, NEW t \in JobId, LinkedTo(i, t) PROVE LinkedTo(i, t)'
    BY <1>2, <1>4, <1>9, <2>1 DEF LinkedTo, Scheduling
  <2>2. ASSUME NEW i \in used, Untouched(i) PROVE Untouched(i)'
    BY <1>2, <1>4, <1>9, <2>2 DEF Untouched, Scheduling, Cancelling
  <2> QED
    BY <2>1, <2>2 DEF RunsLeft
<1>19. (LinkedTo(sch.run, sch.cur.id) /\ Untouched(sch.run))'
  <2>1. PICK t \in JobId : t = m.id
    BY <1>5
  <2>2. \A c \in Ui : (Scheduling(c) \/ Cancelling(c))' => ui'[c].id # r
    BY <1>2, <1>4 DEF IdsUsed, Scheduling, Cancelling
  <2>3. LinkedTo(r, t)'
    BY <1>9, <2>1, <2>2 DEF LinkedTo
  <2>4. Untouched(r)'
    BY <1>2, <1>4, <1>9, <2>2 DEF Untouched, IdsUsed
  <2> QED
    BY <1>11, <2>1, <2>3, <2>4
<1>20. Links'
  BY <1>4, <1>18, <1>19, LinksStay
<1>21. Debt(jobs') \subseteq Debt(jobs)
  BY <1>9, <1>10, NoNewDebt DEF Types
<1>22. /\ Debt(jobs)' \subseteq Debt(jobs') \cup {m.id} /\ Debt(disk)' \subseteq Debt(disk) \cup {m.id}
       /\ DueDebt' \subseteq DueDebt \cup {m.id}
  <2>1. \A i, t : <<i, t>> \in fires' => <<i, t>> \in fires \/ i = m.id
    BY <1>3
  <2> QED
    BY <1>8, <1>11, <2>1 DEF Debt, DueDebt
<1>23. Excused = {} /\ Excused' = {m.id} /\ Advancing = {} /\ Advancing' = {m.id}
  BY <1>4, <1>11 DEF Excused, Advancing
<1>24. PICK S \in SUBSET JobId : IsFiniteSet(S) /\ Owed \subseteq S /\ repeats + Cardinality(S) <= crashes + lapses
  BY <1>23 DEF RepeatsBounded
<1>25. Owed' \subseteq S \ {m.id}
  <2>1. m.id \notin DueDebt'
    BY <1>11, <1>15 DEF DueDebt, InHand, Busy
  <2> QED
    BY <2>1, <1>21, <1>22, <1>23, <1>24 DEF Owed
<1>26. IsFiniteSet(S \ {m.id}) /\ Cardinality(S) \in Nat
       /\ Cardinality(S \ {m.id}) = IF m.id \in S THEN Cardinality(S) - 1 ELSE Cardinality(S)
  BY <1>24, FS_RemoveElement, FS_CardinalityType
<1>27. repeats' + Cardinality(S \ {m.id}) <= crashes' + lapses'
  <2>1. repeats \in Nat /\ crashes \in Nat /\ lapses \in Nat /\ crashes' = crashes /\ lapses' = lapses
    BY <1>4 DEF Types
  <2>2. CASE <<m.id, m.schedule.next>> \in fires
    <3>1. m.id \in S
      BY <1>24, <2>2 DEF Owed, DueDebt
    <3>2. repeats' = repeats + 1
      BY <1>3, <2>2
    <3>3. Cardinality(S \ {m.id}) = Cardinality(S) - 1
      BY <1>26, <3>1
    <3> QED
      BY <1>24, <1>26, <2>1, <3>2, <3>3
  <2>3. CASE <<m.id, m.schedule.next>> \notin fires
    <3>1. repeats' = repeats
      BY <1>3, <2>1, <2>3
    <3>2. Cardinality(S \ {m.id}) \in {Cardinality(S), Cardinality(S) - 1}
      BY <1>26
    <3> QED
      BY <1>24, <1>26, <2>1, <3>1, <3>2
  <2> QED
    BY <2>2, <2>3
<1>28. RepeatsBounded'
  BY <1>11, <1>25, <1>26, <1>27 DEF RepeatsBounded
<1>29. FileMatchesWhenSaved'
  BY <1>8 DEF FileMatchesWhenSaved
<1> QED
  BY <1>12, <1>13, <1>15, <1>17, <1>20, <1>28, <1>29

-----------------------------------------------------------------------------
(* The other steps *)

LEMMA SaveKeeps ==
    ASSUME IInv, NEW p, Save(p)
    PROVE  IInv'
<1> USE DEF IInv
<1>1. /\ UNCHANGED <<now, jobs, active, sch, inFlight, runner, ui, used, stamp, crashes, lapses, deleted, fires, repeats>>
      /\ disk' = jobs /\ saving' = saving \ {p}
  BY DEF Save, Written, history
<1>2. Types'
  BY <1>1 DEF Types
<1>3. IdsUsed'
  BY <1>1 DEF IdsUsed, Busy, Scheduling, Cancelling
<1>4. InHand'
  BY <1>1 DEF InHand, Busy, UserTemplates, Scheduling
<1>5. RunsInFlight'
  BY <1>1 DEF RunsInFlight, OneRunPerTemplate, Executing
<1>6. Links'
  <2>1. (Busy => LinkedTo(sch.run, sch.cur.id) /\ Untouched(sch.run))'
    BY <1>1 DEF Links, Busy, LinkedTo, Untouched, Scheduling, Cancelling
  <2> QED
    BY <1>1, <2>1, LinksStay, SameRecordsLeft
<1>7. Debt(jobs)' = Debt(jobs) /\ Debt(disk)' = Debt(jobs) /\ DueDebt' = DueDebt
  BY <1>1 DEF Debt, DueDebt
<1>8. Owed' \subseteq Owed
  BY <1>1, <1>7 DEF Owed, Advancing, Excused
<1>9. RepeatsBounded'
  BY <1>1, <1>8, RepeatsStay
<1>10. FileMatchesWhenSaved'
  BY <1>1 DEF FileMatchesWhenSaved
<1> QED
  BY <1>2, <1>3, <1>4, <1>5, <1>6, <1>9, <1>10

(* What a write that is cut off leaves is a list, and owes no more.        *)
LEMMA CutOffShape ==
    ASSUME Types, NEW d \in CutOff
    PROVE  /\ IsList(d) /\ DOMAIN d \subseteq DOMAIN jobs \cup DOMAIN disk
           /\ Debt(d) \subseteq Debt(jobs) \cup Debt(disk)
<1>1. CASE d = disk
  BY <1>1 DEF Types
<1>2. CASE \E ids \in SUBSET DOMAIN jobs : d = Restrict(jobs, ids)
  <2>1. PICK ids \in SUBSET DOMAIN jobs : d = Restrict(jobs, ids)
    BY <1>2
  <2>2. IsList(d) /\ DOMAIN d = ids /\ \A i \in ids : d[i] = jobs[i]
    BY <2>1, RestrictShape DEF Types
  <2> QED
    BY <2>2 DEF Debt
<1> QED
  BY <1>1, <1>2 DEF CutOff

LEMMA SaveFailsKeeps ==
    ASSUME IInv, NEW p, SaveFails(p)
    PROVE  IInv'
<1> USE DEF IInv
<1>1. /\ UNCHANGED <<now, jobs, active, sch, inFlight, runner, ui, used, stamp, crashes, deleted, fires, repeats>>
      /\ disk' \in CutOff /\ fresh' = FALSE /\ saving' = saving \ {p} /\ lapses' = lapses + 1
  BY DEF SaveFails, history
<1>2. PICK d \in CutOff : d = disk'
  BY <1>1
<1>3. /\ IsList(d) /\ DOMAIN d \subseteq DOMAIN jobs \cup DOMAIN disk
      /\ Debt(d) \subseteq Debt(jobs) \cup Debt(disk)
  BY CutOffShape
<1>4. Types'
  BY <1>1, <1>2, <1>3 DEF Types
<1>5. IdsUsed'
  BY <1>1, <1>2, <1>3 DEF IdsUsed, Busy, Scheduling, Cancelling
<1>6. InHand'
  BY <1>1 DEF InHand, Busy, UserTemplates, Scheduling
<1>7. RunsInFlight'
  BY <1>1 DEF RunsInFlight, OneRunPerTemplate, Executing
<1>8. Links'
  <2>1. (Busy => LinkedTo(sch.run, sch.cur.id) /\ Untouched(sch.run))'
    BY <1>1 DEF Links, Busy, LinkedTo, Untouched, Scheduling, Cancelling
  <2> QED
    BY <1>1, <2>1, LinksStay, SameRecordsLeft
<1>9. Debt(jobs)' = Debt(jobs) /\ Debt(disk)' = Debt(d) /\ DueDebt' = DueDebt /\ Advancing' = Advancing
  BY <1>1, <1>2 DEF Debt, DueDebt, Advancing
<1>10. Advancing \subseteq Excused
  BY DEF Advancing, Excused
<1>11. Owed' \subseteq Owed \cup Excused
  BY <1>3, <1>9, <1>10 DEF Owed
<1>12. PICK k \in Nat : k = crashes + lapses + 1
  BY DEF Types
<1>13. crashes' + lapses' = k
  BY <1>1, <1>12 DEF Types
<1>14. PICK D \in SUBSET JobId : D = Excused /\ \A a, b \in D : a = b
  BY OneExcused
<1>15. RepeatsBounded'
  BY <1>1, <1>11, <1>12, <1>13, <1>14, OneMore
<1> QED
  BY <1>1, <1>4, <1>5, <1>6, <1>7, <1>8, <1>15 DEF FileMatchesWhenSaved

(* The clock moves, or a user starts a job: records stay as they are. *)
LEMMA ClockKeeps ==
    ASSUME IInv, Clock
    PROVE  IInv'
<1> USE DEF IInv
<1>1. /\ UNCHANGED <<jobs, active, disk, fresh, saving, sch, inFlight, runner, ui, used, stamp, crashes, lapses, deleted, fires, repeats>>
      /\ now' = now + 1 /\ now \in Nat
  BY DEF Clock, store, history, Types
<1>2. Types'
  <2>1. \A f \in fires' : f[2] \in 1..now'
    BY <1>1 DEF Types
  <2> QED
    BY <1>1, <2>1 DEF Types
<1>3. IdsUsed'
  BY <1>1 DEF IdsUsed, Busy, Scheduling, Cancelling
<1>4. InHand'
  <2>1. \A m \in sch.due : m.schedule.next \in 1..now'
    BY <1>1 DEF InHand
  <2> QED
    BY <1>1, <2>1 DEF InHand, Busy, UserTemplates, Scheduling
<1>5. RunsInFlight'
  BY <1>1 DEF RunsInFlight, OneRunPerTemplate, Executing
<1>6. Links'
  <2>1. (Busy => LinkedTo(sch.run, sch.cur.id) /\ Untouched(sch.run))'
    BY <1>1 DEF Links, Busy, LinkedTo, Untouched, Scheduling, Cancelling
  <2> QED
    BY <1>1, <2>1, LinksStay, SameRecordsLeft
<1>7. Debt(jobs)' = Debt(jobs) /\ Debt(disk)' = Debt(disk) /\ DueDebt' = DueDebt /\ Excused' = Excused /\ Advancing' = Advancing
  BY <1>1 DEF Debt, DueDebt, Excused, Advancing
<1>8. RepeatsBounded'
  BY <1>1, <1>7, RepeatsStay DEF Owed
<1> QED
  BY <1>1, <1>2, <1>3, <1>4, <1>5, <1>6, <1>8 DEF FileMatchesWhenSaved

LEMMA StartKeeps ==
    ASSUME IInv, NEW j \in UserJob, NEW k \in Kind, StartUserJob(j, k)
    PROVE  IInv'
<1> USE DEF IInv
<1> DEFINE x == [pc |-> "start", kind |-> k, template |-> NoParent, out |-> "none"]
<1>1. /\ UNCHANGED <<now, jobs, active, disk, fresh, saving, sch, inFlight, ui, stamp, crashes, lapses, deleted, fires, repeats>>
      /\ runner' = [runner EXCEPT ![j] = x] /\ used' = used \cup {j} /\ j \notin used
  BY DEF StartUserJob, store, history
<1>2. j \in JobId /\ j \notin RunId /\ k \in AllKinds
  BY JobsAssumption DEF JobId
<1>3. x \in Runners /\ x.pc = "start" /\ x.kind = k /\ x.template = NoParent
  BY <1>2 DEF Runners, RunnerPcs
<1> HIDE DEF x
<1>4. /\ runner' \in [JobId -> Runners] /\ runner'[j] = x
      /\ \A r \in JobId \ {j} : runner'[r] = runner[r]
  BY <1>1, <1>2, <1>3 DEF Types
<1>5. Types'
  BY <1>1, <1>4 DEF Types
<1>6. IdsUsed'
  BY <1>1, <1>4 DEF IdsUsed, Busy, Scheduling, Cancelling
<1>7. Busy => sch.run # j
  BY <1>2 DEF InHand
<1>8. InHand'
  <2>1. (Busy => runner[sch.run].pc = "none")'
    BY <1>1, <1>4, <1>7 DEF InHand, Busy, JobId
  <2>2. UserTemplates'
    BY <1>3, <1>4 DEF InHand, UserTemplates
  <2>3. \A i \in JobId : (/\ runner[i].pc # "none" => runner[i].kind \in AllKinds
                          /\ runner[i].pc \in {"unregister", "finish"} => runner[i].out \in Finished)'
    BY <1>2, <1>3, <1>4 DEF InHand
  <2> QED
    BY <1>1, <2>1, <2>2, <2>3 DEF InHand, Busy, Scheduling
<1>9. Executing' = Executing /\ \A r \in Executing : runner'[r] = runner[r]
  BY <1>2, <1>4 DEF Executing, JobId
<1>10. RunsInFlight'
  BY <1>1, <1>9 DEF RunsInFlight, OneRunPerTemplate
<1>11. Links'
  <2>1. ASSUME NEW r, NEW t PROVE LinkedTo(r, t)' = LinkedTo(r, t) /\ Untouched(r)' = Untouched(r)
    BY <1>1 DEF LinkedTo, Untouched, Scheduling, Cancelling
  <2>2. ASSUME NEW r \in Executing
        PROVE  LinkedTo(r, runner[r].template)' /\ (runner'[r].pc \in {"spawned", "start"} => Untouched(r)')
    <3>1. PICK t : t = runner[r].template
      OBVIOUS
    <3>2. LinkedTo(r, t)' /\ (runner[r].pc \in {"spawned", "start"} => Untouched(r)')
      BY <2>1, <3>1 DEF Links
    <3> QED
      BY <1>9, <3>1, <3>2
  <2>3. ASSUME Busy PROVE LinkedTo(sch.run, sch.cur.id)' /\ Untouched(sch.run)'
    <3>1. PICK r, t : r = sch.run /\ t = sch.cur.id
      OBVIOUS
    <3>2. LinkedTo(r, t)' /\ Untouched(r)'
      BY <2>1, <2>3, <3>1 DEF Links
    <3> QED
      BY <1>1, <3>1, <3>2
  <2>4. Busy' = Busy
    BY <1>1 DEF Busy
  <2> QED
    BY <1>9, <2>2, <2>3, <2>4 DEF Links
<1>12. Debt(jobs)' = Debt(jobs) /\ Debt(disk)' = Debt(disk) /\ DueDebt' = DueDebt /\ Excused' = Excused /\ Advancing' = Advancing
  BY <1>1 DEF Debt, DueDebt, Excused, Advancing
<1>13. RepeatsBounded'
  BY <1>1, <1>12, RepeatsStay DEF Owed
<1> QED
  BY <1>1, <1>5, <1>6, <1>8, <1>10, <1>11, <1>13 DEF FileMatchesWhenSaved

(* A restart: what was in flight is forgotten, and the template that had   *)
(* fired but was not saved as advanced becomes a debt.                     *)
LEMMA RestartKeeps ==
    ASSUME IInv, Restart
    PROVE  IInv'
<1> USE DEF IInv
<1>1. /\ active' = <<>> /\ saving' = {} /\ inFlight' = {} /\ sch' = Idle
      /\ ui' = [c \in Ui |-> NoCommand] /\ runner' = [j \in JobId |-> NoRunner]
      /\ crashes' = crashes + 1
      /\ UNCHANGED <<now, used, stamp, lapses, deleted, fires, repeats>>
  BY DEF Restart, history
<1>0. PICK d \in CutOff : d = disk' /\ d = jobs'
  BY DEF Restart, CutOff
<1>a. /\ IsList(d) /\ DOMAIN d \subseteq DOMAIN jobs \cup DOMAIN disk
      /\ Debt(d) \subseteq Debt(jobs) \cup Debt(disk)
  BY CutOffShape
<1>2. NoRunner \in Runners /\ NoRunner.pc = "none" /\ NoRunner.template = NoParent
  BY DEF NoRunner, Runners, RunnerPcs
<1>3. NoCommand \in Commands /\ NoCommand.pc = "none"
  BY DEF NoCommand, Commands
<1>4. Idle \in SchedulerStates /\ Idle.pc = "idle" /\ Idle.due = {}
  BY DEF Idle, SchedulerStates
<1>5. Types'
  BY <1>0, <1>1, <1>2, <1>3, <1>4, <1>a DEF Types
<1>6. ~Busy'
  BY <1>1, <1>4 DEF Busy
<1>7. DOMAIN active' = {}
  BY <1>1
<1>8. IdsUsed'
  BY <1>0, <1>1, <1>2, <1>3, <1>6, <1>7, <1>a DEF IdsUsed, Scheduling, Cancelling
<1>9. InHand'
  BY <1>1, <1>2, <1>3, <1>4, <1>6 DEF InHand, UserTemplates, Scheduling
<1>10. Executing' = {}
  BY <1>1, <1>2 DEF Executing, JobId
<1>11. RunsInFlight' /\ Links'
  BY <1>1, <1>4, <1>6, <1>10 DEF RunsInFlight, Links, OneRunPerTemplate
<1>12. Owed' \subseteq Owed \cup Excused
  <2>1. Debt(jobs)' = Debt(d) /\ Debt(disk)' = Debt(d) /\ DueDebt' = {}
    BY <1>0, <1>1, <1>4 DEF Debt, DueDebt
  <2>2. Advancing \subseteq Excused
    BY DEF Advancing, Excused
  <2> QED
    BY <1>a, <2>1, <2>2 DEF Owed
<1>13. PICK k \in Nat : k = crashes + lapses + 1
  BY DEF Types
<1>14. crashes' + lapses' = k
  BY <1>1, <1>13 DEF Types
<1>15. RepeatsBounded'
  <2>1. PICK D \in SUBSET JobId : D = Excused /\ \A a, b \in D : a = b
    BY OneExcused
  <2> QED
    BY <1>1, <1>12, <1>13, <1>14, <2>1, OneMore
<1> QED
  BY <1>0, <1>5, <1>8, <1>9, <1>11, <1>15 DEF FileMatchesWhenSaved

-----------------------------------------------------------------------------
(* The theorems *)

LEMMA InitHolds ==
    ASSUME Init
    PROVE  IInv
<1>1. /\ now = 0 /\ active = <<>> /\ disk = jobs /\ saving = {} /\ sch = Idle /\ inFlight = {}
      /\ runner = [j \in JobId |-> NoRunner] /\ ui = [c \in Ui |-> NoCommand]
      /\ used = DOMAIN jobs /\ stamp = 0 /\ crashes = 0 /\ lapses = 0 /\ deleted = {} /\ fires = {} /\ repeats = 0
      /\ jobs \in WithPath
  BY DEF Init
<1>2. PICK ids \in SUBSET UserJob, k \in Kind, cron \in Cron, keep \in Retention :
        jobs = [j \in ids |-> Template(j, k, cron, keep)]
  BY <1>1 DEF WithPath
<1>3. PICK n \in Nat : n = NextRunFromCron(cron)
  BY <1>1, NextOccurrence
<1>4. PICK sc \in Schedules : sc = [enabled |-> TRUE, cron |-> cron, keep |-> keep, next |-> n]
  BY DEF Schedules
<1>5. ASSUME NEW j \in ids PROVE Template(j, k, cron, keep) \in Records /\ Template(j, k, cron, keep).id = j
  <2>1. Template(j, k, cron, keep) =
          [id |-> j, kind |-> k, status |-> "done", parent |-> NoParent, created |-> 0, schedule |-> sc]
    BY <1>3, <1>4, Zenon DEF Template
  <2> QED
    BY <2>1, JobsAssumption DEF Records, Statuses, JobId
<1>6. IsList(jobs)
  BY <1>2, <1>5 DEF IsList, JobId
<1>7. NoRunner \in Runners /\ NoRunner.pc = "none" /\ NoRunner.template = NoParent
  BY DEF NoRunner, Runners, RunnerPcs
<1>8. NoCommand \in Commands /\ NoCommand.pc = "none"
  BY DEF NoCommand, Commands
<1>9. Idle \in SchedulerStates /\ Idle.pc = "idle" /\ Idle.due = {}
  BY DEF Idle, SchedulerStates
<1>10. Types
  BY <1>1, <1>6, <1>7, <1>8, <1>9 DEF Types
<1>11. ~Busy /\ DOMAIN active = {}
  BY <1>1, <1>9 DEF Busy
<1>12. IdsUsed
  BY <1>1, <1>7, <1>8, <1>11 DEF IdsUsed, Scheduling, Cancelling
<1>13. InHand
  BY <1>1, <1>7, <1>8, <1>9, <1>11 DEF InHand, UserTemplates, Scheduling
<1>14. Executing = {}
  BY <1>1, <1>7 DEF Executing, JobId
<1>15. RunsInFlight /\ Links
  BY <1>1, <1>9, <1>11, <1>14 DEF RunsInFlight, Links, OneRunPerTemplate
<1>16. Owed = {}
  BY <1>1, <1>9 DEF Owed, Debt, DueDebt
<1>17. IsFiniteSet({}) /\ Cardinality({}) = 0
  BY FS_EmptySet
<1>18. RepeatsBounded
  BY <1>1, <1>9, <1>16, <1>17 DEF RepeatsBounded
<1> QED
  BY <1>1, <1>10, <1>12, <1>13, <1>15, <1>18 DEF IInv, FileMatchesWhenSaved

LEMMA StutterHolds ==
    ASSUME IInv, UNCHANGED vars
    PROVE  IInv'
<1> USE DEF IInv
<1>1. UNCHANGED <<now, jobs, active, disk, fresh, saving, sch, inFlight, runner, ui, used, stamp, crashes, lapses, deleted, fires, repeats>>
  BY DEF vars, store, history
<1>2. Types' /\ IdsUsed' /\ InHand'
  BY <1>1 DEF Types, IdsUsed, InHand, Busy, UserTemplates, Scheduling, Cancelling
<1>3. RunsInFlight'
  BY <1>1 DEF RunsInFlight, OneRunPerTemplate, Executing
<1>4. Links'
  BY <1>1 DEF Links, Executing, Busy, LinkedTo, Untouched, Scheduling, Cancelling
<1>5. RepeatsBounded'
  BY <1>1 DEF RepeatsBounded, Owed, Debt, DueDebt, Advancing, Excused
<1> QED
  BY <1>1, <1>2, <1>3, <1>4, <1>5 DEF FileMatchesWhenSaved

LEMMA NextKeeps ==
    ASSUME IInv, [Next]_vars
    PROVE  IInv'
<1>1. CASE \E p \in JobId \cup Ui \cup {"sched"} : Save(p) \/ SaveFails(p)
  BY <1>1, SaveKeeps, SaveFailsKeeps
<1>2. CASE Clock
  BY <1>2, ClockKeeps
<1>3. CASE SchedulerStep
  BY <1>3, TickKeeps, SkipKeeps, QueueRunKeeps, AdvanceKeeps, SpawnKeeps, CleanupKeeps, EndTickKeeps
     DEF SchedulerStep
<1>4. CASE Restart
  BY <1>4, RestartKeeps
<1>5. CASE \E j \in UserJob, k \in Kind : StartUserJob(j, k)
  BY <1>5, StartKeeps
<1>6. CASE \E j \in JobId : RunnerStep(j)
  BY <1>6, RunnerStepMoves, RunnerKeeps DEF IInv
<1>7. CASE \E c \in Ui : UiStep(c)
  BY <1>7, UiStepMoves, UiKeeps
<1>8. CASE UNCHANGED vars
  BY <1>8, StutterHolds
<1> QED
  BY <1>1, <1>2, <1>3, <1>4, <1>5, <1>6, <1>7, <1>8 DEF Next

(* The scheduler never has two runs of a template executing, and makes a   *)
(* second run for an occurrence at most once for each restart, each write  *)
(* of the file that failed and each schedule written after its occurrence, *)
(* however commands, saves, runners and restarts interleave.               *)
THEOREM RunsAlwaysOnce == Spec => []RunsOnce
<1>1. Init => IInv
  BY InitHolds
<1>2. IInv /\ [Next]_vars => IInv'
  BY NextKeeps
<1>3. IInv => RunsOnce
  <2> SUFFICES ASSUME IInv PROVE RunsOnce
    OBVIOUS
  <2>1. OneRunPerTemplate
    BY DEF IInv, RunsInFlight
  <2>2. PICK S \in SUBSET JobId : IsFiniteSet(S) /\ repeats + Cardinality(S) <= crashes + lapses
    BY DEF IInv, RepeatsBounded
  <2>3. Cardinality(S) \in Nat /\ repeats \in Nat /\ crashes \in Nat /\ lapses \in Nat
    BY <2>2, FS_CardinalityType DEF IInv, Types
  <2>4. repeats <= crashes + lapses
    BY <2>2, <2>3
  <2> QED
    BY <2>1, <2>4 DEF RunsOnce, FiresOncePerOccurrence
<1> QED
  BY <1>1, <1>2, <1>3, PTL DEF Spec

(* The file holds the list whenever no save is outstanding and the last    *)
(* write worked, whatever earlier writes did, and the record of an         *)
(* executing run names its template unless the user deleted it.            *)
THEOREM RecordsAlwaysKept == Spec => []RecordsKept
<1>1. Init => IInv
  BY InitHolds
<1>2. IInv /\ [Next]_vars => IInv'
  BY NextKeeps
<1>3. IInv => RecordsKept
  BY DEF IInv, Links, LinkedTo, RecordsKept, SpawnedRunsStayLinked
<1> QED
  BY <1>1, <1>2, <1>3, PTL DEF Spec
=============================================================================
