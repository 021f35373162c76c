-------------------------------- MODULE Jobs --------------------------------
(***************************************************************************)
(* Background jobs of the desktop application: the job store               *)
(* (src-tauri/src/mongo/job_store.rs), the scheduler (mongo/scheduler.rs), *)
(* the job commands (commands/jobs.rs) and the life of a runner (dump,     *)
(* export, copy, import, restore) as far as the store sees it; what the    *)
(* runners read and write is module Transfer.                              *)
(*                                                                         *)
(* A store operation changes the list under its write lock, releases it,   *)
(* and then saves: save() takes the lock again for reading and writes what *)
(* it finds.  The two halves are two steps of the calling process.  An     *)
(* error of the write is ignored, and may leave the file cut off.          *)
(***************************************************************************)
EXTENDS Integers, FiniteSets, FiniteSetsExt, Functions

CONSTANTS
  UserJob,        \* ids of jobs started from the interface
  RunId,          \* ids for runs made by the scheduler or by rerun_job
  Ui,             \* interface commands in flight at a time
  Kind,           \* kinds of jobs that are started
  Cron,           \* cron expressions: each the set of its occurrences
  Retention,      \* values of retention_count; Unlimited is None
  MaxConcurrent,  \* MAX_CONCURRENT_JOBS
  MaxTime,        \* bound on the clock
  MaxCommands,    \* bound on interface commands
  MaxFaults,      \* bound on writes of the file that fail
  MaxCrashes      \* bound on restarts of the application

Never == 0         \* next_run_at = None
Unlimited == 99
NoParent == "none"
JobId == UserJob \cup RunId
AllKinds == {"dump", "export", "clipboard", "copy", "import", "restore"}
Finished == {"done", "failed", "cancelled"}

ASSUME JobsAssumption ==
  /\ Kind \subseteq AllKinds /\ MaxConcurrent \in Nat \ {0}
  /\ MaxTime \in Nat /\ MaxCommands \in Nat /\ MaxFaults \in Nat /\ MaxCrashes \in Nat
  /\ \A c \in Cron : c \subseteq 1 .. MaxTime + 1
  /\ UserJob \cap RunId = {} /\ NoParent \notin JobId

VARIABLES
  now,       \* the clock, in the scheduler's unit
  jobs,      \* JobStore.jobs, by id
  active,    \* JobStore.active: the cancel flags, by id
  disk,      \* the persisted records
  fresh,     \* whether the last write of the file was complete
  saving,    \* processes between their change and their save()
  sch,       \* the scheduler task
  inFlight,  \* templates whose run has not ended
  runner,    \* the runner of each job
  ui,        \* the interface commands
  used,      \* ids given out
  stamp,     \* created_at of the last record made
  crashes, commands,
  lapses,    \* failed writes, and schedules written after their occurrence
  \* history: ids deleted by the user; occurrences a run was made for, and
  \* how many runs repeated one
  deleted, fires, repeats

store == <<jobs, active, disk, fresh, saving>>
history == <<deleted, fires, repeats>>
vars == <<now, store, sch, inFlight, runner, ui, used, stamp, crashes, commands, lapses, history>>

----------------------------------------------------------------------------
(* The store's operations, as functions of the list.                       *)

NoSchedule == [enabled |-> FALSE, cron |-> {}, next |-> Never, keep |-> Unlimited]

NewJob(id, kind) ==
  [id |-> id, kind |-> kind, status |-> "queued", schedule |-> NoSchedule,
   parent |-> NoParent, created |-> stamp + 1]

Put(js, id, x) == [i \in DOMAIN js \cup {id} |-> IF i = id THEN x ELSE js[i]]

(* Mutant: a record made again loses the link to its template. *)
CreateJob_NoParent(js, m) ==
  Put(js, m.id, IF m.id \in DOMAIN js /\ m.schedule = NoSchedule
                THEN [m EXCEPT !.schedule = js[m.id].schedule] ELSE m)

(* A record made again under its id keeps the schedule and the parent.     *)
CreateJob(js, m) ==
  LET kept == IF m.id \notin DOMAIN js THEN m
              ELSE [m EXCEPT !.schedule = IF @ = NoSchedule THEN js[m.id].schedule ELSE @,
                             !.parent = IF @ = NoParent THEN js[m.id].parent ELSE @]
  IN Put(js, m.id, kept)

UpdateStatus(js, id, s) ==
  IF id \in DOMAIN js THEN [js EXCEPT ![id].status = s] ELSE js

UpdateNextRun(js, id, t) ==
  IF id \in DOMAIN js /\ js[id].schedule # NoSchedule
  THEN [js EXCEPT ![id].schedule.next = t] ELSE js

DeleteJob(js, id) == Restrict(js, DOMAIN js \ {id})

DueJobs(js) ==
  {js[id] : id \in {i \in DOMAIN js :
     /\ js[i].parent = NoParent /\ js[i].status \in Finished
     /\ js[i].schedule.enabled /\ js[i].schedule.next \in 1 .. now}}

(* The finished runs of template t beyond the keep newest.                 *)
CleanupRetention(js, t, keep) ==
  LET runs == {i \in DOMAIN js : js[i].parent = t /\ js[i].status \in Finished}
      Newer(i) == {j \in runs : js[j].created > js[i].created}
  IN Restrict(js, {i \in DOMAIN js : i \in runs => Cardinality(Newer(i)) < keep})

(* uuid::Uuid::new_v4                                                      *)
NewId == CHOOSE r \in RunId : r \notin used

NextRunFromCron(cron) ==
  IF \E t \in cron : t > now THEN Min({t \in cron : t > now}) ELSE Never

----------------------------------------------------------------------------
NoJob == [id |-> NoParent]
Idle == [pc |-> "idle", due |-> {}, cur |-> NoJob, run |-> NoParent, cleanup |-> {}]
NoRunner == [pc |-> "none", kind |-> "none", template |-> NoParent, out |-> "none"]
NoCommand == [pc |-> "none", id |-> NoParent, copy |-> NoJob]

(* with_path(): no file yet, or the record of an earlier job with its      *)
(* schedule.                                                               *)
Template(j, k, cron, keep) ==
  [id |-> j, kind |-> k, status |-> "done", parent |-> NoParent, created |-> 0,
   schedule |-> [enabled |-> TRUE, cron |-> cron, keep |-> keep, next |-> NextRunFromCron(cron)]]
WithPath ==
  {[j \in ids |-> Template(j, k, cron, keep)] :
     ids \in SUBSET UserJob, k \in Kind, cron \in Cron, keep \in Retention}

Init ==
  /\ now = 0 /\ jobs \in WithPath /\ active = <<>> /\ disk = jobs /\ fresh = TRUE /\ saving = {}
  /\ sch = Idle /\ inFlight = {} /\ runner = [j \in JobId |-> NoRunner]
  /\ ui = [c \in Ui |-> NoCommand] /\ used = DOMAIN jobs /\ stamp = 0
  /\ crashes = 0 /\ commands = 0 /\ lapses = 0 /\ deleted = {} /\ fires = {} /\ repeats = 0

(* A change of the list by process p, which saves next.                    *)
Store(p, js) == jobs' = js /\ saving' = saving \cup {p} /\ UNCHANGED <<disk, fresh>>
Unstored == UNCHANGED <<jobs, disk, fresh, saving>>

(* Mutant: save() writes what is new, and not the list. *)
Written_Appended == [i \in DOMAIN disk \cup DOMAIN jobs |-> IF i \in DOMAIN disk THEN disk[i] ELSE jobs[i]]

(* One line for each record of the list as it is by now.                   *)
Written == jobs

Save(p) ==
  /\ p \in saving
  /\ disk' = Written /\ fresh' = TRUE /\ saving' = saving \ {p}
  /\ UNCHANGED <<now, jobs, active, sch, inFlight, runner, ui, used, stamp, crashes, commands, lapses, history>>

(* What a write may leave that does not come to its end: the file as it    *)
(* was, or some of the lines; with_path() skips a line that is cut off.    *)
CutOff == {disk} \cup {Restrict(jobs, ids) : ids \in SUBSET DOMAIN jobs}

(* `let _ = std::fs::write(..)': the caller goes on as after a save.       *)
SaveFails(p) ==
  /\ p \in saving /\ lapses < MaxFaults
  /\ disk' \in CutOff /\ fresh' = FALSE /\ saving' = saving \ {p} /\ lapses' = lapses + 1
  /\ UNCHANGED <<now, jobs, active, sch, inFlight, runner, ui, used, stamp, crashes, commands, history>>

Clock ==
  /\ now < MaxTime /\ now' = now + 1
  /\ UNCHANGED <<store, sch, inFlight, runner, ui, used, stamp, crashes, commands, lapses, history>>

----------------------------------------------------------------------------
(* The scheduler: one task, ticks do not overlap.                          *)

Scheduler(pc) == "sched" \notin saving /\ sch.pc = pc
SchedulerOnly == UNCHANGED <<now, active, ui, crashes, commands, lapses, deleted>>

(* Mutant: a template is started whether or not its last run has ended. *)
MayStart_Always(m) == TRUE

(* A template whose previous run is still executing is passed over.        *)
MayStart(m) == m.id \notin inFlight

Tick ==
  /\ Scheduler("idle") /\ DueJobs(jobs) # {}
  /\ sch' = [Idle EXCEPT !.pc = "next", !.due = DueJobs(jobs)]
  /\ Unstored /\ SchedulerOnly /\ UNCHANGED <<inFlight, runner, used, stamp, fires, repeats>>

SkipInFlight ==
  /\ Scheduler("next")
  /\ \E m \in sch.due : ~MayStart(m) /\ sch' = [sch EXCEPT !.due = @ \ {m}]
  /\ Unstored /\ SchedulerOnly /\ UNCHANGED <<inFlight, runner, used, stamp, fires, repeats>>

QueueRun ==
  /\ Scheduler("next")
  /\ RunId \ used # {}
  /\ \E m \in sch.due : LET r == NewId IN
       /\ MayStart(m)
       /\ Store("sched", CreateJob(jobs, [NewJob(r, m.kind) EXCEPT !.parent = m.id]))
       /\ sch' = [sch EXCEPT !.pc = "advance", !.due = @ \ {m}, !.cur = m, !.run = r]
       /\ used' = used \cup {r} /\ stamp' = stamp + 1
       /\ fires' = fires \cup {<<m.id, m.schedule.next>>}
       /\ repeats' = repeats + (IF <<m.id, m.schedule.next>> \in fires THEN 1 ELSE 0)
  /\ SchedulerOnly /\ UNCHANGED <<inFlight, runner>>

(* The next occurrence is computed from the copy of the template that      *)
(* due_jobs() returned, not from its record as it is by now.               *)
Advance ==
  /\ Scheduler("advance")
  /\ LET m == sch.cur
         next == NextRunFromCron(m.schedule.cron)
     IN /\ Store("sched", UpdateNextRun(jobs, m.id, next))
        /\ sch' = [sch EXCEPT !.pc = "permit",
                     !.cleanup = IF next = Never \/ m.schedule.keep = Unlimited THEN @
                                 ELSE @ \cup {<<m.id, m.schedule.keep>>}]
        /\ inFlight' = inFlight \cup {m.id}
  /\ SchedulerOnly /\ UNCHANGED <<runner, used, stamp, fires, repeats>>

Executing == {r \in RunId : runner[r].template # NoParent /\ runner[r].pc \notin {"none", "ended"}}

Spawn ==
  /\ Scheduler("permit") /\ Cardinality(Executing) < MaxConcurrent
  /\ runner' = [runner EXCEPT ![sch.run] =
       [pc |-> "spawned", kind |-> sch.cur.kind, template |-> sch.cur.id, out |-> "none"]]
  /\ sch' = [sch EXCEPT !.pc = "next", !.cur = NoJob, !.run = NoParent]
  /\ Unstored /\ SchedulerOnly /\ UNCHANGED <<inFlight, used, stamp, fires, repeats>>

Cleanup ==
  /\ Scheduler("next") /\ sch.due = {}
  /\ \E q \in sch.cleanup :
       LET js == CleanupRetention(jobs, q[1], q[2])
       IN /\ IF js # jobs THEN Store("sched", js) ELSE Unstored
          /\ sch' = [sch EXCEPT !.cleanup = @ \ {q}]
  /\ SchedulerOnly /\ UNCHANGED <<inFlight, runner, used, stamp, fires, repeats>>

EndTick ==
  /\ Scheduler("next") /\ sch.due = {} /\ sch.cleanup = {}
  /\ sch' = Idle
  /\ Unstored /\ SchedulerOnly /\ UNCHANGED <<inFlight, runner, used, stamp, fires, repeats>>

SchedulerStep == Tick \/ SkipInFlight \/ QueueRun \/ Advance \/ Spawn \/ Cleanup \/ EndTick

----------------------------------------------------------------------------
(* A runner: run_dump, run_export, copy_documents, run_import,             *)
(* restore_database, and execute_scheduled_job around the first two.       *)

Runner(j, pc) == j \notin saving /\ runner[j].pc = pc
RunnerOnly == UNCHANGED <<now, sch, ui, used, crashes, commands, lapses, history>>
Goto(j, pc) == runner' = [runner EXCEPT ![j].pc = pc]
Scheduled(j) == runner[j].template # NoParent
Fails(j) == IF Scheduled(j) THEN Store(j, UpdateStatus(jobs, j, "failed")) ELSE Unstored

StartUserJob(j, k) ==
  /\ j \notin used
  /\ runner' = [runner EXCEPT ![j] = [pc |-> "start", kind |-> k, template |-> NoParent, out |-> "none"]]
  /\ used' = used \cup {j}
  /\ UNCHANGED <<now, store, sch, inFlight, ui, stamp, crashes, commands, lapses, history>>

(* execute_scheduled_job up to the call of the runner.  A run whose        *)
(* template stores no configuration, goes to the clipboard or is of an     *)
(* unsupported kind is left with the status it has.                        *)
ExecuteScheduledJob(r) ==
  /\ Runner(r, "spawned")
  /\ \/ runner[r].kind \in {"copy", "import", "restore", "clipboard"}
        /\ Goto(r, "leave") /\ Unstored
     \/ runner[r].kind \notin {"copy", "import", "restore"}
        /\ Goto(r, "leave") /\ Store(r, UpdateStatus(jobs, r, "failed"))
     \/ runner[r].kind \in {"dump", "export"} /\ Goto(r, "start") /\ Unstored
  /\ RunnerOnly /\ UNCHANGED <<active, inFlight, stamp>>

(* Mutant: an early failure ends the task without its last step. *)
PrepareFails_Ends(j) ==
  /\ Runner(j, "start") /\ Goto(j, "ended") /\ Fails(j)
  /\ RunnerOnly /\ UNCHANGED <<active, inFlight, stamp>>

(* Everything that can fail before the job is on record.                   *)
PrepareFails(j) ==
  /\ Runner(j, "start") /\ Goto(j, "leave") /\ Fails(j)
  /\ RunnerOnly /\ UNCHANGED <<active, inFlight, stamp>>

CreateRecord(j) ==
  /\ Runner(j, "start") /\ Goto(j, "created")
  /\ Store(j, CreateJob(jobs, NewJob(j, runner[j].kind))) /\ stamp' = stamp + 1
  /\ RunnerOnly /\ UNCHANGED <<active, inFlight>>

MarkRunning(j) ==
  /\ Runner(j, "created") /\ Goto(j, "register")
  /\ Store(j, UpdateStatus(jobs, j, "running"))
  /\ RunnerOnly /\ UNCHANGED <<active, inFlight, stamp>>

Register(j) ==
  /\ Runner(j, "register") /\ Goto(j, "work")
  /\ active' = Put(active, j, FALSE)
  /\ RunnerOnly /\ Unstored /\ UNCHANGED <<inFlight, stamp>>

(* The work between register and unregister ends: cancelled when it saw    *)
(* the flag; a dump or restore looks at the flag only between collections. *)
Work(j) ==
  /\ Runner(j, "work")
  /\ \E out \in Finished :
       /\ out = "cancelled" => active[j]
       /\ (out = "done" /\ active[j]) => runner[j].kind \in {"dump", "restore"}
       /\ runner' = [runner EXCEPT ![j].pc = "unregister", ![j].out = out]
  /\ RunnerOnly /\ Unstored /\ UNCHANGED <<active, inFlight, stamp>>

(* A `?` in the loop over the collections: the function returns without    *)
(* unregistering and without a status of its own.                          *)
WorkReturnsEarly(j) ==
  /\ Runner(j, "work") /\ runner[j].kind \in {"dump", "restore"}
  /\ Goto(j, "leave") /\ Fails(j)
  /\ RunnerOnly /\ UNCHANGED <<active, inFlight, stamp>>

Unregister(j) ==
  /\ Runner(j, "unregister") /\ Goto(j, "finish")
  /\ active' = Restrict(active, DOMAIN active \ {j})
  /\ RunnerOnly /\ Unstored /\ UNCHANGED <<inFlight, stamp>>

Finish(j) ==
  /\ Runner(j, "finish") /\ Goto(j, "leave")
  /\ Store(j, UpdateStatus(jobs, j, runner[j].out))
  /\ RunnerOnly /\ UNCHANGED <<active, inFlight, stamp>>

(* The spawned task ends: in_flight.remove and the permit is dropped.      *)
Leave(j) ==
  /\ Runner(j, "leave") /\ Goto(j, "ended")
  /\ inFlight' = inFlight \ {runner[j].template}
  /\ RunnerOnly /\ Unstored /\ UNCHANGED <<active, stamp>>

RunnerStep(j) ==
  \/ PrepareFails(j) \/ CreateRecord(j) \/ MarkRunning(j) \/ Register(j) \/ Work(j)
  \/ WorkReturnsEarly(j) \/ Unregister(j) \/ Finish(j) \/ Leave(j)
  \/ j \in RunId /\ ExecuteScheduledJob(j)

----------------------------------------------------------------------------
(* Commands of the interface.                                              *)

Command(c, pc) == c \notin saving /\ ui[c].pc = pc
Begin(c) == Command(c, "none") /\ commands < MaxCommands /\ commands' = commands + 1
UiOnly == UNCHANGED <<now, sch, inFlight, runner, crashes, fires, repeats>>

(* cancel_import_export, and the first half of cancel_job.                 *)
CancelFlag(c, j) ==
  /\ Begin(c) /\ j \in DOMAIN active /\ ~active[j]
  /\ active' = [active EXCEPT ![j] = TRUE]
  /\ \E pc \in {"none", "cancelling"} : ui' = [ui EXCEPT ![c].pc = pc, ![c].id = IF pc = "none" THEN NoParent ELSE j]
  /\ UiOnly /\ Unstored /\ UNCHANGED <<used, stamp, lapses, deleted>>

CancelJob(c) ==
  /\ Command(c, "cancelling")
  /\ Store(c, UpdateStatus(jobs, ui[c].id, "cancelled"))
  /\ ui' = [ui EXCEPT ![c] = NoCommand]
  /\ UiOnly /\ UNCHANGED <<active, used, stamp, commands, lapses, deleted>>

DeleteRecord(c, j) ==
  /\ Begin(c) /\ j \in DOMAIN jobs
  /\ Store(c, DeleteJob(jobs, j)) /\ deleted' = deleted \cup {j}
  /\ UiOnly /\ UNCHANGED <<active, ui, used, stamp, lapses>>

RerunJob(c, j) ==
  /\ Begin(c) /\ j \in DOMAIN jobs
  /\ RunId \ used # {}
  /\ LET r == NewId IN
       /\ Store(c, CreateJob(jobs, NewJob(r, jobs[j].kind)))
       /\ used' = used \cup {r}
  /\ stamp' = stamp + 1
  /\ UiOnly /\ UNCHANGED <<active, ui, lapses, deleted>>

(* update_schedule reads a copy of the record and computes the next        *)
(* occurrence; when it gets the write lock, it writes the whole record     *)
(* back with the schedule changed.                                         *)
ReadForSchedule(c, j) ==
  /\ Begin(c) /\ j \in DOMAIN jobs
  /\ \E on \in BOOLEAN, cron \in Cron, keep \in Retention :
       ui' = [ui EXCEPT ![c] = [pc |-> "scheduling", id |-> j, copy |-> [jobs[j] EXCEPT !.schedule =
         [enabled |-> on, cron |-> cron, keep |-> keep, next |-> IF on THEN NextRunFromCron(cron) ELSE Never]]]]
  /\ UiOnly /\ Unstored /\ UNCHANGED <<active, used, stamp, lapses, deleted>>

UpdateSchedule(c) ==
  /\ Command(c, "scheduling")
  /\ Store(c, CreateJob(jobs, ui[c].copy))
  /\ lapses' = lapses + (IF ui[c].copy.schedule.next \in 1 .. now THEN 1 ELSE 0)
  /\ ui' = [ui EXCEPT ![c] = NoCommand]
  /\ UiOnly /\ UNCHANGED <<active, used, stamp, commands, deleted>>

UiStep(c) ==
  \/ CancelJob(c) \/ UpdateSchedule(c)
  \/ \E j \in JobId : CancelFlag(c, j) \/ DeleteRecord(c, j) \/ RerunJob(c, j) \/ ReadForSchedule(c, j)

----------------------------------------------------------------------------
(* The application stops, perhaps within a write, and is started again:    *)
(* with_path() loads the file.                                             *)
Restart ==
  /\ crashes < MaxCrashes /\ crashes' = crashes + 1
  /\ disk' \in IF saving = {} THEN {disk} ELSE CutOff
  /\ jobs' = disk' /\ fresh' = TRUE /\ active' = <<>> /\ saving' = {} /\ inFlight' = {}
  /\ sch' = Idle /\ ui' = [c \in Ui |-> NoCommand]
  /\ runner' = [j \in JobId |-> NoRunner]
  /\ UNCHANGED <<now, used, stamp, commands, lapses, history>>

Next ==
  \/ \E p \in JobId \cup Ui \cup {"sched"} : Save(p) \/ SaveFails(p)
  \/ Clock \/ SchedulerStep \/ Restart
  \/ \E j \in UserJob, k \in Kind : StartUserJob(j, k)
  \/ \E j \in JobId : RunnerStep(j)
  \/ \E c \in Ui : UiStep(c)

Spec == Init /\ [][Next]_vars

(* tokio runs every task that is ready.  That a call of a runner returns   *)
(* or fails is assumed of the server: the driver is given timeouts for     *)
(* connecting and for selecting a server, and none for an answer.          *)
Fairness ==
  /\ WF_vars(SchedulerStep)
  /\ \A j \in JobId : WF_vars(RunnerStep(j))
  /\ \A p \in JobId \cup {"sched"} : WF_vars(Save(p) \/ SaveFails(p))

----------------------------------------------------------------------------
(* Properties.                                                             *)

(* "we never spawn a duplicate before the previous one finishes": of the   *)
(* runs of a template at most one is executing, whatever the commands do   *)
(* to the records in the meantime.                                         *)
OneRunPerTemplate ==
  \A r, s \in Executing : runner[r].template = runner[s].template => r = s

(* Whenever no operation is between its change and its save, the file      *)
(* holds the list, unless the very last write failed: saves of different   *)
(* processes may run in any order, and one that works makes good for all   *)
(* the errors before it that nobody noticed.                               *)
FileMatchesWhenSaved == saving = {} /\ fresh => disk = jobs

(* An occurrence of a schedule starts one run; a second one at most once   *)
(* for each stop of the application before next_run_at had been moved on   *)
(* in the file, for each write of the file that failed, and for each       *)
(* schedule that waited for the lock until the occurrence it names.        *)
FiresOncePerOccurrence == repeats <= crashes + lapses

(* Runs of a template neither overlap nor repeat an occurrence.            *)
RunsOnce == OneRunPerTemplate /\ FiresOncePerOccurrence

(* A run made by the scheduler keeps the link to its template although the *)
(* runner makes its record again, so it is never taken for a template; a   *)
(* record the user deleted under its runner comes back without the link.   *)
SpawnedRunsStayLinked ==
  \A r \in Executing : r \in DOMAIN jobs \ deleted => jobs[r].parent = runner[r].template

(* The file follows the list, and a run is told from a template by its link. *)
RecordsKept == FileMatchesWhenSaved /\ SpawnedRunsStayLinked

(* A template leaves in_flight again: no run, cancelled, failed or with    *)
(* its record deleted, blocks the runs after it.                           *)
InFlightDrains == \A t \in UserJob : t \in inFlight ~> t \notin inFlight

(* "only when not currently executing. A failed/cancelled template still   *)
(* fires on its next occurrence so a transient error doesn't silently      *)
(* disable the schedule": what the comment in due_jobs() says of templates *)
(* that it passes over as running or queued.                               *)
OnlyExecutingPassedOver ==
  \A j \in DOMAIN jobs :
    jobs[j].parent = NoParent /\ jobs[j].schedule.enabled /\ jobs[j].status \notin Finished =>
      runner[j].pc \notin {"none", "ended"}

(* "On failure the job status is updated to Failed so the UI reflects the  *)
(* outcome instead of leaving it stuck at Queued/Running": what the        *)
(* comment on execute_scheduled_job says of a run whose task has ended.    *)
ScheduledRunNotStuck ==
  \A r \in RunId : runner[r].pc = "ended" /\ r \in DOMAIN jobs => jobs[r].status \in Finished
=============================================================================
