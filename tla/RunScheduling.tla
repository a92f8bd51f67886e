---- MODULE RunScheduling ----
\* How runs of the coordinator start, wait and end in one process, and which tasks a
\* restart takes up again (apps/api/service.py, main.py, repositories/recovery.py).
\* What a run does inside is in Coordinator; here it is the path of status and
\* children that a recovery plan is made from; FIXING stands for TESTING too, which
\* the recovery treats alike, and the fix child for the verify child.  Tasks are numbered by creation.
\* An operator whose name extends the one after it is a faulty variant of it.
EXTENDS Naturals, FiniteSets, Sequences

CONSTANTS
  TaskCount,    \* bound: tasks
  Slots,        \* bound: runs that are scheduled at once
  Limit,        \* MAX_CONCURRENT_TASKS
  AutoFix,      \* CODEPILOT_AUTO_FIX: does a run that was not asked to fix do so? (default: no)
  RecoverLimits, \* values of the parameter limit of recover, 200 by default
  MaxRequests,  \* bound: requests of clients
  MaxRestarts   \* bound: crashes of the process

Tasks == 1..TaskCount
Recovery == 0             \* the recovery thread runs tasks like a slot does
Workers == {Recovery} \cup Slots

ASSUME SchedulingAssumption == TaskCount \in Nat \ {0} /\ Recovery \notin Slots /\ AutoFix \in BOOLEAN

Pipeline == {"review", "impact"}
Kids == Pipeline \cup {"fix"}

VARIABLES
  status,     \* review_task.status
  kids,       \* status of the children of a task, the attempt folded in
  job,        \* per worker: task, auto_fix, place
  waiting,    \* the queue of the semaphore
  entry,      \* ReviewService._running: the slot registered for a task, or 0
  plans,      \* the tasks recover has still to run
  left,       \* tasks beyond the limit of a recovery, or whose run broke
  resumed,    \* tasks an administrator took back and nobody ran since
  worked,     \* tasks a slot has run since the restart (for properties only)
  requests,
  restarts

schedulingVars == <<status, kids, job, waiting, entry, plans, left, resumed, worked, requests, restarts>>

Done == {"PENDING_APPROVAL", "NEEDS_HUMAN"}
Unfinished == {"DRAFT", "REVIEWING"}
NoJob == [task |-> 1, auto |-> FALSE, pc |-> "free"]
NoKids == [k \in Kids |-> "absent"]

SchedulingInit ==
  /\ status = [t \in Tasks |-> "absent"]
  /\ kids = [t \in Tasks |-> NoKids]
  /\ job = [x \in Workers |-> NoJob]
  /\ waiting = <<>>
  /\ entry = [t \in Tasks |-> 0]
  /\ plans = {}
  /\ left = {}
  /\ resumed = {}
  /\ worked = {}
  /\ requests = 0
  /\ restarts = 0

Live(x) == job[x].pc \notin {"free", "done"}
Busy == {x \in Slots : job[x].pc \notin {"free", "queued", "done"}}

\* -- starting runs ----------------------------------------------------------
\* An asyncio task is created, waits for the semaphore, and takes the entry.
Launch(t, auto) ==
  \E x \in Slots :
    /\ job[x].pc = "free"
    /\ job' = [job EXCEPT ![x] = [task |-> t, auto |-> auto, pc |-> "queued"]]
    /\ waiting' = Append(waiting, x)
    /\ entry' = [entry EXCEPT ![t] = x]

Request == requests < MaxRequests /\ requests' = requests + 1

\* POST /reviews: the task is created, or found by its key; then schedule, which
\* does nothing while the registered run is not done.
CreateReview(t) ==
  /\ Request
  /\ \A u \in Tasks : u < t => status[u] # "absent"
  /\ status' = [status EXCEPT ![t] = IF @ = "absent" THEN "DRAFT" ELSE @]
  /\ IF entry[t] # 0 /\ Live(entry[t])
     THEN UNCHANGED <<job, waiting, entry>>
     ELSE Launch(t, AutoFix)
  /\ UNCHANGED <<kids, plans, left, resumed, worked, restarts>>

\* POST /reviews/{id}/fixes: no look at the entry, which is overwritten.
RequestFix(t) ==
  /\ Request
  /\ status[t] \in {"REVIEWED", "FIXING"}
  /\ Launch(t, TRUE)
  /\ UNCHANGED <<status, kids, plans, left, resumed, worked, restarts>>

\* POST /reviews/{id}/resume: a status again, and no run.
ResumeTask(t) ==
  /\ Request
  /\ status[t] = "NEEDS_HUMAN"
  /\ t \notin resumed
  /\ \E target \in {"REVIEWING", "REVIEWED", "FIXING"} :
       status' = [status EXCEPT ![t] = target]
  /\ resumed' = resumed \cup {t}
  /\ UNCHANGED <<kids, job, waiting, entry, plans, left, worked, restarts>>

\* The semaphore wakes its waiters in order.
AcquireLate ==
  /\ waiting # <<>>
  /\ Cardinality(Busy) + 1 < Limit
  /\ job' = [job EXCEPT ![Head(waiting)].pc = "enter"]
  /\ waiting' = Tail(waiting)
  /\ worked' = worked \cup {job[Head(waiting)].task}
  /\ UNCHANGED <<status, kids, entry, plans, left, resumed, requests, restarts>>
Acquire ==
  /\ waiting # <<>>
  /\ Cardinality(Busy) < Limit
  /\ job' = [job EXCEPT ![Head(waiting)].pc = "enter"]
  /\ waiting' = Tail(waiting)
  /\ worked' = worked \cup {job[Head(waiting)].task}
  /\ UNCHANGED <<status, kids, entry, plans, left, resumed, requests, restarts>>

\* -- a run ------------------------------------------------------------------
\* What the next step of a run makes of its task: the place it goes to, the status
\* and the children.  Another run may have moved the task: then a step starts from
\* where the task is, or the run ends.
NextKid(k) ==
  CASE k = "open" -> {"done", "retryable", "dead"}
    [] k = "retryable" -> {"again"}
    [] k = "again" -> {"done", "dead"}
    [] OTHER -> {}

PhaseOf(s) ==
  CASE s \in Unfinished -> "review"
    [] s \in {"REVIEWED", "FIXING"} -> "fix"
    [] OTHER -> "done"

\* run_async: where it begins follows from the status; DRAFT is left at once.
Enter(x) ==
  LET t == job[x].task
  IN  /\ job[x].pc = "enter"
      /\ job' = [job EXCEPT ![x].pc = PhaseOf(status[t])]
      /\ status' = [status EXCEPT ![t] = IF @ = "DRAFT" THEN "REVIEWING" ELSE @]
      /\ resumed' = resumed \ {t}
      /\ UNCHANGED kids

\* The children are created together; each is executed, and perhaps retried, on its own.
WorkKid(x) ==
  LET t == job[x].task
  IN  /\ job[x].pc = "review"
      /\ status[t] = "REVIEWING"
      /\ \/ /\ \A k \in Pipeline : kids[t][k] = "absent"
            /\ kids' = [kids EXCEPT ![t] = [k \in Kids |-> IF k \in Pipeline THEN "open" ELSE @[k]]]
         \/ \E k \in Pipeline : \E next \in NextKid(kids[t][k]) :
              kids' = [kids EXCEPT ![t][k] = next]
      /\ UNCHANGED <<job, status, resumed>>

\* The children of the review ended: reviewed, or parked, also if a child of a later
\* phase, from before an administrator took the task back, has failed; a fix run goes on.
EndReview(x) ==
  LET t == job[x].task
      good == (\A k \in Pipeline : kids[t][k] = "done") /\ kids[t]["fix"] \notin {"retryable", "dead"}
  IN  /\ job[x].pc = "review"
      /\ status[t] = "REVIEWING"
      /\ \A k \in Pipeline : kids[t][k] \in {"done", "dead"}
      /\ status' = [status EXCEPT ![t] = IF good THEN "REVIEWED" ELSE "NEEDS_HUMAN"]
      /\ job' = [job EXCEPT ![x].pc = IF good /\ job[x].auto THEN "fix" ELSE "done"]
      /\ UNCHANGED <<kids, resumed>>

\* The child of the fix phase is created and executed; it is never retried.
WorkFixKid(x) ==
  LET t == job[x].task
  IN  /\ job[x].pc = "fix"
      /\ status[t] = "FIXING"
      /\ \E next \in IF kids[t]["fix"] = "absent" THEN {"open"}
                     ELSE IF kids[t]["fix"] = "open" THEN NextKid("open") ELSE {} :
           kids' = [kids EXCEPT ![t]["fix"] = next]
      /\ UNCHANGED <<job, status, resumed>>

\* The fix and the verify phase: on to the approval, or parked.
WorkFix(x) ==
  LET t == job[x].task
  IN  /\ job[x].pc = "fix" /\ status[t] \in {"REVIEWED", "FIXING"}
      /\ \/ /\ status[t] = "REVIEWED"
            /\ status' = [status EXCEPT ![t] = "FIXING"]
            /\ job' = job
         \/ /\ \E s \in Done : /\ s = "NEEDS_HUMAN" \/ (status[t] = "FIXING" /\ kids[t]["fix"] = "done")
                               /\ status' = [status EXCEPT ![t] = s]
            /\ job' = [job EXCEPT ![x].pc = "done"]
      /\ UNCHANGED <<kids, resumed>>

\* The run finds its task moved on by another one and ends.
LoseTask(x) ==
  /\ job[x].pc \in {"review", "fix"}
  /\ PhaseOf(status[job[x].task]) # job[x].pc
  /\ job' = [job EXCEPT ![x].pc = "done"]
  /\ UNCHANGED <<status, kids, resumed>>

WorkStep(x) ==
  /\ Enter(x) \/ WorkKid(x) \/ EndReview(x) \/ WorkFixKid(x) \/ WorkFix(x) \/ LoseTask(x)
  /\ UNCHANGED <<waiting, entry, plans, left, worked, requests, restarts>>

\* An exception that is no CodePilotError (an insert that lost its race) ends the run,
\* and in the recovery thread the runs of all plans after it.  Bound: once for a task.
BreakRun(x) ==
  /\ Live(x) /\ job[x].pc # "queued"
  /\ job[x].task \notin left
  /\ job' = [job EXCEPT ![x].pc = "done"]
  /\ plans' = IF x = Recovery THEN {} ELSE plans
  /\ left' = left \cup {job[x].task} \cup (plans \ plans')
  /\ UNCHANGED <<status, kids, waiting, entry, resumed, worked, requests, restarts>>

\* The done callback pops the entry of the task, whosever it is by then.
ForgetRun(x) ==
  /\ x \in Slots
  /\ job[x].pc = "done"
  /\ entry' = [entry EXCEPT ![job[x].task] = 0]
  /\ job' = [job EXCEPT ![x] = NoJob]
  /\ UNCHANGED <<status, kids, waiting, plans, left, resumed, worked, requests, restarts>>

\* -- recovery ---------------------------------------------------------------
\* build_recovery_plan: every child of the task counts as failed, pending or completed,
\* only those of the pipeline as missing.  A completed child has its artifact: they
\* commit together.
Has(t, states) == \E k \in Kids : kids[t][k] \in states
Missing(t) == \E k \in Pipeline : kids[t][k] = "absent"

ReviewAction(t) ==
  IF Has(t, {"dead"}) /\ ~Has(t, {"open", "again", "retryable"}) THEN "needs_human"
  ELSE IF Missing(t) /\ ~Has(t, {"done"}) THEN "create_children"
  ELSE IF \A k \in Pipeline : kids[t][k] = "done" THEN "finalize_review"
  ELSE IF Has(t, {"open", "again"}) \/ Missing(t) THEN "await_children"
  ELSE IF Has(t, {"retryable"}) THEN "retry_children"
  ELSE "needs_human"

NextAction(t) ==
  CASE status[t] = "DRAFT" -> "start_review"
    [] status[t] = "REVIEWING" -> ReviewAction(t)
    [] OTHER -> "noop"

\* list_recovery_plans: the oldest tasks that are not at an end, up to the limit.
Candidates == {t \in Tasks : status[t] \notin {"absent", "NEEDS_HUMAN"}}
Listed(limit) == {t \in Candidates : Cardinality({u \in Candidates : u < t}) < limit}

ResumableNoRetry == {"start_review", "create_children", "finalize_review", "await_children"}
ResumableAll == ResumableNoRetry \cup {"retry_children", "noop"}
Resumable == {"start_review", "create_children", "finalize_review", "await_children", "retry_children"}

\* The process dies and starts again: threads, queue and table are gone, and the
\* recovery thread lists its plans before anything else runs.
RestartProcess ==
  /\ restarts < MaxRestarts
  /\ restarts' = restarts + 1
  /\ job' = [x \in Workers |-> NoJob]
  /\ waiting' = <<>>
  /\ entry' = [t \in Tasks |-> 0]
  /\ \E limit \in RecoverLimits :
       /\ plans' = {t \in Listed(limit) : NextAction(t) \in Resumable}
       /\ left' = Candidates \ Listed(limit)
  /\ worked' = {}
  /\ UNCHANGED <<status, kids, resumed, requests>>

\* recover: one plan after the other, outside the semaphore and the table.
RecoverNext ==
  /\ job[Recovery].pc \in {"free", "done"}
  /\ \E t \in plans :
       /\ \A u \in plans : t <= u
       /\ plans' = plans \ {t}
       /\ job' = [job EXCEPT ![Recovery] = [task |-> t, auto |-> AutoFix, pc |-> "enter"]]
  /\ UNCHANGED <<status, kids, waiting, entry, left, resumed, worked, requests, restarts>>

RunStep(x) == WorkStep(x) \/ BreakRun(x) \/ ForgetRun(x)

SchedulingNext ==
  \/ \E t \in Tasks : (CreateReview(t) \/ RequestFix(t) \/ ResumeTask(t))
  \/ Acquire
  \/ \E x \in Workers : RunStep(x)
  \/ RecoverNext
  \/ RestartProcess

\* Threads are scheduled by the operating system, waiters and callbacks by the loop.
SchedulingSpec ==
  /\ SchedulingInit /\ [][SchedulingNext]_schedulingVars
  /\ WF_schedulingVars(Acquire)
  /\ WF_schedulingVars(RecoverNext)
  /\ \A x \in Workers : WF_schedulingVars(RunStep(x))

\* -- properties -------------------------------------------------------------
\* When the recovery is through, a review that nobody works on has a plan that needs
\* a human, was beyond the limit of the recovery, lost its run to an unexpected
\* exception, or was taken back by an administrator, which starts nothing.  Every other
\* interrupted review goes on.
RestartResumes ==
  \A t \in Tasks :
    /\ status[t] \in Unfinished
    /\ plans = {}
    /\ \A x \in Workers : Live(x) => job[x].task # t
    => t \in left \/ t \in resumed \/ NextAction(t) = "needs_human"

\* Unless CODEPILOT_AUTO_FIX tells every run to, the recovery does not start to fix what
\* nobody asked to fix, but for a task that a run scheduled in the meantime has reviewed:
\* a plan may be stale.
RecoveryStopsAtReviewed ==
  job[Recovery].pc = "fix" => AutoFix \/ job[Recovery].task \in worked

\* Every run that waits for the semaphore gets it, or dies with the process.
QueuedRuns == \A x \in Slots : job[x].pc = "queued" ~> job[x].pc # "queued"
====
