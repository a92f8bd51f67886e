---- MODULE ServiceProofs ----
\* Proofs about the review service: RunScheduling, for any number of tasks, slots, requests
\* and restarts, whatever the limits of the semaphore and of the recovery; EventStream, for
\* any number of writers, events, connections and any page.
EXTENDS RunScheduling, EventStream, FiniteSetTheorems, TLAPS

\* -- RunScheduling: types --------------------------------------------------
Statuses == {"absent", "DRAFT", "REVIEWING", "REVIEWED", "FIXING"} \cup Done
Places == {"free", "queued", "enter", "review", "fix", "done"}
Jobs == [task : Tasks, auto : BOOLEAN, pc : Places]
KidStates == {"absent", "open", "retryable", "again", "done", "dead"}

SchedulingTypes ==
  /\ status \in [Tasks -> Statuses]
  /\ kids \in [Tasks -> [Kids -> KidStates]]
  /\ job \in [Workers -> Jobs]
  /\ waiting \in Seq(Slots)
  /\ entry \in [Tasks -> Slots \cup {0}]
  /\ plans \subseteq Tasks

\* -- RunScheduling: who works on what --------------------------------------
\* The table has entries of tasks that were created.
EntriesExist == \A t \in Tasks : entry[t] # 0 => status[t] # "absent"

\* A worker that will still run the review of its task, or runs it.
Reviewing(x) == job[x].pc \in {"queued", "enter", "review"}

\* An unfinished review has a plan or a worker, or one of the excuses.  A worker in the
\* fix phase does not count: it leaves a task that has gone back to its review.
Covered(t) ==
  \/ t \in plans \cup left \cup resumed
  \/ \E x \in Workers : job[x].task = t /\ Reviewing(x)
  \/ NextAction(t) = "needs_human"
AllCovered == \A t \in Tasks : status[t] \in Unfinished => Covered(t)

\* A task that was planned stays as it was until the recovery comes to it, unless a slot
\* works on it; and the recovery comes to it once.
SlotsWork == \A x \in Slots : job[x].pc \in {"enter", "review", "fix"} => job[x].task \in worked
PlansFresh ==
  /\ \A t \in plans : t \notin worked => status[t] \in Unfinished
  /\ LET r == job[Recovery]
     IN  /\ r.auto => AutoFix
         /\ r.pc # "queued"
         /\ r.pc \in {"enter", "review", "fix"} => r.task \notin plans
         /\ r.pc = "enter" /\ r.task \notin worked => status[r.task] \in Unfinished
         /\ r.pc = "fix" => AutoFix \/ r.task \in worked

SchedulingInv == SchedulingTypes /\ EntriesExist /\ AllCovered /\ SlotsWork /\ PlansFresh

\* -- RunScheduling: helpers ------------------------------------------------
\* What the recovery would do with a task depends on its row and its children only.
LEMMA SameAction ==
  ASSUME NEW t \in Tasks, status'[t] = status[t], kids'[t] = kids[t]
  PROVE  NextAction(t)' = NextAction(t)
  BY DEF NextAction, ReviewAction, Has, Missing

\* An interrupted review can be resumed or needs a human; nothing else is planned.
LEMMA ActionKinds ==
  ASSUME NEW t \in Tasks
  PROVE  /\ NextAction(t) \in Resumable => status[t] \in Unfinished
         /\ status[t] \in Unfinished => NextAction(t) \in Resumable \cup {"needs_human"}
<1>1. ReviewAction(t) \in Resumable \cup {"needs_human"}
  BY DEF ReviewAction, Resumable
<1>2. /\ status[t] = "DRAFT" => NextAction(t) = "start_review"
      /\ status[t] = "REVIEWING" => NextAction(t) = ReviewAction(t)
      /\ status[t] \notin Unfinished => NextAction(t) = "noop"
  BY DEF NextAction, Unfinished
<1> QED
  BY <1>1, <1>2 DEF Resumable, Unfinished

\* The recovery thread is no slot, and there is a task.
LEMMA ConstantFacts ==
  /\ 1 \in Tasks /\ 0 \notin Slots /\ Recovery = 0
  /\ Recovery \in Workers /\ Slots \subseteq Workers
  BY SchedulingAssumption DEF Tasks, Recovery, Workers

\* A task stays covered while its row and its children stay, its excuses stay excuses,
\* and no worker leaves its review.
LEMMA StaysCovered ==
  ASSUME NEW t \in Tasks, Covered(t), status'[t] = status[t], kids'[t] = kids[t],
         t \in plans \cup left \cup resumed => t \in plans' \cup left' \cup resumed',
         \A x \in Workers : job[x].task = t /\ Reviewing(x) =>
                             job'[x].task = t /\ Reviewing(x)'
  PROVE  Covered(t)'
<1>1. NextAction(t)' = NextAction(t)
  BY SameAction
<1> QED
  BY <1>1 DEF Covered

\* -- RunScheduling: the invariant is inductive -----------------------------
LEMMA SchedulingInitInv == SchedulingInit => SchedulingInv
<1> SUFFICES ASSUME SchedulingInit PROVE SchedulingInv
  OBVIOUS
<1>1. SchedulingTypes
  BY ConstantFacts
  DEF SchedulingInit, SchedulingTypes, Statuses, Jobs, Places, NoJob, NoKids, KidStates
<1>2. EntriesExist /\ AllCovered /\ SlotsWork /\ PlansFresh
  BY ConstantFacts
  DEF SchedulingInit, EntriesExist, AllCovered, SlotsWork, PlansFresh, NoJob, Unfinished
<1> QED
  BY <1>1, <1>2 DEF SchedulingInv

\* A run is launched in a free slot, and registered.
LEMMA LaunchSteps ==
  ASSUME SchedulingInv, NEW t \in Tasks, NEW auto \in BOOLEAN, Launch(t, auto)
  PROVE  /\ job' \in [Workers -> Jobs] /\ waiting' \in Seq(Slots)
         /\ entry' \in [Tasks -> Slots \cup {0}]
         /\ \A u \in Tasks \ {t} : entry'[u] = entry[u]
         /\ job'[Recovery] = job[Recovery]
         /\ \E x \in Slots :
              /\ job[x].pc = "free" /\ job'[x].task = t /\ job'[x].pc = "queued"
              /\ \A y \in Workers \ {x} : job'[y] = job[y]
<1>1. PICK x \in Slots :
        /\ job[x].pc = "free"
        /\ job' = [job EXCEPT ![x] = [task |-> t, auto |-> auto, pc |-> "queued"]]
        /\ waiting' = Append(waiting, x)
        /\ entry' = [entry EXCEPT ![t] = x]
  BY DEF Launch
<1>2. [task |-> t, auto |-> auto, pc |-> "queued"] \in Jobs
  BY DEF Jobs, Places
<1>3. /\ x \in Workers /\ x # Recovery /\ job'[x] = [task |-> t, auto |-> auto, pc |-> "queued"]
      /\ \A y \in Workers \ {x} : job'[y] = job[y]
  BY <1>1, ConstantFacts, SchedulingAssumption DEF SchedulingInv, SchedulingTypes
<1>4. /\ job' \in [Workers -> Jobs] /\ waiting' \in Seq(Slots)
      /\ entry' \in [Tasks -> Slots \cup {0}]
      /\ \A u \in Tasks \ {t} : entry'[u] = entry[u]
  BY <1>1, <1>2, <1>3 DEF SchedulingInv, SchedulingTypes
<1> QED
  BY <1>1, <1>3, <1>4, ConstantFacts

\* A run goes on to another place.
LEMMA JobMoves ==
  ASSUME SchedulingInv, NEW x \in Workers, NEW p \in Places, job' = [job EXCEPT ![x].pc = p]
  PROVE  /\ job' \in [Workers -> Jobs]
         /\ job'[x].task = job[x].task /\ job'[x].auto = job[x].auto /\ job'[x].pc = p
         /\ \A y \in Workers \ {x} : job'[y] = job[y]
<1>1. job[x] \in Jobs
  BY DEF SchedulingInv, SchedulingTypes
<1>2. [job[x] EXCEPT !.pc = p] \in Jobs
  BY <1>1 DEF Jobs
<1> QED
  BY <1>1, <1>2 DEF SchedulingInv, SchedulingTypes, Jobs

\* Every task stays covered in a step that either leaves it alone, with its excuses and
\* its workers, or covers it again.
LEMMA CoverageStays ==
  ASSUME SchedulingInv,
         \A t \in Tasks : status'[t] \in Unfinished =>
           \/ Covered(t)'
           \/ /\ status'[t] = status[t] /\ kids'[t] = kids[t]
              /\ t \in plans \cup left \cup resumed => t \in plans' \cup left' \cup resumed'
              /\ \A x \in Workers : job[x].task = t /\ Reviewing(x) =>
                                     job'[x].task = t /\ Reviewing(x)'
  PROVE  AllCovered'
<1> SUFFICES ASSUME NEW t \in Tasks, status'[t] \in Unfinished, ~Covered(t)'
             PROVE  FALSE
  BY DEF AllCovered
<1>1. /\ status'[t] = status[t] /\ kids'[t] = kids[t]
      /\ t \in plans \cup left \cup resumed => t \in plans' \cup left' \cup resumed'
      /\ \A x \in Workers : job[x].task = t /\ Reviewing(x) => job'[x].task = t /\ Reviewing(x)'
  OBVIOUS
<1>2. Covered(t)
  BY <1>1 DEF SchedulingInv, AllCovered
<1> QED
  BY <1>1, <1>2, StaysCovered

\* A worker in the review phase covers its task.
LEMMA WorkerCovers ==
  ASSUME NEW t \in Tasks, NEW x \in Workers,
         job'[x].task = t, job'[x].pc \in {"queued", "enter", "review"}
  PROVE  Covered(t)'
  BY DEF Covered, Reviewing

\* -- RunScheduling: one lemma per action -----------------------------------
\* A review is created, or found; it has a run.
LEMMA CreateReviewInv ==
  ASSUME SchedulingInv, NEW t \in Tasks, CreateReview(t)
  PROVE  SchedulingInv'
<1>1. /\ \A u \in Tasks \ {t} : status'[u] = status[u]
      /\ status[t] # "absent" => status'[t] = status[t]
      /\ status[t] = "absent" => status'[t] = "DRAFT"
      /\ status' \in [Tasks -> Statuses]
      /\ UNCHANGED <<kids, plans, left, resumed, worked>>
  BY DEF CreateReview, SchedulingInv, SchedulingTypes, Statuses
<1>2. CASE entry[t] # 0 /\ Live(entry[t])
  <2>1. UNCHANGED <<job, waiting, entry>>
    BY <1>2 DEF CreateReview
  <2>2. status' = status
    BY <1>1, <1>2 DEF SchedulingInv, SchedulingTypes, EntriesExist
  <2>3. AllCovered'
    BY <1>1, <2>1, <2>2, CoverageStays DEF Reviewing
  <2> QED
    BY <1>1, <2>1, <2>2, <2>3
    DEF SchedulingInv, SchedulingTypes, EntriesExist, SlotsWork, PlansFresh
<1>3. CASE ~(entry[t] # 0 /\ Live(entry[t]))
  <2>1. Launch(t, AutoFix) /\ AutoFix \in BOOLEAN
    BY <1>3, SchedulingAssumption DEF CreateReview
  <2>2. PICK x \in Slots :
          /\ job[x].pc = "free" /\ job'[x].task = t /\ job'[x].pc = "queued"
          /\ \A y \in Workers \ {x} : job'[y] = job[y]
    BY <2>1, LaunchSteps
  <2>3. /\ job' \in [Workers -> Jobs] /\ waiting' \in Seq(Slots)
        /\ entry' \in [Tasks -> Slots \cup {0}]
        /\ \A u \in Tasks \ {t} : entry'[u] = entry[u]
        /\ job'[Recovery] = job[Recovery]
    BY <2>1, LaunchSteps
  <2>4. Covered(t)'
    BY <2>2, WorkerCovers, ConstantFacts
  <2>5. AllCovered'
    BY <1>1, <2>2, <2>4, CoverageStays DEF Reviewing
  <2>6. SchedulingTypes' /\ EntriesExist'
    BY <1>1, <2>3 DEF SchedulingInv, SchedulingTypes, EntriesExist
  <2>7. SlotsWork'
    BY <1>1, <2>2, ConstantFacts DEF SchedulingInv, SlotsWork
  <2>8. PlansFresh'
    BY <1>1, <2>3, ConstantFacts DEF SchedulingInv, SchedulingTypes, PlansFresh, Unfinished, Jobs
  <2> QED
    BY <2>5, <2>6, <2>7, <2>8 DEF SchedulingInv
<1> QED
  BY <1>2, <1>3

\* A fix run is one more worker.
LEMMA RequestFixInv ==
  ASSUME SchedulingInv, NEW t \in Tasks, RequestFix(t)
  PROVE  SchedulingInv'
<1>1. UNCHANGED <<status, kids, plans, left, resumed, worked>> /\ status[t] # "absent"
  BY DEF RequestFix
<1>2. Launch(t, TRUE)
  BY DEF RequestFix
<1>3. PICK x \in Slots :
        /\ job[x].pc = "free" /\ job'[x].task = t /\ job'[x].pc = "queued"
        /\ \A y \in Workers \ {x} : job'[y] = job[y]
  BY <1>2, LaunchSteps
<1>4. /\ job' \in [Workers -> Jobs] /\ waiting' \in Seq(Slots)
      /\ entry' \in [Tasks -> Slots \cup {0}]
      /\ \A u \in Tasks \ {t} : entry'[u] = entry[u]
      /\ job'[Recovery] = job[Recovery]
  BY <1>2, LaunchSteps
<1>5. AllCovered'
  BY <1>1, <1>3, CoverageStays DEF Reviewing
<1>6. SchedulingTypes' /\ EntriesExist'
  BY <1>1, <1>4 DEF SchedulingInv, SchedulingTypes, EntriesExist
<1>7. SlotsWork' /\ PlansFresh'
  BY <1>1, <1>3, <1>4, ConstantFacts DEF SchedulingInv, SlotsWork, PlansFresh
<1> QED
  BY <1>5, <1>6, <1>7 DEF SchedulingInv

\* What an administrator takes back is resumed, and was no plan that is still fresh.
LEMMA ResumeTaskInv ==
  ASSUME SchedulingInv, NEW t \in Tasks, ResumeTask(t)
  PROVE  SchedulingInv'
<1>1. /\ UNCHANGED <<kids, job, waiting, entry, plans, left, worked>>
      /\ resumed' = resumed \cup {t} /\ status[t] = "NEEDS_HUMAN"
      /\ status' \in [Tasks -> Statuses] /\ status'[t] # "absent"
      /\ \A u \in Tasks \ {t} : status'[u] = status[u]
  BY DEF ResumeTask, SchedulingInv, SchedulingTypes, Statuses
<1>2. Covered(t)'
  BY <1>1 DEF Covered
<1>3. AllCovered'
  BY <1>1, <1>2, CoverageStays DEF Reviewing
<1>4. SchedulingTypes' /\ EntriesExist' /\ SlotsWork'
  BY <1>1 DEF SchedulingInv, SchedulingTypes, EntriesExist, SlotsWork
<1>5. PlansFresh'
  BY <1>1, ConstantFacts DEF SchedulingInv, SchedulingTypes, PlansFresh, Unfinished, Jobs
<1> QED
  BY <1>3, <1>4, <1>5 DEF SchedulingInv

\* The semaphore gives a slot its turn: its task is worked on.
LEMMA AcquireInv ==
  ASSUME SchedulingInv, Acquire
  PROVE  SchedulingInv'
<1> DEFINE x == Head(waiting)
<1>1. x \in Slots /\ Tail(waiting) \in Seq(Slots)
  BY DEF Acquire, SchedulingInv, SchedulingTypes
<1>2. /\ job' = [job EXCEPT ![x].pc = "enter"] /\ waiting' = Tail(waiting)
      /\ worked' = worked \cup {job[x].task}
      /\ UNCHANGED <<status, kids, entry, plans, left, resumed>>
  BY DEF Acquire
<1> HIDE DEF x
<1>3. /\ job' \in [Workers -> Jobs]
      /\ job'[x].task = job[x].task /\ job'[x].pc = "enter"
      /\ \A y \in Workers \ {x} : job'[y] = job[y]
  BY <1>1, <1>2, JobMoves, ConstantFacts DEF Places
<1>4. job'[Recovery] = job[Recovery]
  BY <1>1, <1>3, ConstantFacts, SchedulingAssumption
<1>5. AllCovered'
  BY <1>2, <1>3, CoverageStays DEF Reviewing
<1>6. SchedulingTypes' /\ EntriesExist'
  BY <1>1, <1>2, <1>3 DEF SchedulingInv, SchedulingTypes, EntriesExist
<1>7. SlotsWork'
  BY <1>1, <1>2, <1>3, ConstantFacts DEF SchedulingInv, SlotsWork
<1>8. PlansFresh'
  BY <1>2, <1>4, ConstantFacts DEF SchedulingInv, SchedulingTypes, PlansFresh, Jobs
<1> QED
  BY <1>5, <1>6, <1>7, <1>8 DEF SchedulingInv

\* What every step of a run that is no end of it leaves alone.
Around == UNCHANGED <<waiting, entry, plans, left, worked>>

\* A step of worker x that moves it to place p and its task to status r.
LEMMA RunMoves ==
  ASSUME SchedulingInv, NEW x \in Workers, NEW p \in Places, NEW r \in Statuses,
         r = "absent" => status[job[x].task] = "absent",
         job' = [job EXCEPT ![x].pc = p], status' = [status EXCEPT ![job[x].task] = r],
         kids' \in [Tasks -> [Kids -> KidStates]],
         Around
  PROVE  /\ job[x].task \in Tasks /\ status'[job[x].task] = r
         /\ \A t \in Tasks \ {job[x].task} : status'[t] = status[t]
         /\ SchedulingTypes' /\ EntriesExist'
<1>1. job[x].task \in Tasks
  BY DEF SchedulingInv, SchedulingTypes, Jobs
<1>2. job' \in [Workers -> Jobs]
  BY JobMoves
<1> QED
  BY <1>1, <1>2 DEF SchedulingInv, SchedulingTypes, EntriesExist, Around

\* A slot that works on its task may give it any status; what is planned is then stale.
LEMMA SlotMoves ==
  ASSUME SchedulingInv, NEW x \in Slots, NEW p \in Places,
         job[x].pc \in {"enter", "review", "fix"},
         job' = [job EXCEPT ![x].pc = p],
         \A t \in Tasks \ {job[x].task} : status'[t] = status[t], Around
  PROVE  SlotsWork' /\ PlansFresh'
<1>1. /\ job'[x].task = job[x].task /\ job[x].task \in worked
      /\ \A y \in Workers \ {x} : job'[y] = job[y]
  BY JobMoves, ConstantFacts DEF SchedulingInv, SlotsWork
<1>2. job'[Recovery] = job[Recovery]
  BY <1>1, ConstantFacts, SchedulingAssumption
<1>3. SlotsWork'
  BY <1>1, ConstantFacts DEF SchedulingInv, SlotsWork, Around
<1>4. PlansFresh'
  BY <1>1, <1>2, ConstantFacts DEF SchedulingInv, SchedulingTypes, PlansFresh, Jobs, Around
<1> QED
  BY <1>3, <1>4

\* The recovery thread works on a task that is not planned any more; it enters a review
\* unless a slot has worked on the task, and goes on to fix only if every run does.
LEMMA RecoveryMoves ==
  ASSUME SchedulingInv, NEW p \in Places \ {"queued", "enter"},
         job[Recovery].pc \in {"enter", "review", "fix"},
         job' = [job EXCEPT ![Recovery].pc = p],
         p = "fix" => AutoFix \/ job[Recovery].task \in worked,
         \A t \in Tasks \ {job[Recovery].task} : status'[t] = status[t], Around
  PROVE  SlotsWork' /\ PlansFresh'
<1>1. /\ job'[Recovery].task = job[Recovery].task /\ job'[Recovery].pc = p
      /\ job'[Recovery].auto = job[Recovery].auto
      /\ \A y \in Workers \ {Recovery} : job'[y] = job[y]
  BY JobMoves, ConstantFacts
<1>2. SlotsWork'
  BY <1>1, ConstantFacts, SchedulingAssumption DEF SchedulingInv, SlotsWork, Around
<1>3. PlansFresh'
  BY <1>1, ConstantFacts DEF SchedulingInv, SchedulingTypes, PlansFresh, Jobs, Around
<1> QED
  BY <1>2, <1>3

\* A worker that leaves a task which is no unfinished review uncovers nothing; nor does
\* one that stays in the review of its task.
LEMMA RunCovers ==
  ASSUME SchedulingInv, NEW x \in Workers, NEW p \in Places,
         job' = [job EXCEPT ![x].pc = p], Around,
         \A t \in Tasks \ {job[x].task} :
           status'[t] = status[t] /\ kids'[t] = kids[t] /\ (t \in resumed => t \in resumed'),
         status'[job[x].task] \in Unfinished =>
           \/ p = "review"
           \/ /\ UNCHANGED <<status, kids, resumed>> /\ ~Reviewing(x)
  PROVE  AllCovered'
<1>1. /\ job[x].task \in Tasks /\ job'[x].task = job[x].task /\ job'[x].pc = p
      /\ \A y \in Workers \ {x} : job'[y] = job[y]
  BY JobMoves DEF SchedulingInv, SchedulingTypes, Jobs
<1> SUFFICES ASSUME NEW t \in Tasks, status'[t] \in Unfinished, ~Covered(t)'
             PROVE  /\ status'[t] = status[t] /\ kids'[t] = kids[t]
                    /\ t \in plans \cup left \cup resumed => t \in plans' \cup left' \cup resumed'
                    /\ \A y \in Workers : job[y].task = t /\ Reviewing(y) =>
                                           job'[y].task = t /\ Reviewing(y)'
  BY CoverageStays
<1>2. CASE t # job[x].task
  BY <1>1, <1>2 DEF Around, Reviewing
<1>3. CASE t = job[x].task
  <2>1. p # "review"
    BY <1>1, <1>3, WorkerCovers
  <2>2. UNCHANGED <<status, kids, resumed>> /\ ~Reviewing(x)
    BY <1>3, <2>1
  <2> QED
    BY <1>1, <2>2 DEF Around, Reviewing
<1> QED
  BY <1>2, <1>3

\* A run begins where the status of its task says.
LEMMA EnterInv ==
  ASSUME SchedulingInv, NEW x \in Workers, Enter(x), Around
  PROVE  SchedulingInv'
<1> DEFINE t == job[x].task
<1> DEFINE p == PhaseOf(status[t])
<1> DEFINE r == IF status[t] = "DRAFT" THEN "REVIEWING" ELSE status[t]
<1>1. /\ job[x].pc = "enter" /\ job' = [job EXCEPT ![x].pc = p]
      /\ status' = [status EXCEPT ![t] = r]
      /\ resumed' = resumed \ {t} /\ kids' = kids
  BY DEF Enter
<1>2. t \in Tasks /\ p \in Places \ {"queued", "enter"} /\ r \in Statuses
  BY DEF SchedulingInv, SchedulingTypes, Jobs, PhaseOf, Places, Statuses
<1>3. /\ r \in Unfinished => p = "review"
      /\ p = "fix" => status[t] \notin Unfinished
      /\ r = "absent" => status[t] = "absent"
  BY DEF PhaseOf, Unfinished
<1> HIDE DEF p, r
<1>4. /\ status'[t] = r /\ \A u \in Tasks \ {t} : status'[u] = status[u]
      /\ SchedulingTypes' /\ EntriesExist'
  <2>1. kids' \in [Tasks -> [Kids -> KidStates]]
    BY <1>1 DEF SchedulingInv, SchedulingTypes
  <2>2. p \in Places
    BY <1>2
  <2> QED
    BY <1>1, <1>2, <1>3, <2>1, <2>2, RunMoves
<1>5. AllCovered'
  BY <1>1, <1>2, <1>3, <1>4, RunCovers
<1>6. SlotsWork' /\ PlansFresh'
  <2>1. CASE x \in Slots
    BY <1>1, <1>2, <1>4, <2>1, SlotMoves
  <2>2. CASE x = Recovery
    <3>1. p = "fix" => AutoFix \/ t \in worked
      BY <1>1, <1>3, <2>2 DEF SchedulingInv, PlansFresh
    <3> QED
      BY <1>1, <1>2, <1>4, <2>2, <3>1, RecoveryMoves
  <2> QED
    BY <2>1, <2>2 DEF Workers
<1> QED
  BY <1>4, <1>5, <1>6 DEF SchedulingInv

\* Children are created, or one of them ends.
LEMMA WorkKidInv ==
  ASSUME SchedulingInv, NEW x \in Workers, WorkKid(x), Around
  PROVE  SchedulingInv'
<1> DEFINE t == job[x].task
<1>1. /\ job[x].pc = "review" /\ status[t] = "REVIEWING" /\ UNCHANGED <<job, status, resumed>>
  BY DEF WorkKid
<1>2. t \in Tasks
  BY DEF SchedulingInv, SchedulingTypes, Jobs
<1>3. /\ kids' \in [Tasks -> [Kids -> KidStates]]
      /\ \A u \in Tasks \ {t} : kids'[u] = kids[u]
  <2>1. CASE kids' = [kids EXCEPT ![t] = [k \in Kids |-> IF k \in Pipeline THEN "open" ELSE @[k]]]
    BY <1>2, <2>1 DEF SchedulingInv, SchedulingTypes, KidStates
  <2>2. CASE \E k \in Pipeline : \E next \in NextKid(kids[t][k]) :
               kids' = [kids EXCEPT ![t][k] = next]
    <3>0. PICK k \in Pipeline : \E next \in NextKid(kids[t][k]) :
            kids' = [kids EXCEPT ![t][k] = next]
      BY <2>2
    <3>1. PICK next \in NextKid(kids[t][k]) : kids' = [kids EXCEPT ![t][k] = next]
      BY <3>0
    <3>2. next \in {"done", "retryable", "dead", "again"}
      BY DEF NextKid
    <3> QED
      BY <1>2, <3>1, <3>2 DEF SchedulingInv, SchedulingTypes, KidStates, Kids
  <2> QED
    BY <2>1, <2>2 DEF WorkKid
<1>4. Covered(t)'
  BY <1>1, <1>2, WorkerCovers
<1>5. AllCovered'
  BY <1>1, <1>3, <1>4, CoverageStays DEF Around, Reviewing
<1>6. SchedulingTypes' /\ EntriesExist' /\ SlotsWork' /\ PlansFresh'
  BY <1>1, <1>3 DEF SchedulingInv, SchedulingTypes, EntriesExist, SlotsWork, PlansFresh, Around
<1> QED
  BY <1>5, <1>6 DEF SchedulingInv

\* A run in its review, or in its fix, moves on.
LEMMA WorkPlaces ==
  ASSUME SchedulingInv, NEW x \in Workers, NEW p \in {"fix", "done"}, NEW r \in Statuses \ Unfinished,
         job[x].pc \in {"review", "fix"},
         x = Recovery /\ p = "fix" => AutoFix \/ job[x].pc = "fix",
         r = "absent" => status[job[x].task] = "absent",
         job' = [job EXCEPT ![x].pc = p], status' = [status EXCEPT ![job[x].task] = r],
         UNCHANGED <<kids, resumed>>, Around
  PROVE  SchedulingInv'
<1>1. p \in Places
  BY DEF Places
<1>2. /\ job[x].task \in Tasks /\ status'[job[x].task] = r
      /\ \A u \in Tasks \ {job[x].task} : status'[u] = status[u]
      /\ SchedulingTypes' /\ EntriesExist'
  BY <1>1, RunMoves DEF SchedulingInv, SchedulingTypes
<1>3. AllCovered'
  BY <1>1, <1>2, RunCovers
<1>4. SlotsWork' /\ PlansFresh'
  <2>1. CASE x \in Slots
    BY <1>1, <1>2, <2>1, SlotMoves
  <2>2. CASE x = Recovery
    <3>1. p = "fix" => AutoFix \/ job[Recovery].task \in worked
      BY <2>2 DEF SchedulingInv, PlansFresh
    <3> QED
      BY <1>1, <1>2, <2>2, <3>1, RecoveryMoves
  <2> QED
    BY <2>1, <2>2 DEF Workers
<1> QED
  BY <1>2, <1>3, <1>4 DEF SchedulingInv

\* The review ends; the recovery thread stops there, unless every run fixes.
LEMMA EndReviewInv ==
  ASSUME SchedulingInv, NEW x \in Workers, EndReview(x), Around
  PROVE  SchedulingInv'
<1> DEFINE good == /\ \A k \in Pipeline : kids[job[x].task][k] = "done"
                   /\ kids[job[x].task]["fix"] \notin {"retryable", "dead"}
<1> DEFINE p == IF good /\ job[x].auto THEN "fix" ELSE "done"
<1> DEFINE r == IF good THEN "REVIEWED" ELSE "NEEDS_HUMAN"
<1>1. /\ job[x].pc = "review" /\ job' = [job EXCEPT ![x].pc = p]
      /\ status' = [status EXCEPT ![job[x].task] = r] /\ UNCHANGED <<kids, resumed>>
  BY DEF EndReview
<1>2. p \in {"fix", "done"} /\ r \in Statuses \ Unfinished /\ r # "absent"
  BY DEF Statuses, Done, Unfinished
<1>3. x = Recovery /\ p = "fix" => AutoFix
  BY DEF SchedulingInv, PlansFresh
<1> HIDE DEF good, p, r
<1> QED
  BY <1>1, <1>2, <1>3, WorkPlaces

\* The child of the fix is created, or ends.
LEMMA WorkFixKidInv ==
  ASSUME SchedulingInv, NEW x \in Workers, WorkFixKid(x), Around
  PROVE  SchedulingInv'
<1> DEFINE t == job[x].task
<1>1. status[t] = "FIXING" /\ UNCHANGED <<job, status, resumed>>
  BY DEF WorkFixKid
<1>2. PICK next \in KidStates : kids' = [kids EXCEPT ![t]["fix"] = next]
  BY DEF WorkFixKid, NextKid, KidStates
<1>3. t \in Tasks /\ "fix" \in Kids
  BY DEF SchedulingInv, SchedulingTypes, Jobs, Kids
<1>4. /\ kids' \in [Tasks -> [Kids -> KidStates]]
      /\ \A u \in Tasks \ {t} : kids'[u] = kids[u]
  BY <1>2, <1>3 DEF SchedulingInv, SchedulingTypes
<1>5. AllCovered'
  BY <1>1, <1>4, CoverageStays DEF Around, Reviewing, Unfinished
<1>6. SchedulingTypes' /\ EntriesExist' /\ SlotsWork' /\ PlansFresh'
  BY <1>1, <1>4 DEF SchedulingInv, SchedulingTypes, EntriesExist, SlotsWork, PlansFresh, Around
<1> QED
  BY <1>5, <1>6 DEF SchedulingInv

\* The fix goes on, or ends.
LEMMA WorkFixInv ==
  ASSUME SchedulingInv, NEW x \in Workers, WorkFix(x), Around
  PROVE  SchedulingInv'
<1>1. job[x].pc = "fix" /\ UNCHANGED <<kids, resumed>>
  BY DEF WorkFix
<1>2. CASE status' = [status EXCEPT ![job[x].task] = "FIXING"] /\ job' = job
  <2>1. job' = [job EXCEPT ![x].pc = "fix"]
    BY <1>1, <1>2 DEF SchedulingInv, SchedulingTypes, Jobs
  <2>2. "FIXING" \in Statuses \ Unfinished
    BY DEF Statuses, Unfinished, Done
  <2> QED
    BY <1>1, <1>2, <2>1, <2>2, WorkPlaces
<1>3. CASE /\ \E s \in Done : status' = [status EXCEPT ![job[x].task] = s]
           /\ job' = [job EXCEPT ![x].pc = "done"]
  <2>1. PICK s \in Done : status' = [status EXCEPT ![job[x].task] = s]
    BY <1>3
  <2>2. s \in Statuses \ Unfinished /\ s # "absent"
    BY DEF Statuses, Unfinished, Done
  <2> QED
    BY <1>1, <1>3, <2>1, <2>2, WorkPlaces
<1> QED
  BY <1>2, <1>3 DEF WorkFix

\* A run whose task is elsewhere ends: no unfinished review loses its worker.
LEMMA LoseTaskInv ==
  ASSUME SchedulingInv, NEW x \in Workers, LoseTask(x), Around
  PROVE  SchedulingInv'
<1>1. /\ job[x].pc \in {"review", "fix"} /\ job' = [job EXCEPT ![x].pc = "done"]
      /\ PhaseOf(status[job[x].task]) # job[x].pc /\ UNCHANGED <<status, kids, resumed>>
  BY DEF LoseTask
<1>2. "done" \in Places /\ job[x].task \in Tasks
  BY DEF Places, SchedulingInv, SchedulingTypes, Jobs
<1>3. status[job[x].task] \in Unfinished => ~Reviewing(x)
  BY <1>1 DEF PhaseOf, Reviewing, Unfinished
<1>4. AllCovered'
  BY <1>1, <1>2, <1>3, RunCovers
<1>5. job' \in [Workers -> Jobs]
  BY <1>1, <1>2, JobMoves
<1>6. SchedulingTypes' /\ EntriesExist'
  BY <1>1, <1>5 DEF SchedulingInv, SchedulingTypes, EntriesExist, Around
<1>7. SlotsWork' /\ PlansFresh'
  <2>1. CASE x \in Slots
    BY <1>1, <1>2, <2>1, SlotMoves
  <2>2. CASE x = Recovery
    <3>1. "done" \in Places \ {"queued", "enter"}
      BY <1>2
    <3> QED
      BY <1>1, <2>2, <3>1, RecoveryMoves
  <2> QED
    BY <2>1, <2>2 DEF Workers
<1> QED
  BY <1>4, <1>6, <1>7 DEF SchedulingInv

\* A run that breaks leaves its task behind, and that of the recovery those of all
\* later plans.
LEMMA BreakRunInv ==
  ASSUME SchedulingInv, NEW x \in Workers, BreakRun(x)
  PROVE  SchedulingInv'
<1>1. /\ job' = [job EXCEPT ![x].pc = "done"]
      /\ plans' = IF x = Recovery THEN {} ELSE plans
      /\ left' = left \cup {job[x].task} \cup (plans \ plans')
      /\ UNCHANGED <<status, kids, waiting, entry, resumed, worked>>
  BY DEF BreakRun
<1>2. "done" \in Places /\ job[x].task \in Tasks
  BY DEF Places, SchedulingInv, SchedulingTypes, Jobs
<1>3. /\ job' \in [Workers -> Jobs]
      /\ job'[x].task = job[x].task /\ job'[x].pc = "done" /\ job'[x].auto = job[x].auto
      /\ \A y \in Workers \ {x} : job'[y] = job[y]
  BY <1>1, <1>2, JobMoves
<1>4. AllCovered'
  <2>1. Covered(job[x].task)'
    BY <1>1, <1>2 DEF Covered
  <2> SUFFICES ASSUME NEW t \in Tasks, t # job[x].task
               PROVE  /\ t \in plans \cup left \cup resumed => t \in plans' \cup left' \cup resumed'
                      /\ \A y \in Workers : job[y].task = t /\ Reviewing(y) =>
                                             job'[y].task = t /\ Reviewing(y)'
    BY <1>1, <2>1, CoverageStays
  <2> QED
    BY <1>1, <1>3 DEF Reviewing
<1>5. SchedulingTypes' /\ EntriesExist'
  BY <1>1, <1>3 DEF SchedulingInv, SchedulingTypes, EntriesExist
<1>6. SlotsWork'
  BY <1>1, <1>3, ConstantFacts DEF SchedulingInv, SlotsWork
<1>7. PlansFresh'
  BY <1>1, <1>3, ConstantFacts DEF SchedulingInv, SchedulingTypes, PlansFresh, Jobs
<1> QED
  BY <1>4, <1>5, <1>6, <1>7 DEF SchedulingInv

\* The callback of a run that is done removes an entry, and frees the slot.
LEMMA ForgetRunInv ==
  ASSUME SchedulingInv, NEW x \in Workers, ForgetRun(x)
  PROVE  SchedulingInv'
<1>1. /\ x \in Slots /\ job[x].pc = "done"
      /\ entry' = [entry EXCEPT ![job[x].task] = 0] /\ job' = [job EXCEPT ![x] = NoJob]
      /\ UNCHANGED <<status, kids, waiting, plans, left, resumed, worked>>
  BY DEF ForgetRun
<1>2. NoJob \in Jobs /\ NoJob.pc = "free" /\ job[x].task \in Tasks
  BY ConstantFacts DEF NoJob, Jobs, Places, SchedulingInv, SchedulingTypes
<1>3. /\ job' \in [Workers -> Jobs] /\ job'[x].pc = "free"
      /\ \A y \in Workers \ {x} : job'[y] = job[y]
  BY <1>1, <1>2 DEF SchedulingInv, SchedulingTypes
<1>4. job'[Recovery] = job[Recovery]
  BY <1>1, <1>3, ConstantFacts, SchedulingAssumption
<1>5. AllCovered'
  BY <1>1, <1>3, CoverageStays DEF Reviewing
<1>6. SchedulingTypes' /\ EntriesExist'
  BY <1>1, <1>2, <1>3 DEF SchedulingInv, SchedulingTypes, EntriesExist
<1>7. SlotsWork'
  BY <1>1, <1>3, ConstantFacts DEF SchedulingInv, SlotsWork
<1>8. PlansFresh'
  BY <1>1, <1>4, ConstantFacts DEF SchedulingInv, SchedulingTypes, PlansFresh, Jobs
<1> QED
  BY <1>5, <1>6, <1>7, <1>8 DEF SchedulingInv

\* The recovery comes to a plan; it is as it was listed, or a slot worked on it.
LEMMA RecoverNextInv ==
  ASSUME SchedulingInv, RecoverNext
  PROVE  SchedulingInv'
<1>1. PICK t \in plans :
        /\ plans' = plans \ {t}
        /\ job' = [job EXCEPT ![Recovery] = [task |-> t, auto |-> AutoFix, pc |-> "enter"]]
  BY DEF RecoverNext
<1>2. /\ job[Recovery].pc \in {"free", "done"}
      /\ UNCHANGED <<status, kids, waiting, entry, left, resumed, worked>>
  BY DEF RecoverNext
<1>3. t \in Tasks
  BY DEF SchedulingInv, SchedulingTypes
<1>4. /\ job' \in [Workers -> Jobs]
      /\ job'[Recovery] = [task |-> t, auto |-> AutoFix, pc |-> "enter"]
      /\ \A y \in Workers \ {Recovery} : job'[y] = job[y]
  BY <1>1, <1>3, ConstantFacts, SchedulingAssumption DEF SchedulingInv, SchedulingTypes, Jobs, Places
<1>5. Covered(t)'
  BY <1>3, <1>4, WorkerCovers, ConstantFacts
<1>6. AllCovered'
  BY <1>1, <1>2, <1>4, <1>5, CoverageStays DEF Reviewing
<1>7. SchedulingTypes' /\ EntriesExist'
  BY <1>1, <1>2, <1>4 DEF SchedulingInv, SchedulingTypes, EntriesExist
<1>8. SlotsWork'
  BY <1>2, <1>4, ConstantFacts, SchedulingAssumption DEF SchedulingInv, SlotsWork
<1>9. PlansFresh'
  BY <1>1, <1>2, <1>4 DEF SchedulingInv, PlansFresh
<1> QED
  BY <1>6, <1>7, <1>8, <1>9 DEF SchedulingInv

\* After a restart every unfinished review is planned, or beyond the limit, or needs a human.
LEMMA RestartInv ==
  ASSUME SchedulingInv, RestartProcess
  PROVE  SchedulingInv'
<1>1. /\ job' = [x \in Workers |-> NoJob] /\ waiting' = <<>> /\ entry' = [t \in Tasks |-> 0]
      /\ worked' = {} /\ UNCHANGED <<status, kids, resumed>>
  BY DEF RestartProcess
<1>2. PICK limit \in RecoverLimits :
        /\ plans' = {t \in Listed(limit) : NextAction(t) \in Resumable}
        /\ left' = Candidates \ Listed(limit)
  BY DEF RestartProcess
<1>3. NoJob \in Jobs /\ NoJob.pc = "free" /\ NoJob.auto = FALSE
  BY ConstantFacts DEF NoJob, Jobs, Places
<1>4. Listed(limit) \subseteq Tasks /\ Candidates \subseteq Tasks
  BY DEF Listed, Candidates
<1>5. SchedulingTypes' /\ EntriesExist' /\ SlotsWork'
  BY <1>1, <1>2, <1>3, <1>4, ConstantFacts
  DEF SchedulingInv, SchedulingTypes, EntriesExist, SlotsWork
<1>6. PlansFresh'
  BY <1>1, <1>2, <1>3, <1>4, ActionKinds, ConstantFacts DEF PlansFresh
<1>7. AllCovered'
  <2> SUFFICES ASSUME NEW t \in Tasks, status[t] \in Unfinished
               PROVE  t \in plans' \cup left' \/ NextAction(t)' = "needs_human"
    BY <1>1 DEF AllCovered, Covered
  <2>1. t \in Candidates
    BY DEF Candidates, Unfinished
  <2>2. NextAction(t)' = NextAction(t)
    BY <1>1, SameAction
  <2>3. NextAction(t) \in Resumable \cup {"needs_human"}
    BY ActionKinds
  <2> QED
    BY <1>2, <2>1, <2>2, <2>3
<1> QED
  BY <1>5, <1>6, <1>7 DEF SchedulingInv

\* -- RunScheduling: the theorems -------------------------------------------
\* The invariant holds of every behaviour of the scheduling.
LEMMA SchedulingInvariant == SchedulingSpec => []SchedulingInv
<1>1. SchedulingInv /\ [SchedulingNext]_schedulingVars => SchedulingInv'
  <2> SUFFICES ASSUME SchedulingInv, [SchedulingNext]_schedulingVars PROVE SchedulingInv'
    OBVIOUS
  <2>1. CASE \E t \in Tasks : CreateReview(t) \/ RequestFix(t) \/ ResumeTask(t)
    BY <2>1, CreateReviewInv, RequestFixInv, ResumeTaskInv
  <2>2. CASE Acquire
    BY <2>2, AcquireInv
  <2>3. ASSUME NEW x \in Workers, WorkStep(x) PROVE SchedulingInv'
    <3>1. Around
      BY <2>3 DEF WorkStep, Around
    <3> QED
      BY <2>3, <3>1, EnterInv, WorkKidInv, EndReviewInv, WorkFixKidInv, WorkFixInv, LoseTaskInv DEF WorkStep
  <2>4. CASE \E x \in Workers : BreakRun(x) \/ ForgetRun(x)
    BY <2>4, BreakRunInv, ForgetRunInv
  <2>5. CASE RecoverNext
    BY <2>5, RecoverNextInv
  <2>6. CASE RestartProcess
    BY <2>6, RestartInv
  <2>7. CASE UNCHANGED schedulingVars
    <3>1. UNCHANGED <<status, kids, job, waiting, entry, plans, left, resumed, worked>>
      BY <2>7 DEF schedulingVars
    <3>2. AllCovered'
      BY <3>1, CoverageStays DEF Reviewing
    <3> QED
      BY <3>1, <3>2
      DEF SchedulingInv, SchedulingTypes, EntriesExist, SlotsWork, PlansFresh
  <2> QED
    BY <2>1, <2>2, <2>3, <2>4, <2>5, <2>6, <2>7 DEF SchedulingNext, RunStep
<1> QED
  BY SchedulingInitInv, <1>1, PTL DEF SchedulingSpec

\* No interrupted review is forgotten: when the recovery is through, each has a worker, or
\* one of the excuses RestartResumes lists.
THEOREM RecoveryComplete == SchedulingSpec => []RestartResumes
<1>1. SchedulingInv => RestartResumes
  <2> SUFFICES ASSUME SchedulingInv, NEW t \in Tasks, status[t] \in Unfinished, plans = {},
                      \A x \in Workers : Live(x) => job[x].task # t
               PROVE  t \in left \/ t \in resumed \/ NextAction(t) = "needs_human"
    BY DEF RestartResumes
  <2>1. Covered(t)
    BY DEF SchedulingInv, AllCovered
  <2> QED
    BY <2>1 DEF Covered, Reviewing, Live
<1> QED
  BY SchedulingInvariant, <1>1, PTL

\* The recovery thread fixes nothing that no slot has worked on, unless CODEPILOT_AUTO_FIX
\* tells every run to.
THEOREM RecoveryModest == SchedulingSpec => []RecoveryStopsAtReviewed
<1>1. SchedulingInv => RecoveryStopsAtReviewed
  BY DEF SchedulingInv, PlansFresh, RecoveryStopsAtReviewed
<1> QED
  BY SchedulingInvariant, <1>1, PTL

\* -- EventStream: what is left to send -------------------------------------

\* What a connection may be, given the committed events.
Connections(events) ==
  [pc : {"off", "drain", "send", "status"}, cursor : Nat, batch : SUBSET events,
   polls : Nat, final : BOOLEAN]

\* Events are numbered from 1; what is committed, being sent or received is recorded, and
\* what is being sent or was received last is in the log.
EventTypes ==
  /\ written \in Nat
  /\ draft \in [Writers -> SUBSET (1..written)]
  /\ log \subseteq 1..written
  /\ conn \in Connections(log)
  /\ ended \in BOOLEAN
  /\ conn.cursor \in log \cup {0}
  /\ lastGot \in log \cup {0}

\* While the log fits into a page, all that is left to send lies behind the cursor.
BatchAhead ==
  Cardinality(log) <= PageLimit => \A e \in conn.batch : conn.cursor < e

EventInv == EventTypes /\ BatchAhead

\* A log that fits into a page is the page.
LEMMA PageOfShortLog ==
  ASSUME NEW n \in Nat, NEW events \in SUBSET (1..n), Cardinality(events) <= PageLimit
  PROVE  Page(events) = events
<1>1. IsFiniteSet(events)
  <2>1. IsFiniteSet(1..n)
    BY FS_Interval
  <2> QED
    BY <2>1, FS_Subset
<1>2. ASSUME NEW e \in events
      PROVE  Cardinality({d \in events : d < e}) < PageLimit
  <2>1. IsFiniteSet(events \ {e}) /\ Cardinality(events \ {e}) = Cardinality(events) - 1
    BY <1>1, FS_RemoveElement
  <2>2. {d \in events : d < e} \in SUBSET (events \ {e})
    OBVIOUS
  <2>3. /\ IsFiniteSet({d \in events : d < e})
        /\ Cardinality({d \in events : d < e}) <= Cardinality(events \ {e})
    BY <2>1, <2>2, FS_Subset
  <2>4. Cardinality({d \in events : d < e}) \in Nat /\ Cardinality(events) \in Nat
    BY <1>1, <2>3, FS_CardinalityType
  <2> QED
    BY <2>1, <2>3, <2>4, PageAssumption
<1> QED
  BY <1>2 DEF Page

\* The log only grows: nobody changes or removes a row of it.
LEMMA LogGrows ==
  ASSUME [EventNext]_eventVars
  PROVE  log \subseteq log'
BY DEF EventNext, eventVars, logVars, RecordEvent, CommitEvents, Tamper, Blocked, StreamStep,
       Connect, Drain, Send, ReadStatus, CloseStream, SleepStream, DropStream

\* A log that grows within the page was within the page before.
LEMMA ShortBefore ==
  ASSUME NEW n \in Nat, NEW events \in SUBSET (1..n), NEW before \in SUBSET events,
         Cardinality(events) <= PageLimit
  PROVE  Cardinality(before) <= PageLimit
<1>1. IsFiniteSet(events)
  <2>1. IsFiniteSet(1..n)
    BY FS_Interval
  <2> QED
    BY <2>1, FS_Subset
<1>2. IsFiniteSet(before) /\ Cardinality(before) <= Cardinality(events)
  BY <1>1, FS_Subset
<1> QED
  BY <1>1, <1>2, FS_CardinalityType, PageAssumption

\* A step that leaves the log alone and sends nothing, or begins anew.
LEMMA NothingSent ==
  ASSUME EventInv, UNCHANGED <<logVars, lastGot>>, conn' \in Connections(log),
         \/ conn'.batch = {} /\ conn'.cursor \in log \cup {0}
         \/ conn'.batch = conn.batch /\ conn'.cursor = conn.cursor
  PROVE  EventInv'
<1>1. EventTypes'
  BY DEF EventInv, EventTypes, logVars, Connections
<1>2. BatchAhead'
  BY DEF EventInv, BatchAhead, logVars
<1> QED
  BY <1>1, <1>2 DEF EventInv

\* The invariant of the stream.
LEMMA StreamInvariant == EventSpec => []EventInv
<1>1. EventInit => EventInv
  <2> SUFFICES ASSUME EventInit PROVE EventInv
    OBVIOUS
  <2>1. Off \in Connections({}) /\ Off.batch = {} /\ Off.cursor = 0
    BY DEF Off, Connections
  <2>2. EventTypes
    BY <2>1 DEF EventInit, EventTypes
  <2>3. BatchAhead
    BY <2>1 DEF EventInit, BatchAhead
  <2> QED
    BY <2>2, <2>3 DEF EventInv
<1>2. EventInv /\ [EventNext]_eventVars => EventInv'
  <2> SUFFICES ASSUME EventInv, [EventNext]_eventVars PROVE EventInv'
    OBVIOUS
  <2> USE DEF EventInv
  <2>1. ASSUME NEW w \in Writers, RecordEvent(w) PROVE EventInv'
    <3>1. 1..written \subseteq 1..written' /\ written' \in Nat /\ written + 1 \in 1..written'
      BY <2>1 DEF RecordEvent, EventTypes
    <3>2. draft' \in [Writers -> SUBSET (1..written')]
      BY <2>1, <3>1 DEF RecordEvent, EventTypes
    <3>3. log \subseteq 1..written'
      BY <3>1 DEF EventTypes
    <3>4. UNCHANGED <<log, ended, conn, lastGot>>
      BY <2>1 DEF RecordEvent
    <3>5. EventTypes'
      BY <3>1, <3>2, <3>3, <3>4 DEF EventTypes
    <3>6. BatchAhead'
      BY <3>4 DEF BatchAhead
    <3> QED
      BY <3>5, <3>6
  <2>2. ASSUME NEW w \in Writers, CommitEvents(w) PROVE EventInv'
    <3>1. EventTypes'
      BY <2>2 DEF CommitEvents, EventTypes, Connections
    <3>2. Cardinality(log') <= PageLimit => Cardinality(log) <= PageLimit
      BY <3>1, LogGrows, ShortBefore DEF EventTypes
    <3>3. BatchAhead'
      BY <2>2, <3>2 DEF CommitEvents, BatchAhead
    <3> QED
      BY <3>1, <3>3
  <2>3. ASSUME NEW w \in Writers, Tamper(w) PROVE EventInv'
    BY <2>3 DEF Tamper, Blocked, EventTypes, BatchAhead
  <2>4. CASE Connect
    <3>1. lastGot \in log \cup {0} /\ lastGot \in Nat
      BY DEF EventTypes
    <3>2. /\ conn' \in Connections(log) /\ conn'.batch = {} /\ conn'.cursor = lastGot
      BY <2>4, <3>1 DEF Connect, Off, Connections
    <3> QED
      BY <2>4, <3>1, <3>2, NothingSent DEF Connect
  <2>5. CASE Drain
    <3>1. After(conn.cursor) \subseteq log
      BY DEF After, Page
    <3>2. EventTypes'
      BY <2>5, <3>1 DEF Drain, logVars, EventTypes, Connections
    <3>3. Cardinality(log) <= PageLimit => \A e \in After(conn.cursor) : conn.cursor < e
      <4> SUFFICES ASSUME Cardinality(log) <= PageLimit, NEW e \in After(conn.cursor)
                   PROVE  conn.cursor < e
        OBVIOUS
      <4>1. Page(log) = log
        BY PageOfShortLog DEF EventTypes
      <4>2. e \in log /\ (conn.cursor \in log => conn.cursor < e)
        BY <4>1 DEF After
      <4>3. e > 0
        BY <4>2 DEF EventTypes
      <4> QED
        BY <4>2, <4>3 DEF EventTypes
    <3>4. conn'.batch = After(conn.cursor) /\ conn'.cursor = conn.cursor /\ log' = log
      BY <2>5 DEF Drain, logVars, EventTypes, Connections
    <3> QED
      BY <3>2, <3>3, <3>4 DEF BatchAhead
  <2>6. CASE Send
    <3>1. PICK e \in conn.batch :
            /\ \A d \in conn.batch : e <= d
            /\ conn' = [conn EXCEPT !.batch = @ \ {e}, !.cursor = e]
            /\ lastGot' = e
      BY <2>6 DEF Send
    <3>2. e \in log /\ e \in Nat /\ \A d \in conn.batch : d \in Nat
      BY DEF EventTypes, Connections
    <3>3. UNCHANGED logVars
      BY <2>6 DEF Send
    <3>4. EventTypes'
      BY <3>1, <3>2, <3>3 DEF logVars, EventTypes, Connections
    <3>5. conn'.batch = conn.batch \ {e} /\ conn'.cursor = e
      BY <3>1 DEF EventTypes, Connections
    <3>6. BatchAhead'
      BY <3>1, <3>2, <3>5 DEF BatchAhead
    <3> QED
      BY <3>4, <3>6
  <2>7. CASE ReadStatus \/ SleepStream
    <3>1. conn \in Connections(log) /\ ended \in BOOLEAN
      BY DEF EventTypes
    <3>2. \/ conn' = [conn EXCEPT !.pc = "status", !.final = ended]
          \/ conn' = [conn EXCEPT !.pc = "drain", !.polls = @ + 1]
      BY <2>7 DEF ReadStatus, SleepStream
    <3>3. conn' \in Connections(log) /\ conn'.batch = conn.batch /\ conn'.cursor = conn.cursor
      <4>1. conn' \in Connections(log)
        <5>1. CASE conn' = [conn EXCEPT !.pc = "status", !.final = ended]
          <6>1. PICK b \in BOOLEAN : conn' = [conn EXCEPT !.pc = "status", !.final = b]
            BY <3>1, <5>1, Zenon
          <6>2. CASE conn' = [conn EXCEPT !.pc = "status", !.final = TRUE]
            BY <3>1, <6>2 DEF Connections
          <6>3. CASE conn' = [conn EXCEPT !.pc = "status", !.final = FALSE]
            BY <3>1, <6>3 DEF Connections
          <6> QED
            BY <6>1, <6>2, <6>3, Zenon
        <5>2. CASE conn' = [conn EXCEPT !.pc = "drain", !.polls = @ + 1]
          <6>1. conn.polls + 1 \in Nat
            BY <3>1 DEF Connections
          <6>2. PICK n \in Nat : conn' = [conn EXCEPT !.pc = "drain", !.polls = n]
            BY <5>2, <6>1, Zenon
          <6> QED
            BY <3>1, <6>2 DEF Connections
        <5> QED
          BY <3>2, <5>1, <5>2
      <4>2. conn'.batch = conn.batch /\ conn'.cursor = conn.cursor
        BY <3>1, <3>2 DEF Connections
      <4> QED
        BY <4>1, <4>2
    <3> QED
      BY <2>7, <3>3, NothingSent DEF ReadStatus, SleepStream
  <2>8. CASE CloseStream \/ DropStream
    <3>1. conn' \in Connections(log) /\ conn'.batch = {} /\ conn'.cursor = 0
      <4>1. Off \in Connections(log) /\ Off.batch = {} /\ Off.cursor = 0
        BY DEF Off, Connections
      <4> QED
        BY <2>8, <4>1 DEF CloseStream, DropStream
    <3> QED
      BY <2>8, <3>1, NothingSent DEF CloseStream, DropStream
  <2>9. CASE UNCHANGED eventVars
    BY <2>9 DEF eventVars, EventTypes, BatchAhead
  <2> QED
    BY <2>1, <2>2, <2>3, <2>4, <2>5, <2>6, <2>7, <2>8, <2>9 DEF EventNext, StreamStep
<1> QED
  BY <1>1, <1>2, PTL DEF EventSpec

\* On one connection events come in order and none comes twice, while the log fits into a
\* page: also when events are committed in the middle of it (drain, stream_events).
THEOREM StreamOrdered == EventSpec => OrderedBelowLimit
<1>1. EventInv /\ [EventNext]_eventVars =>
        [/\ conn.pc = "send" /\ conn'.cursor # conn.cursor /\ conn'.pc = "send"
         /\ Cardinality(log) <= PageLimit
         => conn.cursor < conn'.cursor]_eventVars
  <2> SUFFICES ASSUME EventInv, [EventNext]_eventVars, conn.pc = "send", conn'.pc = "send",
                      conn'.cursor # conn.cursor, Cardinality(log) <= PageLimit
               PROVE  conn.cursor < conn'.cursor
    OBVIOUS
  <2>1. conn \in Connections(log)
    BY DEF EventInv, EventTypes
  <2>2. CASE Send
    <3>1. PICK e \in conn.batch : conn' = [conn EXCEPT !.batch = @ \ {e}, !.cursor = e]
      BY <2>2 DEF Send
    <3>2. conn'.cursor = e
      BY <2>1, <3>1 DEF Connections
    <3> QED
      BY <3>1, <3>2 DEF EventInv, BatchAhead
  <2>3. CASE ~ Send
    <3>1. \/ conn' = conn \/ conn' = Off
          \/ conn' = [conn EXCEPT !.pc = "status", !.final = ended]
      BY <2>3 DEF EventNext, StreamStep, eventVars, RecordEvent, CommitEvents, Tamper, Connect, Drain,
               ReadStatus, CloseStream, SleepStream, DropStream
    <3>2. CASE conn' = [conn EXCEPT !.pc = "status", !.final = ended]
      BY <2>1, <3>2 DEF Connections
    <3> QED
      BY <3>1, <3>2 DEF Off
  <2> QED
    BY <2>2, <2>3
<1> QED
  BY <1>1, StreamInvariant, PTL DEF EventSpec, OrderedBelowLimit
====
