---- MODULE ReviewSystem ----
\* One review task from its creation to the task branch: the orchestration runs
\* (Coordinator), the people (MergeGate) and the process they share, which may
\* crash at any point, all working on the same rows.
EXTENDS Coordinator, MergeGate, FiniteSets

CONSTANT MaxCrashes   \* bound: how often the process may crash

VARIABLE crashes      \* how often it has

vars == <<storeVars, patch, coordVars, gateVars, crashes>>

ASSUME SessionsAssumption == Sessions = Runs \cup Deciders \cup Mergers
ASSUME DisjointAssumption ==
  /\ Runs \cap Deciders = {} /\ Runs \cap Mergers = {} /\ Deciders \cap Mergers = {}
ASSUME ResumeAssumption == ResumeTargets \subseteq HumanResumeTargets
ASSUME CrashAssumption == MaxCrashes \in Nat

Init == StoreInit /\ CoordInit /\ GateInit /\ crashes = 0

\* Transactions that are not committed are gone; rows and the branch stay.
Crash ==
  /\ crashes < MaxCrashes
  /\ crashes' = crashes + 1
  /\ run' = [r \in Runs |-> Idle]
  /\ decider' = [d \in Deciders |-> Undecided]
  /\ merger' = [m \in Mergers |-> "idle"]
  /\ seen' = [s \in Sessions |-> Unread]
  /\ UNCHANGED <<task, audit, dataVars, approval, branch>>

RunMoves == \E r \in Runs : (Schedule(r) \/ TriggerFix(r) \/ RunStep(r))
            /\ UNCHANGED <<gateVars, crashes>>

PeopleMove == GateStep /\ UNCHANGED <<offline, run, child, comments, sandbox, crashes>>

AdminResumes == \E key \in ResumeKeys, target \in ResumeTargets :
                  Resume(key, target) /\ UNCHANGED <<offline, run, child, comments, sandbox, crashes>>

Next == RunMoves \/ PeopleMove \/ AdminResumes \/ Crash

Spec == Init /\ [][Next]_vars

\* A run that has started keeps going: its thread is scheduled by the operating
\* system, and a row lock is granted once its holder commits.  Nothing makes
\* people act, a run start or the process crash.
FairSpec == Spec /\ \A r \in Runs :
  WF_vars(RunStep(r) /\ UNCHANGED <<gateVars, crashes>>)

\* -- Types ------------------------------------------------------------------
Copies == [status : ParentStatus, version : Nat]

Commands == {"enter_reviewing", "reviewed", "offline_stop", "no_fix", "enter_fixing",
             "enter_testing:v1", "enter_pending_approval:v1", "rejected:v1", "merged:v1"}
ChildCodes == {"TASK_TIMEOUT", "INTERNAL_ERROR", "PATCH_INVALID", "SANDBOX_UNAVAILABLE",
               "INVALID_INPUT"}
Codes == ChildCodes \cup
         {"IDEMPOTENCY_CONFLICT", "STATE_VERSION_CONFLICT", "ILLEGAL_STATE_TRANSITION",
          "QUALITY_GATE_FAILED", "ARTIFACT_SCHEMA_INVALID", "SCOPE_DRIFT", "SANDBOX_VIOLATION",
          "TEST_GAP"}
IntentKeys == {Key(c) : c \in Commands} \cup {ParkKey(c) : c \in Codes \cup {"none"}}
              \cup {<<"resume", k>> : k \in ResumeKeys}

Places == {"idle", "queued", "enter", "plan", "exec", "claim", "handle", "settle", "retry",
           "resettle", "collect", "reviewed", "fix", "planfix", "collectfix", "testing",
           "verify", "collectverify", "approval", "park"}

ChildCopies == [status : ChildStatus \cup {"absent"}, version : Nat]
LocalStates == [pc : Places, auto : BOOLEAN, todo : Seq(Kinds), copy : ChildCopies,
                bad : SUBSET Kinds, error : Codes \cup {"none", "broken"},
                then : {"settle", "resettle", "collectfix", "collectverify", "none"}]
ChildRows == [status : ChildStatus \cup {"absent"}, attempt : Nat, version : Nat,
              error : ChildCodes \cup {"none"}, late : BOOLEAN,
              output : {"fixable", "unfixable", "report", "inscope", "drift",
                        "pass", "gap", "gate", "blocked", "none"}]

StoreTypes ==
  /\ task \in [status : ParentStatus, version : Nat, humanFrom : ParentStatus \cup {"none"}]
  /\ audit \in Seq(IntentKeys)
  /\ seen \in [Sessions -> Copies]
  /\ patch \in [exists : BOOLEAN, drift : BOOLEAN, evidence : BOOLEAN, applied : BOOLEAN]

WorkTypes ==
  /\ offline \in BOOLEAN
  /\ run \in [Runs -> LocalStates]
  /\ child \in [Kinds -> ChildRows]
  /\ comments \in BOOLEAN
  /\ sandbox \in SUBSET {"verify-child", "prescan-blocked"}

GateTypes ==
  /\ decider \in [Deciders -> [decision : Decisions, by : Approvers] \cup {Undecided}]
  /\ approval \in [decision : Decisions, by : Approvers] \cup {NoApproval}
  /\ merger \in [Mergers -> {"idle", "write", "commit"}]
  /\ branch \in BOOLEAN

\* Type invariant: every variable stays in the range its table column, or its
\* local variable in the code, has.
TypeOK == StoreTypes /\ WorkTypes /\ GateTypes /\ crashes \in 0..MaxCrashes

\* -- Safety: the row and its sessions ---------------------------------------
\* The optimistic lock works: an intent that is written was decided on the row it
\* replaces.  Between the get of a session and its UPDATE others may read, decide and
\* write; then nothing of what this session decided reaches the row.
NoStaleDecision ==
  [][task' # task =>
       \/ \E s \in Sessions : seen[s] = Row /\ seen'[s] = Unread
       \/ \E k \in ResumeKeys : audit' = Append(audit, <<"resume", k>>)]_vars

\* Every version of the row has exactly one intent in the audit log, and no
\* idempotency key was ever applied twice: no run, request or restart repeats a
\* state change, and none is lost.
OneIntentPerVersion ==
  /\ task.version = Len(audit) + 1
  /\ \A i, j \in DOMAIN audit : audit[i] = audit[j] => i = j

\* The status moves along the transition table, or from NEEDS_HUMAN by a logged
\* resume to a resume target.  So no final status is ever left, and MERGED is
\* entered from PENDING_APPROVAL only, whatever versions the writers hold.
LegalMoves ==
  [][task'.status # task.status =>
       \/ task'.status \in ParentTransitions[task.status]
       \/ /\ CanHumanResume(task.status, task'.status)
          /\ \E k \in ResumeKeys : audit' = Append(audit, <<"resume", k>>)]_vars

\* -- Safety: the gates ------------------------------------------------------
\* The branch is written, and the task merged, only under an approve of this patch
\* version; a merge request past its checks still has that approve.
BranchNeedsApproval ==
  branch \/ task.status = "MERGED" \/ (\E m \in Mergers : merger[m] # "idle")
    => approval.decision = "APPROVE"

\* The database says "merged" exactly when it says "patch applied", and then the
\* patch is on the branch.  (The converse does not hold: see the README on the
\* crash between the git commit and the database commit.)
MergedIsWritten ==
  /\ task.status = "MERGED" <=> patch.applied
  /\ patch.applied => branch

\* A rejection closes the task for good and keeps the branch clean, even if it
\* races with an approval, a merge, a resume or a run that still works.
RejectionIsFinal ==
  approval.decision = "REJECT" => task.status = "REJECTED" /\ ~branch

\* A task is reviewed only if both reviewers delivered their artifact and the
\* comments are stored; a run that saw less cannot move it.
ReviewedNeedsBoth ==
  [][task.status = "REVIEWING" /\ task'.status = "REVIEWED" =>
       comments /\ child["review"].status = "completed" /\ child["impact"].status = "completed"]_vars

\* The gate passed before anyone is asked to approve: the verify child completed
\* with a passing gate, and its sandbox run is on record.
GateBeforeApproval ==
  [][task.status = "TESTING" /\ task'.status = "PENDING_APPROVAL" =>
       /\ patch.exists /\ child["verify"].status = "completed"
       /\ child["verify"].output = "pass" /\ "verify-child" \in sandbox]_vars

\* -- Safety: the children ---------------------------------------------------
\* The result of a child stands, however often runs execute it again.  A completed
\* child keeps its status, its attempt and its artifact, only its version grows; a
\* failed one leaves its status by a retry alone, once, after a timeout; and no update
\* of a row is lost.
ResultStands ==
  [][\A c \in Kinds : child'[c] # child[c] =>
       /\ child'[c].version > child[c].version
       /\ child'[c].attempt <= MaxChildAttempts
       /\ child[c].status = "completed" => child'[c] = [child[c] EXCEPT !.version = child'[c].version]
       /\ child[c].status = "failed" =>
            /\ child[c].error = "TASK_TIMEOUT"
            /\ child'[c].status = "working" /\ child'[c].attempt = child[c].attempt + 1]_vars

\* However many runs race for a child, its first attempt is executed by one of them
\* alone: while the claim is open no other run is in the handler of that child.
OneExecution ==
  \A q, r \in Runs : q # r /\ Claimed(q) /\ At(r, "handle") => Current(q) # Current(r)

\* -- Liveness ---------------------------------------------------------------
\* Every run that is started returns, also when runs wait for each other's rows.
EveryRunEnds == \A r \in Runs : At(r, "queued") ~> At(r, "idle")

\* A review that is scheduled comes to an end by itself: reviewed or parked,
\* however many runs work on it and whichever of them lose their races.
ReviewSettles ==
  \A r \in Runs : At(r, "queued") /\ task.status = "DRAFT"
                  ~> task.status \notin {"DRAFT", "REVIEWING"}

\* -- What the documents say and the code does not ---------------------------
\* A phase that fails, with no other writer in the way, leaves the task parked.
\* (README.md: a failure leads to NEEDS_HUMAN.)
FailureParks ==
  [][\A r \in Runs : /\ At(r, "park") /\ run'[r].pc # "park"
                     /\ crashes' = crashes
                     /\ seen[r] = Row
                     => task'.status \in ParentTerminal]_vars

\* A gate that failed sends the task to a human.
GateFailureReachesHuman ==
  /\ task.status = "TESTING" /\ child["verify"].status = "completed"
  /\ child["verify"].output # "pass"
  ~> task.status # "TESTING"

\* A patch with scope drift is never approved, and so never written.
DriftNeverApproved ==
  approval.decision = "APPROVE" => child["fix"].output # "drift"

\* -- Refinement -------------------------------------------------------------
Lifecycle == INSTANCE TaskLifecycle
  WITH status <- task.status, decision <- approval.decision, written <- branch

\* The system implements the lifecycle it promises.
ImplementsLifecycle == Lifecycle!Spec
====
