---- MODULE Coordinator ----
\* Coordinator.run (agents/coordinator/coordinator.py) and the in-process A2A
\* invoker it drives (a2a/inprocess.py): the review, fix and verify phases of one
\* review task, executed by several runs at once.  Nothing forbids that: a
\* background schedule, the recovery thread and every accepted trigger of a fix
\* start a run of their own.  The database is PostgreSQL: a child executes in a
\* session of its own, and a child row that was updated but not committed is
\* locked.
EXTENDS TaskStore

CONSTANTS Runs           \* the runs that may exist at the same time

VARIABLES
  offline,   \* mode of the task: offline runs never generate a patch
  run,       \* the local state of each run
  child,     \* the rows of a2a_task, with the artifact a completed one saved
  comments,  \* have the review comments been persisted?
  sandbox    \* the primary keys present in the table sandbox_run

coordVars == <<offline, run, child, comments, sandbox>>

Kinds == {"review", "impact", "fix", "verify"}
Pipeline == <<"review", "impact">>

\* What a successful handler may deliver, as far as the coordinator looks at it:
\* findings that can be fixed or not, a patch inside or outside the declared
\* files, a gate that passes, fails for want of tests or otherwise, or never ran
\* because the patch was blocked.
Outputs == [review |-> {"fixable", "unfixable"}, impact |-> {"report"},
            fix |-> {"inscope", "drift"}, verify |-> {"pass", "gap", "gate", "blocked"}]

HandlerErrors == [review |-> {"INTERNAL_ERROR"}, impact |-> {"INTERNAL_ERROR"},
                  fix |-> {"PATCH_INVALID"},
                  verify |-> {"SANDBOX_UNAVAILABLE", "INVALID_INPUT"}]

NoChild == [status |-> "absent", attempt |-> 0, version |-> 0, error |-> "none",
            output |-> "none", late |-> FALSE]
NewChild == [NoChild EXCEPT !.status = "submitted", !.attempt = 1, !.version = 1]

\* The primary key the evidence of a verify child carries: its own, or one
\* constant shared by every task when the pre-scan blocked the patch.
SandboxKey == IF child["verify"].output = "blocked" THEN "prescan-blocked" ELSE "verify-child"

Key(command) == <<command, "">>
ParkKey(code) == <<"park", code>>

NoCopy == [status |-> "absent", version |-> 0]
Idle == [pc |-> "idle", auto |-> FALSE, todo |-> <<>>, copy |-> NoCopy,
         bad |-> {}, error |-> "none", then |-> "none"]

CoordInit ==
  /\ offline \in BOOLEAN
  /\ run = [r \in Runs |-> Idle]
  /\ child = [c \in Kinds |-> NoChild]
  /\ comments = FALSE
  /\ sandbox \in {{}, {"prescan-blocked"}}   \* another task may have left it

At(r, pc) == run[r].pc = pc
Goto(r, pc) == run' = [run EXCEPT ![r].pc = pc]

\* The session of the run got the task, at a place where it decides on it.
Looked(r, pc) == At(r, pc) /\ HasRead(r)

\* _park, called by a phase, or by run_async after it rolled back a CodePilotError.
ParkWith(r, code) == run' = [run EXCEPT ![r] = [Idle EXCEPT !.pc = "park", !.error = code]]

\* The run is over and its session closed.
End(r) == run' = [run EXCEPT ![r] = Idle]

dataVars == <<offline, child, comments, patch, sandbox>>

\* An intent that moves the task to target.  The run goes on at go[status], by the
\* status of the row apply_intent returns: the row it wrote, or the row it read
\* when the key was there already.  "idle" is the return of the run.
Onward(r, pc) ==
  run' = [run EXCEPT ![r] = IF pc = "idle" THEN Idle
                            ELSE [run[r] EXCEPT !.pc = pc, !.auto = run[r].auto /\ pc \in {"enter", "plan"}]]

Intend(r, target, key, go) ==
  /\ \/ Applied(r, target, key) /\ Onward(r, go[target])
     \/ \E status \in ParentStatus : Replayed(r, key, status) /\ Onward(r, go[status])
     \/ \E code \in {"ILLEGAL_STATE_TRANSITION", "STATE_VERSION_CONFLICT"} :
          Refused(r, target, key, code) /\ ParkWith(r, code)
  /\ Forget(r)
  /\ UNCHANGED dataVars

Always(pc) == [status \in ParentStatus |-> pc]

\* The store.get before a decision: any time after the step before has committed.
Look(r) ==
  /\ run[r].pc \in {"reviewed", "fix", "testing", "approval", "park"}
  /\ ~HasRead(r)
  /\ Get(r)
  /\ UNCHANGED <<task, audit, run, dataVars>>

\* -- Starting a run ---------------------------------------------------------
\* POST /reviews (also when it only replays an earlier request) and the recovery
\* thread, which is not registered among the running tasks.  CODEPILOT_AUTO_FIX may
\* tell the run to go on after the review.
Schedule(r) ==
  /\ At(r, "idle")
  /\ \E auto \in BOOLEAN : run' = [run EXCEPT ![r].pc = "queued", ![r].auto = auto]
  /\ UNCHANGED <<storeVars, dataVars>>

\* POST /reviews/{id}/fixes: the status is checked when the request arrives, the
\* run waits for its slot.
TriggerFix(r) ==
  /\ At(r, "idle")
  /\ task.status \in {"REVIEWED", "FIXING", "TESTING"}
  /\ run' = [run EXCEPT ![r].pc = "queued", ![r].auto = TRUE]
  /\ UNCHANGED <<storeVars, dataVars>>

\* Where run_async goes by the status of the task.
Entry == [status \in ParentStatus |->
            CASE status = "DRAFT" -> "enter"
              [] status = "REVIEWING" -> "plan"
              [] status \in {"REVIEWED", "FIXING"} -> "fix"
              [] status = "TESTING" -> "verify"
              [] OTHER -> "idle"]

StartRun(r) ==
  /\ At(r, "queued")
  /\ Onward(r, Entry[task.status])
  /\ IF task.status = "DRAFT" THEN Get(r) ELSE UNCHANGED seen
  /\ UNCHANGED <<task, audit, dataVars>>

\* A row that was still in DRAFT when it was read is left alone.
EnterReviewing(r) ==
  /\ At(r, "enter")
  /\ Intend(r, "REVIEWING", Key("enter_reviewing"), [Entry EXCEPT !["DRAFT"] = "idle"])

\* -- Child tasks ------------------------------------------------------------
\* Submitting is idempotent: one row per kind.
Submit(kinds) ==
  child' = [c \in Kinds |-> IF c \in kinds /\ child[c] = NoChild THEN NewChild ELSE child[c]]

\* Execute the children in order, then go on at pc.
Execute(r, todo, then) ==
  run' = [run EXCEPT ![r].pc = "exec", ![r].todo = todo, ![r].then = then, ![r].bad = {}]

PlanReview(r) ==
  /\ At(r, "plan")
  /\ Submit({"review", "impact"})
  /\ Execute(r, Pipeline, "settle")
  /\ UNCHANGED <<storeVars, offline, comments, patch, sandbox>>

Current(r) == Head(run[r].todo)

\* Done with the current child.  asyncio.gather lets the siblings of a child that
\* raised finish before the phase sees the first error; "broken" stands for an
\* error that is no CodePilotError: it ends the run.
NextChild(r, bad, error) ==
  LET rest == Tail(run[r].todo)
  IN  IF rest # <<>> \/ error = "none"
        THEN run' = [run EXCEPT ![r].pc = IF rest # <<>> THEN "exec" ELSE run[r].then,
                                ![r].then = IF rest # <<>> THEN @ ELSE "none",
                                ![r].todo = rest, ![r].copy = NoCopy,
                                ![r].bad = bad, ![r].error = error]
        ELSE IF error = "broken" THEN End(r) ELSE ParkWith(r, error)

\* execute() raises, or returns an outcome.  A retry that failed parks the task.
Raised(r, error) ==
  NextChild(r, run[r].bad, IF run[r].error = "none" THEN error ELSE run[r].error)

RetryFailure(error) == IF error = "TASK_TIMEOUT" THEN "TASK_TIMEOUT" ELSE "QUALITY_GATE_FAILED"

Returned(r, status, error) ==
  IF status = "failed" /\ run[r].then = "resettle"
    THEN ParkWith(r, RetryFailure(error))
    ELSE NextChild(r, run[r].bad \cup {c \in {Current(r)} : status = "failed"}, run[r].error)

\* The row of the current child, and the row the session of the executor holds.
OfChild(r) == child[Current(r)]
CopyOf(row) == [status |-> row.status, version |-> row.version]

\* execute() reads the row: an outcome that is already there is returned.
ReadChild(r) ==
  /\ At(r, "exec")
  /\ IF OfChild(r).status \in ChildTerminal
       THEN Returned(r, OfChild(r).status, OfChild(r).error)
       ELSE run' = [run EXCEPT ![r].pc = IF OfChild(r).status = "submitted" THEN "claim" ELSE "handle",
                               ![r].copy = CopyOf(OfChild(r))]
  /\ UNCHANGED <<storeVars, dataVars>>

\* Mutant: no row lock.
LockedNever(r) == FALSE

\* Has this run moved the row to working, in a transaction that is still open?
Claimed(r) == At(r, "handle") /\ run[r].copy.status = "submitted"

Locked(r) == \E q \in Runs \ {r} : Claimed(q) /\ Current(q) = Current(r)

Stale(r) == OfChild(r).version # run[r].copy.version

\* submitted -> working.  The UPDATE waits for the row lock; nobody sees working
\* before the end of the execution, so the row is left as it is.  Another run may
\* have committed its claim and its result meanwhile.  If transition() reads that
\* row, it finds its key and takes the call for a replay: nothing is raised,
\* execute() reads the row again and goes on to the handler, whatever the status.
\* If the commit fell after that read, the key does not fit the status; if it fell
\* after the lookup of the key, the UPDATE finds a newer version.
ClaimChild(r) ==
  /\ At(r, "claim")
  /\ ~Locked(r)
  /\ \/ ~Stale(r) /\ Goto(r, "handle")
     \/ Stale(r) /\ run' = [run EXCEPT ![r].pc = "handle", ![r].copy = CopyOf(OfChild(r))]
     \/ Stale(r) /\ \E code \in {"IDEMPOTENCY_CONFLICT", "STATE_VERSION_CONFLICT"} : Raised(r, code)
  /\ UNCHANGED <<storeVars, dataVars>>

\* The UPDATE that ends an execution counts one version, and one more for the
\* claim it commits with.
Counted(r, row) == [row EXCEPT !.version = @ + (IF Claimed(r) THEN 2 ELSE 1)]

\* Mutant: the artifact of the last execution counts, not that of the first.
CompletedAnew(row, output) ==
  [row EXCEPT !.status = "completed", !.error = "none", !.output = output]

\* The artifacts of a child are read oldest first, so those of another execution
\* of a completed child stay unread.
Completed(row, output) ==
  [row EXCEPT !.status = "completed", !.error = "none",
              !.output = IF row.status = "completed" THEN row.output ELSE output]

Failed(row, error) ==
  [row EXCEPT !.status = "failed", !.error = error, !.late = row.late \/ error = "TASK_TIMEOUT"]

\* How the move to completed is refused: from a failed row it is illegal; a row of
\* another version makes the UPDATE miss; and if an execution of the same version
\* commits while this one does, its key or its artifact may show up in between.
CompletionErrors(r) ==
  {e \in {"ILLEGAL_STATE_TRANSITION"} : OfChild(r).status = "failed"}
  \cup {e \in {"STATE_VERSION_CONFLICT"} : Stale(r)}
  \cup {e \in {"broken"} : Stale(r) /\ OfChild(r).status = "completed"}
  \cup {e \in {"IDEMPOTENCY_CONFLICT"} :
           Stale(r) /\ OfChild(r).status = "completed" /\ run[r].copy.status = "working"}

\* The handler succeeds before the deadline: its artifacts are committed together
\* with the final status.  A completed row is completed once more, unless the key
\* tells that an execution from the same version has been recorded already.
CompleteChild(r) ==
  /\ At(r, "handle")
  /\ ~OfChild(r).late
  /\ \/ /\ ~Stale(r) /\ OfChild(r).status # "failed"
        /\ \E output \in Outputs[Current(r)] :
             child' = [child EXCEPT ![Current(r)] = Counted(r, Completed(@, output))]
        /\ Returned(r, "completed", "none")
     \/ /\ Stale(r) /\ OfChild(r).status = "completed" /\ run[r].copy.status # "failed"
        /\ Returned(r, "completed", "none")
        /\ UNCHANGED child
     \/ \E error \in CompletionErrors(r) : Raised(r, error) /\ UNCHANGED child
  /\ UNCHANGED <<storeVars, offline, comments, patch, sandbox>>

\* A deadline that has passed once has passed for good.
Failures(r) ==
  {"TASK_TIMEOUT"} \cup (IF OfChild(r).late THEN {} ELSE HandlerErrors[Current(r)])

\* How the move to failed is refused, if another session ends the execution after
\* _fail has read the row as working.
FailureErrors(r) ==
  IF ~Stale(r) \/ run[r].copy.status = "completed" THEN {}
  ELSE {e \in {"STATE_VERSION_CONFLICT"} : OfChild(r).status \in ChildTerminal}
       \cup {e \in {"ILLEGAL_STATE_TRANSITION"} : OfChild(r).status = "completed"}
       \cup {e \in {"IDEMPOTENCY_CONFLICT"} : OfChild(r).status = "failed"}

\* The deadline has passed, the handler fails or its artifacts are not valid.  _fail
\* reads the row once more and works on that version: a row that is still open
\* fails, even if it is another run that works on it by now; a row that has ended
\* stays as it is and its status is the outcome.
FailChild(r) ==
  /\ At(r, "handle")
  /\ \E error \in Failures(r) :
       \/ /\ OfChild(r).status \notin ChildTerminal
          /\ child' = [child EXCEPT ![Current(r)] = Counted(r, Failed(@, error))]
          /\ Returned(r, "failed", error)
       \/ /\ OfChild(r).status \in ChildTerminal
          /\ Returned(r, OfChild(r).status, error)
          /\ UNCHANGED child
       \/ \E e \in FailureErrors(r) : Raised(r, e) /\ UNCHANGED child
  /\ UNCHANGED <<storeVars, offline, comments, patch, sandbox>>

\* -- Review phase -----------------------------------------------------------
Retries(r) == {c \in run[r].bad : CanRetryChild(child[c].status, child[c].attempt, child[c].error)}

\* The failed outcomes are looked at one by one in pipeline order; a child whose
\* row is not retryable any more is passed over.
FirstBad(r) == IF "review" \in run[r].bad THEN "review" ELSE "impact"

\* Mutant: a child that cannot be retried is looked at again and again.
SettleReviewForever(r) ==
  /\ At(r, "settle") \/ At(r, "resettle")
  /\ LET c == FirstBad(r) IN
       IF run[r].bad = {}
         THEN Goto(r, "collect")
         ELSE /\ c \in Retries(r)
              /\ run' = [run EXCEPT ![r].pc = "retry", ![r].todo = <<c>>, ![r].bad = @ \ {c},
                                    ![r].copy = CopyOf(child[c])]
  /\ UNCHANGED <<storeVars, dataVars>>

SettleReview(r) ==
  /\ At(r, "settle") \/ At(r, "resettle")
  /\ LET c == FirstBad(r) IN
       IF run[r].bad = {}
         THEN Goto(r, "collect")
         ELSE IF c \in Retries(r)
           THEN run' = [run EXCEPT ![r].pc = "retry", ![r].todo = <<c>>, ![r].bad = @ \ {c},
                                   ![r].copy = CopyOf(child[c])]
           ELSE run' = [run EXCEPT ![r].bad = @ \ {c}]
  /\ UNCHANGED <<storeVars, dataVars>>

\* A row at its next attempt.
Retried(row) == [row EXCEPT !.status = "working", !.error = "none",
                            !.attempt = row.attempt + 1, !.version = row.version + 1]

Reexecute(r) == run' = [run EXCEPT ![r].pc = "exec", ![r].copy = NoCopy, ![r].then = "resettle"]

\* failed -> working, committed at once; then the child is executed again, under the
\* deadline of the first attempt.  If another run has retried the child, its key is
\* found and this run executes what it finds, too, or the UPDATE misses the version.
RetryChild(r) ==
  /\ At(r, "retry")
  /\ \/ /\ ~Stale(r)
        /\ child' = [child EXCEPT ![Current(r)] = Retried(@)]
        /\ Reexecute(r)
     \/ Stale(r) /\ Reexecute(r) /\ UNCHANGED child
     \/ Stale(r) /\ ParkWith(r, "STATE_VERSION_CONFLICT") /\ UNCHANGED child
  /\ UNCHANGED <<storeVars, offline, comments, patch, sandbox>>

\* Mutants: only the review child counts; a failed review ends without a park.
CollectReviewAlone(r) ==
  /\ At(r, "collect")
  /\ \/ /\ child["review"].status # "completed"
        /\ ParkWith(r, "QUALITY_GATE_FAILED")
        /\ UNCHANGED comments
     \/ /\ child["review"].status = "completed"
        /\ comments' = TRUE
        /\ Goto(r, "reviewed")
  /\ UNCHANGED <<storeVars, offline, child, patch, sandbox>>
CollectReviewSilently(r) ==
  /\ At(r, "collect")
  /\ \/ /\ \E c \in {"review", "impact"} : child[c].status # "completed"
        /\ End(r)
        /\ UNCHANGED comments
     \/ /\ \A c \in {"review", "impact"} : child[c].status = "completed"
        /\ comments' = TRUE
        /\ Goto(r, "reviewed")
  /\ UNCHANGED <<storeVars, offline, child, patch, sandbox>>

\* Every child counts, those of later phases too.  The artifacts of a completed
\* child are committed with its status, so it is its artifact.
CollectReview(r) ==
  /\ At(r, "collect")
  /\ \/ /\ \E c \in Kinds : child[c].status = "failed"
        /\ ParkWith(r, "QUALITY_GATE_FAILED")
        /\ UNCHANGED comments
     \/ /\ \A c \in Kinds : child[c].status # "failed"
        /\ \E c \in {"review", "impact"} : child[c].status # "completed"
        /\ ParkWith(r, "ARTIFACT_SCHEMA_INVALID")
        /\ UNCHANGED comments
     \/ /\ \A c \in Kinds : child[c].status # "failed"
        /\ \A c \in {"review", "impact"} : child[c].status = "completed"
        /\ comments' = TRUE
        /\ Goto(r, "reviewed")
  /\ UNCHANGED <<storeVars, offline, child, patch, sandbox>>

\* The run goes on to the fix phase if it is told to and the row says REVIEWED.
MarkReviewed(r) ==
  /\ Looked(r, "reviewed")
  /\ Intend(r, "REVIEWED", Key("reviewed"),
            [Always("idle") EXCEPT !["REVIEWED"] = IF run[r].auto THEN "fix" ELSE "idle"])

\* -- Fix phase --------------------------------------------------------------
Fixable == comments /\ child["review"].output = "fixable"

StopOffline(r) ==
  Looked(r, "fix") /\ offline /\ Intend(r, "REJECTED", Key("offline_stop"), Always("idle"))

StopUnfixable(r) ==
  Looked(r, "fix") /\ ~offline /\ ~Fixable /\ Intend(r, "REJECTED", Key("no_fix"), Always("idle"))

EnterFixing(r) ==
  /\ Looked(r, "fix") /\ ~offline /\ Fixable
  /\ IF seen[r].status = "REVIEWED"
       THEN Intend(r, "FIXING", Key("enter_fixing"), Always("planfix"))
       ELSE Goto(r, "planfix") /\ Forget(r) /\ UNCHANGED <<task, audit, dataVars>>

\* A fixable comment implies a Finding artifact, so its absence is no case here.
PlanFix(r) ==
  /\ At(r, "planfix")
  /\ Submit({"fix"})
  /\ Execute(r, <<"fix">>, "collectfix")
  /\ UNCHANGED <<storeVars, offline, comments, patch, sandbox>>

\* The scope gate.  Whatever evidence the patch row already held is overwritten.
CollectFix(r) ==
  /\ At(r, "collectfix")
  /\ \/ /\ run[r].bad # {}
        /\ ParkWith(r, child["fix"].error)
        /\ UNCHANGED patch
     \/ /\ run[r].bad = {}
        /\ LET drift == child["fix"].output = "drift" IN
             /\ patch' = [patch EXCEPT !.exists = TRUE, !.drift = drift, !.evidence = FALSE]
             /\ IF drift THEN ParkWith(r, "SCOPE_DRIFT") ELSE Goto(r, "testing")
  /\ UNCHANGED <<storeVars, offline, child, comments, sandbox>>

\* On to the verify phase if the row, moved or not, says TESTING.
EnterTesting(r) ==
  LET go == [Always("idle") EXCEPT !["TESTING"] = "verify"]
  IN  /\ Looked(r, "testing")
      /\ IF seen[r].status = "FIXING"
           THEN Intend(r, "TESTING", Key("enter_testing:v1"), go)
           ELSE Onward(r, go[seen[r].status]) /\ Forget(r) /\ UNCHANGED <<task, audit, dataVars>>

\* -- Verify phase -----------------------------------------------------------
PlanVerify(r) ==
  /\ At(r, "verify")
  /\ IF patch.exists
       THEN Submit({"verify"}) /\ Execute(r, <<"verify">>, "collectverify")
       ELSE ParkWith(r, "PATCH_INVALID") /\ UNCHANGED child
  /\ UNCHANGED <<storeVars, offline, comments, patch, sandbox>>

\* Mutant: the reason of the gate passed on as it is, not as an error code.
GateFailureRaw(output) == output

GateFailure(output) ==
  CASE output = "blocked" -> "SANDBOX_VIOLATION"
    [] output = "gap" -> "TEST_GAP"
    [] OTHER -> "QUALITY_GATE_FAILED"

\* Mutant: any evidence at all is taken for a passing gate.
CollectVerifyUngated(r) ==
  /\ At(r, "collectverify")
  /\ run[r].bad = {}
  /\ SandboxKey \notin sandbox
  /\ sandbox' = sandbox \cup {SandboxKey}
  /\ patch' = [patch EXCEPT !.drift = FALSE, !.evidence = TRUE]
  /\ Goto(r, "approval")
  /\ UNCHANGED <<storeVars, offline, child, comments>>

\* The evidence always says "no scope drift", and the patch row believes it.  A
\* sandbox_run row of the same key makes the INSERT fail, and that error is not
\* one the run handles: it just ends.
CollectVerify(r) ==
  /\ At(r, "collectverify")
  /\ \/ /\ run[r].bad # {}
        /\ ParkWith(r, child["verify"].error)
        /\ UNCHANGED <<patch, sandbox>>
     \/ /\ run[r].bad = {}
        /\ SandboxKey \in sandbox
        /\ End(r)
        /\ UNCHANGED <<patch, sandbox>>
     \/ /\ run[r].bad = {}
        /\ SandboxKey \notin sandbox
        /\ sandbox' = sandbox \cup {SandboxKey}
        /\ patch' = [patch EXCEPT !.drift = FALSE, !.evidence = TRUE]
        /\ LET output == child["verify"].output IN
             IF output = "pass" THEN Goto(r, "approval") ELSE ParkWith(r, GateFailure(output))
  /\ UNCHANGED <<storeVars, offline, child, comments>>

RequestApproval(r) ==
  /\ Looked(r, "approval")
  /\ IF seen[r].status = "TESTING"
       THEN Intend(r, "PENDING_APPROVAL", Key("enter_pending_approval:v1"), Always("idle"))
       ELSE End(r) /\ Forget(r) /\ UNCHANGED <<task, audit, dataVars>>

\* Two runs that insert the same comments, or the same patch, at the same time:
\* the unique constraint makes the second flush fail, and that run just ends.  The
\* winner has committed and has not gone on yet.
LoseInsertRace(r) ==
  /\ \/ /\ At(r, "collect") /\ comments
        /\ \E q \in Runs \ {r} : At(q, "reviewed")
     \/ /\ At(r, "collectfix") /\ run[r].bad = {} /\ patch.exists
        /\ \E q \in Runs \ {r} : At(q, "testing")
  /\ End(r)
  /\ UNCHANGED <<storeVars, dataVars>>

\* -- Parking ----------------------------------------------------------------
\* A second error inside _park is swallowed.
Park(r) ==
  /\ Looked(r, "park")
  /\ LET target == ParkTarget(run[r].error)
         key    == ParkKey(run[r].error)
     IN  \/ Applied(r, target, key)
         \/ \E status \in ParentStatus : Replayed(r, key, status)
         \/ \E code \in {"ILLEGAL_STATE_TRANSITION", "STATE_VERSION_CONFLICT"} :
              Refused(r, target, key, code)
  /\ End(r) /\ Forget(r)
  /\ UNCHANGED dataVars

\* -- The coordinator --------------------------------------------------------
RunStep(r) ==
  \/ StartRun(r) \/ Look(r) \/ EnterReviewing(r) \/ PlanReview(r)
  \/ ReadChild(r) \/ ClaimChild(r) \/ CompleteChild(r) \/ FailChild(r)
  \/ SettleReview(r) \/ RetryChild(r)
  \/ CollectReview(r) \/ MarkReviewed(r)
  \/ StopOffline(r) \/ StopUnfixable(r) \/ EnterFixing(r) \/ PlanFix(r)
  \/ CollectFix(r) \/ EnterTesting(r)
  \/ PlanVerify(r) \/ CollectVerify(r) \/ RequestApproval(r)
  \/ LoseInsertRace(r) \/ Park(r)
====
