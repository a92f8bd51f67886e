---- MODULE StateMachine ----
\* The transition tables of a review task (the "parent") and of the child
\* tasks the agents execute, as pure operators: domain/state_machine.py, and
\* the two columns of domain/errors.py that steer it.

EXTENDS Naturals

ParentStatus == {"DRAFT", "REVIEWING", "REVIEWED", "FIXING", "TESTING",
                 "PENDING_APPROVAL", "NEEDS_HUMAN", "MERGED", "REJECTED", "FAILED"}

\* Allow-list of the automatic moves; whatever is not listed is refused.
ParentTransitions ==
  [DRAFT            |-> {"REVIEWING", "NEEDS_HUMAN", "FAILED"},
   REVIEWING        |-> {"REVIEWED", "NEEDS_HUMAN", "FAILED"},
   REVIEWED         |-> {"FIXING", "REJECTED", "NEEDS_HUMAN", "FAILED"},
   FIXING           |-> {"TESTING", "NEEDS_HUMAN", "FAILED"},
   TESTING          |-> {"PENDING_APPROVAL", "NEEDS_HUMAN", "FAILED"},
   PENDING_APPROVAL |-> {"MERGED", "REJECTED", "NEEDS_HUMAN"},
   NEEDS_HUMAN      |-> {},
   MERGED           |-> {},
   REJECTED         |-> {},
   FAILED           |-> {}]

\* The statuses in which a run has nothing left to do.
ParentTerminal == {"MERGED", "REJECTED", "FAILED", "NEEDS_HUMAN"}

\* Where an administrator may send a task that waits for a human: everywhere
\* but back into the waiting room and, above all, never into MERGED.
HumanResumeTargets == ParentStatus \ {"NEEDS_HUMAN", "MERGED"}

\* Writing a status over itself is let through as an idempotent replay.
CanTransitionParent(current, target) ==
  current = target \/ target \in ParentTransitions[current]

CanHumanResume(current, target) ==
  current = "NEEDS_HUMAN" /\ target \in HumanResumeTargets

ChildStatus == {"submitted", "working", "completed", "failed"}
ChildTerminal == {"completed", "failed"}

MaxChildAttempts == 2

\* Of the codes a child can fail with inside one process only TASK_TIMEOUT is
\* flagged retryable.
Retryable(code) == code = "TASK_TIMEOUT"

CanRetryChild(status, attempt, code) ==
  status = "failed" /\ attempt < MaxChildAttempts /\ Retryable(code)

\* Where an error parks the task: default_parent_status of the error, and
\* NEEDS_HUMAN for the errors that name none.
ParkTarget(code) == IF code = "INVALID_INPUT" THEN "FAILED" ELSE "NEEDS_HUMAN"
====
