---- MODULE TaskStore ----
\* The row of one review task in the table review_task (and that of its patch), and the only way to
\* change it: ReviewTaskStore.apply_intent (repositories/store.py).
\*
\* Every writer (an orchestration run, a decision, a merge) works in a database
\* session of its own: it gets the row, decides, and calls apply_intent with the
\* version it got.  apply_intent reads the row again (populate_existing: never an
\* object the session still holds), so the audit log, the transition table and the
\* row it returns are of that later moment; only the expected version in the WHERE
\* clause of the UPDATE may be stale.  PostgreSQL runs READ COMMITTED: between any
\* two of these statements another session may commit.
EXTENDS StateMachine, Naturals, Sequences

CONSTANT Sessions        \* the database sessions that may write the task

VARIABLES
  task,   \* the committed row: status, state_version, needs_human_from
  audit,  \* the idempotency keys of the applied intents, in commit order;
          \* the i-th intent produced state_version i + 1
  seen,   \* per session, the status and version it got for the intent it is about
          \* to apply; Unread when it is about to apply none
  patch   \* the row of fix_patch: one patch version per task, if any

storeVars == <<task, audit, seen>>

NoPatch == [exists |-> FALSE, drift |-> FALSE, evidence |-> FALSE, applied |-> FALSE]

\* No row has version 0.
Unread == [status |-> "DRAFT", version |-> 0]

Row == [status |-> task.status, version |-> task.version]

\* store.get, and the end of what was decided on it.
Get(s) == seen' = [seen EXCEPT ![s] = Row]
Forget(s) == seen' = [seen EXCEPT ![s] = Unread]
HasRead(s) == seen[s].version # 0

Logged(key) == \E i \in DOMAIN audit : audit[i] = key

\* The key was not in the log yet when the session got the row.
LoggedLater(s, key) == \A i \in DOMAIN audit : audit[i] = key => i >= seen[s].version

\* The UPDATE and the audit event of one intent, in one transaction.
WriteIntent(from, target, key) ==
  /\ task' = [status |-> target,
              version |-> task.version + 1,
              humanFrom |-> IF target = "NEEDS_HUMAN" THEN from ELSE task.humanFrom]
  /\ audit' = Append(audit, key)

\* Mutants: no lookup of the key; no version in the WHERE clause.
AppliedTwice(s, target, key) ==
  /\ CanTransitionParent(task.status, target)
  /\ task.version = seen[s].version
  /\ WriteIntent(task.status, target, key)
AppliedBlindly(s, target, key) ==
  /\ ~Logged(key)
  /\ \E status \in {task.status, seen[s].status} :
       CanTransitionParent(status, target) /\ WriteIntent(status, target, key)

\* apply_intent has three outcomes.  The intent is written: the key is new, the
\* move is legal from the row, and the row has the version the caller got.
Applied(s, target, key) ==
  /\ ~Logged(key)
  /\ CanTransitionParent(task.status, target)
  /\ task.version = seen[s].version
  /\ WriteIntent(task.status, target, key)

\* The key is in the log: nothing is written, and the row that was read is returned
\* with whatever status it has.  If the key was committed between the read and
\* the lookup, that is still the row the caller got.
Replayed(s, key, status) ==
  /\ Logged(key)
  /\ status \in {task.status, seen[s].status}
  /\ UNCHANGED <<task, audit>>

\* Another session has moved the row since the caller got it: before apply_intent
\* read it again, or after that (the key and the status it read then were those of
\* the caller's row), and only the UPDATE finds out.
Overtaken(s, target, key) ==
  /\ task.version # seen[s].version
  /\ \/ ~Logged(key) /\ CanTransitionParent(task.status, target)
     \/ LoggedLater(s, key) /\ CanTransitionParent(seen[s].status, target)

\* It raises, with the error code the caller sees.
Refused(s, target, key, code) ==
  /\ \/ /\ code = "ILLEGAL_STATE_TRANSITION"
        /\ ~Logged(key)
        /\ ~CanTransitionParent(task.status, target)
     \/ /\ code = "STATE_VERSION_CONFLICT"
        /\ Overtaken(s, target, key)
  /\ UNCHANGED <<task, audit>>

\* human_resume: read, check and write in one short transaction, on the version
\* the administrator looked at.
HumanResumed(target, key) ==
  /\ ~Logged(key)
  /\ CanHumanResume(task.status, target)
  /\ WriteIntent(task.status, target, key)

StoreInit ==
  /\ task = [status |-> "DRAFT", version |-> 1, humanFrom |-> "none"]
  /\ audit = <<>>
  /\ seen = [s \in Sessions |-> Unread]
  /\ patch = NoPatch
====
