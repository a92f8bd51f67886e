---- MODULE CommandLedger ----
\* The ledger that makes the write commands of the HTTP API idempotent:
\* execute_idempotent (apps/api/idempotency.py) on the table idempotency_record
\* (repositories/idempotency.py), seen through one idempotency key of one actor and
\* command.  The handlers never await, so a process serves one command at a time;
\* several processes may share the database.
EXTENDS Naturals

CONSTANTS
  Workers,        \* the processes that serve commands
  Aggregates,     \* what a command may be about: a task, a patch, an evaluation
  Payloads,       \* the contents of a request
  MaxExecutions,  \* bound: successful executions per aggregate
  MaxCrashes      \* bound: crashes of a process

ASSUME LedgerAssumption == MaxExecutions \in Nat /\ MaxCrashes \in Nat

VARIABLES
  record,    \* the rows of the key, one per aggregate at most
  worker,    \* what each process is doing
  executed,  \* how often the work of a command has succeeded, with its effects
  given,     \* the answers clients have got, by aggregate and payload
  history,   \* per aggregate: was a failure recorded, was an execution lost?
  crashes    \* how many crashes there were

vars == <<record, worker, executed, given, history, crashes>>

\* The n-th successful execution answers with something of its own.
Answers == [payload : Payloads, nth : 1..MaxExecutions]
NoAnswer == [payload |-> "none", nth |-> 0]

NoRecord == [status |-> "none", payload |-> "none", answer |-> NoAnswer]
Idle == [pc |-> "idle"]

Init ==
  /\ record = [a \in Aggregates |-> NoRecord]
  /\ worker = [w \in Workers |-> Idle]
  /\ executed = [a \in Aggregates |-> 0]
  /\ given = [a \in Aggregates |-> [x \in Payloads |-> {}]]
  /\ history = [a \in Aggregates |-> {}]
  /\ crashes = 0

Serve(w, pc, a, x, answer) ==
  worker' = [worker EXCEPT ![w] = [pc |-> pc, aggregate |-> a, payload |-> x, answer |-> answer]]
At(w, pc) == worker[w].pc = pc
Absent(a) == record[a].status = "none"

\* -- reserve ----------------------------------------------------------------
\* No row has the key: one will be inserted.
Reserve(w, a, x) ==
  /\ At(w, "idle")
  /\ \A b \in Aggregates : Absent(b)
  /\ Serve(w, "insert", a, x, NoAnswer)
  /\ UNCHANGED <<record, executed, given, history, crashes>>

\* A row of the key is for something else, or in progress: a conflict.  (If the key
\* has several rows, the lookup may find any of them.)
Refuse(w, a, x) ==
  /\ At(w, "idle")
  /\ \E b \in Aggregates :
       /\ ~Absent(b)
       /\ b # a \/ record[b].payload # x \/ record[b].status = "in_progress"
  /\ UNCHANGED vars

\* Mutant: a command that is in progress may be repeated like a failed one.
RetryAnyway(w, a, x) ==
  /\ At(w, "idle")
  /\ record[a].payload = x
  /\ record[a].status \in {"failed", "in_progress"}
  /\ Serve(w, "work", a, x, NoAnswer)
  /\ UNCHANGED <<record, executed, given, history, crashes>>

\* The row agrees with the request, and its command failed: it is executed again.
\* The row stays failed meanwhile.
Retry(w, a, x) ==
  /\ At(w, "idle")
  /\ record[a].payload = x
  /\ record[a].status = "failed"
  /\ Serve(w, "work", a, x, NoAnswer)
  /\ UNCHANGED <<record, executed, given, history, crashes>>

\* Mutant: the content of the request is not compared.
ReplayToAnyone(w, a, x) ==
  /\ At(w, "idle")
  /\ record[a].status = "completed"
  /\ given' = [given EXCEPT ![a][x] = @ \cup {record[a].answer}]
  /\ UNCHANGED <<record, worker, executed, history, crashes>>

\* A completed one is answered from the row.
Replay(w, a, x) ==
  /\ At(w, "idle")
  /\ record[a].payload = x
  /\ record[a].status = "completed"
  /\ given' = [given EXCEPT ![a][x] = @ \cup {record[a].answer}]
  /\ UNCHANGED <<record, worker, executed, history, crashes>>

\* The row is inserted and committed, unless another process inserted one for the
\* same aggregate since: then the request is refused.
Insert(w) ==
  /\ At(w, "insert")
  /\ LET a == worker[w].aggregate
         x == worker[w].payload
     IN  \/ /\ Absent(a)
            /\ record' = [record EXCEPT ![a] = [status |-> "in_progress", payload |-> x,
                                                answer |-> NoAnswer]]
            /\ Serve(w, "work", a, x, NoAnswer)
         \/ /\ ~Absent(a)
            /\ worker' = [worker EXCEPT ![w] = Idle]
            /\ UNCHANGED record
  /\ UNCHANGED <<executed, given, history, crashes>>

\* -- work -------------------------------------------------------------------
\* The work commits its effects in transactions of its own, ...
Succeed(w) ==
  /\ At(w, "work")
  /\ LET a == worker[w].aggregate IN
       /\ executed[a] < MaxExecutions
       /\ executed' = [executed EXCEPT ![a] = @ + 1]
       /\ Serve(w, "complete", a, worker[w].payload,
                [payload |-> worker[w].payload, nth |-> executed[a] + 1])
  /\ UNCHANGED <<record, given, history, crashes>>

\* Mutant: an exception is passed on without a word to the ledger.
FailSilently(w) ==
  /\ At(w, "work")
  /\ worker' = [worker EXCEPT ![w] = Idle]
  /\ UNCHANGED <<record, executed, given, history, crashes>>

\* ... or raises.
Fail(w) ==
  /\ At(w, "work")
  /\ Serve(w, "fail", worker[w].aggregate, worker[w].payload, NoAnswer)
  /\ UNCHANGED <<record, executed, given, history, crashes>>

\* -- _update ----------------------------------------------------------------
\* Whatever the row says by now, it becomes completed and the client is answered,
Complete(w) ==
  /\ At(w, "complete")
  /\ LET a == worker[w].aggregate IN
       /\ record' = [record EXCEPT ![a].status = "completed", ![a].answer = worker[w].answer]
       /\ given' = [given EXCEPT ![a][worker[w].payload] = @ \cup {worker[w].answer}]
  /\ worker' = [worker EXCEPT ![w] = Idle]
  /\ UNCHANGED <<executed, history, crashes>>

\* Mutant: the error code ends up in the status.
RecordErrorAsStatus(w) ==
  /\ At(w, "fail")
  /\ LET a == worker[w].aggregate IN
       /\ record' = [record EXCEPT ![a].status = "INTERNAL_ERROR"]
       /\ history' = [history EXCEPT ![a] = @ \cup {"failed"}]
  /\ worker' = [worker EXCEPT ![w] = Idle]
  /\ UNCHANGED <<executed, given, crashes>>

\* or failed, with the response left as it is.
RecordFailure(w) ==
  /\ At(w, "fail")
  /\ LET a == worker[w].aggregate IN
       /\ record' = [record EXCEPT ![a].status = "failed"]
       /\ history' = [history EXCEPT ![a] = @ \cup {"failed"}]
  /\ worker' = [worker EXCEPT ![w] = Idle]
  /\ UNCHANGED <<executed, given, crashes>>

\* -- crash ------------------------------------------------------------------
Executing(w) == worker[w].pc \in {"work", "complete", "fail"}

Crash(w) ==
  /\ crashes < MaxCrashes
  /\ crashes' = crashes + 1
  /\ worker' = [worker EXCEPT ![w] = Idle]
  /\ history' = [a \in Aggregates |->
       IF Executing(w) /\ worker[w].aggregate = a THEN history[a] \cup {"lost"} ELSE history[a]]
  /\ UNCHANGED <<record, executed, given>>

Next == \E w \in Workers :
  \/ \E a \in Aggregates, x \in Payloads :
       Reserve(w, a, x) \/ Refuse(w, a, x) \/ Retry(w, a, x) \/ Replay(w, a, x)
  \/ Insert(w) \/ Succeed(w) \/ Fail(w) \/ Complete(w) \/ RecordFailure(w) \/ Crash(w)

Spec == Init /\ [][Next]_vars

\* -- Properties -------------------------------------------------------------
\* Type invariant.
Rows == [status : {"none", "in_progress", "completed", "failed"},
         payload : Payloads \cup {"none"}, answer : Answers \cup {NoAnswer}]
Requests == [pc : {"insert", "work", "complete", "fail"}, aggregate : Aggregates,
             payload : Payloads, answer : Answers \cup {NoAnswer}]

TypeOK ==
  /\ record \in [Aggregates -> Rows]
  /\ worker \in [Workers -> Requests \cup {Idle}]
  /\ executed \in [Aggregates -> 0..MaxExecutions]
  /\ given \in [Aggregates -> [Payloads -> SUBSET Answers]]
  /\ history \in [Aggregates -> SUBSET {"failed", "lost"}]
  /\ crashes \in 0..MaxCrashes

\* As long as no failure was recorded, a command is executed by one process at a
\* time and once altogether, however many clients repeat it and whatever crashes.
OnceUnlessFailed ==
  \A a \in Aggregates : "failed" \notin history[a] =>
    /\ executed[a] <= 1
    /\ \A v, w \in Workers :
         Executing(v) /\ Executing(w) /\ worker[v].aggregate = a /\ worker[w].aggregate = a
         => v = w

\* A client gets the answer of its own request, and of an execution that took
\* place; the same one each time, unless a failure was recorded.
AnswersAgree ==
  \A a \in Aggregates, x \in Payloads :
    /\ \A r \in given[a][x] : r.payload = x /\ r.nth \in 1..executed[a]
    /\ "failed" \notin history[a] => \A r, q \in given[a][x] : r = q

\* A row in progress has a process at work, or one that crashed: only a crash can
\* leave a command refused for ever.
InProgressIsServed ==
  \A a \in Aggregates : record[a].status = "in_progress" =>
    "lost" \in history[a] \/ \E w \in Workers : Executing(w) /\ worker[w].aggregate = a

\* No effect is repeated, whatever is retried.  (The promise of execute_idempotent.)
ExecutedOnce == \A a \in Aggregates : executed[a] <= 1
====
