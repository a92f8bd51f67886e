---- MODULE AgentService ----
\* The agent's side of a child task (apps/api/agent_service.py, agent_app.py): the
\* rows it keeps, one per submission key, the ledger that makes submissions
\* idempotent, the scheduler, and the threads that execute a row.  An HTTP handler
\* never awaits: it is one step, unless the process dies in the middle.
EXTENDS Naturals, FiniteSets

CONSTANTS
  Threads,          \* bound: executions in flight, finished ones included
  MaxAgentCrashes,  \* bound: restarts of the agent
  MaxCancels        \* bound: cancel requests that arrive at the agent

ASSUME AgentAssumption ==
  /\ IsFiniteSet(Threads)
  /\ "none" \notin Threads
  /\ MaxAgentCrashes \in Nat
  /\ MaxCancels \in Nat

Keys == 1..2   \* the submission keys of a child, one per attempt

VARIABLES
  remote,        \* the agent's row of a key
  ledger,        \* the command record of a key, with the answer it replays
  running,       \* TaskScheduler._running: the asyncio task of a row
  thread,        \* the executions
  lock,          \* AgentService._locks: the lock object of a row
  executed,      \* how often the handler was started for a row
  late,          \* has the deadline of the child passed?  (its rows share it)
  agentCrashes,
  cancels

tableVars == <<running, thread, lock>>
agentVars == <<remote, ledger, running, thread, lock, executed, agentCrashes, cancels>>

Terminal == {"completed", "failed", "canceled"}
HandlerErrors == {"AGENT_UNAVAILABLE", "INTERNAL_ERROR"}   \* retryable, not retryable

NoRemote == [status |-> "absent", error |-> "none"]
NoCommand == [state |-> "none", created |-> FALSE, status |-> "absent"]
IdleThread == [pc |-> "idle", key |-> 1, lock |-> 0]

AgentInit ==
  /\ remote = [k \in Keys |-> NoRemote]
  /\ ledger = [k \in Keys |-> NoCommand]
  /\ running = [k \in Keys |-> "none"]
  /\ thread = [x \in Threads |-> IdleThread]
  /\ lock = [k \in Keys |-> 0]
  /\ executed = [k \in Keys |-> 0]
  /\ late = FALSE
  /\ agentCrashes = 0
  /\ cancels = 0

At(x, pc) == thread[x].pc = pc
Go(x, pc) == thread' = [thread EXCEPT ![x].pc = pc]

\* -- submit -----------------------------------------------------------------
\* TaskScheduler.schedule: nothing if an asyncio task of the row is not done.
Schedule(k) ==
  IF running[k] # "none" /\ ~At(running[k], "done")
  THEN UNCHANGED <<running, thread>>
  ELSE \E x \in Threads :
         /\ At(x, "idle")
         /\ thread' = [thread EXCEPT ![x] = [pc |-> "queued", key |-> k, lock |-> 0]]
         /\ running' = [running EXCEPT ![k] = x]

\* A2ATaskStore.submit: the row is inserted, or the one of the same key returned.
Inserted(k) == IF remote[k] = NoRemote THEN [NoRemote EXCEPT !.status = "submitted"] ELSE remote[k]
Completed(k) == [state |-> "completed", created |-> remote[k] = NoRemote, status |-> Inserted(k).status]
Unanswered(k) == ledger[k].state \in {"none", "failed"}

\* The POST handler; answer is the status in the response.  An execution is
\* scheduled if the response says "created", and a replay repeats that.
SubmitHandled(k, answer) ==
  \/ /\ ledger[k].state = "completed"
     /\ answer = ledger[k].status
     /\ IF ledger[k].created THEN Schedule(k) ELSE UNCHANGED <<running, thread>>
     /\ UNCHANGED <<remote, ledger>>
  \/ /\ Unanswered(k)
     /\ answer = Inserted(k).status
     /\ remote' = [remote EXCEPT ![k] = Inserted(k)]
     /\ ledger' = [ledger EXCEPT ![k] = Completed(k)]
     /\ IF Completed(k).created THEN Schedule(k) ELSE UNCHANGED <<running, thread>>
  \/ /\ Unanswered(k)
     /\ answer = "refused"
     /\ ledger' = [ledger EXCEPT ![k].state = "failed"]
     /\ UNCHANGED <<remote, running, thread>>
  \/ /\ ledger[k].state = "in_progress"
     /\ answer = "refused"
     /\ UNCHANGED <<remote, ledger, running, thread>>

\* The process restarts: its tables are empty, its rows stay.  Nothing schedules
\* the executions that were lost.
Restart ==
  /\ agentCrashes < MaxAgentCrashes
  /\ agentCrashes' = agentCrashes + 1
  /\ running' = [k \in Keys |-> "none"]
  /\ thread' = [x \in Threads |-> IdleThread]
  /\ lock' = [k \in Keys |-> 0]
  /\ UNCHANGED <<executed, late, cancels>>

\* It dies in the handler: between the commits of execute_idempotent and submit, or
\* before the execution is scheduled.
SubmitCrashes(k) ==
  /\ Unanswered(k)
  /\ \/ /\ remote' \in {remote, [remote EXCEPT ![k] = Inserted(k)]}
        /\ ledger' = IF ledger[k].state = "failed" THEN ledger
                     ELSE [ledger EXCEPT ![k].state = "in_progress"]
     \/ /\ remote' = [remote EXCEPT ![k] = Inserted(k)]
        /\ ledger' = [ledger EXCEPT ![k] = Completed(k)]
  /\ Restart

AgentCrash == Restart /\ UNCHANGED <<remote, ledger>>

\* -- execute ----------------------------------------------------------------
\* The lock object of the row is looked up, or created and stored, ...
FreshLock == CHOOSE l \in 1..(Cardinality(Threads) + 2) :
  \A y \in Threads, k \in Keys : thread[y].lock # l /\ lock[k] # l

LookUpLock(x) ==
  /\ At(x, "queued")
  /\ LET k == thread[x].key
         l == IF lock[k] = 0 THEN FreshLock ELSE lock[k]
     IN  /\ lock' = [lock EXCEPT ![k] = l]
         /\ thread' = [thread EXCEPT ![x].pc = "acquire", ![x].lock = l]
  /\ UNCHANGED <<remote, ledger, running, executed, late, agentCrashes, cancels>>

\* ... acquired, or the execution returns what the row says, ...
Holding == {"begin", "start", "handling", "release", "abort"}

AcquireLock(x) ==
  /\ At(x, "acquire")
  /\ IF \E y \in Threads \ {x} : thread[y].pc \in Holding /\ thread[y].lock = thread[x].lock
     THEN thread' = [thread EXCEPT ![x].pc = "done", ![x].lock = 0]
     ELSE Go(x, "begin")
  /\ UNCHANGED <<remote, ledger, running, lock, executed, late, agentCrashes, cancels>>

\* Mutant: a row that is terminal is executed like any other.
BeginAnyway(x) ==
  /\ At(x, "begin")
  /\ remote' = [remote EXCEPT ![thread[x].key] = [status |-> "working", error |-> "none"]]
  /\ Go(x, "start")
  /\ UNCHANGED <<ledger, running, lock, executed, late, agentCrashes, cancels>>

\* A terminal row is only read.  A submitted one becomes working; one that is
\* working already lost its execution in a restart, and is executed again.
Begin(x) ==
  /\ At(x, "begin")
  /\ LET k == thread[x].key IN
       IF remote[k].status \in Terminal
       THEN Go(x, "release") /\ UNCHANGED remote
       ELSE Go(x, "start") /\ remote' = [remote EXCEPT ![k].status = "working"]
  /\ UNCHANGED <<ledger, running, lock, executed, late, agentCrashes, cancels>>

\* _fail leaves a terminal row alone.
RemoteFails(k, code) ==
  remote' = IF remote[k].status \in Terminal THEN remote
            ELSE [remote EXCEPT ![k] = [status |-> "failed", error |-> code]]

\* No handler starts after the deadline.
Start(x) ==
  /\ At(x, "start")
  /\ LET k == thread[x].key IN
       \/ /\ late
          /\ RemoteFails(k, "TASK_TIMEOUT")
          /\ Go(x, "release")
          /\ UNCHANGED executed
       \/ /\ ~late
          /\ Go(x, "handling")
          /\ executed' = [executed EXCEPT ![k] = @ + 1]
          /\ UNCHANGED remote
  /\ UNCHANGED <<ledger, running, lock, late, agentCrashes, cancels>>

\* Mutant: the result of a handler is written over a cancellation.
FinishOver(x) ==
  /\ At(x, "handling")
  /\ remote' = [remote EXCEPT ![thread[x].key] = [status |-> "completed", error |-> "none"]]
  /\ Go(x, "release")
  /\ UNCHANGED <<ledger, running, lock, executed, late, agentCrashes, cancels>>

\* Its result is stored with the transition to completed, unless the row was
\* canceled meanwhile: then the transition is refused, and rolled back with it.  An
\* exception nobody expects leaves the row as it is.
Finish(x) ==
  /\ At(x, "handling")
  /\ LET k == thread[x].key IN
       \/ /\ \/ remote' = IF remote[k].status = "working"
                           THEN [remote EXCEPT ![k].status = "completed"] ELSE remote
             \/ \E code \in HandlerErrors : RemoteFails(k, code)
          /\ Go(x, "release")
       \/ Go(x, "abort") /\ UNCHANGED remote
  /\ UNCHANGED <<ledger, running, lock, executed, late, agentCrashes, cancels>>

\* The lock is released and then dropped from the table, whoever holds it by now.
ReleaseLock(x) ==
  /\ thread[x].pc \in {"release", "abort"}
  /\ thread' = [thread EXCEPT ![x].pc = IF @ = "release" THEN "drop" ELSE "abandon", ![x].lock = 0]
  /\ UNCHANGED <<remote, ledger, running, lock, executed, late, agentCrashes, cancels>>

DropLock(x) ==
  /\ thread[x].pc \in {"drop", "abandon"}
  /\ lock' = [lock EXCEPT ![thread[x].key] = 0]
  /\ Go(x, IF At(x, "drop") THEN "done" ELSE "failing")
  /\ UNCHANGED <<remote, ledger, running, executed, late, agentCrashes, cancels>>

\* The task records the exception of its thread.
MarkFailed(x) ==
  /\ At(x, "failing")
  /\ RemoteFails(thread[x].key, "INTERNAL_ERROR")
  /\ Go(x, "done")
  /\ UNCHANGED <<ledger, running, lock, executed, late, agentCrashes, cancels>>

\* The callback of a task that is done drops the entry of its row, even if the
\* entry is of a later task by now.
DoneCallback(x) ==
  /\ At(x, "done")
  /\ running' = [running EXCEPT ![thread[x].key] = "none"]
  /\ thread' = [thread EXCEPT ![x] = IdleThread]
  /\ UNCHANGED <<remote, ledger, lock, executed, late, agentCrashes, cancels>>

ThreadStep(x) ==
  \/ LookUpLock(x) \/ AcquireLock(x) \/ Begin(x) \/ Start(x) \/ Finish(x)
  \/ ReleaseLock(x) \/ DropLock(x) \/ MarkFailed(x) \/ DoneCallback(x)

\* -- cancel -----------------------------------------------------------------
\* Mutant: a terminal row is canceled like any other.
CancelAnyway(k) ==
  /\ cancels < MaxCancels
  /\ remote[k].status # "absent"
  /\ cancels' = cancels + 1
  /\ remote' = [remote EXCEPT ![k].status = "canceled"]
  /\ UNCHANGED <<ledger, running, thread, lock, executed, late, agentCrashes>>

\* A row that is not terminal becomes canceled; its handler is not interrupted.
Cancel(k) ==
  /\ cancels < MaxCancels
  /\ remote[k].status \in {"submitted", "working"}
  /\ cancels' = cancels + 1
  /\ remote' = [remote EXCEPT ![k].status = "canceled"]
  /\ UNCHANGED <<ledger, running, thread, lock, executed, late, agentCrashes>>
====
