---- MODULE HttpInvoker ----
\* The coordinator's side of a child task that a remote agent executes: A2AInvoker
\* (a2a/http_invoker.py) and the retry of the review phase around it.  A tracker is
\* one run of the coordinator that follows the child.  It calls the agent over HTTP
\* (AgentService): a call may be lost before it arrives, or its answer may be lost.
\* Reading the row of the child and updating it is one step (see LoseRace).
EXTENDS AgentService

CONSTANT Trackers   \* the runs that may follow the child

VARIABLES
  local,     \* the coordinator's row of the child
  tracker    \* what each run is doing, and what it has heard of the agent

trackVars == <<local, tracker>>

MaxAttempts == 2
Retryable(code) == code \in {"TASK_TIMEOUT", "AGENT_UNAVAILABLE"}

\* The row names the agent's row by its key; 0 if it names none.
NoLocal == [status |-> "absent", attempt |-> 1, remote |-> 0, error |-> "none"]
Idle == [pc |-> "idle", key |-> 0, next |-> "execute", created |-> FALSE, retried |-> FALSE,
         heard |-> "nothing", error |-> "none"]

TrackInit ==
  /\ local = NoLocal
  /\ tracker = [t \in Trackers |-> Idle]

Is(t, pc) == tracker[t].pc = pc
To(t, pc) == tracker' = [tracker EXCEPT ![t].pc = pc]
End(t, how) == tracker' = [tracker EXCEPT ![t] = [Idle EXCEPT !.pc = how]]
Hear(t, pc, heard, error) ==
  tracker' = [tracker EXCEPT ![t].pc = pc, ![t].heard = heard, ![t].error = error]

\* It has an outcome for the child, and is asked for no more than that.
Conclude(t, status) ==
  tracker' = [tracker EXCEPT ![t] = [Idle EXCEPT !.pc = "outcome", !.heard = status,
                                                 !.retried = tracker[t].retried]]

\* The run goes on with the row k of the agent, and forgets what it has heard.
Follow(t, pc, k) ==
  tracker' = [tracker EXCEPT ![t] = [Idle EXCEPT !.pc = pc, !.key = k, !.retried = tracker[t].retried]]

\* How a run ends for this child: it has an outcome, it parks the task, it is ended by
\* an exception of the HTTP library that nobody handles, or its process dies.
Ended == {"ended", "parked", "broken", "crashed"}

\* What a call that reads the agent's row may return; a lost one returns nothing.
Seen(k) == {[status |-> "lost", error |-> "none"]} \cup (IF k = 0 THEN {} ELSE {remote[k]})

Fails(code) ==
  local' = IF local.status \in Terminal THEN local
           ELSE [local EXCEPT !.status = "failed", !.error = code]

\* -- submit -----------------------------------------------------------------
\* The card of the agent is fetched and checked.  Then the row is committed, and the
\* request made up; the key of a later attempt is another one.
Negotiate(t, next) ==
  \/ /\ local' = IF local.status = "absent" THEN [local EXCEPT !.status = "submitted"] ELSE local
     /\ tracker' = [tracker EXCEPT ![t].pc = "call", ![t].next = next, ![t].key = local.attempt,
                                   ![t].created = (local.status = "absent")]
  \/ /\ End(t, "parked") \/ End(t, "broken")
     /\ UNCHANGED local

\* A child that is terminal, or was submitted, is not submitted again.
Plan(t) ==
  /\ Is(t, "idle")
  /\ \/ /\ local.status \in Terminal \/ local.remote # 0
        /\ To(t, "execute")
        /\ UNCHANGED local
     \/ /\ local.status \notin Terminal /\ local.remote = 0
        /\ Negotiate(t, "execute")
  /\ UNCHANGED <<agentVars, late>>

\* The request, or its answer, may be lost.  If the agent refuses, the child fails,
\* provided this run has inserted it, and the task is parked.
Refused(t) ==
  /\ End(t, "parked")
  /\ IF tracker[t].created THEN \E code \in HandlerErrors : Fails(code) ELSE UNCHANGED local

Call(t) ==
  /\ Is(t, "call")
  /\ LET k == tracker[t].key IN
       \/ End(t, "broken") /\ UNCHANGED <<local, agentVars>>
       \/ SubmitCrashes(k) /\ End(t, "broken") /\ UNCHANGED local
       \/ \E answer \in {"submitted", "canceled", "refused"} :
            /\ SubmitHandled(k, answer)
            /\ \/ End(t, "broken") /\ UNCHANGED local
               \/ answer = "refused" /\ Refused(t)
               \/ answer # "refused" /\ Hear(t, "record", answer, "none") /\ UNCHANGED local
            /\ UNCHANGED <<lock, executed, agentCrashes, cancels>>
  /\ UNCHANGED late

\* The row takes the id of the agent's row, and its status if that is a legal move.
Record(t) ==
  /\ Is(t, "record")
  /\ local' = [local EXCEPT !.remote = tracker[t].key,
                            !.status = IF tracker[t].heard = "canceled" /\ @ \notin Terminal
                                       THEN "canceled" ELSE @]
  /\ Follow(t, tracker[t].next, tracker[t].key)
  /\ UNCHANGED <<agentVars, late>>

\* -- execute ----------------------------------------------------------------
\* A row that is terminal is its own outcome.  One that was not submitted, for lack of
\* an answer, is submitted (again).  At the second attempt the agent is asked first:
\* the child is submitted under the new key unless the agent's row is at work.
Execute(t) ==
  /\ Is(t, "execute")
  /\ \/ /\ local.status \in Terminal
        /\ Conclude(t, local.status)
        /\ UNCHANGED local
     \/ /\ local.status = "submitted" /\ local.remote = 0
        /\ Negotiate(t, "await")
     \/ /\ local.status = "submitted" /\ local.remote # 0
        /\ Follow(t, "await", local.remote)
        /\ UNCHANGED local
     \/ /\ local.status = "working" /\ local.attempt = 1
        /\ Follow(t, "await", local.remote)
        /\ UNCHANGED local
     \/ /\ local.status = "working" /\ local.attempt > 1
        /\ \E row \in Seen(local.remote) :
             \/ row.status \in {"lost"} \cup Terminal /\ Negotiate(t, "await")
             \/ /\ row.status \in {"submitted", "working"}
                /\ Follow(t, "await", local.remote)
                /\ UNCHANGED local
  /\ UNCHANGED <<agentVars, late>>

\* -- _await_terminal --------------------------------------------------------
\* Mutant: the deadline is not looked at.
PollForEver(t) ==
  /\ Is(t, "await")
  /\ \E row \in Seen(tracker[t].key) :
       \/ row.status \in Terminal /\ Hear(t, "apply", row.status, row.error)
       \/ row.status = "working" /\ local.status = "submitted" /\ Hear(t, "apply", "working", "none")
  /\ UNCHANGED <<local, agentVars, late>>

\* The agent's row is polled.  Before the deadline a lost poll is repeated; after it,
\* no answer and a row at work are failures of the child.
Poll(t) ==
  /\ Is(t, "await")
  /\ \E row \in Seen(tracker[t].key) :
       \/ /\ row.status \in Terminal
          /\ Hear(t, "apply", row.status, row.error)
       \/ /\ row.status = "working" /\ local.status = "submitted" /\ ~late
          /\ Hear(t, "apply", "working", "none")
       \/ /\ row.status \in {"submitted", "working"} /\ late
          /\ Hear(t, "apply", "failed", "TASK_TIMEOUT")
       \/ /\ row.status = "lost" /\ late
          /\ Hear(t, "apply", "failed", "TASK_STATUS_UNKNOWN")
  /\ UNCHANGED <<local, agentVars, late>>

\* What was heard is written to the row, along legal moves.
ApplyWorking(t) ==
  /\ Is(t, "apply") /\ tracker[t].heard = "working"
  /\ local' = IF local.status = "submitted" THEN [local EXCEPT !.status = "working"] ELSE local
  /\ Follow(t, "await", local.remote)
  /\ UNCHANGED <<agentVars, late>>

ApplyFailure(t) ==
  /\ Is(t, "apply") /\ tracker[t].heard = "failed"
  /\ Fails(tracker[t].error)
  /\ Conclude(t, tracker[t].heard)
  /\ UNCHANGED <<agentVars, late>>

ApplyCanceled(t) ==
  /\ Is(t, "apply") /\ tracker[t].heard = "canceled"
  /\ \/ /\ local.status \in {"submitted", "working", "canceled"}
        /\ local' = [local EXCEPT !.status = "canceled"]
        /\ Conclude(t, tracker[t].heard)
     \/ /\ local.status \in {"completed", "failed"}
        /\ End(t, "parked")
        /\ UNCHANGED local
  /\ UNCHANGED <<agentVars, late>>

\* Mutant: a completion is written over whatever the row says.
CompleteOver(t) ==
  /\ Is(t, "apply") /\ tracker[t].heard = "completed"
  /\ local' = [local EXCEPT !.status = "completed"]
  /\ Conclude(t, "completed")
  /\ UNCHANGED <<agentVars, late>>

\* The artifacts are checked first.  A row that is still submitted becomes working,
\* and commits, before it becomes completed.
ApplyCompleted(t) ==
  /\ Is(t, "apply") /\ tracker[t].heard = "completed"
  /\ \/ /\ Fails("INTERNAL_ERROR")
        /\ Conclude(t, "failed")
     \/ /\ local.status = "submitted"
        /\ local' = [local EXCEPT !.status = "working"]
        /\ UNCHANGED tracker
     \/ /\ local.status \in {"working", "completed"}
        /\ local' = [local EXCEPT !.status = "completed"]
        /\ Conclude(t, tracker[t].heard)
     \/ /\ local.status \in {"failed", "canceled"}
        /\ End(t, "parked")
        /\ UNCHANGED local
  /\ UNCHANGED <<agentVars, late>>

\* -- the review phase -------------------------------------------------------
\* A failure may be retried once, if its code allows that, ...
CanRetry == local.status = "failed" /\ local.attempt < MaxAttempts /\ Retryable(local.error)

\* Mutant: a failure is retried whatever the agent says.
SettleBlindly(t) ==
  /\ Is(t, "outcome")
  /\ \/ tracker[t].heard # "failed" /\ End(t, "ended")
     \/ tracker[t].heard = "failed" /\ tracker[t].retried /\ End(t, "parked")
     \/ tracker[t].heard = "failed" /\ ~tracker[t].retried /\ ~CanRetry /\ End(t, "ended")
     \/ tracker[t].heard = "failed" /\ ~tracker[t].retried /\ CanRetry /\ To(t, "retry")
  /\ UNCHANGED <<local, agentVars, late>>

\* ... and is if the agent confirms that its row has failed.
Settle(t) ==
  /\ Is(t, "outcome")
  /\ \/ tracker[t].heard # "failed" /\ End(t, "ended")
     \/ tracker[t].heard = "failed" /\ tracker[t].retried /\ End(t, "parked")
     \/ tracker[t].heard = "failed" /\ ~tracker[t].retried /\ ~CanRetry /\ End(t, "ended")
     \/ /\ tracker[t].heard = "failed" /\ ~tracker[t].retried /\ CanRetry
        /\ \E row \in Seen(local.remote) :
             \/ row.status = "failed" /\ To(t, "retry")
             \/ row.status # "failed" /\ End(t, "ended")
             \/ row.status = "lost" /\ End(t, "broken")
  /\ UNCHANGED <<local, agentVars, late>>

\* Mutant: the version of the row is not compared.
RetryUnversioned(t) ==
  /\ Is(t, "retry")
  /\ local' = [local EXCEPT !.status = "working", !.attempt = @ + 1, !.error = "none"]
  /\ tracker' = [tracker EXCEPT ![t].pc = "execute", ![t].retried = TRUE]
  /\ UNCHANGED <<agentVars, late>>

\* failed -> working.  If another run has retried the child, its key is found, or the
\* UPDATE finds a newer version.
Retry(t) ==
  /\ Is(t, "retry")
  /\ \/ /\ local.attempt = 1
        /\ local' = [local EXCEPT !.status = "working", !.attempt = 2, !.error = "none"]
        /\ tracker' = [tracker EXCEPT ![t].pc = "execute", ![t].retried = TRUE]
     \/ /\ local.attempt = 2
        /\ \/ tracker' = [tracker EXCEPT ![t].pc = "execute", ![t].retried = TRUE]
           \/ End(t, "parked")
        /\ UNCHANGED local
  /\ UNCHANGED <<agentVars, late>>

\* Two runs read the same version of the row; the second UPDATE is refused.
LoseRace(t) ==
  /\ tracker[t].pc \in {"record", "apply"}
  /\ \E u \in Trackers \ {t} : tracker[u].pc \notin Ended \cup {"idle"}
  /\ End(t, "parked")
  /\ UNCHANGED <<local, agentVars, late>>

TrackerStep(t) ==
  \/ Call(t) \/ Record(t) \/ Execute(t) \/ Poll(t)
  \/ ApplyWorking(t) \/ ApplyFailure(t) \/ ApplyCanceled(t) \/ ApplyCompleted(t)
  \/ Settle(t) \/ Retry(t) \/ LoseRace(t)

\* -- the surroundings -------------------------------------------------------
DeadlinePasses == ~late /\ late' = TRUE /\ UNCHANGED <<agentVars, trackVars>>

\* The process of the coordinator dies with its runs.
CoordinatorCrash ==
  /\ \E t \in Trackers : tracker[t].pc \notin Ended \cup {"idle"}
  /\ tracker' = [t \in Trackers |-> IF tracker[t].pc \in Ended \cup {"idle"} THEN tracker[t]
                                    ELSE [Idle EXCEPT !.pc = "crashed"]]
  /\ UNCHANGED <<local, agentVars, late>>
====
