---- MODULE A2AExchange ----
\* A child task between the coordinator (HttpInvoker) and a remote agent
\* (AgentService), each with its own row of it, and what both sides may rely on.
EXTENDS HttpInvoker

vars == <<agentVars, late, trackVars>>

Init == AgentInit /\ TrackInit

AgentMoves ==
  /\ \/ \E x \in Threads : ThreadStep(x)
     \/ \E k \in Keys : Cancel(k)
     \/ AgentCrash
  /\ UNCHANGED trackVars

Next ==
  \/ \E t \in Trackers : Plan(t) \/ TrackerStep(t)
  \/ AgentMoves
  \/ DeadlinePasses
  \/ CoordinatorCrash

Spec == Init /\ [][Next]_vars

\* A run that polls is scheduled, and time passes.  Nothing is asked of the agent, of
\* the network, or of the start of a run.
FairSpec == Spec /\ WF_vars(DeadlinePasses) /\ \A t \in Trackers : WF_vars(TrackerStep(t))

\* -- Properties -------------------------------------------------------------
\* Type invariant: every column and local variable stays in its range.
RemoteRows == [status : {"absent", "submitted", "working"} \cup Terminal,
               error : HandlerErrors \cup {"none", "TASK_TIMEOUT"}]
Codes == HandlerErrors \cup {"none", "TASK_TIMEOUT", "TASK_STATUS_UNKNOWN"}

TypeOK ==
  /\ remote \in [Keys -> RemoteRows]
  /\ ledger \in [Keys -> [state : {"none", "in_progress", "completed", "failed"},
                          created : BOOLEAN, status : {"absent", "submitted", "canceled"}]]
  /\ running \in [Keys -> Threads \cup {"none"}]
  /\ thread \in [Threads -> [pc : {"idle", "queued", "acquire", "begin", "start", "handling",
                                   "release", "drop", "abort", "abandon", "failing", "done"},
                             key : Keys, lock : 0..(Cardinality(Threads) + 2)]]
  /\ lock \in [Keys -> 0..(Cardinality(Threads) + 2)]
  /\ executed \in [Keys -> Nat]
  /\ late \in BOOLEAN
  /\ agentCrashes \in 0..MaxAgentCrashes
  /\ cancels \in 0..MaxCancels
  /\ local \in [status : {"absent", "submitted", "working"} \cup Terminal,
                attempt : 1..MaxAttempts, remote : 0..2, error : Codes]
  /\ tracker \in [Trackers ->
       [pc : Ended \cup {"idle", "call", "record", "execute", "await", "apply", "outcome", "retry"},
        key : 0..2, next : {"execute", "await"}, created : BOOLEAN, retried : BOOLEAN,
        heard : Terminal \cup {"nothing", "submitted", "working"}, error : Codes]]

\* Never are two handlers of one child at work, be it for the same key or for two
\* attempts, whatever is lost, repeated, restarted or retried.
OneInstance ==
  \A x, y \in Threads : At(x, "handling") /\ At(y, "handling") => x = y

\* A handler is started once per row, and once more after each restart of the agent.
ExecutedOncePerLife == \A k \in Keys : executed[k] <= 1 + agentCrashes

\* A second attempt exists only if the first has failed for good at the agent.
RetryReconciled ==
  local.attempt = 2 \/ remote[2].status # "absent" => remote[1].status = "failed"

\* A result is taken from the row of the current attempt, which is completed.
CompletedIsRemote ==
  local.status = "completed" => remote[local.attempt].status = "completed"

\* Either row of the child obeys the protocol; the agent's is never retried.
LocalRow == INSTANCE ChildLifecycle WITH status <- local.status, attempt <- local.attempt
FirstRow == INSTANCE ChildLifecycle WITH status <- remote[1].status, attempt <- MaxAttempts
SecondRow == INSTANCE ChildLifecycle WITH status <- remote[2].status, attempt <- MaxAttempts
ImplementsLocal == LocalRow!Spec
ImplementsRemote == FirstRow!Spec /\ SecondRow!Spec

\* A run never follows a child for ever, although the agent may be gone.
EveryTrackerEnds == \A t \in Trackers : ~Is(t, "idle") ~> tracker[t].pc \in Ended

\* A run that was not killed leaves no child behind that is still open, unless the task
\* is parked.  (The requirements promise it of network faults.)
RunSettlesChild ==
  \A t \in Trackers :
    tracker[t].pc \in {"ended", "broken"} => local.status \notin {"submitted", "working"}
====
