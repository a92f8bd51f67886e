---- MODULE MergeGate ----
\* What people do to a review task: decide on its patch (record_approval), write
\* the approved patch to the task branch (merge) and resume a task that waits for
\* a human.  Decisions and merges are requests that read, check and then write in
\* one session; any number of them may overlap with each other (several API
\* processes) and with the runs (threads of one process).
EXTENDS TaskStore

CONSTANTS
  Approvers,   \* the people with the role approver
  Deciders,    \* decision requests that may be in progress
  Mergers,     \* merge requests that may be in progress
  ResumeKeys,    \* bound: the idempotency keys of the resume requests
  ResumeTargets  \* bound: where they send the task

VARIABLES
  decider,   \* per decision request: the decision it will record, if any
  approval,  \* the approval row bound to (patch_id, patch_version)
  merger,    \* per merge request: "idle", "write" or "commit"
  branch     \* does the task branch hold the patch?  (git, outside the database)

gateVars == <<decider, approval, merger, branch>>

Decisions == {"APPROVE", "REJECT"}
NoApproval == [decision |-> "none", by |-> "none"]
Undecided == NoApproval

RejectKey == <<"rejected:v1", "">>
MergeKey == <<"merged:v1", "">>

GateInit ==
  /\ decider = [d \in Deciders |-> Undecided]
  /\ approval = NoApproval
  /\ merger = [m \in Mergers |-> "idle"]
  /\ branch = FALSE

\* -- Decisions --------------------------------------------------------------
\* The checks, on what the request's session reads.
CheckDecision(d, decision, approver) ==
  /\ decider[d] = Undecided
  /\ patch.exists
  /\ task.status = "PENDING_APPROVAL"
  /\ decision = "APPROVE" => ~patch.drift
  /\ Get(d)
  /\ decider' = [decider EXCEPT ![d] = [decision |-> decision, by |-> approver]]
  /\ UNCHANGED <<task, audit, approval, merger, branch, patch>>

\* Mutant: a later decision overwrites the approval.
CommitDecisionOver(d) ==
  /\ decider[d] # Undecided
  /\ approval' = [decision |-> decider[d].decision, by |-> decider[d].by]
  /\ IF decider[d].decision = "APPROVE"
       THEN UNCHANGED <<task, audit>>
       ELSE Applied(d, "REJECTED", RejectKey)
  /\ decider' = [decider EXCEPT ![d] = Undecided]
  /\ Forget(d)
  /\ UNCHANGED <<merger, branch, patch>>

\* The first decision on the patch version is the approval.  An approve leaves the
\* task alone and does not look at its version again; a reject is recorded
\* together with the intent that closes the task.
CommitDecision(d) ==
  /\ decider[d] # Undecided
  /\ approval = NoApproval
  /\ approval' = [decision |-> decider[d].decision, by |-> decider[d].by]
  /\ IF decider[d].decision = "APPROVE"
       THEN UNCHANGED <<task, audit>>
       ELSE Applied(d, "REJECTED", RejectKey)
  /\ decider' = [decider EXCEPT ![d] = Undecided]
  /\ Forget(d)
  /\ UNCHANGED <<merger, branch, patch>>

\* The request ends and changes nothing: there is an approval already (an
\* approver's own decision is answered, with its intent replayed; any other is a
\* conflict), or the intent is refused and the transaction rolled back.
EndDecision(d) ==
  /\ decider[d] # Undecided
  /\ \/ approval # NoApproval
     \/ /\ decider[d].decision = "REJECT"
        /\ \E code \in {"ILLEGAL_STATE_TRANSITION", "STATE_VERSION_CONFLICT"} :
             Refused(d, "REJECTED", RejectKey, code)
  /\ decider' = [decider EXCEPT ![d] = Undecided]
  /\ Forget(d)
  /\ UNCHANGED <<task, audit, approval, merger, branch, patch>>

\* -- Merging ----------------------------------------------------------------
\* Mutant: the approval is not looked up.
CheckMergeUnapproved(m) ==
  /\ merger[m] = "idle"
  /\ task.status = "PENDING_APPROVAL"
  /\ ~patch.applied
  /\ Get(m)
  /\ merger' = [merger EXCEPT ![m] = "write"]
  /\ UNCHANGED <<task, audit, decider, approval, branch, patch>>

CheckMerge(m) ==
  /\ merger[m] = "idle"
  /\ approval.decision = "APPROVE"
  /\ task.status = "PENDING_APPROVAL"
  /\ ~patch.applied
  /\ Get(m)
  /\ merger' = [merger EXCEPT ![m] = "write"]
  /\ UNCHANGED <<task, audit, decider, approval, branch, patch>>

\* Mutant: the branch is left for after the commit.
WriteBranchLater(m) ==
  /\ merger[m] = "write"
  /\ ~branch
  /\ merger' = [merger EXCEPT ![m] = "commit"]
  /\ UNCHANGED <<storeVars, decider, approval, patch, branch>>

\* write_patch through the tool registry: git apply, and a commit on the task
\* branch, before anything is committed to the database.
WriteBranch(m) ==
  /\ merger[m] = "write"
  /\ ~branch
  /\ branch' = TRUE
  /\ merger' = [merger EXCEPT ![m] = "commit"]
  /\ UNCHANGED <<storeVars, decider, approval, patch>>

\* The patch is on the branch already.  If the merge that put it there committed,
\* the registry finds its execution record and answers with it; otherwise
\* git apply --check refuses the patch and the request fails.
FindBranchWritten(m) ==
  /\ merger[m] = "write"
  /\ branch
  /\ IF patch.applied
       THEN merger' = [merger EXCEPT ![m] = "commit"] /\ UNCHANGED seen
       ELSE merger' = [merger EXCEPT ![m] = "idle"] /\ Forget(m)
  /\ UNCHANGED <<task, audit, decider, approval, branch, patch>>

\* The patch row and the task change in one transaction, or not at all; the
\* branch stays written either way.
CommitMerge(m) ==
  /\ merger[m] = "commit"
  /\ \/ /\ \/ Applied(m, "MERGED", MergeKey)
           \/ \E status \in ParentStatus : Replayed(m, MergeKey, status)
        /\ patch' = [patch EXCEPT !.applied = TRUE]
     \/ /\ \E code \in {"ILLEGAL_STATE_TRANSITION", "STATE_VERSION_CONFLICT"} :
             Refused(m, "MERGED", MergeKey, code)
        /\ UNCHANGED patch
  /\ merger' = [merger EXCEPT ![m] = "idle"]
  /\ Forget(m)
  /\ UNCHANGED <<decider, approval, branch>>

\* -- Resuming ---------------------------------------------------------------
Resume(key, target) ==
  /\ HumanResumed(target, <<"resume", key>>)
  /\ UNCHANGED <<seen, gateVars, patch>>

GateStep ==
  \/ \E d \in Deciders : \/ \E decision \in Decisions, a \in Approvers : CheckDecision(d, decision, a)
                         \/ CommitDecision(d) \/ EndDecision(d)
  \/ \E m \in Mergers : \/ CheckMerge(m) \/ WriteBranch(m)
                        \/ FindBranchWritten(m) \/ CommitMerge(m)
====
