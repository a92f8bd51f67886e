---- MODULE TaskLifecycle ----
\* What the system promises about one review task, whatever runs, requests and
\* crashes produce it: how its status may move, that the one decision on its patch
\* is never changed, and that the task branch is written only after an approve.
EXTENDS StateMachine

VARIABLES
  status,    \* of the task
  decision,  \* on the patch: "none", "APPROVE" or "REJECT"
  written    \* has the patch been written to the task branch?

lifecycleVars == <<status, decision, written>>

Init == status = "DRAFT" /\ decision = "none" /\ written = FALSE

\* The program moves the task on, or parks it.
Move ==
  /\ status' \in ParentTransitions[status] \ {"MERGED"}
  /\ UNCHANGED <<decision, written>>

\* An administrator takes it out of the waiting room.
Resume ==
  /\ status = "NEEDS_HUMAN"
  /\ status' \in HumanResumeTargets
  /\ UNCHANGED <<decision, written>>

\* Between the check and the record the task may have moved on.
Approve ==
  /\ decision = "none"
  /\ decision' = "APPROVE"
  /\ UNCHANGED <<status, written>>

Reject ==
  /\ decision = "none"
  /\ status = "PENDING_APPROVAL"
  /\ decision' = "REJECT"
  /\ status' = "REJECTED"
  /\ UNCHANGED written

Write ==
  /\ decision = "APPROVE"
  /\ ~written
  /\ written' = TRUE
  /\ UNCHANGED <<status, decision>>

Merge ==
  /\ status = "PENDING_APPROVAL"
  /\ written
  /\ status' = "MERGED"
  /\ UNCHANGED <<decision, written>>

Next == Move \/ Resume \/ Approve \/ Reject \/ Write \/ Merge

Spec == Init /\ [][Next]_lifecycleVars
====
