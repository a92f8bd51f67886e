---- MODULE ChildLifecycle ----
\* What the protocol promises about one row of a child task, on either side of the
\* wire: CHILD_TRANSITIONS of domain/state_machine.py and the guard of a retry.
EXTENDS Naturals

CONSTANT MaxAttempts   \* MAX_CHILD_ATTEMPTS

VARIABLES
  status,   \* "absent" until the row is inserted
  attempt   \* how often the child has been tried

lifecycleVars == <<status, attempt>>

ChildTransitions ==
  [absent    |-> {"submitted"},
   submitted |-> {"working", "failed", "canceled"},
   working   |-> {"completed", "failed", "canceled"},
   completed |-> {},
   failed    |-> {},
   canceled  |-> {}]

Terminal == {"completed", "failed", "canceled"}

Init == status = "absent" /\ attempt \in 1..MaxAttempts

Move == status' \in ChildTransitions[status] /\ UNCHANGED attempt

\* The only way out of a terminal status.
Retry ==
  /\ status = "failed"
  /\ attempt < MaxAttempts
  /\ status' = "working"
  /\ attempt' = attempt + 1

Next == Move \/ Retry

Spec == Init /\ [][Next]_lifecycleVars
====
