---- MODULE ReviewSafetyProofs ----
\* The safety of ReviewSystem: the optimistic lock, the audit log, the transition
\* table and the merge gate, and that the system implements TaskLifecycle, for
\* any number of runs, requests, keys and crashes.
\*
\* Every step either leaves the row alone, or writes one intent to it, and what a
\* session holds only ever changes to the row, or to nothing.  So a session that
\* holds the version of the row holds the row itself, and an intent that passes
\* the WHERE clause was decided on the row it replaces.  From that, and the place
\* each request has reached, the gate follows.
EXTENDS ReviewTypeProofs

\* -- What a step does to the row --------------------------------------------
\* One session changes what it holds at most; with a crash, all may.
CopyMove(s) ==
  /\ seen'[s] \in {seen[s], Unread, Row'}
  /\ \A q \in Sessions \ {s} : seen'[q] = seen[q]
CopyMoves == \A s \in Sessions : seen'[s] \in {seen[s], Unread, Row'}

Written(target, key) ==
  /\ ~Logged(key)
  /\ task'.status = target
  /\ task'.version = task.version + 1
  /\ audit' = Append(audit, key)

\* What a run may write: every status but MERGED, under no key of the gate.
RunWrites ==
  \E s \in Runs, target \in ParentStatus \ {"MERGED"}, key \in IntentKeys \ {MergeKey, RejectKey} :
    Applied(s, target, key) /\ Forget(s)

\* Getting the row and forgetting it are copy moves.
LEMMA CopySteps ==
  ASSUME NEW s \in Sessions, StoreTypes,
         \/ UNCHANGED task /\ Get(s)
         \/ Forget(s) \/ UNCHANGED seen
  PROVE  CopyMove(s)
BY DEF StoreTypes, Get, Forget, Row, Unread, CopyMove

\* The keys of the runs are none of the gate's.
LEMMA RunKeys ==
  /\ \A c \in Commands \ {"rejected:v1", "merged:v1"} : Key(c) \in IntentKeys \ {MergeKey, RejectKey}
  /\ \A c \in Codes \cup {"none"} : ParkKey(c) \in IntentKeys \ {MergeKey, RejectKey}
  /\ \A k \in ResumeKeys : <<"resume", k>> \in IntentKeys \ {MergeKey, RejectKey}
BY DEF IntentKeys, Key, ParkKey, RejectKey, MergeKey, Commands

\* An intent of a run is a copy move, and writes what a run may write.
LEMMA IntendSteps ==
  ASSUME NEW r \in Runs, NEW target \in ParentStatus \ {"MERGED"},
         NEW key \in IntentKeys \ {MergeKey, RejectKey}, NEW go,
         StoreTypes, Intend(r, target, key, go)
  PROVE  CopyMove(r) /\ (UNCHANGED <<task, audit>> \/ RunWrites) /\ UNCHANGED patch
<1>1. r \in Sessions
  BY SessionsAssumption
<1>2. UNCHANGED patch
  BY DEF Intend, dataVars
<1>3. UNCHANGED <<task, audit>> \/ RunWrites
  BY DEF Intend, Replayed, Refused, RunWrites
<1>4. CopyMove(r)
  BY <1>1, CopySteps DEF Intend
<1> QED
  BY <1>2, <1>3, <1>4

\* Every step of a run.
LEMMA RunSteps ==
  ASSUME TypeInv, RunMoves
  PROVE  /\ \E r \in Runs : CopyMove(r)
         /\ UNCHANGED <<task, audit>> \/ RunWrites
         /\ patch'.applied = patch.applied
         /\ UNCHANGED gateVars
<1>1. PICK r \in Runs : Schedule(r) \/ TriggerFix(r) \/ RunStep(r)
  BY DEF RunMoves
<1>2. UNCHANGED gateVars
  BY DEF RunMoves
<1>3. StoreTypes /\ r \in Sessions
  BY SessionsAssumption DEF TypeInv, TypeOK
<1>4. Get(r) /\ UNCHANGED task => CopyMove(r)
  BY <1>3, CopySteps
<1>5. Forget(r) => CopyMove(r)
  BY <1>3, CopySteps
<1>6. UNCHANGED seen => CopyMove(r)
  BY <1>3, CopySteps
<1>7. ASSUME NEW target \in {"REVIEWING", "REVIEWED", "REJECTED", "FIXING", "TESTING", "PENDING_APPROVAL"},
             NEW c \in Commands \ {"rejected:v1", "merged:v1"},
             NEW go, Intend(r, target, Key(c), go)
      PROVE  CopyMove(r) /\ (UNCHANGED <<task, audit>> \/ RunWrites) /\ patch'.applied = patch.applied
  <2>1. target \in ParentStatus \ {"MERGED"}
    BY DEF ParentStatus
  <2> QED
    BY <1>3, <1>7, <2>1, RunKeys, IntendSteps
<1>8. CASE \/ EnterReviewing(r) \/ MarkReviewed(r) \/ StopOffline(r) \/ StopUnfixable(r)
           \/ EnterFixing(r)
  BY <1>2, <1>5, <1>7, <1>8
  DEF EnterReviewing, MarkReviewed, StopOffline, StopUnfixable, EnterFixing, dataVars, Commands
<1>9. CASE EnterTesting(r) \/ RequestApproval(r)
  BY <1>2, <1>5, <1>7, <1>9 DEF EnterTesting, RequestApproval, dataVars, Commands
<1>10. CASE \/ PlanReview(r) \/ PlanFix(r) \/ PlanVerify(r)
            \/ ReadChild(r) \/ ClaimChild(r) \/ CompleteChild(r) \/ FailChild(r)
  BY <1>2, <1>6, <1>10, ChildStepTypes DEF storeVars
<1>11. CASE SettleReview(r) \/ RetryChild(r)
  BY <1>2, <1>6, <1>11, RetryStepTypes DEF storeVars
<1>12. CASE \/ CollectReview(r) \/ CollectFix(r) \/ CollectVerify(r) \/ LoseInsertRace(r)
            \/ StartRun(r) \/ Schedule(r) \/ TriggerFix(r) \/ Look(r)
  <2>1. UNCHANGED <<task, audit>> /\ (Get(r) \/ UNCHANGED seen)
    BY <1>12, CollectStepTypes
  <2>2. patch'.applied = patch.applied
    BY <1>3, <1>12
    DEF CollectReview, CollectFix, CollectVerify, LoseInsertRace, StartRun, Schedule,
        TriggerFix, Look, dataVars, StoreTypes
  <2> QED
    BY <1>2, <1>4, <1>6, <2>1, <2>2
<1>13. CASE Park(r)
  <2> DEFINE target == ParkTarget(run[r].error)
             key == ParkKey(run[r].error)
  <2>1. target \in ParentStatus \ {"MERGED"} /\ key \in IntentKeys \ {MergeKey, RejectKey}
    <3>1. run[r].error \in Codes \cup {"none"}
      BY <1>13 DEF TypeInv, TypeOK, WorkTypes, LocalStates, BusyKnows, Knows, Park, Looked, At
    <3> QED
      BY <3>1, RunKeys DEF ParkTarget, ParentStatus
  <2>2. Applied(r, target, key) \/ UNCHANGED <<task, audit>>
    BY <1>13 DEF Park, Replayed, Refused
  <2>3. Forget(r) /\ UNCHANGED patch
    BY <1>13 DEF Park, dataVars
  <2> QED
    BY <1>2, <1>5, <2>1, <2>2, <2>3 DEF RunWrites
<1> QED
  BY <1>1, <1>8, <1>9, <1>10, <1>11, <1>12, <1>13 DEF RunStep

\* -- The row and its sessions -----------------------------------------------
\* What a session holds is older than the row, or is the row.
CopiesPast ==
  \A s \in Sessions :
    /\ seen[s].version <= task.version
    /\ seen[s].version = task.version => seen[s].status = task.status

RowInv == TypeInv /\ OneIntentPerVersion /\ CopiesPast

\* A session decided on the row as it is, and is done with it.
Decided == \E s \in Sessions : seen[s] = Row /\ seen'[s] = Unread

\* How any step may change the row.
RowMoves(target, key) ==
  /\ Written(target, key)
  /\ \/ CanTransitionParent(task.status, target) /\ Decided
     \/ CanHumanResume(task.status, target) /\ \E k \in ResumeKeys : key = <<"resume", k>>

\* An intent that is applied was decided on the row it moves.
LEMMA AppliedWrites ==
  ASSUME NEW s \in Sessions, NEW target \in ParentStatus, NEW key \in IntentKeys,
         StoreTypes, CopiesPast, Applied(s, target, key), Forget(s)
  PROVE  RowMoves(target, key) /\ task'.status = target
<1>1. seen[s].version = task.version /\ seen[s].status = task.status
  BY DEF Applied, CopiesPast
<1>2. seen[s] = Row
  BY <1>1 DEF StoreTypes, Copies, Row
<1>3. seen'[s] = Unread
  BY DEF Forget, StoreTypes
<1>4. Decided
  BY <1>2, <1>3 DEF Decided
<1>5. Written(target, key)
  BY DEF Applied, WriteIntent, Written
<1> QED
  BY <1>4, <1>5 DEF Applied, RowMoves, Written

\* Every step leaves the row and its log alone, or writes one legal intent.
LEMMA RowSteps ==
  ASSUME RowInv, [Next]_vars
  PROVE  /\ CopyMoves
         /\ \/ UNCHANGED <<task, audit>>
            \/ \E target \in ParentStatus, key \in IntentKeys : RowMoves(target, key)
<1>0. StoreTypes /\ CopiesPast
  BY DEF RowInv, TypeInv, TypeOK
<1>1. \A s \in Sessions, target \in ParentStatus, key \in IntentKeys :
        Applied(s, target, key) /\ Forget(s) => RowMoves(target, key)
  BY <1>0, AppliedWrites
<1>2. CASE RunMoves
  <2>1. CopyMoves /\ (UNCHANGED <<task, audit>> \/ RunWrites)
    BY <1>2, RunSteps, SessionsAssumption DEF RowInv, CopyMove, CopyMoves
  <2>2. Runs \subseteq Sessions
    BY SessionsAssumption
  <2> QED
    BY <1>1, <2>1, <2>2 DEF RunWrites
<1>3. CASE PeopleMove
  <2>1. ASSUME NEW d \in Deciders,
               \/ \E decision \in Decisions, a \in Approvers : CheckDecision(d, decision, a)
               \/ CommitDecision(d) \/ EndDecision(d)
        PROVE  /\ CopyMoves
               /\ UNCHANGED <<task, audit>> \/ (Applied(d, "REJECTED", RejectKey) /\ Forget(d))
    <3>1. d \in Sessions
      BY SessionsAssumption
    <3>2. (UNCHANGED task /\ Get(d)) \/ Forget(d)
      BY <2>1 DEF CheckDecision, CommitDecision, EndDecision
    <3>3. UNCHANGED <<task, audit>> \/ (Applied(d, "REJECTED", RejectKey) /\ Forget(d))
      BY <2>1 DEF CheckDecision, CommitDecision, EndDecision
    <3> QED
      BY <1>0, <3>1, <3>2, <3>3, CopySteps DEF CopyMove, CopyMoves
  <2>2. ASSUME NEW m \in Mergers,
               CheckMerge(m) \/ WriteBranch(m) \/ FindBranchWritten(m) \/ CommitMerge(m)
        PROVE  /\ CopyMoves
               /\ UNCHANGED <<task, audit>> \/ (Applied(m, "MERGED", MergeKey) /\ Forget(m))
    <3>1. m \in Sessions
      BY SessionsAssumption
    <3>2. (UNCHANGED task /\ Get(m)) \/ Forget(m) \/ UNCHANGED seen
      BY <2>2 DEF CheckMerge, WriteBranch, FindBranchWritten, CommitMerge, storeVars
    <3>3. UNCHANGED <<task, audit>> \/ (Applied(m, "MERGED", MergeKey) /\ Forget(m))
      BY <2>2 DEF CheckMerge, WriteBranch, FindBranchWritten, CommitMerge, storeVars,
                  Replayed, Refused
    <3> QED
      BY <1>0, <3>1, <3>2, <3>3, CopySteps DEF CopyMove, CopyMoves
  <2>3. Deciders \subseteq Sessions /\ Mergers \subseteq Sessions
    BY SessionsAssumption
  <2>4. "REJECTED" \in ParentStatus /\ "MERGED" \in ParentStatus
    BY DEF ParentStatus
  <2> QED
    BY <1>1, <1>3, <2>1, <2>2, <2>3, <2>4, KeyTypes DEF PeopleMove, GateStep
<1>4. CASE AdminResumes
  <2>1. PICK k \in ResumeKeys, target \in HumanResumeTargets : Resume(k, target)
    BY <1>4, ResumeAssumption DEF AdminResumes
  <2>2. <<"resume", k>> \in IntentKeys /\ target \in ParentStatus
    BY RunKeys DEF HumanResumeTargets
  <2>3. CopyMoves
    BY <2>1 DEF Resume, CopyMoves
  <2>4. RowMoves(target, <<"resume", k>>)
    BY <1>0, <2>1 DEF Resume, HumanResumed, WriteIntent, RowMoves, Written
  <2> QED
    BY <2>2, <2>3, <2>4
<1>5. CASE Crash
  BY <1>0, <1>5 DEF Crash, CopyMoves, StoreTypes
<1>6. CASE UNCHANGED vars
  BY <1>6 DEF vars, storeVars, CopyMoves
<1> QED
  BY <1>2, <1>3, <1>4, <1>5, <1>6 DEF Next

\* The invariant of the row is inductive.
LEMMA RowStep ==
  ASSUME RowInv, TypeInv', [Next]_vars
  PROVE  RowInv'
<1>0. StoreTypes /\ StoreTypes' /\ OneIntentPerVersion /\ CopiesPast
  BY DEF RowInv, TypeInv, TypeOK
<1>1. CopyMoves
  BY RowSteps
<1>2. CASE UNCHANGED <<task, audit>>
  <2>1. OneIntentPerVersion'
    BY <1>0, <1>2 DEF OneIntentPerVersion
  <2>2. CopiesPast'
    BY <1>0, <1>1, <1>2 DEF CopiesPast, OneIntentPerVersion, CopyMoves, Row, Unread, StoreTypes
  <2> QED
    BY <2>1, <2>2 DEF RowInv
<1>3. CASE \E target \in ParentStatus, key \in IntentKeys : RowMoves(target, key)
  <2>1. PICK target \in ParentStatus, key \in IntentKeys : Written(target, key)
    BY <1>3 DEF RowMoves
  <2>2. OneIntentPerVersion'
    <3>1. Len(audit') = Len(audit) + 1 /\ Len(audit) \in Nat
      BY <1>0, <2>1 DEF Written, StoreTypes
    <3>2. \A i \in DOMAIN audit' : \/ i \in DOMAIN audit /\ audit'[i] = audit[i]
                                   \/ i = Len(audit) + 1 /\ audit'[i] = key
      BY <1>0, <2>1 DEF Written, StoreTypes
    <3>3. \A i \in DOMAIN audit : audit[i] # key
      BY <2>1 DEF Written, Logged
    <3> QED
      BY <1>0, <2>1, <3>1, <3>2, <3>3 DEF OneIntentPerVersion, Written
  <2>3. CopiesPast'
    <3>1. task.version \in Nat /\ task'.version = task.version + 1
      BY <1>0, <2>1 DEF StoreTypes, Written
    <3>2. SUFFICES ASSUME NEW s \in Sessions
                   PROVE  /\ seen'[s].version <= task'.version
                          /\ seen'[s].version = task'.version => seen'[s].status = task'.status
      BY DEF CopiesPast
    <3>3. seen[s].version \in Nat /\ seen[s].version <= task.version
      BY <1>0 DEF CopiesPast, StoreTypes, Copies
    <3> QED
      BY <1>1, <3>1, <3>3 DEF CopyMoves, Row, Unread
  <2> QED
    BY <2>2, <2>3 DEF RowInv
<1> QED
  BY <1>2, <1>3, RowSteps

\* The optimistic lock and the audit log: RowInv always holds.
THEOREM RowCorrect == Spec => []RowInv
<1>1. Init /\ TypeInv => RowInv
  BY DEF Init, StoreInit, Unread, OneIntentPerVersion, CopiesPast, RowInv
<1>2. RowInv /\ [Next]_vars /\ TypeInv' => RowInv'
  BY RowStep
<1> QED
  BY <1>1, <1>2, TypeInvariant, PTL DEF Spec

\* No version without its one intent, no intent applied twice.
THEOREM AuditCorrect == Spec => []OneIntentPerVersion
<1>1. RowInv => OneIntentPerVersion
  BY DEF RowInv
<1> QED
  BY <1>1, RowCorrect, PTL

\* Optimistic locking: no session moves the row by a decision it took on another
\* row than the one it replaces.
THEOREM LockCorrect == Spec => NoStaleDecision
<1> DEFINE Fresh ==
      task' # task =>
        \/ \E s \in Sessions : seen[s] = Row /\ seen'[s] = Unread
        \/ \E k \in ResumeKeys : audit' = Append(audit, <<"resume", k>>)
<1>1. RowInv /\ [Next]_vars => [Fresh]_vars
  <2> SUFFICES ASSUME RowInv, [Next]_vars PROVE Fresh
    OBVIOUS
  <2> QED
    BY RowSteps DEF RowMoves, Written, Decided
<1> QED
  BY <1>1, RowCorrect, PTL DEF Spec, NoStaleDecision

\* The status only ever moves along the transition table, or by a logged resume.
THEOREM MovesLegal == Spec => LegalMoves
<1> DEFINE Legal ==
      task'.status # task.status =>
        \/ task'.status \in ParentTransitions[task.status]
        \/ /\ CanHumanResume(task.status, task'.status)
           /\ \E k \in ResumeKeys : audit' = Append(audit, <<"resume", k>>)
<1>1. RowInv /\ [Next]_vars => [Legal]_vars
  <2> SUFFICES ASSUME RowInv, [Next]_vars PROVE Legal
    OBVIOUS
  <2> QED
    BY RowSteps DEF RowMoves, Written, CanTransitionParent
<1> QED
  BY <1>1, RowCorrect, PTL DEF Spec, LegalMoves

\* -- The gate ---------------------------------------------------------------
\* Why the gate holds: the merge key is in the log of a merged task only, a merge
\* request about to commit has written the branch, and a decision about to be
\* recorded was checked on a task that waited for it.
MergeHistory ==
  /\ Logged(MergeKey) => task.status = "MERGED"
  /\ \A m \in Mergers : merger[m] = "commit" => branch
DeciderHistory ==
  \A d \in Deciders : decider[d] # Undecided => seen[d].status = "PENDING_APPROVAL"

GateSafe == BranchNeedsApproval /\ MergedIsWritten /\ RejectionIsFinal
GateInv == RowInv /\ GateSafe /\ MergeHistory /\ DeciderHistory

\* A move to another status than MERGED starts in another status, too, leaves a
\* rejected task rejected, and logs no merge.
LEMMA OtherMoves ==
  ASSUME StoreTypes, NEW target \in ParentStatus \ {"MERGED"}, NEW key \in IntentKeys \ {MergeKey},
         RowMoves(target, key)
  PROVE  /\ task.status # "MERGED" /\ task'.status # "MERGED"
         /\ task.status = "REJECTED" => task'.status = "REJECTED"
         /\ Logged(MergeKey)' => Logged(MergeKey)
<1>1. task'.status = target /\ audit' = Append(audit, key)
  BY DEF RowMoves, Written
<1>2. task.status # "MERGED" /\ (task.status = "REJECTED" => target = "REJECTED")
  BY DEF RowMoves, CanTransitionParent, CanHumanResume, ParentTransitions
<1>3. Logged(MergeKey)' => Logged(MergeKey)
  BY <1>1 DEF Logged, StoreTypes
<1> QED
  BY <1>1, <1>2, <1>3

\* A step that leaves the gate alone keeps it safe.
LEMMA GateFrame ==
  ASSUME GateInv, UNCHANGED gateVars, patch'.applied = patch.applied,
         \/ UNCHANGED <<task, audit>>
         \/ \E target \in ParentStatus \ {"MERGED"}, key \in IntentKeys \ {MergeKey} :
              RowMoves(target, key)
  PROVE  GateSafe' /\ MergeHistory'
<1>0. StoreTypes /\ GateSafe /\ MergeHistory
  BY DEF GateInv, RowInv, TypeInv, TypeOK
<1>1. UNCHANGED <<decider, approval, merger, branch>>
  BY DEF gateVars
<1>2. CASE UNCHANGED <<task, audit>>
  BY <1>0, <1>1, <1>2
  DEF GateSafe, BranchNeedsApproval, MergedIsWritten, RejectionIsFinal, MergeHistory, Logged
<1>3. CASE \E target \in ParentStatus \ {"MERGED"}, key \in IntentKeys \ {MergeKey} :
             RowMoves(target, key)
  <2>1. /\ task.status # "MERGED" /\ task'.status # "MERGED"
        /\ task.status = "REJECTED" => task'.status = "REJECTED"
        /\ Logged(MergeKey)' => Logged(MergeKey)
    BY <1>0, <1>3, OtherMoves
  <2> QED
    BY <1>0, <1>1, <2>1
    DEF GateSafe, BranchNeedsApproval, MergedIsWritten, RejectionIsFinal, MergeHistory
<1> QED
  BY <1>2, <1>3

\* Decisions: an approve changes the approval only, a reject closes the task.
LEMMA DecisionSteps ==
  ASSUME GateInv, NEW d \in Deciders,
         \/ \E decision \in Decisions, a \in Approvers : CheckDecision(d, decision, a)
         \/ CommitDecision(d) \/ EndDecision(d)
  PROVE  GateSafe' /\ MergeHistory'
<1>0. /\ StoreTypes /\ GateTypes /\ GateSafe /\ MergeHistory /\ CopiesPast
      /\ d \in Sessions
  BY SessionsAssumption DEF GateInv, RowInv, TypeInv, TypeOK
<1>1. UNCHANGED <<patch, merger, branch>>
  BY DEF CheckDecision, CommitDecision, EndDecision
<1>2. CASE UNCHANGED <<task, audit, approval>>
  BY <1>0, <1>1, <1>2
  DEF GateSafe, BranchNeedsApproval, MergedIsWritten, RejectionIsFinal, MergeHistory, Logged
<1>3. CASE approval = NoApproval /\ approval'.decision = "APPROVE" /\ UNCHANGED <<task, audit>>
  BY <1>0, <1>1, <1>3
  DEF GateSafe, BranchNeedsApproval, MergedIsWritten, RejectionIsFinal, MergeHistory, Logged
<1>4. CASE approval = NoApproval /\ Applied(d, "REJECTED", RejectKey) /\ Forget(d)
  <2>1. RowMoves("REJECTED", RejectKey)
    BY <1>0, <1>4, KeyTypes, AppliedWrites DEF ParentStatus
  <2>2. /\ task.status # "MERGED" /\ task'.status # "MERGED"
        /\ Logged(MergeKey)' => Logged(MergeKey)
    <3>1. "REJECTED" \in ParentStatus \ {"MERGED"} /\ RejectKey \in IntentKeys \ {MergeKey}
      BY KeyTypes DEF ParentStatus, RejectKey, MergeKey
    <3> QED
      BY <1>0, <2>1, <3>1, OtherMoves
  <2>3. task'.status = "REJECTED"
    BY <2>1 DEF RowMoves, Written
  <2>4. ~branch /\ \A m \in Mergers : merger[m] = "idle"
    BY <1>0, <1>4 DEF GateSafe, BranchNeedsApproval, NoApproval
  <2> QED
    BY <1>0, <1>1, <2>2, <2>3, <2>4
    DEF GateSafe, BranchNeedsApproval, MergedIsWritten, RejectionIsFinal, MergeHistory
<1>5. \/ UNCHANGED <<task, audit, approval>>
      \/ approval = NoApproval /\ approval'.decision = "APPROVE" /\ UNCHANGED <<task, audit>>
      \/ approval = NoApproval /\ Applied(d, "REJECTED", RejectKey) /\ Forget(d)
  BY DEF CheckDecision, CommitDecision, EndDecision
<1> QED
  BY <1>2, <1>3, <1>4, <1>5

\* Merges: no step of a merge request is taken without the approve.
LEMMA MergeSteps ==
  ASSUME GateInv, NEW m \in Mergers,
         CheckMerge(m) \/ WriteBranch(m) \/ FindBranchWritten(m) \/ CommitMerge(m)
  PROVE  GateSafe' /\ MergeHistory'
<1>0. /\ StoreTypes /\ GateTypes /\ GateSafe /\ MergeHistory /\ CopiesPast
      /\ m \in Sessions
  BY SessionsAssumption DEF GateInv, RowInv, TypeInv, TypeOK
<1>1. UNCHANGED approval /\ merger' \in [Mergers -> {"idle", "write", "commit"}]
  BY <1>0 DEF CheckMerge, WriteBranch, FindBranchWritten, CommitMerge, GateTypes
<1>2. approval.decision = "APPROVE"
  BY <1>0 DEF GateSafe, BranchNeedsApproval, CheckMerge, WriteBranch, FindBranchWritten, CommitMerge
<1>3. CASE CheckMerge(m)
  BY <1>0, <1>2, <1>3
  DEF CheckMerge, GateTypes, GateSafe, BranchNeedsApproval, MergedIsWritten, RejectionIsFinal,
      MergeHistory, Logged
<1>4. CASE WriteBranch(m)
  BY <1>0, <1>2, <1>4
  DEF WriteBranch, GateTypes, GateSafe, BranchNeedsApproval, MergedIsWritten, RejectionIsFinal,
      MergeHistory, Logged, storeVars
<1>5. CASE FindBranchWritten(m)
  BY <1>0, <1>2, <1>5
  DEF FindBranchWritten, GateTypes, GateSafe, BranchNeedsApproval, MergedIsWritten,
      RejectionIsFinal, MergeHistory, Logged
<1>6. CASE CommitMerge(m)
  <2>1. UNCHANGED <<approval, branch>> /\ branch
    BY <1>0, <1>6 DEF CommitMerge, MergeHistory
  <2>2. task'.status = "MERGED" <=> patch'.applied
    <3>1. CASE Applied(m, "MERGED", MergeKey) /\ patch' = [patch EXCEPT !.applied = TRUE]
      <4>1. task'.status = "MERGED"
        BY <3>1 DEF Applied, WriteIntent
      <4> QED
        BY <1>0, <3>1, <4>1 DEF StoreTypes
    <3>2. CASE /\ \E status \in ParentStatus : Replayed(m, MergeKey, status)
               /\ patch' = [patch EXCEPT !.applied = TRUE]
      BY <1>0, <3>2 DEF Replayed, MergeHistory, StoreTypes
    <3>3. CASE UNCHANGED <<task, audit, patch>>
      BY <1>0, <3>3 DEF GateSafe, MergedIsWritten
    <3> QED
      BY <1>6, <3>1, <3>2, <3>3 DEF CommitMerge, Refused
  <2>3. Logged(MergeKey)' => task'.status = "MERGED"
    <3>1. CASE UNCHANGED <<task, audit>>
      BY <1>0, <3>1 DEF MergeHistory, Logged
    <3>2. CASE Applied(m, "MERGED", MergeKey)
      BY <3>2 DEF Applied, WriteIntent
    <3> QED
      BY <1>6, <3>1, <3>2 DEF CommitMerge, Replayed, Refused
  <2> QED
    BY <1>0, <1>2, <2>1, <2>2, <2>3
    DEF GateSafe, BranchNeedsApproval, MergedIsWritten, RejectionIsFinal, MergeHistory
<1> QED
  BY <1>3, <1>4, <1>5, <1>6

\* The invariant of the gate is inductive.
LEMMA GateSteps ==
  ASSUME GateInv, [Next]_vars
  PROVE  GateSafe' /\ MergeHistory'
<1>0. TypeInv /\ StoreTypes /\ CopiesPast
  BY DEF GateInv, RowInv, TypeInv, TypeOK
<1>1. CASE RunMoves
  <2>1. UNCHANGED gateVars /\ patch'.applied = patch.applied
        /\ (UNCHANGED <<task, audit>> \/ RunWrites)
    BY <1>0, <1>1, RunSteps
  <2>2. ASSUME RunWrites
        PROVE  \E target \in ParentStatus \ {"MERGED"}, key \in IntentKeys \ {MergeKey} :
                 RowMoves(target, key)
    <3>1. PICK s \in Runs, target \in ParentStatus \ {"MERGED"},
               key \in IntentKeys \ {MergeKey, RejectKey} : Applied(s, target, key) /\ Forget(s)
      BY <2>2 DEF RunWrites
    <3>2. s \in Sessions
      BY SessionsAssumption
    <3>3. RowMoves(target, key)
      BY <1>0, <3>1, <3>2, AppliedWrites
    <3> QED
      BY <3>3
  <2> QED
    BY <2>1, <2>2, GateFrame
<1>2. CASE PeopleMove
  BY <1>2, DecisionSteps, MergeSteps DEF PeopleMove, GateStep
<1>3. CASE AdminResumes
  <2>1. PICK k \in ResumeKeys, target \in HumanResumeTargets : Resume(k, target)
    BY <1>3, ResumeAssumption DEF AdminResumes
  <2>2. /\ target \in ParentStatus \ {"MERGED"}
        /\ <<"resume", k>> \in IntentKeys \ {MergeKey}
    BY RunKeys DEF HumanResumeTargets
  <2>3. RowMoves(target, <<"resume", k>>)
    BY <1>0, <2>1 DEF Resume, HumanResumed, WriteIntent, RowMoves, Written
  <2> QED
    BY <2>1, <2>2, <2>3, GateFrame DEF Resume
<1>4. CASE Crash
  BY <1>4 DEF Crash, dataVars, GateInv, RowInv, TypeInv, TypeOK, GateTypes, GateSafe,
              BranchNeedsApproval, MergedIsWritten, RejectionIsFinal, MergeHistory, Logged
<1>5. CASE UNCHANGED vars
  BY <1>5, GateFrame DEF vars, storeVars
<1> QED
  BY <1>1, <1>2, <1>3, <1>4, <1>5 DEF Next

\* Only the request itself touches what it holds, and it does so when it checks and
\* when it ends.
LEMMA DeciderSteps ==
  ASSUME GateInv, [Next]_vars
  PROVE  DeciderHistory'
<1>0. /\ TypeInv /\ seen \in [Sessions -> Copies] /\ GateTypes /\ DeciderHistory
      /\ Deciders \subseteq Sessions
  BY SessionsAssumption DEF GateInv, RowInv, TypeInv, TypeOK, StoreTypes
<1>1. CASE RunMoves
  <2>1. UNCHANGED decider /\ \E r \in Runs : CopyMove(r)
    BY <1>0, <1>1, RunSteps DEF gateVars
  <2>2. \A d \in Deciders : seen'[d] = seen[d]
    BY <1>0, <2>1, DisjointAssumption DEF CopyMove
  <2> QED
    BY <1>0, <2>1, <2>2 DEF DeciderHistory
<1>2. CASE PeopleMove
  <2>1. ASSUME NEW d \in Deciders, NEW decision \in Decisions, NEW a \in Approvers,
               CheckDecision(d, decision, a)
        PROVE  DeciderHistory'
    BY <1>0, <2>1 DEF CheckDecision, Get, Row, DeciderHistory, GateTypes
  <2>2. ASSUME NEW d \in Deciders, CommitDecision(d) \/ EndDecision(d)
        PROVE  DeciderHistory'
    BY <1>0, <2>2 DEF CommitDecision, EndDecision, Forget, DeciderHistory, GateTypes
  <2>3. ASSUME NEW m \in Mergers,
               CheckMerge(m) \/ WriteBranch(m) \/ FindBranchWritten(m) \/ CommitMerge(m)
        PROVE  DeciderHistory'
    <3>1. UNCHANGED decider
      BY <2>3 DEF CheckMerge, WriteBranch, FindBranchWritten, CommitMerge
    <3>2. \A d \in Deciders : seen'[d] = seen[d]
      BY <1>0, <2>3, DisjointAssumption
      DEF CheckMerge, WriteBranch, FindBranchWritten, CommitMerge, Get, Forget, storeVars
    <3> QED
      BY <1>0, <3>1, <3>2 DEF DeciderHistory
  <2> QED
    BY <1>2, <2>1, <2>2, <2>3 DEF PeopleMove, GateStep
<1>3. CASE AdminResumes
  BY <1>0, <1>3 DEF AdminResumes, Resume, gateVars, DeciderHistory
<1>4. CASE Crash
  BY <1>4 DEF Crash, DeciderHistory
<1>5. CASE UNCHANGED vars
  BY <1>0, <1>5 DEF vars, storeVars, gateVars, DeciderHistory
<1> QED
  BY <1>1, <1>2, <1>3, <1>4, <1>5 DEF Next

\* The gate holds in every reachable state.
THEOREM GateCorrect == Spec => []GateInv
<1>1. Init /\ RowInv => GateInv
  BY DEF Init, StoreInit, GateInit, NoPatch, NoApproval, GateInv, GateSafe, BranchNeedsApproval,
         MergedIsWritten, RejectionIsFinal, MergeHistory, DeciderHistory, Logged
<1>2. GateInv /\ [Next]_vars /\ RowInv' => GateInv'
  BY GateSteps, DeciderSteps DEF GateInv
<1> QED
  BY <1>1, <1>2, RowCorrect, PTL DEF Spec

\* No write of the branch, and no merge, without an approve of the patch version.
THEOREM ApprovalCorrect == Spec => []BranchNeedsApproval
<1>1. GateInv => BranchNeedsApproval
  BY DEF GateInv, GateSafe
<1> QED
  BY <1>1, GateCorrect, PTL

\* The database says merged only of a patch that is on the branch.
THEOREM MergeCorrect == Spec => []MergedIsWritten
<1>1. GateInv => MergedIsWritten
  BY DEF GateInv, GateSafe
<1> QED
  BY <1>1, GateCorrect, PTL

\* A rejection is final and keeps the branch clean.
THEOREM RejectionCorrect == Spec => []RejectionIsFinal
<1>1. GateInv => RejectionIsFinal
  BY DEF GateInv, GateSafe
<1> QED
  BY <1>1, GateCorrect, PTL

\* -- Refinement -------------------------------------------------------------
\* A step that moves the task, and nothing else of the lifecycle, is a step of it.
LEMMA MoveRefines ==
  ASSUME StoreTypes, UNCHANGED <<approval, branch>>,
         \/ UNCHANGED <<task, audit>>
         \/ \E target \in ParentStatus \ {"MERGED"}, key \in IntentKeys : RowMoves(target, key)
  PROVE  [Lifecycle!Next]_(Lifecycle!lifecycleVars)
<1>1. CASE UNCHANGED task
  BY <1>1 DEF Lifecycle!lifecycleVars
<1>2. CASE \E target \in ParentStatus \ {"MERGED"}, key \in IntentKeys : RowMoves(target, key)
  <2>1. PICK target \in ParentStatus \ {"MERGED"}, key \in IntentKeys : RowMoves(target, key)
    BY <1>2
  <2>2. task'.status = target
    BY <2>1 DEF RowMoves, Written
  <2>3. CASE target = task.status
    BY <2>2, <2>3 DEF Lifecycle!lifecycleVars
  <2>4. CASE target \in ParentTransitions[task.status]
    BY <2>2, <2>4 DEF Lifecycle!Next, Lifecycle!Move, Lifecycle!ParentTransitions, ParentTransitions
  <2>5. CASE CanHumanResume(task.status, target)
    BY <2>2, <2>5
    DEF Lifecycle!Next, Lifecycle!Resume, Lifecycle!HumanResumeTargets, Lifecycle!ParentStatus,
        CanHumanResume, HumanResumeTargets, ParentStatus
  <2> QED
    BY <2>1, <2>3, <2>4, <2>5 DEF RowMoves, CanTransitionParent
<1> QED
  BY <1>1, <1>2

\* Decisions are the Approve and Reject of the lifecycle.
LEMMA DecisionRefines ==
  ASSUME GateInv, NEW d \in Deciders,
         \/ \E decision \in Decisions, a \in Approvers : CheckDecision(d, decision, a)
         \/ CommitDecision(d) \/ EndDecision(d)
  PROVE  [Lifecycle!Next]_(Lifecycle!lifecycleVars)
<1>0. StoreTypes /\ GateTypes /\ CopiesPast /\ d \in Sessions
  BY SessionsAssumption DEF GateInv, RowInv, TypeInv, TypeOK
<1>1. UNCHANGED branch
  BY DEF CheckDecision, CommitDecision, EndDecision
<1>2. CASE UNCHANGED <<task, approval>>
  BY <1>1, <1>2 DEF Lifecycle!lifecycleVars
<1>3. CASE approval = NoApproval /\ approval'.decision = "APPROVE" /\ UNCHANGED task
  BY <1>1, <1>3 DEF Lifecycle!Next, Lifecycle!Approve, NoApproval
<1>4. CASE /\ approval = NoApproval /\ approval'.decision = "REJECT"
           /\ decider[d] # Undecided
           /\ Applied(d, "REJECTED", RejectKey)
  <2>1. /\ task'.status = "REJECTED"
        /\ CanTransitionParent(task.status, "REJECTED")
    BY <1>4 DEF Applied, WriteIntent
  <2>2. task.status = "PENDING_APPROVAL"
    BY <1>0, <1>4 DEF GateInv, DeciderHistory, Applied, CopiesPast
  <2> QED
    BY <1>0, <1>1, <1>4, <2>1, <2>2 DEF Lifecycle!Next, Lifecycle!Reject, NoApproval
<1>5. \/ UNCHANGED <<task, approval>>
      \/ approval = NoApproval /\ approval'.decision = "APPROVE" /\ UNCHANGED task
      \/ /\ approval = NoApproval /\ approval'.decision = "REJECT"
         /\ decider[d] # Undecided
         /\ Applied(d, "REJECTED", RejectKey)
  BY <1>0 DEF CheckDecision, CommitDecision, EndDecision, GateTypes, Decisions, Undecided
<1> QED
  BY <1>2, <1>3, <1>4, <1>5

\* Merges are the Write and Merge of the lifecycle.
LEMMA MergeRefines ==
  ASSUME GateInv, NEW m \in Mergers,
         CheckMerge(m) \/ WriteBranch(m) \/ FindBranchWritten(m) \/ CommitMerge(m)
  PROVE  [Lifecycle!Next]_(Lifecycle!lifecycleVars)
<1>0. /\ StoreTypes /\ GateTypes /\ GateSafe /\ MergeHistory /\ CopiesPast
      /\ m \in Sessions
  BY SessionsAssumption DEF GateInv, RowInv, TypeInv, TypeOK
<1>1. UNCHANGED approval
  BY DEF CheckMerge, WriteBranch, FindBranchWritten, CommitMerge
<1>2. CASE UNCHANGED <<task, branch>>
  BY <1>1, <1>2 DEF Lifecycle!lifecycleVars
<1>3. CASE WriteBranch(m)
  <2>1. approval.decision = "APPROVE"
    BY <1>0, <1>3 DEF WriteBranch, GateSafe, BranchNeedsApproval
  <2>2. UNCHANGED task /\ ~branch /\ branch' = TRUE
    BY <1>3 DEF WriteBranch, storeVars
  <2> QED
    BY <1>1, <2>1, <2>2 DEF Lifecycle!Next, Lifecycle!Write
<1>4. CASE CommitMerge(m) /\ Applied(m, "MERGED", MergeKey)
  <2>1. task'.status = "MERGED" /\ CanTransitionParent(task.status, "MERGED")
    BY <1>4 DEF Applied, WriteIntent
  <2>2. task.status \in {"PENDING_APPROVAL", "MERGED"}
    BY <1>0, <2>1 DEF CanTransitionParent, ParentTransitions, StoreTypes, ParentStatus
  <2>3. UNCHANGED branch /\ branch
    BY <1>0, <1>4 DEF CommitMerge, MergeHistory
  <2> QED
    BY <1>0, <1>1, <2>1, <2>2, <2>3
    DEF Lifecycle!Next, Lifecycle!Merge, Lifecycle!lifecycleVars, GateTypes
<1>5. \/ UNCHANGED <<task, branch>>
      \/ WriteBranch(m)
      \/ CommitMerge(m) /\ Applied(m, "MERGED", MergeKey)
  BY DEF CheckMerge, FindBranchWritten, CommitMerge, Replayed, Refused
<1> QED
  BY <1>2, <1>3, <1>4, <1>5

\* The system implements the lifecycle it promises: every step of a run, a
\* request, an administrator or a crash is a step of TaskLifecycle or leaves the
\* status, the decision and the branch alone.
THEOREM LifecycleImplemented == Spec => ImplementsLifecycle
<1>1. Init => Lifecycle!Init
  BY DEF Init, StoreInit, GateInit, NoApproval, Lifecycle!Init
<1>2. GateInv /\ [Next]_vars => [Lifecycle!Next]_(Lifecycle!lifecycleVars)
  <2> SUFFICES ASSUME GateInv, [Next]_vars
               PROVE  [Lifecycle!Next]_(Lifecycle!lifecycleVars)
    OBVIOUS
  <2>0. TypeInv /\ StoreTypes /\ CopiesPast
    BY DEF GateInv, RowInv, TypeInv, TypeOK
  <2>1. CASE RunMoves
    <3>1. UNCHANGED <<approval, branch>> /\ (UNCHANGED <<task, audit>> \/ RunWrites)
      BY <2>0, <2>1, RunSteps DEF gateVars
    <3>2. RunWrites => \E target \in ParentStatus \ {"MERGED"}, key \in IntentKeys : RowMoves(target, key)
      BY <2>0, SessionsAssumption, AppliedWrites DEF RunWrites
    <3> QED
      BY <2>0, <3>1, <3>2, MoveRefines
  <2>2. CASE PeopleMove
    BY <2>2, DecisionRefines, MergeRefines DEF PeopleMove, GateStep
  <2>3. CASE AdminResumes
    <3>1. PICK k \in ResumeKeys, target \in HumanResumeTargets : Resume(k, target)
      BY <2>3, ResumeAssumption DEF AdminResumes
    <3>2. target \in ParentStatus \ {"MERGED"} /\ <<"resume", k>> \in IntentKeys
      BY RunKeys DEF HumanResumeTargets
    <3>3. RowMoves(target, <<"resume", k>>)
      BY <2>0, <3>1 DEF Resume, HumanResumed, WriteIntent, RowMoves, Written
    <3>4. UNCHANGED <<approval, branch>>
      BY <3>1 DEF Resume, gateVars
    <3> QED
      BY <2>0, <3>2, <3>3, <3>4, MoveRefines
  <2>4. CASE Crash
    BY <2>4 DEF Crash, Lifecycle!lifecycleVars
  <2>5. CASE UNCHANGED vars
    BY <2>5 DEF vars, storeVars, gateVars, Lifecycle!lifecycleVars
  <2> QED
    BY <2>1, <2>2, <2>3, <2>4, <2>5 DEF Next
<1> QED
  BY <1>1, <1>2, GateCorrect, PTL DEF Spec, ImplementsLifecycle, Lifecycle!Spec
====
