---- MODULE ReviewTypeProofs ----
\* Type correctness of ReviewSystem, for any number of runs, requests, keys and
\* crashes.
EXTENDS ReviewSystem, TLAPS

\* A run that executes a child knows which, and where to go on; one that parks has
\* an error with a code.
Executing == {"exec", "claim", "handle"}
Knows(x) ==
  /\ x.pc \in Executing \cup {"retry"} => x.todo # <<>>
  /\ x.pc \in Executing => x.then # "none"
  /\ x.pc = "park" => x.error # "broken"
BusyKnows == \A r \in Runs : Knows(run[r])

TypeInv == TypeOK /\ BusyKnows

\* The part of the types that a step of a run may disturb.
RunTypes == run \in [Runs -> LocalStates] /\ BusyKnows

\* The places where a run need not know anything.
Free == Places \ (Executing \cup {"retry", "park"})

Rows == [status : ParentStatus, version : Nat, humanFrom : ParentStatus \cup {"none"}]

\* -- The row ----------------------------------------------------------------
\* An intent written by any session keeps the row and its log well typed.
LEMMA WriteTypes ==
  ASSUME NEW s \in Sessions, NEW target \in ParentStatus, NEW key \in IntentKeys,
         StoreTypes, Applied(s, target, key)
  PROVE  task' \in Rows /\ audit' \in Seq(IntentKeys)
BY DEF StoreTypes, Applied, WriteIntent, Rows

\* A resume does so, too.
LEMMA ResumeTypes ==
  ASSUME NEW key \in ResumeKeys, NEW target \in HumanResumeTargets,
         StoreTypes, HumanResumed(target, <<"resume", key>>)
  PROVE  task' \in Rows /\ audit' \in Seq(IntentKeys)
BY DEF StoreTypes, HumanResumed, WriteIntent, HumanResumeTargets, IntentKeys, Rows

\* Getting the row, or being done with it, keeps what the sessions hold well typed.
LEMMA CopyTypes ==
  ASSUME NEW s \in Sessions, StoreTypes, Get(s) \/ Forget(s) \/ UNCHANGED seen
  PROVE  seen' \in [Sessions -> Copies]
<1>1. Row \in Copies
  BY DEF StoreTypes, Row, Copies
<1>2. Unread \in Copies
  BY DEF Unread, Copies, ParentStatus
<1> QED
  BY <1>1, <1>2 DEF StoreTypes, Get, Forget

\* -- The runs ---------------------------------------------------------------
\* A run whose new local state is one, and knows what it must.
LEMMA LocalTypes ==
  ASSUME NEW r \in Runs, NEW x \in LocalStates, Knows(x), RunTypes, run' = [run EXCEPT ![r] = x]
  PROVE  RunTypes'
<1>1. run' \in [Runs -> LocalStates] /\ run'[r] = x /\ \A q \in Runs \ {r} : run'[q] = run[q]
  BY DEF RunTypes
<1>2. \A q \in Runs : Knows(run'[q])
  BY <1>1 DEF RunTypes, BusyKnows
<1> QED
  BY <1>1, <1>2 DEF RunTypes, BusyKnows, Knows

\* A run that has nothing left.
LEMMA IdleTypes == Idle \in LocalStates /\ Knows(Idle)
BY DEF Idle, LocalStates, NoCopy, ChildCopies, Places, Knows, Executing

\* A run that goes to a place where it need not know anything stays well typed.
LEMMA GotoTypes ==
  ASSUME NEW r \in Runs, NEW pc \in Free, RunTypes, Goto(r, pc)
  PROVE  RunTypes'
<1> DEFINE x == [run[r] EXCEPT !.pc = pc]
<1>1. run[r] \in LocalStates /\ run' = [run EXCEPT ![r] = x]
  BY DEF RunTypes, Goto
<1>2. x \in LocalStates /\ x.pc = pc
  BY <1>1 DEF LocalStates, Free
<1>3. Knows(x)
  BY <1>2 DEF Knows, Free
<1> QED
  BY <1>1, <1>2, <1>3, LocalTypes

\* So does one that goes on with what the row says, ...
LEMMA OnwardTypes ==
  ASSUME NEW r \in Runs, NEW pc \in Free, RunTypes, Onward(r, pc)
  PROVE  RunTypes'
<1>1. run[r] \in LocalStates
  BY DEF RunTypes
<1>2. PICK auto \in BOOLEAN :
        run' = [run EXCEPT ![r] = IF pc = "idle" THEN Idle
                                  ELSE [run[r] EXCEPT !.pc = pc, !.auto = auto]]
  BY DEF Onward
<1> DEFINE x == [run[r] EXCEPT !.pc = pc, !.auto = auto]
<1>3. x \in LocalStates /\ x.pc = pc
  BY <1>1 DEF LocalStates, Free
<1>4. Knows(x)
  BY <1>3 DEF Knows, Free
<1> QED
  BY <1>2, <1>3, <1>4, IdleTypes, LocalTypes

\* ... one that ends, ...
LEMMA EndTypes ==
  ASSUME NEW r \in Runs, RunTypes, End(r)
  PROVE  RunTypes'
BY IdleTypes, LocalTypes DEF End

\* ... one that parks with an error code, ...
LEMMA ParkWithTypes ==
  ASSUME NEW r \in Runs, NEW code \in Codes \cup {"none"}, RunTypes, ParkWith(r, code)
  PROVE  RunTypes'
<1> DEFINE x == [Idle EXCEPT !.pc = "park", !.error = code]
<1>1. x \in LocalStates /\ x.pc = "park" /\ x.error = code
  BY IdleTypes DEF LocalStates, Places, Idle
<1>2. Knows(x)
  BY <1>1 DEF Knows, Executing, Codes, ChildCodes
<1> QED
  BY <1>1, <1>2, LocalTypes DEF ParkWith

\* ... a phase that starts to execute children, ...
LEMMA ExecuteTypes ==
  ASSUME NEW r \in Runs, NEW todo \in Seq(Kinds), todo # <<>>,
         NEW then \in {"settle", "collectfix", "collectverify"},
         RunTypes, Execute(r, todo, then)
  PROVE  RunTypes'
<1> DEFINE x == [run[r] EXCEPT !.pc = "exec", !.todo = todo, !.then = then, !.bad = {}]
<1>1. run[r] \in LocalStates /\ run' = [run EXCEPT ![r] = x]
  BY DEF RunTypes, Execute
<1>2. x \in LocalStates /\ x.pc = "exec" /\ x.todo = todo /\ x.then = then
  BY <1>1 DEF LocalStates, Places
<1>3. Knows(x)
  BY <1>2 DEF Knows
<1> QED
  BY <1>1, <1>2, <1>3, LocalTypes

\* ... and a run that is done with one child.
LEMMA NextChildTypes ==
  ASSUME NEW r \in Runs, NEW bad \in SUBSET Kinds, NEW error \in Codes \cup {"none", "broken"},
         run[r].pc \in Executing, RunTypes, NextChild(r, bad, error)
  PROVE  RunTypes'
<1> DEFINE rest == Tail(run[r].todo)
           pc == IF rest # <<>> THEN "exec" ELSE run[r].then
           then == IF rest # <<>> THEN run[r].then ELSE "none"
           x == [run[r] EXCEPT !.pc = pc, !.then = then, !.todo = rest, !.copy = NoCopy,
                               !.bad = bad, !.error = error]
<1>1. run[r] \in LocalStates /\ run[r].todo # <<>> /\ run[r].then # "none"
  BY DEF RunTypes, BusyKnows, Knows
<1>2. CASE ~(rest # <<>> \/ error = "none")
  BY <1>2, EndTypes, ParkWithTypes DEF NextChild
<1>3. CASE rest # <<>> \/ error = "none"
  <2>1. run' = [run EXCEPT ![r] = x]
    BY <1>3 DEF NextChild, RunTypes
  <2>2. /\ rest \in Seq(Kinds)
        /\ pc \in Places /\ (pc \in Executing \cup {"retry"} => pc = "exec" /\ rest # <<>>)
        /\ pc # "park"
        /\ then \in {"settle", "resettle", "collectfix", "collectverify", "none"}
        /\ pc = "exec" => then # "none"
    BY <1>1 DEF LocalStates, Places, Executing
  <2>3. NoCopy \in ChildCopies
    BY DEF NoCopy, ChildCopies
  <2> HIDE DEF rest, pc, then
  <2>4. x \in LocalStates /\ x.pc = pc /\ x.todo = rest /\ x.then = then
    BY <1>1, <2>2, <2>3 DEF LocalStates
  <2>5. Knows(x)
    BY <2>2, <2>4 DEF Knows, Executing
  <2> QED
    BY <2>1, <2>4, <2>5, LocalTypes
<1> QED
  BY <1>2, <1>3

\* The child a busy run works on exists.
LEMMA CurrentType ==
  ASSUME NEW r \in Runs, RunTypes, run[r].pc \in Executing \cup {"retry"}
  PROVE  Current(r) \in Kinds
<1>1. run[r].todo \in Seq(Kinds) /\ run[r].todo # <<>>
  BY DEF RunTypes, BusyKnows, Knows, LocalStates
<1> QED
  BY <1>1 DEF Current

\* An execution that raises.
LEMMA RaisedTypes ==
  ASSUME NEW r \in Runs, NEW code \in Codes \cup {"broken"}, run[r].pc \in Executing, RunTypes,
         Raised(r, code)
  PROVE  RunTypes'
<1> DEFINE error == IF run[r].error = "none" THEN code ELSE run[r].error
<1>1. run[r].bad \in SUBSET Kinds /\ error \in Codes \cup {"none", "broken"}
  BY DEF RunTypes, LocalStates
<1>2. NextChild(r, run[r].bad, error)
  BY DEF Raised
<1> HIDE DEF error
<1> QED
  BY <1>1, <1>2, NextChildTypes

\* An outcome of a child: the run goes on, or parks if its retry failed.
LEMMA ReturnedTypes ==
  ASSUME NEW r \in Runs, NEW status, NEW error, run[r].pc \in Executing, RunTypes,
         Returned(r, status, error)
  PROVE  RunTypes'
<1> DEFINE bad == run[r].bad \cup {c \in {Current(r)} : status = "failed"}
<1>1. run[r].bad \in SUBSET Kinds /\ run[r].error \in Codes \cup {"none", "broken"}
  BY DEF RunTypes, LocalStates
<1>2. Current(r) \in Kinds
  BY CurrentType
<1>3. bad \in SUBSET Kinds
  BY <1>1, <1>2
<1>4. RetryFailure(error) \in Codes \cup {"none"}
  BY DEF RetryFailure, Codes, ChildCodes
<1>5. ParkWith(r, RetryFailure(error)) \/ NextChild(r, bad, run[r].error)
  BY DEF Returned
<1> HIDE DEF bad
<1> QED
  BY <1>1, <1>3, <1>4, <1>5, ParkWithTypes, NextChildTypes

\* Submitting creates rows of the table.
LEMMA SubmitTypes ==
  ASSUME NEW kinds, child \in [Kinds -> ChildRows], Submit(kinds)
  PROVE  child' \in [Kinds -> ChildRows]
<1>1. NewChild \in ChildRows
  BY DEF NewChild, NoChild, ChildRows, ChildStatus
<1> QED
  BY <1>1 DEF Submit

\* The keys the program writes are intent keys.
LEMMA KeyTypes ==
  /\ \A c \in Commands : Key(c) \in IntentKeys
  /\ \A c \in Codes \cup {"none"} : ParkKey(c) \in IntentKeys
  /\ RejectKey \in IntentKeys /\ MergeKey \in IntentKeys
BY DEF IntentKeys, Key, ParkKey, RejectKey, MergeKey, Commands

\* -- The steps of a run -----------------------------------------------------
\* A run stays well typed while it applies an intent, whatever the outcome.
LEMMA IntendTypes ==
  ASSUME NEW r \in Runs, NEW target \in ParentStatus, NEW key \in IntentKeys,
         NEW go \in [ParentStatus -> Free], StoreTypes, RunTypes, Intend(r, target, key, go)
  PROVE  StoreTypes' /\ RunTypes' /\ UNCHANGED dataVars
<1>1. r \in Sessions
  BY SessionsAssumption
<1>2. seen' \in [Sessions -> Copies]
  BY <1>1, CopyTypes DEF Intend
<1>3. task' \in Rows /\ audit' \in Seq(IntentKeys)
  <2>1. Applied(r, target, key) \/ UNCHANGED <<task, audit>>
    BY DEF Intend, Replayed, Refused
  <2> QED
    BY <1>1, <2>1, WriteTypes DEF StoreTypes, Rows
<1>4. RunTypes'
  <2>1. \A status \in ParentStatus : Onward(r, go[status]) => RunTypes'
    BY OnwardTypes
  <2>2. {"ILLEGAL_STATE_TRANSITION", "STATE_VERSION_CONFLICT"} \subseteq Codes \cup {"none"}
    BY DEF Codes
  <2> QED
    BY <2>1, <2>2, ParkWithTypes DEF Intend
<1> QED
  BY <1>2, <1>3, <1>4 DEF Intend, dataVars, StoreTypes, Rows

\* Where the intents of a run lead, by the status of the row.
LEMMA GoTypes ==
  /\ \A pc \in {"idle", "planfix"} : Always(pc) \in [ParentStatus -> Free]
  /\ [Entry EXCEPT !["DRAFT"] = "idle"] \in [ParentStatus -> Free]
  /\ Entry \in [ParentStatus -> Free]
  /\ [Always("idle") EXCEPT !["REVIEWED"] = "fix"] \in [ParentStatus -> Free]
  /\ [Always("idle") EXCEPT !["REVIEWED"] = "idle"] \in [ParentStatus -> Free]
  /\ [Always("idle") EXCEPT !["TESTING"] = "verify"] \in [ParentStatus -> Free]
<1>1. {"idle", "enter", "plan", "fix", "verify", "planfix"} \subseteq Free
  BY DEF Free, Places, Executing
<1>2. \A status \in ParentStatus : Entry[status] \in {"idle", "enter", "plan", "fix", "verify"}
  BY DEF Entry
<1>3. Entry \in [ParentStatus -> Free]
  BY <1>1, <1>2 DEF Entry
<1> QED
  BY <1>1, <1>3 DEF Always

\* The actions of a run that apply an intent.
LEMMA IntentStepTypes ==
  ASSUME NEW r \in Runs, TypeInv,
         \/ EnterReviewing(r) \/ MarkReviewed(r) \/ StopOffline(r) \/ StopUnfixable(r)
         \/ EnterFixing(r) \/ EnterTesting(r) \/ RequestApproval(r)
  PROVE  StoreTypes' /\ RunTypes' /\ UNCHANGED dataVars
<1>0. StoreTypes /\ RunTypes /\ r \in Sessions
  BY SessionsAssumption DEF TypeInv, TypeOK, WorkTypes, RunTypes
<1>1. {"REVIEWING", "REVIEWED", "REJECTED", "FIXING", "TESTING", "PENDING_APPROVAL"} \subseteq ParentStatus
  BY DEF ParentStatus
<1>2. {"enter_reviewing", "reviewed", "offline_stop", "no_fix", "enter_fixing",
       "enter_testing:v1", "enter_pending_approval:v1"} \subseteq Commands
  BY DEF Commands
<1>3. \A target \in ParentStatus, c \in Commands, go \in [ParentStatus -> Free] :
         Intend(r, target, Key(c), go) => StoreTypes' /\ RunTypes' /\ UNCHANGED dataVars
  BY <1>0, KeyTypes, IntendTypes
<1>4. ASSUME Forget(r), UNCHANGED <<task, audit, dataVars>>,
             End(r) \/ (\E pc \in Free : Goto(r, pc) \/ Onward(r, pc))
      PROVE  StoreTypes' /\ RunTypes' /\ UNCHANGED dataVars
  BY <1>0, <1>4, CopyTypes, EndTypes, GotoTypes, OnwardTypes DEF StoreTypes, dataVars
<1>5. {"planfix", "idle", "verify"} \subseteq Free
  BY DEF Free, Places, Executing
<1>6. CASE EnterReviewing(r)
  BY <1>1, <1>2, <1>3, <1>6, GoTypes DEF EnterReviewing
<1>7. CASE MarkReviewed(r)
  BY <1>1, <1>2, <1>3, <1>7, GoTypes DEF MarkReviewed
<1>8. CASE StopOffline(r)
  BY <1>1, <1>2, <1>3, <1>8, GoTypes DEF StopOffline
<1>9. CASE StopUnfixable(r)
  BY <1>1, <1>2, <1>3, <1>9, GoTypes DEF StopUnfixable
<1>10. CASE EnterFixing(r)
  BY <1>1, <1>2, <1>3, <1>4, <1>5, <1>10, GoTypes DEF EnterFixing
<1>11. CASE EnterTesting(r)
  <2> DEFINE go == [Always("idle") EXCEPT !["TESTING"] = "verify"]
  <2>1. go \in [ParentStatus -> Free] /\ seen[r].status \in ParentStatus
    BY <1>0, GoTypes DEF StoreTypes, Copies
  <2>2. \/ Intend(r, "TESTING", Key("enter_testing:v1"), go)
        \/ Onward(r, go[seen[r].status]) /\ Forget(r) /\ UNCHANGED <<task, audit, dataVars>>
    BY <1>11 DEF EnterTesting
  <2> HIDE DEF go
  <2> QED
    BY <1>1, <1>2, <1>3, <1>4, <2>1, <2>2
<1>12. CASE RequestApproval(r)
  BY <1>1, <1>2, <1>3, <1>4, <1>12, GoTypes DEF RequestApproval
<1> QED
  BY <1>6, <1>7, <1>8, <1>9, <1>10, <1>11, <1>12

\* A row of the table that an execution has ended, or that was taken up again.
LEMMA EndedTypes ==
  ASSUME NEW r \in Runs, RunTypes, run[r].pc \in Executing \cup {"retry"},
         child \in [Kinds -> ChildRows],
         \/ \E output \in Outputs[Current(r)] :
              child' = [child EXCEPT ![Current(r)] = Counted(r, Completed(@, output))]
         \/ \E error \in ChildCodes : child' = [child EXCEPT ![Current(r)] = Counted(r, Failed(@, error))]
         \/ child' = [child EXCEPT ![Current(r)] = Retried(@)]
         \/ UNCHANGED child
  PROVE  child' \in [Kinds -> ChildRows]
<1> DEFINE c == Current(r)
<1>1. c \in Kinds /\ child[c] \in ChildRows
  BY CurrentType
<1>2. \A row \in ChildRows : Counted(r, row) \in ChildRows
  <2> SUFFICES ASSUME NEW row \in ChildRows PROVE Counted(r, row) \in ChildRows
    OBVIOUS
  <2>1. row.version + 1 \in Nat /\ row.version + 2 \in Nat
    BY DEF ChildRows
  <2>2. \A n \in Nat : [row EXCEPT !.version = n] \in ChildRows
    BY DEF ChildRows
  <2>3. \/ Counted(r, row) = [row EXCEPT !.version = row.version + 1]
        \/ Counted(r, row) = [row EXCEPT !.version = row.version + 2]
    BY DEF Counted
  <2> QED
    BY <2>1, <2>2, <2>3
<1>3. ASSUME NEW output \in Outputs[c] PROVE Completed(child[c], output) \in ChildRows
  <2>1. output \in {"fixable", "unfixable", "report", "inscope", "drift", "pass", "gap", "gate", "blocked", "none"}
    BY <1>1 DEF Outputs, Kinds
  <2> QED
    BY <1>1, <2>1 DEF Completed, ChildRows, ChildStatus
<1>4. ASSUME NEW error \in ChildCodes PROVE Failed(child[c], error) \in ChildRows
  <2>1. (child[c].late \/ error = "TASK_TIMEOUT") \in BOOLEAN
    OBVIOUS
  <2>2. PICK late \in BOOLEAN : late = (child[c].late \/ error = "TASK_TIMEOUT")
    BY <2>1, Zenon
  <2>3. Failed(child[c], error) = [child[c] EXCEPT !.status = "failed", !.error = error, !.late = late]
    BY <2>2, Zenon DEF Failed
  <2> QED
    BY <1>1, <2>3 DEF ChildRows, ChildStatus
<1>5. \A row \in ChildRows : Retried(row) \in ChildRows
  <2> SUFFICES ASSUME NEW row \in ChildRows PROVE Retried(row) \in ChildRows
    OBVIOUS
  <2>1. row.attempt + 1 \in Nat /\ row.version + 1 \in Nat
    BY DEF ChildRows
  <2> QED
    BY <2>1 DEF Retried, ChildRows, ChildStatus
<1>6. UNCHANGED child \/ \E row \in ChildRows : child' = [child EXCEPT ![c] = row]
  <2>1. CASE \E output \in Outputs[c] : child' = [child EXCEPT ![c] = Counted(r, Completed(@, output))]
    BY <1>1, <1>2, <1>3, <2>1
  <2>2. CASE \E error \in ChildCodes : child' = [child EXCEPT ![c] = Counted(r, Failed(@, error))]
    BY <1>1, <1>2, <1>4, <2>2
  <2>3. CASE child' = [child EXCEPT ![c] = Retried(@)]
    BY <1>1, <1>5, <2>3
  <2> QED
    BY <2>1, <2>2, <2>3
<1> QED
  BY <1>1, <1>6

\* The actions of a run that execute a child.
LEMMA ChildStepTypes ==
  ASSUME NEW r \in Runs, TypeInv,
         \/ PlanReview(r) \/ PlanFix(r) \/ PlanVerify(r)
         \/ ReadChild(r) \/ ClaimChild(r) \/ CompleteChild(r) \/ FailChild(r)
  PROVE  /\ RunTypes' /\ child' \in [Kinds -> ChildRows]
         /\ UNCHANGED <<storeVars, offline, comments, patch, sandbox>>
<1>0. RunTypes /\ child \in [Kinds -> ChildRows] /\ run[r] \in LocalStates
  BY DEF TypeInv, TypeOK, WorkTypes, RunTypes
<1>1. /\ <<"fix">> \in Seq(Kinds) /\ <<"fix">> # <<>>
      /\ <<"verify">> \in Seq(Kinds) /\ <<"verify">> # <<>>
      /\ Pipeline \in Seq(Kinds) /\ Pipeline # <<>>
  BY DEF Kinds, Pipeline
<1>2. CASE PlanReview(r)
  BY <1>0, <1>1, <1>2, SubmitTypes, ExecuteTypes DEF PlanReview
<1>3. CASE PlanFix(r)
  BY <1>0, <1>1, <1>3, SubmitTypes, ExecuteTypes DEF PlanFix
<1>4. CASE PlanVerify(r)
  <2>1. "PATCH_INVALID" \in Codes \cup {"none"}
    BY DEF Codes, ChildCodes
  <2> QED
    BY <1>0, <1>1, <1>4, <2>1, SubmitTypes, ExecuteTypes, ParkWithTypes DEF PlanVerify
<1>5. CASE ReadChild(r)
  <2>1. run[r].pc \in Executing /\ Current(r) \in Kinds
    BY <1>0, <1>5, CurrentType DEF ReadChild, At, Executing
  <2>2. UNCHANGED <<storeVars, dataVars>>
    BY <1>5 DEF ReadChild
  <2>3. CASE OfChild(r).status \in ChildTerminal
    BY <1>0, <1>5, <2>1, <2>2, <2>3, ReturnedTypes DEF ReadChild, dataVars
  <2>4. CASE OfChild(r).status \notin ChildTerminal
    <3> DEFINE pc == IF OfChild(r).status = "submitted" THEN "claim" ELSE "handle"
               x == [run[r] EXCEPT !.pc = pc, !.copy = CopyOf(OfChild(r))]
    <3>1. CopyOf(OfChild(r)) \in ChildCopies
      BY <1>0, <2>1 DEF CopyOf, OfChild, ChildRows, ChildCopies
    <3>2. pc \in Executing /\ pc \in Places
      BY DEF Executing, Places
    <3>3. run[r].todo # <<>> /\ run[r].then # "none"
      BY <1>0, <2>1 DEF RunTypes, BusyKnows, Knows
    <3>4. run' = [run EXCEPT ![r] = x]
      BY <1>0, <1>5, <2>4 DEF ReadChild, RunTypes
    <3> HIDE DEF pc
    <3>5. x \in LocalStates /\ x.pc = pc /\ x.todo = run[r].todo /\ x.then = run[r].then
      BY <1>0, <3>1, <3>2 DEF LocalStates
    <3>6. Knows(x)
      BY <3>2, <3>3, <3>5 DEF Knows, Executing
    <3> QED
      BY <1>0, <2>2, <3>4, <3>5, <3>6, LocalTypes DEF dataVars
  <2> QED
    BY <2>3, <2>4
<1>6. CASE ClaimChild(r)
  <2>1. run[r].pc \in Executing /\ Current(r) \in Kinds
    BY <1>0, <1>6, CurrentType DEF ClaimChild, At, Executing
  <2>2. UNCHANGED <<storeVars, dataVars>>
    BY <1>6 DEF ClaimChild
  <2>3. CASE \E code \in {"IDEMPOTENCY_CONFLICT", "STATE_VERSION_CONFLICT"} : Raised(r, code)
    BY <1>0, <2>1, <2>2, <2>3, RaisedTypes DEF Codes, dataVars
  <2>4. ASSUME NEW copy \in ChildCopies, run' = [run EXCEPT ![r].pc = "handle", ![r].copy = copy]
        PROVE  RunTypes'
    <3> DEFINE x == [run[r] EXCEPT !.pc = "handle", !.copy = copy]
    <3>1. run[r].todo # <<>> /\ run[r].then # "none"
      BY <1>0, <2>1 DEF RunTypes, BusyKnows, Knows
    <3>2. run' = [run EXCEPT ![r] = x]
      BY <1>0, <2>4 DEF RunTypes
    <3>3. x \in LocalStates /\ x.pc = "handle" /\ x.todo = run[r].todo /\ x.then = run[r].then
      BY <1>0 DEF LocalStates, Places
    <3>4. Knows(x)
      BY <3>1, <3>3 DEF Knows
    <3> QED
      BY <1>0, <3>2, <3>3, <3>4, LocalTypes
  <2>5. CopyOf(OfChild(r)) \in ChildCopies /\ run[r].copy \in ChildCopies
    BY <1>0, <2>1 DEF CopyOf, OfChild, ChildRows, ChildCopies, LocalStates
  <2>6. Goto(r, "handle") => run' = [run EXCEPT ![r].pc = "handle", ![r].copy = run[r].copy]
    BY <1>0 DEF Goto, RunTypes, LocalStates
  <2> QED
    BY <1>0, <1>6, <2>2, <2>3, <2>4, <2>5, <2>6 DEF ClaimChild, dataVars
<1>7. CASE CompleteChild(r)
  <2>1. run[r].pc \in Executing
    BY <1>7 DEF CompleteChild, At, Executing
  <2>2. UNCHANGED <<storeVars, offline, comments, patch, sandbox>>
    BY <1>7 DEF CompleteChild
  <2>3. \A e \in CompletionErrors(r) : e \in Codes \cup {"broken"}
    BY DEF CompletionErrors, Codes
  <2>4. RunTypes'
    BY <1>0, <1>7, <2>1, <2>3, ReturnedTypes, RaisedTypes DEF CompleteChild
  <2>5. \/ UNCHANGED child
        \/ \E output \in Outputs[Current(r)] :
             child' = [child EXCEPT ![Current(r)] = Counted(r, Completed(@, output))]
    BY <1>7 DEF CompleteChild
  <2>6. child' \in [Kinds -> ChildRows]
    BY <1>0, <2>1, <2>5, EndedTypes
  <2> QED
    BY <2>2, <2>4, <2>6
<1>8. CASE FailChild(r)
  <2>1. run[r].pc \in Executing /\ Current(r) \in Kinds
    BY <1>0, <1>8, CurrentType DEF FailChild, At, Executing
  <2>2. UNCHANGED <<storeVars, offline, comments, patch, sandbox>>
    BY <1>8 DEF FailChild
  <2>3. \A e \in FailureErrors(r) : e \in Codes \cup {"broken"}
    BY DEF FailureErrors, Codes
  <2>4. Failures(r) \subseteq ChildCodes
    BY <2>1 DEF Failures, HandlerErrors, Kinds, ChildCodes
  <2>5. RunTypes'
    BY <1>0, <1>8, <2>1, <2>3, ReturnedTypes, RaisedTypes DEF FailChild
  <2>6. \/ UNCHANGED child
        \/ \E error \in ChildCodes : child' = [child EXCEPT ![Current(r)] = Counted(r, Failed(@, error))]
    BY <1>8, <2>4 DEF FailChild
  <2>7. child' \in [Kinds -> ChildRows]
    BY <1>0, <2>1, <2>6, EndedTypes
  <2> QED
    BY <2>2, <2>5, <2>7
<1> QED
  BY <1>2, <1>3, <1>4, <1>5, <1>6, <1>7, <1>8

\* The actions of a run that retry a child.
LEMMA RetryStepTypes ==
  ASSUME NEW r \in Runs, TypeInv, SettleReview(r) \/ RetryChild(r)
  PROVE  /\ RunTypes' /\ child' \in [Kinds -> ChildRows]
         /\ UNCHANGED <<storeVars, offline, comments, patch, sandbox>>
<1>0. RunTypes /\ child \in [Kinds -> ChildRows] /\ run[r] \in LocalStates
  BY DEF TypeInv, TypeOK, WorkTypes, RunTypes
<1>1. CASE SettleReview(r)
  <2> DEFINE c == FirstBad(r)
  <2>1. c \in Kinds /\ UNCHANGED <<storeVars, dataVars>> /\ run[r].pc \in {"settle", "resettle"}
    BY <1>1 DEF SettleReview, FirstBad, Kinds, At
  <2>2. CASE Goto(r, "collect")
    <3>1. "collect" \in Free
      BY DEF Free, Places, Executing
    <3> QED
      BY <1>0, <2>1, <2>2, <3>1, GotoTypes DEF dataVars
  <2>3. CASE run' = [run EXCEPT ![r].bad = @ \ {c}]
    <3> DEFINE x == [run[r] EXCEPT !.bad = @ \ {c}]
    <3>1. run' = [run EXCEPT ![r] = x]
      BY <1>0, <2>3 DEF RunTypes
    <3>2. x \in LocalStates /\ x.pc = run[r].pc
      BY <1>0 DEF LocalStates
    <3>3. Knows(x)
      BY <2>1, <3>2 DEF Knows, Executing
    <3> QED
      BY <1>0, <2>1, <3>1, <3>2, <3>3, LocalTypes DEF dataVars
  <2>4. CASE run' = [run EXCEPT ![r].pc = "retry", ![r].todo = <<c>>, ![r].bad = @ \ {c},
                                ![r].copy = CopyOf(child[c])]
    <3> DEFINE copy == CopyOf(child[c])
               x == [run[r] EXCEPT !.pc = "retry", !.todo = <<c>>, !.bad = @ \ {c}, !.copy = copy]
    <3>1. copy \in ChildCopies
      BY <1>0, <2>1 DEF CopyOf, ChildRows, ChildCopies
    <3>2. run' = [run EXCEPT ![r] = x]
      BY <1>0, <2>4 DEF RunTypes
    <3> HIDE DEF copy
    <3>3. <<c>> \in Seq(Kinds) /\ <<c>> # <<>>
      BY <2>1
    <3>4. x \in LocalStates /\ x.pc = "retry" /\ x.todo = <<c>>
      BY <1>0, <3>1, <3>3 DEF LocalStates, Places
    <3>5. Knows(x)
      BY <3>3, <3>4 DEF Knows, Executing
    <3> QED
      BY <1>0, <2>1, <3>2, <3>4, <3>5, LocalTypes DEF dataVars
  <2> QED
    BY <1>1, <2>2, <2>3, <2>4 DEF SettleReview
<1>2. CASE RetryChild(r)
  <2>1. UNCHANGED <<storeVars, offline, comments, patch, sandbox>> /\ run[r].pc = "retry"
    BY <1>2 DEF RetryChild, At
  <2>2. child' = [child EXCEPT ![Current(r)] = Retried(@)] \/ UNCHANGED child
    BY <1>2 DEF RetryChild
  <2>3. child' \in [Kinds -> ChildRows]
    BY <1>0, <2>1, <2>2, EndedTypes
  <2>4. CASE Reexecute(r)
    <3> DEFINE x == [run[r] EXCEPT !.pc = "exec", !.copy = NoCopy, !.then = "resettle"]
    <3>1. run' = [run EXCEPT ![r] = x] /\ run[r].todo # <<>>
      BY <1>0, <2>1, <2>4 DEF Reexecute, RunTypes, BusyKnows, Knows
    <3>2. NoCopy \in ChildCopies
      BY DEF NoCopy, ChildCopies
    <3>3. x \in LocalStates /\ x.pc = "exec" /\ x.todo = run[r].todo /\ x.then = "resettle"
      BY <1>0, <3>2 DEF LocalStates, Places
    <3>4. Knows(x)
      BY <3>1, <3>3 DEF Knows
    <3> QED
      BY <1>0, <2>1, <2>3, <3>1, <3>3, <3>4, LocalTypes
  <2>5. CASE ParkWith(r, "STATE_VERSION_CONFLICT")
    <3>1. "STATE_VERSION_CONFLICT" \in Codes \cup {"none"}
      BY DEF Codes
    <3> QED
      BY <1>0, <2>1, <2>3, <2>5, <3>1, ParkWithTypes
  <2> QED
    BY <1>2, <2>4, <2>5 DEF RetryChild
<1> QED
  BY <1>1, <1>2

\* The actions of a run that look at its results or at the task, or start and end it.
LEMMA CollectStepTypes ==
  ASSUME NEW r \in Runs, TypeInv,
         \/ CollectReview(r) \/ CollectFix(r) \/ CollectVerify(r) \/ LoseInsertRace(r)
         \/ StartRun(r) \/ Schedule(r) \/ TriggerFix(r) \/ Look(r)
  PROVE  /\ StoreTypes' /\ RunTypes' /\ comments' \in BOOLEAN
         /\ sandbox' \in SUBSET {"verify-child", "prescan-blocked"}
         /\ UNCHANGED <<task, audit, offline, child>>
         /\ Get(r) \/ UNCHANGED seen
<1>0. /\ RunTypes /\ WorkTypes /\ StoreTypes /\ r \in Sessions
      /\ child \in [Kinds -> ChildRows] /\ comments \in BOOLEAN /\ run[r] \in LocalStates
      /\ sandbox \in SUBSET {"verify-child", "prescan-blocked"}
  BY SessionsAssumption DEF TypeInv, TypeOK, WorkTypes, RunTypes
<1>1. \A pc \in {"reviewed", "testing", "approval"} : Goto(r, pc) => RunTypes'
  BY <1>0, GotoTypes DEF Free, Places, Executing
<1>2. \A code \in Codes \cup {"none"} : ParkWith(r, code) => RunTypes'
  BY <1>0, ParkWithTypes
<1>3. \A c \in Kinds : child[c].error \in Codes \cup {"none"}
  BY <1>0 DEF ChildRows, Codes
<1>4. "fix" \in Kinds /\ "verify" \in Kinds
  BY DEF Kinds
<1>5. {"QUALITY_GATE_FAILED", "ARTIFACT_SCHEMA_INVALID", "SCOPE_DRIFT", "SANDBOX_VIOLATION",
       "TEST_GAP"} \subseteq Codes
  BY DEF Codes
<1>6. End(r) => RunTypes'
  BY <1>0, EndTypes
<1>7. CASE CollectReview(r)
  <2>1. UNCHANGED <<storeVars, patch, offline, child, sandbox>> /\ comments' \in BOOLEAN
    BY <1>0, <1>7 DEF CollectReview
  <2>2. RunTypes'
    BY <1>1, <1>2, <1>5, <1>7 DEF CollectReview
  <2> QED
    BY <1>0, <2>1, <2>2 DEF storeVars, StoreTypes
<1>8. CASE CollectFix(r)
  <2>1. UNCHANGED <<storeVars, offline, child, sandbox, comments>>
    BY <1>8 DEF CollectFix
  <2>2. RunTypes'
    BY <1>1, <1>2, <1>3, <1>4, <1>5, <1>8 DEF CollectFix
  <2>3. patch' \in [exists : BOOLEAN, drift : BOOLEAN, evidence : BOOLEAN, applied : BOOLEAN]
    BY <1>0, <1>8 DEF CollectFix, StoreTypes
  <2> QED
    BY <1>0, <2>1, <2>2, <2>3 DEF storeVars, StoreTypes
<1>9. CASE CollectVerify(r)
  <2>1. UNCHANGED <<storeVars, offline, child, comments>>
    BY <1>9 DEF CollectVerify
  <2>2. RunTypes'
    BY <1>1, <1>2, <1>3, <1>4, <1>5, <1>6, <1>9 DEF CollectVerify, GateFailure
  <2>3. /\ patch' \in [exists : BOOLEAN, drift : BOOLEAN, evidence : BOOLEAN, applied : BOOLEAN]
        /\ sandbox' \in SUBSET {"verify-child", "prescan-blocked"}
    BY <1>0, <1>9 DEF CollectVerify, StoreTypes, SandboxKey
  <2> QED
    BY <1>0, <2>1, <2>2, <2>3 DEF storeVars, StoreTypes
<1>10. CASE LoseInsertRace(r)
  BY <1>0, <1>6, <1>10 DEF LoseInsertRace, dataVars, storeVars, StoreTypes
<1>11. CASE StartRun(r)
  <2>1. UNCHANGED <<task, audit, dataVars>> /\ (Get(r) \/ UNCHANGED seen)
    BY <1>11 DEF StartRun
  <2>2. seen' \in [Sessions -> Copies]
    BY <1>0, <2>1, CopyTypes
  <2>3. Entry[task.status] \in Free
    BY <1>0, GoTypes DEF StoreTypes
  <2>4. RunTypes'
    BY <1>0, <1>11, <2>3, OnwardTypes DEF StartRun
  <2> QED
    BY <1>0, <2>1, <2>2, <2>4 DEF dataVars, StoreTypes
<1>12. CASE Schedule(r) \/ TriggerFix(r)
  <2>1. PICK auto \in BOOLEAN : run' = [run EXCEPT ![r].pc = "queued", ![r].auto = auto]
    BY <1>12 DEF Schedule, TriggerFix
  <2> DEFINE x == [run[r] EXCEPT !.pc = "queued", !.auto = auto]
  <2>2. run' = [run EXCEPT ![r] = x]
    BY <1>0, <2>1 DEF RunTypes
  <2>3. x \in LocalStates /\ x.pc = "queued"
    BY <1>0 DEF LocalStates, Places
  <2>4. Knows(x)
    BY <2>3 DEF Knows, Executing
  <2>5. UNCHANGED <<storeVars, dataVars>>
    BY <1>12 DEF Schedule, TriggerFix
  <2> QED
    BY <1>0, <2>2, <2>3, <2>4, <2>5, LocalTypes DEF storeVars, dataVars, StoreTypes
<1>13. CASE Look(r)
  <2>1. UNCHANGED <<task, audit, run, dataVars>> /\ Get(r)
    BY <1>13 DEF Look
  <2>2. seen' \in [Sessions -> Copies]
    BY <1>0, <2>1, CopyTypes
  <2> QED
    BY <1>0, <2>1, <2>2 DEF dataVars, StoreTypes, RunTypes, BusyKnows
<1> QED
  BY <1>7, <1>8, <1>9, <1>10, <1>11, <1>12, <1>13

\* The error a run parks with is one, and its intent well typed.
LEMMA ParkedError ==
  ASSUME NEW r \in Runs, TypeInv, Park(r)
  PROVE  ParkTarget(run[r].error) \in ParentStatus /\ ParkKey(run[r].error) \in IntentKeys
<1>1. run[r].error \in Codes \cup {"none", "broken"} /\ run[r].error # "broken"
  BY DEF TypeInv, TypeOK, WorkTypes, LocalStates, BusyKnows, Knows, Park, Looked, At
<1> QED
  BY <1>1, KeyTypes DEF ParkTarget, ParentStatus

\* A park writes one intent at most, and ends the run.
LEMMA ParkTypes ==
  ASSUME NEW r \in Runs, TypeInv, Park(r)
  PROVE  StoreTypes' /\ RunTypes' /\ UNCHANGED dataVars
<1> DEFINE target == ParkTarget(run[r].error)
           key == ParkKey(run[r].error)
<1>1. StoreTypes /\ RunTypes /\ r \in Sessions
  BY SessionsAssumption DEF TypeInv, TypeOK, WorkTypes, RunTypes
<1>2. target \in ParentStatus /\ key \in IntentKeys
  BY ParkedError
<1>3. RunTypes' /\ Forget(r) /\ UNCHANGED dataVars
  BY <1>1, EndTypes DEF Park
<1>4. Applied(r, target, key) \/ UNCHANGED <<task, audit>>
  BY DEF Park, Replayed, Refused
<1>5. task' \in Rows /\ audit' \in Seq(IntentKeys)
  BY <1>1, <1>2, <1>4, WriteTypes DEF StoreTypes, Rows
<1>6. seen' \in [Sessions -> Copies]
  BY <1>1, <1>3, CopyTypes
<1> QED
  BY <1>1, <1>3, <1>5, <1>6 DEF StoreTypes, dataVars, Rows


\* A step of a run, of any kind.
LEMMA RunMoveTypes ==
  ASSUME TypeInv, RunMoves
  PROVE  TypeInv'
<1>1. PICK r \in Runs : Schedule(r) \/ TriggerFix(r) \/ RunStep(r)
  BY DEF RunMoves
<1>2. UNCHANGED <<gateVars, crashes>>
  BY DEF RunMoves
<1>3. GateTypes' /\ crashes' \in 0..MaxCrashes
  BY <1>2 DEF TypeInv, TypeOK, GateTypes, gateVars
<1>4. StoreTypes /\ WorkTypes
  BY DEF TypeInv, TypeOK
<1>5. CASE \/ EnterReviewing(r) \/ MarkReviewed(r) \/ StopOffline(r) \/ StopUnfixable(r)
           \/ EnterFixing(r) \/ EnterTesting(r) \/ RequestApproval(r)
  BY <1>3, <1>4, <1>5, IntentStepTypes DEF TypeInv, TypeOK, WorkTypes, RunTypes, dataVars
<1>6. CASE \/ PlanReview(r) \/ PlanFix(r) \/ PlanVerify(r)
           \/ ReadChild(r) \/ ClaimChild(r) \/ CompleteChild(r) \/ FailChild(r)
  BY <1>3, <1>4, <1>6, ChildStepTypes
  DEF TypeInv, TypeOK, StoreTypes, WorkTypes, RunTypes, storeVars
<1>7. CASE SettleReview(r) \/ RetryChild(r)
  BY <1>3, <1>4, <1>7, RetryStepTypes
  DEF TypeInv, TypeOK, StoreTypes, WorkTypes, RunTypes, storeVars
<1>8. CASE \/ CollectReview(r) \/ CollectFix(r) \/ CollectVerify(r) \/ LoseInsertRace(r)
           \/ StartRun(r) \/ Schedule(r) \/ TriggerFix(r) \/ Look(r)
  BY <1>3, <1>4, <1>8, CollectStepTypes DEF TypeInv, TypeOK, WorkTypes, RunTypes
<1>9. CASE Park(r)
  BY <1>3, <1>4, <1>9, ParkTypes DEF TypeInv, TypeOK, WorkTypes, RunTypes, dataVars
<1> QED
  BY <1>1, <1>5, <1>6, <1>7, <1>8, <1>9 DEF RunStep

\* A step of a decision or merge request.
LEMMA PeopleMoveTypes ==
  ASSUME TypeInv, PeopleMove
  PROVE  TypeInv'
<1>0. StoreTypes /\ GateTypes
  BY DEF TypeInv, TypeOK
<1>1. WorkTypes' /\ BusyKnows' /\ crashes' \in 0..MaxCrashes
  BY DEF TypeInv, TypeOK, PeopleMove, WorkTypes, BusyKnows, Knows
<1>2. "REJECTED" \in ParentStatus /\ "MERGED" \in ParentStatus
  BY DEF ParentStatus
<1>3. SUFFICES StoreTypes' /\ GateTypes'
  BY <1>1 DEF TypeInv, TypeOK
<1>4. ASSUME NEW d \in Deciders, NEW decision \in Decisions, NEW a \in Approvers,
             CheckDecision(d, decision, a)
      PROVE  StoreTypes' /\ GateTypes'
  <2>1. d \in Sessions
    BY SessionsAssumption
  <2>2. seen' \in [Sessions -> Copies]
    BY <1>0, <1>4, <2>1, CopyTypes DEF CheckDecision, StoreTypes
  <2> QED
    BY <1>0, <1>4, <2>2 DEF CheckDecision, StoreTypes, GateTypes
<1>5. ASSUME NEW d \in Deciders, CommitDecision(d)
      PROVE  StoreTypes' /\ GateTypes'
  <2>1. d \in Sessions /\ decider[d] \in [decision : Decisions, by : Approvers]
    BY <1>0, <1>5, SessionsAssumption DEF CommitDecision, GateTypes
  <2>2. /\ task' \in Rows
        /\ audit' \in Seq(IntentKeys)
    BY <1>0, <1>2, <1>5, <2>1, KeyTypes, WriteTypes DEF CommitDecision, StoreTypes, Rows
  <2>3. seen' \in [Sessions -> Copies]
    BY <1>0, <1>5, <2>1, <2>2, CopyTypes DEF CommitDecision
  <2>4. approval' \in [decision : Decisions, by : Approvers]
    BY <1>5, <2>1 DEF CommitDecision
  <2> QED
    BY <1>0, <1>5, <2>2, <2>3, <2>4 DEF CommitDecision, StoreTypes, GateTypes, Rows
<1>6. ASSUME NEW d \in Deciders, EndDecision(d)
      PROVE  StoreTypes' /\ GateTypes'
  <2>1. d \in Sessions
    BY SessionsAssumption
  <2>2. seen' \in [Sessions -> Copies]
    BY <1>0, <1>6, <2>1, CopyTypes DEF EndDecision, StoreTypes
  <2> QED
    BY <1>0, <1>6, <2>2 DEF EndDecision, StoreTypes, GateTypes
<1>7. ASSUME NEW m \in Mergers, CheckMerge(m) \/ WriteBranch(m) \/ FindBranchWritten(m)
      PROVE  StoreTypes' /\ GateTypes'
  <2>1. m \in Sessions
    BY SessionsAssumption
  <2>2. seen' \in [Sessions -> Copies]
    BY <1>0, <1>7, <2>1, CopyTypes
    DEF CheckMerge, WriteBranch, FindBranchWritten, storeVars
  <2>3. UNCHANGED <<task, audit, patch, decider, approval>>
    BY <1>7 DEF CheckMerge, WriteBranch, FindBranchWritten, storeVars
  <2>4. branch' \in BOOLEAN
    BY <1>0, <1>7 DEF CheckMerge, WriteBranch, FindBranchWritten, GateTypes
  <2>5. merger' \in [Mergers -> {"idle", "write", "commit"}]
    BY <1>0, <1>7 DEF CheckMerge, WriteBranch, FindBranchWritten, GateTypes
  <2> QED
    BY <1>0, <2>2, <2>3, <2>4, <2>5 DEF StoreTypes, GateTypes
<1>8. ASSUME NEW m \in Mergers, CommitMerge(m)
      PROVE  StoreTypes' /\ GateTypes'
  <2>1. m \in Sessions
    BY SessionsAssumption
  <2>2. Applied(m, "MERGED", MergeKey) \/ UNCHANGED <<task, audit>>
    BY <1>8 DEF CommitMerge, Replayed, Refused
  <2>3. /\ task' \in Rows
        /\ audit' \in Seq(IntentKeys)
    BY <1>0, <1>2, <2>1, <2>2, KeyTypes, WriteTypes DEF StoreTypes, Rows
  <2>4. seen' \in [Sessions -> Copies]
    BY <1>0, <1>8, <2>1, <2>3, CopyTypes DEF CommitMerge
  <2> QED
    BY <1>0, <1>8, <2>3, <2>4 DEF CommitMerge, StoreTypes, GateTypes, Rows
<1> QED
  BY <1>4, <1>5, <1>6, <1>7, <1>8 DEF PeopleMove, GateStep

\* The inductive invariant: the types, and what a busy run knows.
THEOREM TypeInvariant == Spec => []TypeInv
<1>1. Init => TypeInv
  <2> SUFFICES ASSUME Init PROVE TypeInv
    OBVIOUS
  <2>1. StoreTypes
    BY DEF Init, StoreInit, StoreTypes, ParentStatus, Unread, Copies, NoPatch
  <2>2. Idle \in LocalStates /\ Knows(Idle)
    BY IdleTypes
  <2>3. NoChild \in ChildRows
    BY DEF NoChild, ChildRows
  <2>4. WorkTypes
    BY <2>2, <2>3 DEF Init, CoordInit, WorkTypes
  <2>5. GateTypes
    BY DEF Init, GateInit, GateTypes
  <2>6. BusyKnows
    BY <2>2 DEF Init, CoordInit, BusyKnows
  <2> QED
    BY <2>1, <2>4, <2>5, <2>6, CrashAssumption DEF Init, TypeInv, TypeOK
<1>2. TypeInv /\ [Next]_vars => TypeInv'
  <2> SUFFICES ASSUME TypeInv, [Next]_vars PROVE TypeInv'
    OBVIOUS
  <2>1. CASE RunMoves
    BY <2>1, RunMoveTypes
  <2>2. CASE PeopleMove
    BY <2>2, PeopleMoveTypes
  <2>3. CASE AdminResumes
    <3>1. PICK key \in ResumeKeys, target \in HumanResumeTargets : Resume(key, target)
      BY <2>3, ResumeAssumption DEF AdminResumes
    <3>2. StoreTypes'
      BY <3>1, ResumeTypes DEF TypeInv, TypeOK, Resume, StoreTypes, Rows
    <3>3. UNCHANGED <<gateVars, offline, run, child, comments, sandbox, crashes>>
      BY <2>3 DEF AdminResumes, Resume
    <3> QED
      BY <3>2, <3>3 DEF TypeInv, TypeOK, GateTypes, WorkTypes, BusyKnows, Knows, gateVars
  <2>4. CASE Crash
    <3>1. Idle \in LocalStates /\ Knows(Idle)
      BY IdleTypes
    <3>2. StoreTypes'
      BY <2>4 DEF Crash, TypeInv, TypeOK, StoreTypes, Unread, Copies, ParentStatus, dataVars
    <3>3. WorkTypes'
      BY <2>4, <3>1 DEF Crash, TypeInv, TypeOK, WorkTypes, dataVars
    <3>4. GateTypes'
      BY <2>4 DEF Crash, TypeInv, TypeOK, GateTypes
    <3>5. BusyKnows'
      BY <2>4, <3>1 DEF Crash, BusyKnows, Knows
    <3>6. crashes' \in 0..MaxCrashes
      BY <2>4, CrashAssumption DEF Crash, TypeInv, TypeOK
    <3> QED
      BY <3>2, <3>3, <3>4, <3>5, <3>6 DEF TypeInv, TypeOK
  <2>5. CASE UNCHANGED vars
    BY <2>5 DEF vars, storeVars, coordVars, gateVars, TypeInv, TypeOK, StoreTypes, WorkTypes,
                GateTypes, BusyKnows, Knows
  <2> QED
    BY <2>1, <2>2, <2>3, <2>4, <2>5 DEF Next
<1> QED
  BY <1>1, <1>2, PTL DEF Spec

\* Type correctness: whatever happens, every variable stays in its range.
THEOREM TypeCorrect == Spec => []TypeOK
<1>1. TypeInv => TypeOK
  BY DEF TypeInv
<1> QED
  BY <1>1, TypeInvariant, PTL
====
