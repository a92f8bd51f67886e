---- MODULE ReviewExecutionProofs ----
\* The children of a review task, executed by any number of runs: what may happen to
\* a row, what a run knows of the rows at each of its places, and the lock that keeps
\* the first attempt of a child to one run.
EXTENDS ReviewTypeProofs

\* -- The invariant -----------------------------------------------------------
\* A row of a child: absent until it is submitted, submitted at its first version and
\* never again, at most two attempts old, and without an error when it is completed.
RowSound(c) ==
  LET row == child[c]
  IN  /\ row.status = "absent" => row = NoChild
      /\ row.status # "absent" => row.version >= 1
      /\ row.status = "submitted" <=> row.version = 1
      /\ row.attempt <= MaxChildAttempts
      /\ row.status = "completed" => row.error = "none"

\* A run only works on children that exist.
TodoSubmitted(r) ==
  run[r].pc \in Executing \cup {"retry"} =>
    \A i \in DOMAIN run[r].todo : child[run[r].todo[i]].status # "absent"

\* What the row that a run has read tells of the row as it is.
CopySound(r) ==
  LET copy == run[r].copy
  IN  /\ At(r, "claim") => copy.status = "submitted" /\ copy.version = 1
      /\ At(r, "handle") /\ ~Claimed(r) => OfChild(r).status # "submitted"
      /\ At(r, "retry") =>
           /\ copy.version <= OfChild(r).version
           /\ ~Stale(r) => CanRetryChild(OfChild(r).status, OfChild(r).attempt, OfChild(r).error)

Gated == /\ patch.exists /\ child["verify"].status = "completed"
         /\ child["verify"].output = "pass" /\ "verify-child" \in sandbox
BothReviewed ==
  comments /\ child["review"].status = "completed" /\ child["impact"].status = "completed"

\* What a run knows from the places it went through.
PlaceSound(r) ==
  /\ At(r, "reviewed") => BothReviewed
  /\ run[r].pc \in Executing /\ run[r].then = "collectverify" =>
       run[r].todo = <<"verify">> /\ run[r].bad = {} /\ patch.exists
  /\ At(r, "collectverify") =>
       patch.exists /\ (run[r].bad = {} => child["verify"].status = "completed")
  /\ At(r, "approval") => Gated

RunSound(r) == TodoSubmitted(r) /\ CopySound(r) /\ PlaceSound(r)

\* Others see a claimed row as it was, until the claim commits with the result.
LockSound == \A q \in Runs : Claimed(q) => OfChild(q).status = "submitted"

ChildInv ==
  /\ \A c \in Kinds : RowSound(c)
  /\ \A r \in Runs : RunSound(r)
  /\ LockSound
  /\ OneExecution

\* -- What a step does ---------------------------------------------------------
\* What a step may do to a child row: the result of a completed child stands, a failed
\* one is only retried, and whatever is written is a newer version.
RowGrows(c) ==
  child'[c] # child[c] =>
    /\ child'[c].version > child[c].version
    /\ child'[c].attempt <= MaxChildAttempts
    /\ child[c].status = "completed" => child'[c] = [child[c] EXCEPT !.version = child'[c].version]
    /\ child[c].status = "failed" =>
         /\ child[c].error = "TASK_TIMEOUT"
         /\ child'[c].status = "working" /\ child'[c].attempt = child[c].attempt + 1
    /\ child'[c].status # "absent"
    /\ child[c].status # "absent" => child'[c].status # "submitted"

\* What the runs work on is never taken back.
WorkGrows ==
  /\ \A c \in Kinds : RowGrows(c) /\ RowSound(c)'
  /\ comments => comments'
  /\ patch.exists => patch'.exists
  /\ sandbox \subseteq sandbox'

\* A step of r leaves the rows alone that other runs have claimed, and enters the handler
\* of a child only if no other run is there, or none that has claimed it.
LockKept(r) ==
  /\ \A q \in Runs \ {r} : Claimed(q) => child'[Current(q)] = child[Current(q)]
  /\ At(r, "handle")' => \A q \in Runs \ {r} : Claimed(q) => Current(q) # Current(r)'
  /\ Claimed(r)' => /\ (OfChild(r).status)' = "submitted"
                    /\ \A q \in Runs \ {r} : At(q, "handle") => Current(q) # Current(r)'

\* The run is outside every handler after the step, with what it has to show there.
Outside(r) == RunSound(r)' /\ ~At(r, "handle")'

\* The places where a run has nothing to show.
Plain == Places \ (Executing \cup {"retry", "reviewed", "collectverify", "approval"})

\* A run that goes to a plain place has nothing to show.
LEMMA PlainIsSound ==
  ASSUME NEW r \in Runs, (run[r].pc)' \in Plain
  PROVE  Outside(r)
BY DEF Plain, Executing, At, Outside, RunSound, TodoSubmitted, CopySound, PlaceSound

\* What a step leaves alone, it does not take back.
LEMMA FrameGrows ==
  ASSUME ChildInv, child' = child, comments => comments', patch.exists => patch'.exists,
         sandbox \subseteq sandbox'
  PROVE  WorkGrows
BY DEF ChildInv, WorkGrows, RowGrows, RowSound

\* A run that stays outside the handlers, and leaves the rows alone, keeps the locks.
LEMMA FrameKeeps ==
  ASSUME NEW r \in Runs, child' = child, ~At(r, "handle")'
  PROVE  LockKept(r)
BY DEF LockKept, Claimed

\* A child that a busy run works on exists.
LEMMA CurrentExists ==
  ASSUME TypeInv, NEW r \in Runs, RunSound(r), run[r].pc \in Executing \cup {"retry"}
  PROVE  /\ Current(r) \in Kinds /\ OfChild(r) = child[Current(r)] /\ OfChild(r) \in ChildRows
         /\ OfChild(r).status \in ChildStatus
<1>1. run[r].todo \in Seq(Kinds) /\ run[r].todo # <<>> /\ child \in [Kinds -> ChildRows]
  BY DEF TypeInv, TypeOK, WorkTypes, BusyKnows, Knows, LocalStates
<1>2. Current(r) = run[r].todo[1] /\ 1 \in DOMAIN run[r].todo /\ Current(r) \in Kinds
  BY <1>1 DEF Current
<1>3. OfChild(r).status # "absent" /\ OfChild(r) \in ChildRows
  BY <1>1, <1>2 DEF RunSound, TodoSubmitted, OfChild
<1> QED
  BY <1>2, <1>3 DEF OfChild, ChildRows

\* What a run knows stays true while others work, as long as it does not move.
LEMMA RunStays ==
  ASSUME TypeInv, TypeInv', NEW r \in Runs, RunSound(r), WorkGrows, run'[r] = run[r]
  PROVE  RunSound(r)'
<1>0. run[r] \in LocalStates /\ child \in [Kinds -> ChildRows] /\ child' \in [Kinds -> ChildRows]
  BY DEF TypeInv, TypeOK, WorkTypes
<1>1. \A c \in Kinds : child[c].status # "absent" => child'[c].status # "absent"
  BY DEF WorkGrows, RowGrows
<1>2. TodoSubmitted(r)'
  <2>1. \A i \in DOMAIN run[r].todo : run[r].todo[i] \in Kinds
    BY <1>0 DEF LocalStates
  <2> QED
    BY <1>1, <2>1 DEF RunSound, TodoSubmitted
<1>3. CopySound(r)'
  <2> SUFFICES ASSUME run[r].pc \in {"claim", "handle", "retry"}
               PROVE  CopySound(r)'
    BY DEF CopySound, At
  <2> DEFINE c == Current(r)
  <2>1. c \in Kinds /\ c' = c /\ child[c].status # "absent" /\ OfChild(r) = child[c]
    BY CurrentExists DEF Executing, Current, ChildStatus
  <2>2. OfChild(r)' = child'[c] /\ Claimed(r)' = Claimed(r)
    BY <2>1 DEF OfChild, Claimed, At, Current
  <2>3. run[r].copy.version \in Nat /\ child[c].version \in Nat /\ child'[c].version \in Nat
    BY <1>0, <2>1 DEF LocalStates, ChildCopies, ChildRows
  <2>4. child'[c] = child[c] \/ (child'[c].version > child[c].version /\ child'[c].status # "submitted")
    BY <2>1 DEF WorkGrows, RowGrows
  <2>5. CopySound(r)
    BY DEF RunSound
  <2> HIDE DEF c
  <2> QED
    BY <2>1, <2>2, <2>3, <2>4, <2>5 DEF CopySound, At, Stale
<1>4. PlaceSound(r)'
  <2>1. \A c \in Kinds : child[c].status = "completed" =>
          child'[c].status = "completed" /\ child'[c].output = child[c].output
    BY <1>0 DEF WorkGrows, RowGrows, ChildRows
  <2>2. {"review", "impact", "verify"} \subseteq Kinds
    BY DEF Kinds
  <2> QED
    BY <2>1, <2>2 DEF RunSound, PlaceSound, Gated, BothReviewed, WorkGrows, At
<1> QED
  BY <1>2, <1>3, <1>4 DEF RunSound

\* -- The steps of a run --------------------------------------------------------
\* A run that ends, parks, or goes to a plain place.
LEMMA MoveIsSound ==
  ASSUME TypeInv, NEW r \in Runs,
         \/ End(r)
         \/ \E code : ParkWith(r, code)
         \/ \E pc \in Plain : Goto(r, pc) \/ Onward(r, pc)
  PROVE  Outside(r)
<1>0. run \in [Runs -> LocalStates]
  BY DEF TypeInv, TypeOK, WorkTypes
<1>1. {"idle", "park"} \subseteq Plain
  BY DEF Plain, Places, Executing
<1>2. CASE End(r) \/ (\E code : ParkWith(r, code)) \/ (\E pc \in Plain : Goto(r, pc))
  <2>1. End(r) => (run[r].pc)' = "idle"
    BY <1>0 DEF End, Idle
  <2>2. \A code : ParkWith(r, code) => (run[r].pc)' = "park"
    BY <1>0 DEF ParkWith, Idle
  <2>3. \A pc : Goto(r, pc) => (run[r].pc)' = pc
    BY <1>0 DEF Goto, LocalStates
  <2> QED
    BY <1>1, <1>2, <2>1, <2>2, <2>3, PlainIsSound
<1>3. ASSUME NEW pc \in Plain, Onward(r, pc)
      PROVE  Outside(r)
  <2>1. PICK auto \in BOOLEAN :
          run' = [run EXCEPT ![r] = IF pc = "idle" THEN Idle
                                    ELSE [run[r] EXCEPT !.pc = pc, !.auto = auto]]
    BY <1>3 DEF Onward
  <2>2. (run[r].pc)' = pc
    BY <1>0, <2>1 DEF Idle, LocalStates
  <2> QED
    BY <2>2, PlainIsSound
<1> QED
  BY <1>2, <1>3

\* Where the intents of a run lead, a run has nothing to show.
LEMMA GoPlain ==
  /\ \A pc \in {"idle", "planfix"} : Always(pc) \in [ParentStatus -> Plain]
  /\ [Entry EXCEPT !["DRAFT"] = "idle"] \in [ParentStatus -> Plain]
  /\ Entry \in [ParentStatus -> Plain]
  /\ \A pc \in {"idle", "fix"} : [Always("idle") EXCEPT !["REVIEWED"] = pc] \in [ParentStatus -> Plain]
  /\ [Always("idle") EXCEPT !["TESTING"] = "verify"] \in [ParentStatus -> Plain]
<1>1. {"idle", "enter", "plan", "fix", "verify", "planfix"} \subseteq Plain
  BY DEF Plain, Places, Executing
<1>2. \A status \in ParentStatus : Entry[status] \in {"idle", "enter", "plan", "fix", "verify"}
  BY DEF Entry
<1>3. Entry \in [ParentStatus -> Plain]
  BY <1>1, <1>2 DEF Entry
<1> QED
  BY <1>1, <1>3 DEF Always

\* A run whose intent leads to plain places.
LEMMA IntendIsSound ==
  ASSUME TypeInv, ChildInv, NEW r \in Runs, NEW target \in ParentStatus, NEW key,
         NEW go \in [ParentStatus -> Plain], Intend(r, target, key, go)
  PROVE  Outside(r) /\ WorkGrows /\ LockKept(r)
<1>1. Outside(r)
  BY MoveIsSound DEF Intend
<1>2. child' = child /\ UNCHANGED <<comments, patch, sandbox>>
  BY DEF Intend, dataVars
<1> QED
  BY <1>1, <1>2, FrameGrows, FrameKeeps DEF Outside

\* The intents between the phases.
LEMMA IntentIsSound ==
  ASSUME TypeInv, ChildInv, NEW r \in Runs,
         \/ EnterReviewing(r) \/ MarkReviewed(r) \/ StopOffline(r) \/ StopUnfixable(r)
         \/ EnterFixing(r) \/ EnterTesting(r) \/ RequestApproval(r)
  PROVE  Outside(r) /\ WorkGrows /\ LockKept(r)
<1>1. {"REVIEWING", "REVIEWED", "REJECTED", "FIXING", "TESTING", "PENDING_APPROVAL"} \subseteq ParentStatus
  BY DEF ParentStatus
<1>2. ASSUME UNCHANGED dataVars, NEW pc \in Plain, Goto(r, pc) \/ Onward(r, pc) \/ End(r)
      PROVE  Outside(r) /\ WorkGrows /\ LockKept(r)
  <2>1. Outside(r)
    BY <1>2, MoveIsSound
  <2> QED
    BY <1>2, <2>1, FrameGrows, FrameKeeps DEF Outside, dataVars
<1>3. "planfix" \in Plain /\ "idle" \in Plain
  BY DEF Plain, Places, Executing
<1>4. CASE EnterReviewing(r)
  BY <1>1, <1>4, GoPlain, IntendIsSound DEF EnterReviewing
<1>5. CASE MarkReviewed(r)
  BY <1>1, <1>5, GoPlain, IntendIsSound DEF MarkReviewed
<1>6. CASE StopOffline(r) \/ StopUnfixable(r)
  BY <1>1, <1>6, GoPlain, IntendIsSound DEF StopOffline, StopUnfixable
<1>7. CASE EnterFixing(r)
  BY <1>1, <1>2, <1>3, <1>7, GoPlain, IntendIsSound DEF EnterFixing, dataVars
<1>8. CASE EnterTesting(r)
  <2> DEFINE go == [Always("idle") EXCEPT !["TESTING"] = "verify"]
  <2>1. go \in [ParentStatus -> Plain]
    BY GoPlain
  <2>2. \/ Intend(r, "TESTING", Key("enter_testing:v1"), go)
        \/ Onward(r, go[seen[r].status]) /\ UNCHANGED dataVars
    BY <1>8 DEF EnterTesting
  <2>3. seen[r].status \in ParentStatus
    BY SessionsAssumption DEF TypeInv, TypeOK, StoreTypes, Copies
  <2>4. go[seen[r].status] \in Plain
    BY <2>1, <2>3
  <2> HIDE DEF go
  <2> QED
    BY <1>1, <1>2, <2>1, <2>2, <2>4, IntendIsSound
<1>9. CASE RequestApproval(r)
  BY <1>1, <1>2, <1>3, <1>9, GoPlain, IntendIsSound DEF RequestApproval, dataVars
<1> QED
  BY <1>4, <1>5, <1>6, <1>7, <1>8, <1>9

\* The first steps of a run, its end, and a look at the task: nothing a child, a comment
\* or a patch would notice.
LEMMA EnterIsSound ==
  ASSUME TypeInv, TypeInv', ChildInv, NEW r \in Runs,
         \/ Schedule(r) \/ TriggerFix(r) \/ StartRun(r) \/ Look(r)
         \/ LoseInsertRace(r) \/ Park(r)
  PROVE  Outside(r) /\ WorkGrows /\ LockKept(r)
<1>1. child' = child /\ UNCHANGED <<comments, patch, sandbox>>
  BY DEF Schedule, TriggerFix, StartRun, Look, LoseInsertRace, Park, dataVars
<1>2. WorkGrows
  BY <1>1, FrameGrows
<1> SUFFICES Outside(r)
  BY <1>1, <1>2, FrameKeeps DEF Outside
<1>3. CASE Schedule(r) \/ TriggerFix(r)
  <2>1. PICK auto \in BOOLEAN : run' = [run EXCEPT ![r].pc = "queued", ![r].auto = auto]
    BY <1>3 DEF Schedule, TriggerFix
  <2>2. (run[r].pc)' = "queued"
    BY <2>1 DEF TypeInv, TypeOK, WorkTypes, LocalStates
  <2>3. "queued" \in Plain
    BY DEF Plain, Places, Executing
  <2> QED
    BY <2>2, <2>3, PlainIsSound
<1>4. CASE StartRun(r)
  <2>1. Entry[task.status] \in Plain
    BY GoPlain DEF TypeInv, TypeOK, StoreTypes
  <2> QED
    BY <1>4, <2>1, MoveIsSound DEF StartRun
<1>5. CASE Look(r)
  <2>1. run' = run /\ run[r].pc # "handle"
    BY <1>5 DEF Look
  <2> QED
    BY <1>2, <2>1, RunStays DEF ChildInv, Outside, At
<1>6. CASE LoseInsertRace(r) \/ Park(r)
  BY <1>6, MoveIsSound DEF LoseInsertRace, Park
<1> QED
  BY <1>3, <1>4, <1>5, <1>6

\* Submitting makes every child exist that is asked for, and touches no other.
LEMMA SubmitGrows ==
  ASSUME TypeInv, ChildInv, NEW kinds \in SUBSET Kinds, Submit(kinds)
  PROVE  /\ \A c \in Kinds : RowGrows(c) /\ RowSound(c)'
         /\ \A c \in kinds : child'[c].status # "absent"
         /\ \A c \in Kinds : child[c].status # "absent" => child'[c] = child[c]
<1>1. \A c \in Kinds : child'[c] = IF c \in kinds /\ child[c] = NoChild THEN NewChild ELSE child[c]
  BY DEF Submit
<1>2. /\ NoChild.status = "absent" /\ NoChild.version = 0
      /\ NewChild.status = "submitted" /\ NewChild.version = 1 /\ NewChild.attempt = 1
  BY DEF NoChild, NewChild
<1>3. \A c \in Kinds : RowSound(c)
  BY DEF ChildInv
<1>4. \A c \in Kinds : RowGrows(c) /\ RowSound(c)'
  BY <1>1, <1>2, <1>3 DEF RowGrows, RowSound, MaxChildAttempts
<1> QED
  BY <1>1, <1>2, <1>3, <1>4 DEF RowSound

\* A run that begins to execute children that exist.
LEMMA ExecuteIsSound ==
  ASSUME TypeInv, NEW r \in Runs, NEW todo \in Seq(Kinds), NEW then,
         \A i \in DOMAIN todo : child'[todo[i]].status # "absent",
         then = "collectverify" => todo = <<"verify">> /\ patch'.exists,
         Execute(r, todo, then)
  PROVE  Outside(r)
<1>1. run[r] \in LocalStates
  BY DEF TypeInv, TypeOK, WorkTypes
<1>2. run'[r] = [run[r] EXCEPT !.pc = "exec", !.todo = todo, !.then = then, !.bad = {}]
  BY DEF Execute, TypeInv, TypeOK, WorkTypes
<1>3. run'[r].pc = "exec" /\ run'[r].todo = todo /\ run'[r].then = then /\ run'[r].bad = {}
  BY <1>1, <1>2 DEF LocalStates
<1> QED
  BY <1>3 DEF Outside, RunSound, TodoSubmitted, CopySound, PlaceSound, Executing, At

\* A phase plans the children it needs.
LEMMA PlanIsSound ==
  ASSUME TypeInv, ChildInv, NEW r \in Runs, PlanReview(r) \/ PlanFix(r) \/ PlanVerify(r)
  PROVE  Outside(r) /\ WorkGrows /\ LockKept(r)
<1>1. UNCHANGED <<comments, patch, sandbox>>
  BY DEF PlanReview, PlanFix, PlanVerify
<1>2. ASSUME NEW kinds \in SUBSET Kinds, NEW todo \in Seq(Kinds), NEW then,
             Submit(kinds), Execute(r, todo, then), \A i \in DOMAIN todo : todo[i] \in kinds,
             then = "collectverify" => todo = <<"verify">> /\ patch.exists
      PROVE  Outside(r) /\ WorkGrows /\ LockKept(r)
  <2>1. /\ \A c \in Kinds : RowGrows(c) /\ RowSound(c)'
        /\ \A c \in kinds : child'[c].status # "absent"
        /\ \A c \in Kinds : child[c].status # "absent" => child'[c] = child[c]
    BY <1>2, SubmitGrows
  <2>2. WorkGrows
    BY <1>1, <2>1 DEF WorkGrows
  <2>3. Outside(r)
    BY <1>1, <1>2, <2>1, ExecuteIsSound
  <2>4. \A q \in Runs \ {r} : Claimed(q) => child'[Current(q)] = child[Current(q)]
    <3> SUFFICES ASSUME NEW q \in Runs \ {r}, Claimed(q)
                 PROVE  child'[Current(q)] = child[Current(q)]
      OBVIOUS
    <3>1. run[q].pc \in Executing /\ RunSound(q) /\ OfChild(q).status = "submitted"
      BY DEF Claimed, At, Executing, ChildInv, LockSound
    <3>2. Current(q) \in Kinds /\ child[Current(q)].status = "submitted"
      BY <3>1, CurrentExists
    <3> QED
      BY <2>1, <3>2
  <2>5. LockKept(r)
    BY <2>3, <2>4 DEF LockKept, Claimed, Outside
  <2> QED
    BY <2>2, <2>3, <2>5
<1>3. /\ {"review", "impact"} \in SUBSET Kinds /\ {"fix"} \in SUBSET Kinds /\ {"verify"} \in SUBSET Kinds
      /\ Pipeline \in Seq(Kinds) /\ <<"fix">> \in Seq(Kinds) /\ <<"verify">> \in Seq(Kinds)
      /\ \A i \in DOMAIN Pipeline : Pipeline[i] \in {"review", "impact"}
      /\ \A i \in DOMAIN <<"fix">> : <<"fix">>[i] = "fix"
      /\ \A i \in DOMAIN <<"verify">> : <<"verify">>[i] = "verify"
  BY DEF Pipeline, Kinds
<1>4. CASE PlanReview(r)
  BY <1>2, <1>3, <1>4 DEF PlanReview
<1>5. CASE PlanFix(r)
  BY <1>2, <1>3, <1>5 DEF PlanFix
<1>6. CASE PlanVerify(r)
  <2>1. CASE patch.exists
    BY <1>2, <1>3, <1>6, <2>1 DEF PlanVerify
  <2>2. CASE ~patch.exists
    BY <1>1, <1>6, <2>2, MoveIsSound, FrameGrows, FrameKeeps DEF PlanVerify, Outside
  <2> QED
    BY <2>1, <2>2
<1> QED
  BY <1>4, <1>5, <1>6

\* -- Executing a child -----------------------------------------------------------
\* A run that is done with one child: what is left to do exists, and after the verify
\* child it goes to the gate only with its outcome.
LEMMA NextChildIsSound ==
  ASSUME TypeInv, NEW r \in Runs, NEW bad, NEW error, RunSound(r), WorkGrows,
         run[r].pc \in Executing, NextChild(r, bad, error),
         Current(r) = "verify" /\ error = "none" /\ bad = {} => child'["verify"].status = "completed"
  PROVE  Outside(r)
<1> DEFINE rest == Tail(run[r].todo)
           pc == IF rest # <<>> THEN "exec" ELSE run[r].then
           then == IF rest # <<>> THEN run[r].then ELSE "none"
<1>1. run[r] \in LocalStates /\ run[r].todo # <<>> /\ run[r].then # "none"
  BY DEF TypeInv, TypeOK, WorkTypes, BusyKnows, Knows
<1>2. CASE ~(rest # <<>> \/ error = "none")
  BY <1>2, MoveIsSound DEF NextChild
<1>3. CASE rest # <<>> \/ error = "none"
  <2>1. run'[r] = [run[r] EXCEPT !.pc = pc, !.then = then, !.todo = rest, !.copy = NoCopy,
                                 !.bad = bad, !.error = error]
    BY <1>3 DEF NextChild, TypeInv, TypeOK, WorkTypes
  <2>2. /\ run'[r].pc = pc /\ run'[r].todo = rest /\ run'[r].bad = bad
        /\ run'[r].then = then
    BY <1>1, <2>1 DEF LocalStates
  <2>3. \A i \in DOMAIN rest : child'[rest[i]].status # "absent"
    <3>1. \A i \in DOMAIN rest : i + 1 \in DOMAIN run[r].todo /\ rest[i] = run[r].todo[i + 1]
      BY <1>1 DEF LocalStates
    <3>2. \A i \in DOMAIN run[r].todo : run[r].todo[i] \in Kinds
      BY <1>1 DEF LocalStates
    <3>3. \A i \in DOMAIN run[r].todo : child[run[r].todo[i]].status # "absent"
      BY DEF RunSound, TodoSubmitted
    <3>4. \A c \in Kinds : child[c].status # "absent" => child'[c].status # "absent"
      BY DEF WorkGrows, RowGrows
    <3> QED
      BY <3>1, <3>2, <3>3, <3>4
  <2>4. run[r].then = "collectverify" => rest = <<>> /\ Current(r) = "verify" /\ patch'.exists
    <3>1. Tail(<<"verify">>) = <<>> /\ Head(<<"verify">>) = "verify"
      OBVIOUS
    <3>2. run[r].then = "collectverify" => run[r].todo = <<"verify">> /\ patch'.exists
      BY DEF RunSound, PlaceSound, WorkGrows
    <3> QED
      BY <3>1, <3>2 DEF Current
  <2>5. pc \in {"exec", "settle", "resettle", "collectfix", "collectverify"}
    BY <1>1 DEF LocalStates
  <2>6. pc = "exec" => then # "collectverify"
    BY <1>1, <2>4 DEF LocalStates
  <2>7. pc = "collectverify" =>
          patch'.exists /\ (bad = {} => child'["verify"].status = "completed")
    BY <1>3, <2>4
  <2> HIDE DEF rest, pc, then
  <2> QED
    BY <2>2, <2>3, <2>5, <2>6, <2>7
    DEF Outside, RunSound, TodoSubmitted, CopySound, PlaceSound, Executing, At
<1> QED
  BY <1>2, <1>3

\* An outcome of the child: a failure, or the child is completed.
LEMMA ReturnedIsSound ==
  ASSUME TypeInv, NEW r \in Runs, NEW status, NEW error, RunSound(r), WorkGrows,
         run[r].pc \in Executing, Returned(r, status, error),
         status # "failed" => child'[Current(r)].status = "completed"
  PROVE  Outside(r)
<1> DEFINE bad == run[r].bad \cup {c \in {Current(r)} : status = "failed"}
<1>1. CASE ParkWith(r, RetryFailure(error))
  BY <1>1, MoveIsSound
<1>2. CASE NextChild(r, bad, run[r].error)
  <2>1. bad = {} => child'[Current(r)].status = "completed"
    OBVIOUS
  <2> HIDE DEF bad
  <2> QED
    BY <1>2, <2>1, NextChildIsSound
<1> QED
  BY <1>1, <1>2 DEF Returned

\* An error of the execution.
LEMMA RaisedIsSound ==
  ASSUME TypeInv, NEW r \in Runs, NEW code, code # "none", RunSound(r), WorkGrows,
         run[r].pc \in Executing, Raised(r, code)
  PROVE  Outside(r)
<1> DEFINE error == IF run[r].error = "none" THEN code ELSE run[r].error
<1>1. NextChild(r, run[r].bad, error) /\ error # "none"
  BY DEF Raised
<1> HIDE DEF error
<1> QED
  BY <1>1, NextChildIsSound

\* A run that enters the handler: with the copy it goes in with, no open row is mistaken
\* for one that nobody has taken up, and a first attempt finds nobody else there.
LEMMA EnterHandler ==
  ASSUME TypeInv, ChildInv, NEW r \in Runs, run[r].pc \in Executing, UNCHANGED dataVars,
         NEW pc \in {"claim", "handle"}, NEW copy \in ChildCopies,
         run' = [run EXCEPT ![r].pc = pc, ![r].copy = copy],
         pc = "claim" => copy.status = "submitted" /\ copy.version = 1,
         pc = "handle" => ~Locked(r),
         pc = "handle" /\ copy.status = "submitted" => OfChild(r).status = "submitted",
         pc = "handle" /\ copy.status # "submitted" => OfChild(r).status # "submitted"
  PROVE  RunSound(r)' /\ LockKept(r)
<1> DEFINE x == [run[r] EXCEPT !.pc = pc, !.copy = copy]
<1>0. run[r] \in LocalStates /\ RunSound(r)
  BY DEF TypeInv, TypeOK, WorkTypes, ChildInv
<1>1. run'[r] = x /\ child' = child /\ patch' = patch
  BY DEF TypeInv, TypeOK, WorkTypes, dataVars
<1>2. /\ run'[r].pc = pc /\ run'[r].copy = copy /\ run'[r].todo = run[r].todo
      /\ run'[r].then = run[r].then /\ run'[r].bad = run[r].bad
  <2>1. /\ x.pc = pc /\ x.copy = copy /\ x.todo = run[r].todo
        /\ x.then = run[r].then /\ x.bad = run[r].bad
    BY <1>0 DEF LocalStates
  <2> QED
    BY <1>1, <2>1
<1>3. Current(r)' = Current(r) /\ OfChild(r)' = OfChild(r)
  BY <1>1, <1>2 DEF Current, OfChild
<1>4. At(r, "handle")' <=> pc = "handle"
  BY <1>2 DEF At
<1>5. Claimed(r)' <=> pc = "handle" /\ copy.status = "submitted"
  BY <1>2 DEF Claimed, At
<1> HIDE DEF x
<1>6. TodoSubmitted(r)'
  BY <1>0, <1>1, <1>2 DEF RunSound, TodoSubmitted
<1>7. CopySound(r)'
  BY <1>2, <1>3, <1>5 DEF CopySound, At
<1>8. PlaceSound(r)'
  BY <1>0, <1>1, <1>2 DEF RunSound, PlaceSound, At, Executing
<1>9. \A q \in Runs \ {r} : pc = "handle" /\ Claimed(q) => Current(q) # Current(r)
  BY DEF Locked
<1>10. \A q \in Runs \ {r} :
         pc = "handle" /\ copy.status = "submitted" /\ At(q, "handle") => Current(q) # Current(r)
  <2> SUFFICES ASSUME NEW q \in Runs \ {r}, pc = "handle", copy.status = "submitted",
                      At(q, "handle"), Current(q) = Current(r)
               PROVE  FALSE
    OBVIOUS
  <2>1. ~Claimed(q)
    BY <1>9
  <2>2. OfChild(q).status # "submitted"
    BY <2>1 DEF ChildInv, RunSound, CopySound
  <2> QED
    BY <2>2 DEF OfChild
<1>11. LockKept(r)
  BY <1>1, <1>3, <1>4, <1>5, <1>9, <1>10 DEF LockKept
<1> QED
  BY <1>6, <1>7, <1>8, <1>11 DEF RunSound

\* A child is read: its outcome is there already, or the run goes on with the row.
LEMMA ReadIsSound ==
  ASSUME TypeInv, ChildInv, NEW r \in Runs, ReadChild(r)
  PROVE  RunSound(r)' /\ WorkGrows /\ LockKept(r)
<1> DEFINE row == OfChild(r)
<1>1. run[r].pc \in Executing /\ UNCHANGED dataVars /\ child' = child
  BY DEF ReadChild, At, Executing, dataVars
<1>2. RunSound(r) /\ WorkGrows
  BY <1>1, FrameGrows DEF ChildInv, dataVars
<1>3. /\ Current(r) \in Kinds /\ row = child[Current(r)] /\ row \in ChildRows
      /\ row.status \in ChildStatus
  BY <1>1, <1>2, CurrentExists
<1>4. CASE row.status \in ChildTerminal
  <2>1. Returned(r, row.status, row.error)
    BY <1>4 DEF ReadChild
  <2>2. row.status # "failed" => child'[Current(r)].status = "completed"
    BY <1>1, <1>3, <1>4 DEF ChildTerminal
  <2>3. Outside(r)
    BY <1>1, <1>2, <2>1, <2>2, ReturnedIsSound
  <2> QED
    BY <1>1, <1>2, <2>3, FrameKeeps DEF Outside
<1>5. CASE row.status \notin ChildTerminal
  <2> DEFINE pc == IF row.status = "submitted" THEN "claim" ELSE "handle"
             copy == CopyOf(row)
  <2>1. run' = [run EXCEPT ![r].pc = pc, ![r].copy = copy]
    BY <1>5 DEF ReadChild
  <2>2. copy \in ChildCopies /\ copy.status = row.status /\ copy.version = row.version
    BY <1>3 DEF CopyOf, ChildRows, ChildCopies
  <2>3. row.status = "submitted" => row.version = 1
    BY <1>3 DEF ChildInv, RowSound
  <2>4. pc = "handle" => ~Locked(r)
    <3> SUFFICES ASSUME pc = "handle", NEW q \in Runs \ {r}, Claimed(q), Current(q) = Current(r)
                 PROVE  FALSE
      BY DEF Locked
    <3>1. OfChild(q).status = "submitted"
      BY DEF ChildInv, LockSound
    <3> QED
      BY <1>3, <3>1 DEF OfChild
  <2>5. pc \in {"claim", "handle"} /\ (pc = "handle" <=> row.status # "submitted")
    OBVIOUS
  <2> HIDE DEF pc, copy, row
  <2>6. RunSound(r)' /\ LockKept(r)
    BY <1>1, <2>1, <2>2, <2>3, <2>4, <2>5, EnterHandler DEF row
  <2> QED
    BY <1>2, <2>6
<1> QED
  BY <1>4, <1>5

\* The claim: of the row that was read, or of one that has moved on.
LEMMA ClaimIsSound ==
  ASSUME TypeInv, ChildInv, NEW r \in Runs, ClaimChild(r)
  PROVE  RunSound(r)' /\ WorkGrows /\ LockKept(r)
<1> DEFINE row == OfChild(r)
<1>0. run[r] \in LocalStates /\ run \in [Runs -> LocalStates]
  BY DEF TypeInv, TypeOK, WorkTypes
<1>1. run[r].pc \in Executing /\ At(r, "claim") /\ ~Locked(r) /\ UNCHANGED dataVars /\ child' = child
  BY DEF ClaimChild, At, Executing, dataVars
<1>2. RunSound(r) /\ WorkGrows
  BY <1>1, FrameGrows DEF ChildInv, dataVars
<1>3. /\ Current(r) \in Kinds /\ row = child[Current(r)] /\ row \in ChildRows
      /\ row.status \in ChildStatus
  BY <1>1, <1>2, CurrentExists
<1>4. run[r].copy \in ChildCopies /\ run[r].copy.status = "submitted" /\ run[r].copy.version = 1
  BY <1>0, <1>1, <1>2 DEF LocalStates, RunSound, CopySound
<1>5. row.status = "submitted" <=> row.version = 1
  BY <1>3 DEF ChildInv, RowSound
<1>6. CASE ~Stale(r) /\ Goto(r, "handle")
  <2>1. run' = [run EXCEPT ![r].pc = "handle", ![r].copy = run[r].copy]
    BY <1>0, <1>6 DEF Goto, LocalStates
  <2>2. row.status = "submitted"
    BY <1>4, <1>5, <1>6 DEF Stale
  <2> QED
    BY <1>1, <1>2, <1>4, <2>1, <2>2, EnterHandler
<1>7. CASE Stale(r) /\ run' = [run EXCEPT ![r].pc = "handle", ![r].copy = CopyOf(row)]
  <2>1. CopyOf(row) \in ChildCopies /\ CopyOf(row).status = row.status
    BY <1>3 DEF CopyOf, ChildRows, ChildCopies
  <2>2. row.status # "submitted"
    BY <1>4, <1>5, <1>7 DEF Stale
  <2> QED
    BY <1>1, <1>2, <1>7, <2>1, <2>2, EnterHandler
<1>8. CASE \E code \in {"IDEMPOTENCY_CONFLICT", "STATE_VERSION_CONFLICT"} : Raised(r, code)
  BY <1>1, <1>2, <1>8, RaisedIsSound, FrameKeeps DEF Outside
<1> QED
  BY <1>6, <1>7, <1>8 DEF ClaimChild

\* The handler is over and the row of the child written: nobody else had claimed it.
LEMMA HandlerKeeps ==
  ASSUME TypeInv, ChildInv, NEW r \in Runs, At(r, "handle"), ~At(r, "handle")',
         NEW row, child' = [child EXCEPT ![Current(r)] = row]
  PROVE  LockKept(r)
<1>1. \A q \in Runs \ {r} : Claimed(q) => Current(q) # Current(r)
  BY DEF ChildInv, OneExecution
<1>2. child \in [Kinds -> ChildRows] /\ \A q \in Runs : Claimed(q) => Current(q) \in Kinds
  BY CurrentExists DEF TypeInv, TypeOK, WorkTypes, ChildInv, Claimed, At, Executing
<1>3. \A q \in Runs \ {r} : Claimed(q) => child'[Current(q)] = child[Current(q)]
  BY <1>1, <1>2
<1> QED
  BY <1>3 DEF LockKept, Claimed

\* How a row may end: it fails, or is completed with the result that it had already if it
\* was completed before.
Ends(row, new) ==
  /\ new.status \in {"completed", "failed"}
  /\ new.version = row.version + 1 \/ new.version = row.version + 2
  /\ new.attempt = row.attempt
  /\ new.status = "completed" => new.error = "none"
  /\ row.status = "completed" => new = [row EXCEPT !.version = new.version]

\* Both outcomes of an execution end the row like that.
LEMMA OutcomeEnds ==
  ASSUME NEW r \in Runs, NEW row \in ChildRows, row.status = "completed" => row.error = "none"
  PROVE  /\ \A output : /\ Counted(r, Completed(row, output)).status = "completed"
                        /\ Ends(row, Counted(r, Completed(row, output)))
         /\ row.status # "completed" => \A error : Ends(row, Counted(r, Failed(row, error)))
<1>1. PICK n \in {1, 2} : \A new : Counted(r, new) = [new EXCEPT !.version = new.version + n]
  BY DEF Counted
<1>2. ASSUME NEW output
      PROVE  /\ Counted(r, Completed(row, output)).status = "completed"
             /\ Ends(row, Counted(r, Completed(row, output)))
  <2> DEFINE o == IF row.status = "completed" THEN row.output ELSE output
             new == [row EXCEPT !.status = "completed", !.error = "none", !.output = o]
  <2>1. Completed(row, output) = new
    BY DEF Completed
  <2>2. row.status = "completed" => new = row
    BY DEF ChildRows
  <2> HIDE DEF o
  <2>3. /\ new.status = "completed" /\ new.error = "none" /\ new.attempt = row.attempt
        /\ new.version = row.version
    BY DEF ChildRows
  <2> DEFINE end == [new EXCEPT !.version = new.version + n]
  <2>4. /\ end.status = "completed" /\ end.error = "none" /\ end.attempt = row.attempt
        /\ end.version = row.version + n
    BY <2>3 DEF ChildRows
  <2>5. row.status = "completed" => end = [row EXCEPT !.version = end.version]
    BY <2>2, <2>3, <2>4
  <2>6. Counted(r, Completed(row, output)) = end
    BY <1>1, <2>1
  <2> HIDE DEF new, end
  <2> QED
    BY <2>4, <2>5, <2>6 DEF Ends
<1>3. ASSUME row.status # "completed", NEW error
      PROVE  Ends(row, Counted(r, Failed(row, error)))
  <2> DEFINE late == row.late \/ error = "TASK_TIMEOUT"
             new == [row EXCEPT !.status = "failed", !.error = error, !.late = late]
  <2>1. Failed(row, error) = new
    BY DEF Failed
  <2> HIDE DEF late
  <2>2. new.status = "failed" /\ new.attempt = row.attempt /\ new.version = row.version
    BY DEF ChildRows
  <2> DEFINE end == [new EXCEPT !.version = new.version + n]
  <2>3. end.status = "failed" /\ end.attempt = row.attempt /\ end.version = row.version + n
    BY <2>2 DEF ChildRows
  <2>4. Counted(r, Failed(row, error)) = end
    BY <1>1, <2>1
  <2> HIDE DEF new, end
  <2> QED
    BY <1>3, <2>3, <2>4 DEF Ends
<1> QED
  BY <1>2, <1>3

\* A row that ends grows, and stays sound.
LEMMA EndsGrow ==
  ASSUME TypeInv, ChildInv, NEW c \in Kinds, NEW new,
         child[c].status \notin {"absent", "failed"}, Ends(child[c], new),
         child' = [child EXCEPT ![c] = new]
  PROVE  /\ \A d \in Kinds : RowGrows(d) /\ RowSound(d)'
         /\ child'[c] = new
<1>1. child \in [Kinds -> ChildRows] /\ \A d \in Kinds : RowSound(d)
  BY DEF TypeInv, TypeOK, WorkTypes, ChildInv
<1>2. child'[c] = new /\ \A d \in Kinds \ {c} : child'[d] = child[d]
  BY <1>1
<1>3. \A d \in Kinds \ {c} : RowGrows(d) /\ RowSound(d)'
  BY <1>1, <1>2 DEF RowGrows, RowSound
<1>4. child[c].version \in Nat /\ child[c].version >= 1 /\ child[c].attempt <= MaxChildAttempts
  BY <1>1 DEF ChildRows, RowSound
<1>5. RowGrows(c)
  BY <1>2, <1>4 DEF RowGrows, Ends
<1>6. RowSound(c)'
  BY <1>2, <1>4 DEF RowSound, Ends
<1> QED
  BY <1>2, <1>3, <1>5, <1>6

\* The execution of a child ends, one way or the other.
LEMMA HandleIsSound ==
  ASSUME TypeInv, ChildInv, NEW r \in Runs, CompleteChild(r) \/ FailChild(r)
  PROVE  Outside(r) /\ WorkGrows /\ LockKept(r)
<1> DEFINE c == Current(r)
           row == child[c]
<1>1. At(r, "handle") /\ run[r].pc \in Executing /\ UNCHANGED <<comments, patch, sandbox>>
  BY DEF CompleteChild, FailChild, At, Executing
<1>2. RunSound(r)
  BY DEF ChildInv
<1>3. c \in Kinds /\ OfChild(r) = row /\ row \in ChildRows /\ row.status # "absent"
  BY <1>1, <1>2, CurrentExists DEF ChildStatus
<1>4. row.status = "completed" => row.error = "none"
  BY <1>3 DEF ChildInv, RowSound
<1>5. ASSUME NEW new, row.status # "failed", Ends(row, new), child' = [child EXCEPT ![c] = new],
             NEW status, NEW error, Returned(r, status, error), status # "failed" => new.status = "completed"
      PROVE  Outside(r) /\ WorkGrows /\ LockKept(r)
  <2>1. (\A d \in Kinds : RowGrows(d) /\ RowSound(d)') /\ child'[c] = new
    BY <1>3, <1>5, EndsGrow
  <2>2. WorkGrows
    BY <1>1, <2>1 DEF WorkGrows
  <2>3. Outside(r)
    BY <1>1, <1>2, <1>5, <2>1, <2>2, ReturnedIsSound
  <2> QED
    BY <1>1, <1>5, <2>2, <2>3, HandlerKeeps DEF Outside
<1>6. ASSUME child' = child, NEW status, NEW error, Returned(r, status, error),
             status # "failed" => row.status = "completed"
      PROVE  Outside(r) /\ WorkGrows /\ LockKept(r)
  <2>1. WorkGrows
    BY <1>1, <1>6, FrameGrows
  <2> QED
    BY <1>1, <1>2, <1>6, <2>1, ReturnedIsSound, FrameKeeps DEF Outside
<1>7. ASSUME child' = child, NEW code, code # "none", Raised(r, code)
      PROVE  Outside(r) /\ WorkGrows /\ LockKept(r)
  <2>1. WorkGrows
    BY <1>1, <1>7, FrameGrows
  <2> QED
    BY <1>1, <1>2, <1>7, <2>1, RaisedIsSound, FrameKeeps DEF Outside
<1>8. CASE CompleteChild(r)
  <2>1. CASE /\ row.status # "failed" /\ Returned(r, "completed", "none")
             /\ \E output \in Outputs[c] : child' = [child EXCEPT ![c] = Counted(r, Completed(@, output))]
    <3>1. PICK output : child' = [child EXCEPT ![c] = Counted(r, Completed(@, output))]
      BY <2>1
    <3> DEFINE new == Counted(r, Completed(row, output))
    <3>2. new.status = "completed" /\ Ends(row, new)
      BY <1>3, <1>4, OutcomeEnds
    <3>3. child' = [child EXCEPT ![c] = new]
      BY <3>1
    <3> HIDE DEF new, row
    <3> QED
      BY <1>5, <2>1, <3>2, <3>3
  <2>2. CASE row.status = "completed" /\ Returned(r, "completed", "none") /\ child' = child
    BY <1>6, <2>2
  <2>3. CASE \E e \in CompletionErrors(r) : Raised(r, e) /\ child' = child
    BY <1>7, <2>3 DEF CompletionErrors
  <2> QED
    BY <1>3, <1>8, <2>1, <2>2, <2>3 DEF CompleteChild
<1>9. CASE FailChild(r)
  <2>1. PICK error \in Failures(r) :
          \/ /\ row.status \notin ChildTerminal
             /\ child' = [child EXCEPT ![c] = Counted(r, Failed(@, error))]
             /\ Returned(r, "failed", error)
          \/ /\ row.status \in ChildTerminal
             /\ Returned(r, row.status, error)
             /\ child' = child
          \/ \E e \in FailureErrors(r) : Raised(r, e) /\ child' = child
    BY <1>3, <1>9 DEF FailChild
  <2>2. CASE /\ row.status \notin ChildTerminal
             /\ child' = [child EXCEPT ![c] = Counted(r, Failed(@, error))]
             /\ Returned(r, "failed", error)
    <3> DEFINE new == Counted(r, Failed(row, error))
    <3>1. row.status # "completed" /\ row.status # "failed"
      BY <2>2 DEF ChildTerminal
    <3>2. Ends(row, new)
      BY <1>3, <1>4, <3>1, OutcomeEnds
    <3>3. child' = [child EXCEPT ![c] = new]
      BY <2>2
    <3> HIDE DEF new, row
    <3> QED
      BY <1>5, <2>2, <3>1, <3>2, <3>3
  <2>3. CASE row.status \in ChildTerminal /\ Returned(r, row.status, error) /\ child' = child
    BY <1>6, <2>3 DEF ChildTerminal
  <2>4. CASE \E e \in FailureErrors(r) : Raised(r, e) /\ child' = child
    BY <1>7, <2>4 DEF FailureErrors
  <2> QED
    BY <2>1, <2>2, <2>3, <2>4
<1> QED
  BY <1>8, <1>9

\* The outcomes are settled: on to the comments, or a timed out child is taken up again.
LEMMA SettleIsSound ==
  ASSUME TypeInv, ChildInv, NEW r \in Runs, SettleReview(r)
  PROVE  Outside(r) /\ WorkGrows /\ LockKept(r)
<1> DEFINE c == FirstBad(r)
<1>0. run[r] \in LocalStates /\ run \in [Runs -> LocalStates] /\ child \in [Kinds -> ChildRows]
  BY DEF TypeInv, TypeOK, WorkTypes
<1>1. child' = child /\ UNCHANGED <<comments, patch, sandbox>> /\ run[r].pc \in {"settle", "resettle"}
  BY DEF SettleReview, dataVars, At
<1>2. SUFFICES Outside(r)
  BY <1>1, FrameGrows, FrameKeeps DEF Outside
<1>3. {"collect", "settle", "resettle"} \subseteq Plain
  BY DEF Plain, Places, Executing
<1>4. CASE Goto(r, "collect")
  BY <1>3, <1>4, MoveIsSound
<1>5. CASE run' = [run EXCEPT ![r].bad = @ \ {c}]
  <2>1. run'[r].pc = run[r].pc
    BY <1>0, <1>5 DEF LocalStates
  <2> QED
    BY <1>1, <1>3, <2>1, PlainIsSound
<1>6. CASE /\ c \in Retries(r)
           /\ run' = [run EXCEPT ![r].pc = "retry", ![r].todo = <<c>>, ![r].bad = @ \ {c},
                                 ![r].copy = CopyOf(child[c])]
  <2> DEFINE copy == CopyOf(child[c])
             x == [run[r] EXCEPT !.pc = "retry", !.todo = <<c>>, !.bad = @ \ {c}, !.copy = copy]
  <2>1. c \in Kinds
    BY DEF FirstBad, Kinds
  <2>2. CanRetryChild(child[c].status, child[c].attempt, child[c].error) /\ child[c].status = "failed"
    BY <1>6 DEF Retries, CanRetryChild
  <2>3. copy.version = child[c].version /\ child[c].version \in Nat
    BY <1>0, <2>1 DEF CopyOf, ChildRows
  <2>4. run'[r] = x
    BY <1>0, <1>6
  <2> HIDE DEF copy
  <2>5. x.pc = "retry" /\ x.todo = <<c>> /\ x.copy = copy
    BY <1>0 DEF LocalStates
  <2>6. run'[r].pc = "retry" /\ run'[r].todo = <<c>> /\ run'[r].copy = copy
    BY <2>4, <2>5
  <2>7. OfChild(r)' = child[c]
    BY <1>1, <2>6 DEF OfChild, Current
  <2>8. TodoSubmitted(r)'
    BY <1>1, <2>2, <2>6 DEF TodoSubmitted
  <2>9. CopySound(r)'
    BY <2>2, <2>3, <2>6, <2>7 DEF CopySound, At
  <2>10. PlaceSound(r)'
    BY <2>6 DEF PlaceSound, Executing, At
  <2> QED
    BY <2>6, <2>8, <2>9, <2>10 DEF RunSound, Outside, At
<1> QED
  BY <1>4, <1>5, <1>6 DEF SettleReview

\* The retry of a child: of a timed out row that is current, or not at all.
LEMMA RetryIsSound ==
  ASSUME TypeInv, ChildInv, NEW r \in Runs, RetryChild(r)
  PROVE  Outside(r) /\ WorkGrows /\ LockKept(r)
<1> DEFINE c == Current(r)
           row == child[c]
<1>0. run[r] \in LocalStates /\ run \in [Runs -> LocalStates] /\ child \in [Kinds -> ChildRows]
  BY DEF TypeInv, TypeOK, WorkTypes
<1>1. At(r, "retry") /\ UNCHANGED <<comments, patch, sandbox>> /\ RunSound(r)
  BY DEF RetryChild, ChildInv
<1>2. c \in Kinds /\ OfChild(r) = row /\ row \in ChildRows /\ row.status # "absent"
  BY <1>1, CurrentExists DEF ChildStatus, At
<1>3. ASSUME Reexecute(r), WorkGrows
      PROVE  Outside(r)
  <2> DEFINE x == [run[r] EXCEPT !.pc = "exec", !.copy = NoCopy, !.then = "resettle"]
  <2>1. run'[r] = x
    BY <1>0, <1>3 DEF Reexecute
  <2>2. x.pc = "exec" /\ x.todo = run[r].todo /\ x.then = "resettle"
    BY <1>0 DEF LocalStates
  <2>3. run'[r].pc = "exec" /\ run'[r].todo = run[r].todo /\ run'[r].then = "resettle"
    BY <2>1, <2>2
  <2>4. \A i \in DOMAIN run[r].todo : run[r].todo[i] \in Kinds /\ child[run[r].todo[i]].status # "absent"
    BY <1>0, <1>1 DEF RunSound, TodoSubmitted, LocalStates, At
  <2>5. \A d \in Kinds : child[d].status # "absent" => child'[d].status # "absent"
    BY <1>3 DEF WorkGrows, RowGrows
  <2>6. TodoSubmitted(r)'
    BY <2>3, <2>4, <2>5 DEF TodoSubmitted
  <2>7. CopySound(r)' /\ PlaceSound(r)'
    BY <2>3 DEF CopySound, PlaceSound, At
  <2> QED
    BY <2>3, <2>6, <2>7 DEF RunSound, Outside, At
<1>4. CASE child' = child /\ (Reexecute(r) \/ ParkWith(r, "STATE_VERSION_CONFLICT"))
  <2>1. WorkGrows
    BY <1>1, <1>4, FrameGrows
  <2> QED
    BY <1>3, <1>4, <2>1, MoveIsSound, FrameKeeps DEF Outside
<1>5. CASE ~Stale(r) /\ child' = [child EXCEPT ![c] = Retried(@)] /\ Reexecute(r)
  <2>1. CanRetryChild(row.status, row.attempt, row.error)
    BY <1>1, <1>2, <1>5 DEF RunSound, CopySound
  <2>2. row.status = "failed" /\ row.error = "TASK_TIMEOUT" /\ row.attempt < MaxChildAttempts
    BY <2>1 DEF CanRetryChild, Retryable
  <2>3. row.version \in Nat /\ row.attempt \in Nat /\ row.version >= 1
    BY <1>2 DEF ChildRows, ChildInv, RowSound
  <2> DEFINE new == [row EXCEPT !.status = "working", !.error = "none",
                                !.attempt = row.attempt + 1, !.version = row.version + 1]
  <2>4. new.status = "working" /\ new.attempt = row.attempt + 1 /\ new.version = row.version + 1
    BY <1>2 DEF ChildRows
  <2>5. child'[c] = new /\ \A d \in Kinds \ {c} : child'[d] = child[d]
    BY <1>0, <1>2, <1>5 DEF Retried
  <2> HIDE DEF new
  <2>6. \A d \in {c} : RowGrows(d) /\ RowSound(d)'
    BY <2>2, <2>3, <2>4, <2>5 DEF RowGrows, RowSound, MaxChildAttempts
  <2>7. \A d \in Kinds \ {c} : RowGrows(d) /\ RowSound(d)'
    BY <2>5 DEF RowGrows, RowSound, ChildInv
  <2>8. WorkGrows
    <3>1. \A d \in Kinds : RowGrows(d) /\ RowSound(d)'
      BY <2>6, <2>7
    <3> QED
      BY <1>1, <3>1 DEF WorkGrows
  <2>9. Outside(r)
    BY <1>3, <1>5, <2>8
  <2>10. \A q \in Runs \ {r} : Claimed(q) => child'[Current(q)] = child[Current(q)]
    <3> SUFFICES ASSUME NEW q \in Runs \ {r}, Claimed(q)
                 PROVE  child'[Current(q)] = child[Current(q)]
      OBVIOUS
    <3>1. run[q].pc \in Executing /\ RunSound(q) /\ OfChild(q).status = "submitted"
      BY DEF Claimed, At, Executing, ChildInv, LockSound
    <3>2. Current(q) \in Kinds /\ child[Current(q)].status = "submitted"
      BY <3>1, CurrentExists
    <3> QED
      BY <2>2, <2>5, <3>2
  <2> QED
    BY <2>8, <2>9, <2>10 DEF LockKept, Claimed, Outside
<1> QED
  BY <1>4, <1>5 DEF RetryChild

\* The outcomes of a phase are collected: what a run goes on with is there, and stays.
LEMMA CollectIsSound ==
  ASSUME TypeInv, ChildInv, NEW r \in Runs,
         CollectReview(r) \/ CollectFix(r) \/ CollectVerify(r)
  PROVE  Outside(r) /\ WorkGrows /\ LockKept(r)
<1>0. run[r] \in LocalStates /\ run \in [Runs -> LocalStates] /\ RunSound(r)
  BY DEF TypeInv, TypeOK, WorkTypes, ChildInv
<1>1. patch \in [exists : BOOLEAN, drift : BOOLEAN, evidence : BOOLEAN, applied : BOOLEAN]
  BY DEF TypeInv, TypeOK, StoreTypes
<1>2. child' = child /\ (comments => comments') /\ (patch.exists => patch'.exists) /\ sandbox \subseteq sandbox'
  <2>1. child' = child /\ (comments => comments') /\ sandbox \subseteq sandbox'
    BY DEF CollectReview, CollectFix, CollectVerify
  <2>2. \/ patch' = patch
        \/ \E drift : patch' = [patch EXCEPT !.exists = TRUE, !.drift = drift, !.evidence = FALSE]
        \/ patch' = [patch EXCEPT !.drift = FALSE, !.evidence = TRUE]
    BY DEF CollectReview, CollectFix, CollectVerify
  <2>3. patch.exists => patch'.exists
    BY <1>1, <2>2
  <2> QED
    BY <2>1, <2>3
<1> SUFFICES Outside(r)
  BY <1>2, FrameGrows, FrameKeeps DEF Outside
<1>3. CASE End(r) \/ \E code : ParkWith(r, code)
  BY <1>3, MoveIsSound
<1>4. CASE CollectReview(r) /\ Goto(r, "reviewed")
  <2>1. run'[r].pc = "reviewed"
    BY <1>0, <1>4 DEF Goto, LocalStates
  <2>2. comments' /\ child["review"].status = "completed" /\ child["impact"].status = "completed"
    <3>1. ~ \E code : ParkWith(r, code)
      BY <1>0, <2>1 DEF ParkWith, Idle
    <3> QED
      BY <1>4, <3>1 DEF CollectReview
  <2> QED
    BY <1>2, <2>1, <2>2
    DEF Outside, RunSound, TodoSubmitted, CopySound, PlaceSound, Executing, At, BothReviewed
<1>5. CASE Goto(r, "testing")
  <2>1. "testing" \in Plain
    BY DEF Plain, Places, Executing
  <2> QED
    BY <1>5, <2>1, MoveIsSound
<1>6. CASE CollectVerify(r) /\ Goto(r, "approval")
  <2>1. run'[r].pc = "approval"
    BY <1>0, <1>6 DEF Goto, LocalStates
  <2>2. (~ \E code : ParkWith(r, code)) /\ ~ End(r)
    <3>1. End(r) => run'[r].pc = "idle"
      BY <1>0 DEF End, Idle
    <3>2. \A code : ParkWith(r, code) => run'[r].pc = "park"
      BY <1>0 DEF ParkWith, Idle
    <3> QED
      BY <2>1, <3>1, <3>2
  <2>3. /\ At(r, "collectverify") /\ run[r].bad = {} /\ child["verify"].output = "pass"
        /\ sandbox' = sandbox \cup {SandboxKey}
    BY <1>6, <2>2 DEF CollectVerify
  <2>4. patch.exists /\ child["verify"].status = "completed"
    BY <1>0, <2>3 DEF RunSound, PlaceSound
  <2>5. SandboxKey = "verify-child"
    BY <2>3 DEF SandboxKey
  <2> QED
    BY <1>2, <2>1, <2>3, <2>4, <2>5
    DEF Outside, RunSound, TodoSubmitted, CopySound, PlaceSound, Executing, At, Gated
<1> QED
  BY <1>3, <1>4, <1>5, <1>6 DEF CollectReview, CollectFix, CollectVerify

\* -- Every step ------------------------------------------------------------------
\* A step of a run leaves the others where they are.
LEMMA OthersStay ==
  ASSUME NEW r \in Runs, run \in [Runs -> LocalStates], Schedule(r) \/ TriggerFix(r) \/ RunStep(r)
  PROVE  \A q \in Runs \ {r} : run'[q] = run[q]
<1>1. \A pc : Goto(r, pc) \/ Onward(r, pc) => \A q \in Runs \ {r} : run'[q] = run[q]
  BY DEF Goto, Onward
<1>2. \A code : ParkWith(r, code) => \A q \in Runs \ {r} : run'[q] = run[q]
  BY DEF ParkWith
<1>3. End(r) => \A q \in Runs \ {r} : run'[q] = run[q]
  BY DEF End
<1>4. \A todo, then : Execute(r, todo, then) => \A q \in Runs \ {r} : run'[q] = run[q]
  BY DEF Execute
<1>5. \A target, key, go : Intend(r, target, key, go) => \A q \in Runs \ {r} : run'[q] = run[q]
  BY <1>1, <1>2 DEF Intend
<1>6. \A bad, error : NextChild(r, bad, error) => \A q \in Runs \ {r} : run'[q] = run[q]
  BY <1>2, <1>3 DEF NextChild
<1>7. \A code : Raised(r, code) => \A q \in Runs \ {r} : run'[q] = run[q]
  BY <1>6 DEF Raised
<1>8. \A status, error : Returned(r, status, error) => \A q \in Runs \ {r} : run'[q] = run[q]
  BY <1>2, <1>6 DEF Returned
<1>9. CASE \/ Schedule(r) \/ TriggerFix(r) \/ StartRun(r) \/ Look(r) \/ LoseInsertRace(r) \/ Park(r)
  BY <1>1, <1>3, <1>9 DEF Schedule, TriggerFix, StartRun, Look, LoseInsertRace, Park
<1>10. CASE \/ EnterReviewing(r) \/ MarkReviewed(r) \/ StopOffline(r) \/ StopUnfixable(r)
            \/ EnterFixing(r) \/ EnterTesting(r) \/ RequestApproval(r)
  BY <1>1, <1>3, <1>5, <1>10
  DEF EnterReviewing, MarkReviewed, StopOffline, StopUnfixable, EnterFixing, EnterTesting,
      RequestApproval
<1>11. CASE PlanReview(r) \/ PlanFix(r) \/ PlanVerify(r)
  BY <1>2, <1>4, <1>11 DEF PlanReview, PlanFix, PlanVerify
<1>12. CASE ReadChild(r) \/ ClaimChild(r) \/ CompleteChild(r) \/ FailChild(r)
  BY <1>1, <1>7, <1>8, <1>12 DEF ReadChild, ClaimChild, CompleteChild, FailChild
<1>13. CASE SettleReview(r) \/ RetryChild(r)
  BY <1>1, <1>2, <1>13 DEF SettleReview, RetryChild, Reexecute
<1>14. CASE CollectReview(r) \/ CollectFix(r) \/ CollectVerify(r)
  BY <1>1, <1>2, <1>3, <1>14 DEF CollectReview, CollectFix, CollectVerify
<1> QED
  BY <1>9, <1>10, <1>11, <1>12, <1>13, <1>14 DEF RunStep

\* A step of a run leaves it with what it has to show, takes nothing back, and keeps the
\* locks of the others.
LEMMA StepIsSound ==
  ASSUME TypeInv, TypeInv', ChildInv, NEW r \in Runs, Schedule(r) \/ TriggerFix(r) \/ RunStep(r)
  PROVE  /\ RunSound(r)' /\ WorkGrows /\ LockKept(r)
         /\ \A q \in Runs \ {r} : run'[q] = run[q]
<1>1. RunSound(r)' /\ WorkGrows /\ LockKept(r)
  BY EnterIsSound, IntentIsSound, PlanIsSound, ReadIsSound, ClaimIsSound, HandleIsSound,
     SettleIsSound, RetryIsSound, CollectIsSound
  DEF RunStep, Outside
<1>2. \A q \in Runs \ {r} : run'[q] = run[q]
  BY OthersStay DEF TypeInv, TypeOK, WorkTypes
<1> QED
  BY <1>1, <1>2

\* So the locks hold after it.
LEMMA LocksHold ==
  ASSUME ChildInv, NEW r \in Runs, LockKept(r), \A q \in Runs \ {r} : run'[q] = run[q]
  PROVE  LockSound' /\ OneExecution'
<1>1. \A q \in Runs \ {r} : /\ Claimed(q)' <=> Claimed(q)
                            /\ At(q, "handle")' <=> At(q, "handle")
                            /\ Current(q)' = Current(q)
  BY DEF Claimed, At, Current
<1>2. ASSUME NEW q \in Runs, Claimed(q)'
      PROVE  OfChild(q)'.status = "submitted"
  <2>1. CASE q = r
    BY <1>2, <2>1 DEF LockKept
  <2>2. CASE q # r
    BY <1>1, <1>2, <2>2 DEF LockKept, ChildInv, LockSound, OfChild
  <2> QED
    BY <2>1, <2>2
<1>3. ASSUME NEW p \in Runs, NEW q \in Runs, p # q, Claimed(p)', At(q, "handle")'
      PROVE  Current(p)' # Current(q)'
  <2>1. CASE p # r /\ q # r
    BY <1>1, <1>3, <2>1 DEF ChildInv, OneExecution
  <2>2. CASE p = r
    BY <1>1, <1>3, <2>2 DEF LockKept
  <2>3. CASE q = r
    BY <1>1, <1>3, <2>3 DEF LockKept
  <2> QED
    BY <2>1, <2>2, <2>3
<1> QED
  BY <1>2, <1>3 DEF LockSound, OneExecution

\* Nobody takes back what the runs work on: the steps of people and a crash neither.
LEMMA NextGrows ==
  ASSUME TypeInv, TypeInv', ChildInv, [Next]_vars
  PROVE  WorkGrows
<1>1. CASE RunMoves
  BY <1>1, StepIsSound DEF RunMoves
<1>2. CASE PeopleMove
  <2>1. patch' = patch \/ patch' = [patch EXCEPT !.applied = TRUE]
    BY <1>2 DEF PeopleMove, GateStep, CheckDecision, CommitDecision, EndDecision, CheckMerge,
                WriteBranch, FindBranchWritten, CommitMerge
  <2>2. patch.exists => patch'.exists
    BY <2>1 DEF TypeInv, TypeOK, StoreTypes
  <2> QED
    BY <1>2, <2>2, FrameGrows DEF PeopleMove
<1>3. CASE AdminResumes
  BY <1>3, FrameGrows DEF AdminResumes, Resume
<1>4. CASE Crash \/ UNCHANGED vars
  BY <1>4, FrameGrows DEF Crash, dataVars, vars, coordVars
<1> QED
  BY <1>1, <1>2, <1>3, <1>4 DEF Next

\* The invariant of the children and of what the runs know about them.
THEOREM ChildInvariant == Spec => []ChildInv
<1>1. Init => ChildInv
  <2>1. \A c \in Kinds : child[c] = NoChild => RowSound(c)
    BY DEF RowSound, NoChild, MaxChildAttempts
  <2>2. \A r \in Runs : run[r] = Idle => RunSound(r) /\ ~At(r, "handle")
    BY DEF Idle, RunSound, TodoSubmitted, CopySound, PlaceSound, Executing, At
  <2> QED
    BY <2>1, <2>2 DEF Init, CoordInit, ChildInv, LockSound, OneExecution, Claimed
<1>2. TypeInv /\ TypeInv' /\ ChildInv /\ [Next]_vars => ChildInv'
  <2> SUFFICES ASSUME TypeInv, TypeInv', ChildInv, [Next]_vars
               PROVE  ChildInv'
    OBVIOUS
  <2>1. WorkGrows
    BY NextGrows
  <2>2. \A c \in Kinds : RowSound(c)'
    BY <2>1 DEF WorkGrows
  <2>3. ASSUME NEW q \in Runs, run'[q] = run[q] PROVE RunSound(q)'
    BY <2>1, <2>3, RunStays DEF ChildInv
  <2>4. CASE UNCHANGED <<run, child>>
    <3>1. LockSound' /\ OneExecution'
      BY <2>4 DEF ChildInv, LockSound, OneExecution, Claimed, At, Current, OfChild
    <3> QED
      BY <2>2, <2>3, <2>4, <3>1 DEF ChildInv
  <2>5. CASE Crash
    <3>1. ASSUME NEW q \in Runs PROVE RunSound(q)' /\ ~At(q, "handle")'
      <4>1. run'[q] = Idle
        BY <2>5 DEF Crash
      <4> QED
        BY <4>1 DEF Idle, RunSound, TodoSubmitted, CopySound, PlaceSound, Executing, At
    <3> QED
      BY <2>2, <3>1 DEF ChildInv, LockSound, OneExecution, Claimed
  <2>6. CASE RunMoves
    <3>1. PICK r \in Runs : Schedule(r) \/ TriggerFix(r) \/ RunStep(r)
      BY <2>6 DEF RunMoves
    <3>2. RunSound(r)' /\ LockKept(r) /\ \A q \in Runs \ {r} : run'[q] = run[q]
      BY <3>1, StepIsSound
    <3>3. \A q \in Runs : RunSound(q)'
      BY <2>3, <3>2
    <3> QED
      BY <2>2, <3>2, <3>3, LocksHold DEF ChildInv
  <2> QED
    BY <2>4, <2>5, <2>6 DEF Next, PeopleMove, AdminResumes, vars, coordVars
<1> QED
  BY <1>1, <1>2, TypeInvariant, PTL DEF Spec

\* -- The theorems ------------------------------------------------------------------
\* The first attempt of a child is executed by one run alone: the lock that the UPDATE of
\* the claim takes keeps every other run out until the claim has committed, and the run
\* that finds the claim replayed (ChildTaskStore.transition) comes after that.
THEOREM ClaimExclusive == Spec => []OneExecution
<1>1. ChildInv => OneExecution
  BY DEF ChildInv
<1> QED
  BY <1>1, ChildInvariant, PTL

\* Executed again or not, a completed child keeps its result; a failed one is retried once
\* at most, after a timeout; and no update of a child row is lost (InProcessInvoker.execute).
THEOREM ChildrenCorrect == Spec => ResultStands
<1>1. TypeInv /\ TypeInv' /\ ChildInv /\ [Next]_vars =>
        [\A c \in Kinds : child'[c] # child[c] =>
           /\ child'[c].version > child[c].version
           /\ child'[c].attempt <= MaxChildAttempts
           /\ child[c].status = "completed" => child'[c] = [child[c] EXCEPT !.version = child'[c].version]
           /\ child[c].status = "failed" =>
                /\ child[c].error = "TASK_TIMEOUT"
                /\ child'[c].status = "working" /\ child'[c].attempt = child[c].attempt + 1]_vars
  BY NextGrows DEF WorkGrows, RowGrows
<1> QED
  BY <1>1, TypeInvariant, ChildInvariant, PTL DEF Spec, ResultStands

\* The status a run moves the task to, by its place.
LEMMA RunTargets ==
  ASSUME NEW r \in Runs, Schedule(r) \/ TriggerFix(r) \/ RunStep(r), task'.status # task.status
  PROVE  /\ task'.status = "REVIEWED" => At(r, "reviewed")
         /\ task'.status = "PENDING_APPROVAL" => At(r, "approval")
<1>1. ASSUME NEW target, NEW key, NEW go, Intend(r, target, key, go)
      PROVE  task' = task \/ task'.status = target
  BY <1>1 DEF Intend, Applied, WriteIntent, Replayed, Refused
<1>2. CASE \/ EnterReviewing(r) \/ MarkReviewed(r) \/ StopOffline(r) \/ StopUnfixable(r)
           \/ EnterFixing(r)
  BY <1>1, <1>2 DEF EnterReviewing, MarkReviewed, StopOffline, StopUnfixable, EnterFixing, Looked
<1>3. CASE EnterTesting(r) \/ RequestApproval(r)
  BY <1>1, <1>3 DEF EnterTesting, RequestApproval, Looked
<1>4. CASE Park(r)
  BY <1>4 DEF Park, Applied, WriteIntent, Replayed, Refused, ParkTarget
<1>5. CASE \/ Schedule(r) \/ TriggerFix(r) \/ StartRun(r) \/ Look(r) \/ PlanReview(r)
           \/ ReadChild(r) \/ ClaimChild(r) \/ CompleteChild(r) \/ FailChild(r)
           \/ SettleReview(r) \/ RetryChild(r) \/ CollectReview(r) \/ PlanFix(r) \/ CollectFix(r)
           \/ PlanVerify(r) \/ CollectVerify(r) \/ LoseInsertRace(r)
  BY <1>5 DEF Schedule, TriggerFix, StartRun, Look, PlanReview, ReadChild, ClaimChild,
              CompleteChild, FailChild, SettleReview, RetryChild, CollectReview, PlanFix,
              CollectFix, PlanVerify, CollectVerify, LoseInsertRace, storeVars
<1> QED
  BY <1>2, <1>3, <1>4, <1>5 DEF RunStep

\* Only a run reviews the task or asks for an approval, unless a human resumes it.
LEMMA RunsDecide ==
  ASSUME [Next]_vars, task'.status # task.status, task.status # "NEEDS_HUMAN",
         task'.status \in {"REVIEWED", "PENDING_APPROVAL"}
  PROVE  \E r \in Runs : /\ task'.status = "REVIEWED" => At(r, "reviewed")
                         /\ task'.status = "PENDING_APPROVAL" => At(r, "approval")
<1>1. ~ PeopleMove
  <2>1. ASSUME NEW d, CommitDecision(d) PROVE task' = task \/ task'.status = "REJECTED"
    BY <2>1 DEF CommitDecision, Applied, WriteIntent
  <2>2. ASSUME NEW m, CommitMerge(m) PROVE task' = task \/ task'.status = "MERGED"
    BY <2>2 DEF CommitMerge, Applied, WriteIntent, Replayed, Refused
  <2> QED
    BY <2>1, <2>2 DEF PeopleMove, GateStep, CheckDecision, EndDecision, CheckMerge, WriteBranch,
                      FindBranchWritten, storeVars
<1>2. ~ AdminResumes
  BY DEF AdminResumes, Resume, HumanResumed, CanHumanResume
<1>3. ~ Crash /\ ~ UNCHANGED vars
  BY DEF Crash, vars, storeVars
<1> QED
  BY <1>1, <1>2, <1>3, RunTargets DEF Next, RunMoves

\* A task is reviewed only if both reviewers delivered and the comments are stored,
\* however many runs work on it (Coordinator._run_review_phase).
THEOREM ReviewComplete == Spec => ReviewedNeedsBoth
<1>1. ChildInv /\ [Next]_vars =>
        [task.status = "REVIEWING" /\ task'.status = "REVIEWED" =>
           comments /\ child["review"].status = "completed" /\ child["impact"].status = "completed"]_vars
  <2> SUFFICES ASSUME ChildInv, [Next]_vars, task.status = "REVIEWING", task'.status = "REVIEWED"
               PROVE  BothReviewed
    BY DEF BothReviewed
  <2> QED
    BY RunsDecide DEF ChildInv, RunSound, PlaceSound, At
<1> QED
  BY <1>1, ChildInvariant, PTL DEF Spec, ReviewedNeedsBoth

\* Nobody is asked to approve a patch whose gate did not pass: the verify child has
\* completed with a passing gate and its sandbox run is stored (_run_verify_phase).
THEOREM GateCorrect == Spec => GateBeforeApproval
<1>1. ChildInv /\ [Next]_vars =>
        [task.status = "TESTING" /\ task'.status = "PENDING_APPROVAL" =>
           /\ patch.exists /\ child["verify"].status = "completed"
           /\ child["verify"].output = "pass" /\ "verify-child" \in sandbox]_vars
  <2> SUFFICES ASSUME ChildInv, [Next]_vars, task.status = "TESTING",
                      task'.status = "PENDING_APPROVAL"
               PROVE  Gated
    BY DEF Gated
  <2> QED
    BY RunsDecide DEF ChildInv, RunSound, PlaceSound, At
<1> QED
  BY <1>1, ChildInvariant, PTL DEF Spec, GateBeforeApproval
====
