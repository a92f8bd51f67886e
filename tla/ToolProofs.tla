---- MODULE ToolProofs ----
\* Proofs about what tools do: ToolGate, for any number of calls and of executions and any
\* limits, and TaskBranch, for any number of merges and of breaks.
EXTENDS ToolGate, TaskBranch, FiniteSetTheorems, TLAPS

\* -- ToolGate: what a handler has run --------------------------------------

\* The state of an open handler.
Handlers ==
  [agent : CallingAgents \cup {"none"}, count : Nat, used : Nat, tried : [Signatures -> Nat],
   ran : SUBSET (Nat \X Signatures), rows : SUBSET (CallingAgents \X ToolsCalled \X Nat)]

\* Calls that ran were counted, by the budget and for their signature, and within the
\* limits when they ran; each has a number of its own.
BudgetInv ==
  /\ handler \in Handlers
  /\ IsFiniteSet(handler.ran)
  /\ \A c \in handler.ran : c[1] <= handler.count
  /\ Cardinality(handler.ran) <= handler.used
  /\ \A s \in Signatures : Cardinality(RanWith(s)) <= handler.tried[s]

ToolInv == BudgetInv /\ CallsContained

\* A handler that has not called anything yet.
LEMMA FreshHandler ==
  ASSUME NEW a \in CallingAgents \cup {"none"}, handler' = [Closed EXCEPT !.agent = a]
  PROVE  ToolInv'
<1>1. handler' \in Handlers /\ handler'.ran = {}
  BY DEF Closed, None, Handlers
<1>2. Cardinality({}) = 0 /\ IsFiniteSet({})
  BY FS_EmptySet
<1>3. \A s \in Signatures : RanWith(s)' = {}
  BY <1>1 DEF RanWith
<1>4. \A s \in Signatures : handler'.tried[s] \in Nat
  BY <1>1 DEF Handlers
<1>5. handler'.used \in Nat
  BY <1>1 DEF Handlers
<1> QED
  BY <1>1, <1>2, <1>3, <1>4, <1>5, BudgetAssumption DEF ToolInv, BudgetInv, CallsContained

\* A call that runs nothing may be counted, recorded and charged.
LEMMA NothingRuns ==
  ASSUME ToolInv, handler' \in Handlers, handler'.ran = handler.ran,
         handler'.agent = handler.agent,
         handler'.count >= handler.count, handler'.used >= handler.used,
         \A s \in Signatures : handler'.tried[s] >= handler.tried[s]
  PROVE  ToolInv'
<1>1. \A s : RanWith(s)' = RanWith(s)
  BY DEF RanWith
<1>2. Cardinality(handler.ran) \in Nat /\ \A c \in handler.ran : c[1] \in Nat
  BY FS_CardinalityType DEF ToolInv, BudgetInv, Handlers
<1>3. \A s \in Signatures : Cardinality(RanWith(s)) \in Nat
  BY FS_CardinalityType, FS_Subset DEF ToolInv, BudgetInv, RanWith
<1>4. /\ handler.used \in Nat /\ handler'.used \in Nat /\ handler.count \in Nat /\ handler'.count \in Nat
      /\ \A s \in Signatures : handler.tried[s] \in Nat /\ handler'.tried[s] \in Nat
  BY DEF ToolInv, BudgetInv, Handlers
<1> QED
  BY <1>1, <1>2, <1>3, <1>4 DEF ToolInv, BudgetInv, CallsContained

\* A call that runs was charged within the limits: there is one more of it.
LEMMA OneRuns ==
  ASSUME ToolInv, handler' \in Handlers, NEW s \in Signatures,
         handler'.ran = handler.ran \cup {<<handler.count + 1, s>>},
         handler'.agent = handler.agent, handler'.count = handler.count + 1,
         handler'.used = handler.used + 1, handler'.used <= CallLimit,
         handler'.tried = [handler.tried EXCEPT ![s] = @ + 1], handler'.tried[s] < LoopLimit,
         s[1] \in AllowedTools[handler.agent] \ WriteTools
  PROVE  ToolInv'
<1> DEFINE call == <<handler.count + 1, s>>
<1>1. /\ handler.count \in Nat /\ handler.used \in Nat
      /\ \A t \in Signatures : handler.tried[t] \in Nat
      /\ \A c \in handler.ran : c[1] \in Nat /\ c[2] \in Signatures
  BY DEF ToolInv, BudgetInv, Handlers
<1>2. call \notin handler.ran
  BY <1>1 DEF ToolInv, BudgetInv
<1>3. /\ IsFiniteSet(handler'.ran)
      /\ Cardinality(handler'.ran) = Cardinality(handler.ran) + 1
  <2>1. IsFiniteSet(handler.ran)
    BY DEF ToolInv, BudgetInv
  <2>2. /\ IsFiniteSet(handler.ran \cup {call})
        /\ Cardinality(handler.ran \cup {call}) = Cardinality(handler.ran) + 1
    BY <1>2, <2>1, FS_AddElement
  <2> QED
    BY <2>2
<1>4. \A t : IsFiniteSet(RanWith(t)) /\ Cardinality(RanWith(t)) \in Nat
  BY FS_Subset, FS_CardinalityType DEF RanWith, ToolInv, BudgetInv
<1>5. RanWith(s)' = RanWith(s) \cup {call} /\ call \notin RanWith(s)
  BY <1>2 DEF RanWith
<1>6. Cardinality(RanWith(s)') = Cardinality(RanWith(s)) + 1
  BY <1>4, <1>5, FS_AddElement
<1>7. \A t : t # s => RanWith(t)' = RanWith(t)
  BY DEF RanWith
<1>8. Cardinality(handler.ran) \in Nat
  BY FS_CardinalityType DEF ToolInv, BudgetInv
<1>9. \A t \in Signatures : handler'.tried[t] = IF t = s THEN handler.tried[s] + 1 ELSE handler.tried[t]
  BY DEF ToolInv, BudgetInv, Handlers
<1>10. \A t \in Signatures : Cardinality(RanWith(t))' <= handler'.tried[t]
  BY <1>1, <1>4, <1>6, <1>7, <1>9 DEF ToolInv, BudgetInv
<1>11. \A c \in handler'.ran : c[1] <= handler'.count
  BY <1>1 DEF ToolInv, BudgetInv
<1>12. BudgetInv'
  BY <1>1, <1>3, <1>8, <1>10, <1>11 DEF ToolInv, BudgetInv
<1>13. Cardinality(handler'.ran) <= CallLimit
  BY <1>1, <1>3, <1>8, BudgetAssumption DEF ToolInv, BudgetInv
<1>14. ASSUME NEW c \in handler'.ran
       PROVE  /\ Cardinality(RanWith(c[2]))' < LoopLimit
              /\ c[2][1] \in AllowedTools[handler'.agent] \ WriteTools
  <2>1. CASE c[2] = s
    BY <1>1, <1>4, <1>6, <1>9, <2>1, BudgetAssumption DEF ToolInv, BudgetInv
  <2>2. CASE c[2] # s
    <3>1. c \in handler.ran
      BY <2>2
    <3> QED
      BY <1>7, <2>2, <3>1 DEF ToolInv, CallsContained
  <2> QED
    BY <2>1, <2>2
<1> QED
  BY <1>12, <1>13, <1>14 DEF ToolInv, CallsContained

\* A call of a tool, with any outcome.
LEMMA CallContained ==
  ASSUME ToolInv, NEW tool \in ToolsCalled, NEW params \in CallParams, CallTool(tool, params)
  PROVE  ToolInv'
<1> DEFINE n == handler.count + 1
           key == <<handler.agent, tool, n>>
           s == <<tool, params>>
           counted == [handler EXCEPT !.count = n]
           noted == [counted EXCEPT !.rows = @ \cup {key}]
           charged == [counted EXCEPT
             !.used = @ + 1,
             !.tried[s] = IF handler.used < CallLimit THEN @ + 1 ELSE @]
           ran == [charged EXCEPT !.ran = @ \cup {<<n, s>>}, !.rows = @ \cup {key}]
<1>1. handler \in Handlers /\ s \in Signatures
  BY DEF ToolInv, BudgetInv, Signatures
<1>2. handler.count \in Nat /\ handler.used \in Nat /\ handler.tried \in [Signatures -> Nat]
  BY <1>1 DEF Handlers
<1>3. key \in CallingAgents \X ToolsCalled \X Nat
  BY <1>1, <1>2 DEF CallTool, Handlers
<1> DEFINE times == IF handler.used < CallLimit THEN handler.tried[s] + 1 ELSE handler.tried[s]
           tried == [handler.tried EXCEPT ![s] = times]
<1>4. tried \in [Signatures -> Nat]
  <2>1. times \in Nat
    BY <1>1, <1>2
  <2> QED
    BY <1>1, <1>2, <2>1
<1>5. \A t \in Signatures : tried[t] >= handler.tried[t]
  BY <1>1, <1>2
<1>6. charged = [handler EXCEPT !.count = n, !.used = handler.used + 1, !.tried = tried]
  BY <1>1 DEF Handlers
<1>7. counted \in Handlers /\ noted \in Handlers
  BY <1>1, <1>2, <1>3 DEF Handlers
<1>8. charged \in Handlers
  <2>1. handler.used + 1 \in Nat /\ n \in Nat
    BY <1>2
  <2> HIDE DEF tried
  <2> QED
    BY <1>1, <1>4, <1>6, <2>1 DEF Handlers
<1>9. CASE handler' = counted \/ handler' = noted
  <2>1. /\ handler'.ran = handler.ran /\ handler'.agent = handler.agent
        /\ handler'.count = n /\ handler'.used = handler.used /\ handler'.tried = handler.tried
    BY <1>1, <1>9 DEF Handlers
  <2> QED
    BY <1>2, <1>7, <1>9, <2>1, NothingRuns
<1>10. CASE handler' = charged
  <2>1. /\ handler'.ran = handler.ran /\ handler'.agent = handler.agent
        /\ handler'.count = n /\ handler'.used = handler.used + 1 /\ handler'.tried = tried
    BY <1>1, <1>6, <1>10 DEF Handlers
  <2> HIDE DEF tried
  <2> QED
    BY <1>2, <1>5, <1>8, <1>10, <2>1, NothingRuns
<1>11. CASE handler' = ran /\ Charged(charged, s) /\ Authorized(handler.agent, tool)
  <2>1. /\ charged.used = handler.used + 1 /\ charged.tried = tried
    BY <1>1, <1>6 DEF Handlers
  <2>2. handler.used + 1 <= CallLimit /\ tried[s] < LoopLimit
    BY <1>11, <2>1 DEF Charged
  <2>3. tried = [handler.tried EXCEPT ![s] = @ + 1]
    BY <1>2, <2>2, BudgetAssumption
  <2>4. ran = [handler EXCEPT !.count = n, !.used = handler.used + 1, !.tried = tried,
                 !.ran = handler.ran \cup {<<n, s>>}, !.rows = handler.rows \cup {key}]
    BY <1>1, <1>6 DEF Handlers
  <2> HIDE DEF tried
  <2>5. /\ handler'.ran = handler.ran \cup {<<n, s>>} /\ handler'.agent = handler.agent
        /\ handler'.count = n /\ handler'.used = handler.used + 1 /\ handler'.tried = tried
        /\ handler'.rows = handler.rows \cup {key}
    BY <1>1, <1>11, <2>4 DEF Handlers
  <2>6. handler' \in Handlers
    <3>1. handler.used + 1 \in Nat /\ n \in Nat
      BY <1>2
    <3>2. handler.ran \cup {<<n, s>>} \in SUBSET (Nat \X Signatures)
      BY <1>1, <3>1 DEF Handlers
    <3>3. handler.rows \cup {key} \in SUBSET (CallingAgents \X ToolsCalled \X Nat)
      BY <1>1, <1>3 DEF Handlers
    <3>4. handler' = ran
      BY <1>11
    <3> HIDE DEF ran, key, s, n
    <3> QED
      BY <1>1, <1>4, <2>4, <3>1, <3>2, <3>3, <3>4 DEF Handlers
  <2>7. s[1] \in AllowedTools[handler.agent] \ WriteTools
    BY <1>11 DEF Authorized
  <2> QED
    BY <1>1, <2>2, <2>3, <2>5, <2>6, <2>7, OneRuns
<1> QED
  BY <1>9, <1>10, <1>11 DEF CallTool

\* Whatever a handler calls, and however often: no execution of it exceeds the budget, loops
\* or reaches a tool outside its policy (ToolRegistry.call, Budget.charge_tool).
THEOREM CallsCorrect == ToolSpec => []CallsContained
<1>1. ToolInit => ToolInv
  <2> SUFFICES ASSUME ToolInit PROVE ToolInv
    OBVIOUS
  <2>1. handler \in Handlers /\ handler.ran = {}
    BY DEF ToolInit, Closed, None, Handlers
  <2>2. Cardinality({}) = 0 /\ IsFiniteSet({})
    BY FS_EmptySet
  <2>3. \A s \in Signatures : RanWith(s) = {}
    BY <2>1 DEF RanWith
  <2> QED
    BY <2>1, <2>2, <2>3, BudgetAssumption DEF Handlers, ToolInv, BudgetInv, CallsContained
<1>2. ToolInv /\ [ToolNext]_toolVars => ToolInv'
  <2> SUFFICES ASSUME ToolInv, [ToolNext]_toolVars PROVE ToolInv'
    OBVIOUS
  <2>1. CASE OpenHandler
    BY <2>1, FreshHandler DEF OpenHandler
  <2>2. CASE CloseHandler
    <3>1. handler' = [Closed EXCEPT !.agent = "none"]
      BY <2>2 DEF CloseHandler, Closed
    <3> QED
      BY <3>1, FreshHandler
  <2>3. CASE UNCHANGED toolVars
    BY <2>3 DEF toolVars, ToolInv, BudgetInv, CallsContained, RanWith
  <2> QED
    BY <2>1, <2>2, <2>3, CallContained DEF ToolNext
<1>3. ToolInv => CallsContained
  BY DEF ToolInv
<1> QED
  BY <1>1, <1>2, <1>3, PTL DEF ToolSpec

\* -- TaskBranch: the invariant ---------------------------------------------
Places == {"idle", "setup", "apply", "commit", "record"}

BranchTypeOK ==
  /\ place \in [Writes -> Places]
  /\ repo \in [stage : Stages, patch : Progress, main : Nat, task : Nat]
  /\ recorded \in BOOLEAN
  /\ ensured \in {"open", "through", "torn"}
  /\ breaks \in Nat

\* A commit is made of what is in the files only, so after one nothing is left to commit;
\* and before the files are recorded no merge has got far enough to patch them.
CommittedOnce ==
  /\ repo.main + repo.task <= 1
  /\ repo.main + repo.task > 0 => repo.patch = "committed"
  /\ repo.stage \in {"absent", "dir"} => repo.patch = "none"
  /\ repo.stage = "absent" => \A m \in Writes : place[m] = "idle"

\* A merge that comes to its record finds the patch committed.
RecordsCommit ==
  /\ recorded => repo.main + repo.task = 1
  /\ \A m \in Writes : place[m] = "record" => repo.main + repo.task = 1

\* As long as no merge met a half set-up repository, none gets past the set-up before
\* the task branch is checked out, and then it stays checked out.
SetUpFirst ==
  /\ ensured = "open" => \A m \in Writes : place[m] \in {"idle", "setup"}
  /\ ensured = "through" => repo.stage = "ready"
  /\ ensured # "torn" => repo.main = 0

BranchInv == BranchTypeOK /\ CommittedOnce /\ RecordsCommit /\ SetUpFirst

\* -- TaskBranch: the invariant is inductive --------------------------------
\* Nothing is written in the beginning.
LEMMA BranchInitInv == BranchInit => BranchInv
<1> SUFFICES ASSUME BranchInit PROVE BranchInv
  OBVIOUS
<1>1. BranchTypeOK
  BY DEF BranchInit, BranchTypeOK, Places, Stages, Progress
<1>2. CommittedOnce
  BY DEF BranchInit, CommittedOnce
<1>3. RecordsCommit
  BY DEF BranchInit, RecordsCommit
<1>4. SetUpFirst
  BY DEF BranchInit, SetUpFirst
<1> QED
  BY <1>1, <1>2, <1>3, <1>4 DEF BranchInv

\* The ways a commit can go: it fails, or it puts the files on one of the branches.
LEMMA CommitEffect ==
  ASSUME BranchTypeOK, NEW m \in Writes, CommitPatch(m)
  PROVE  /\ place[m] = "commit"
         /\ recorded' = recorded /\ ensured' = ensured /\ breaks' = breaks
         /\ \/ repo' = repo /\ place' = [place EXCEPT ![m] = "idle"]
            \/ /\ place' = [place EXCEPT ![m] = "record"]
               /\ repo.patch = "files" /\ repo'.patch = "committed"
               /\ repo'.stage = repo.stage
               /\ repo' \in [stage : Stages, patch : Progress, main : Nat, task : Nat]
               /\ IF repo.stage = "ready"
                  THEN repo'.main = repo.main /\ repo'.task = repo.task + 1
                  ELSE repo'.main = repo.main + 1 /\ repo'.task = repo.task
<1> USE DEF BranchTypeOK, Stages, Progress, Move
<1>1. CASE repo.stage = "files" \/ repo.patch # "files"
  BY <1>1 DEF CommitPatch
<1>2. CASE ~(repo.stage = "files" \/ repo.patch # "files") /\ repo.stage = "ready"
  <2>1. repo' = [repo EXCEPT !.patch = "committed", !.task = @ + 1]
    BY <1>2 DEF CommitPatch
  <2>2. /\ place[m] = "commit" /\ place' = [place EXCEPT ![m] = "record"]
        /\ recorded' = recorded /\ ensured' = ensured /\ breaks' = breaks
    BY <1>2 DEF CommitPatch
  <2>3. /\ repo'.patch = "committed" /\ repo'.stage = repo.stage
        /\ repo'.task = repo.task + 1 /\ repo'.main = repo.main
        /\ repo' \in [stage : Stages, patch : Progress, main : Nat, task : Nat]
    <3> DEFINE r == [repo EXCEPT !.patch = "committed"]
    <3>1. /\ r \in [stage : Stages, patch : Progress, main : Nat, task : Nat]
          /\ r.patch = "committed" /\ r.stage = repo.stage
          /\ r.main = repo.main /\ r.task = repo.task
      OBVIOUS
    <3>2. repo' = [r EXCEPT !.task = r.task + 1]
      BY <2>1
    <3> HIDE DEF r
    <3> QED
      BY <3>1, <3>2
  <2> QED
    BY <1>2, <2>2, <2>3
<1>3. CASE ~(repo.stage = "files" \/ repo.patch # "files") /\ repo.stage # "ready"
  <2>1. repo' = [repo EXCEPT !.patch = "committed", !.main = @ + 1]
    BY <1>3 DEF CommitPatch
  <2>2. /\ place[m] = "commit" /\ place' = [place EXCEPT ![m] = "record"]
        /\ recorded' = recorded /\ ensured' = ensured /\ breaks' = breaks
    BY <1>3 DEF CommitPatch
  <2>3. /\ repo'.patch = "committed" /\ repo'.stage = repo.stage
        /\ repo'.main = repo.main + 1 /\ repo'.task = repo.task
        /\ repo' \in [stage : Stages, patch : Progress, main : Nat, task : Nat]
    <3> DEFINE r == [repo EXCEPT !.patch = "committed"]
    <3>1. /\ r \in [stage : Stages, patch : Progress, main : Nat, task : Nat]
          /\ r.patch = "committed" /\ r.stage = repo.stage
          /\ r.main = repo.main /\ r.task = repo.task
      OBVIOUS
    <3>2. repo' = [r EXCEPT !.main = r.main + 1]
      BY <2>1
    <3> HIDE DEF r
    <3> QED
      BY <3>1, <3>2
  <2> QED
    BY <1>3, <2>2, <2>3
<1> QED
  BY <1>1, <1>2, <1>3

\* Every command of a merge keeps the types.
LEMMA BranchTypeStep == BranchTypeOK /\ [BranchNext]_branchVars => BranchTypeOK'
<1> SUFFICES ASSUME BranchTypeOK, [BranchNext]_branchVars PROVE BranchTypeOK'
  OBVIOUS
<1> USE DEF BranchTypeOK, Places, Stages, Progress, Move
<1>1. CASE UNCHANGED branchVars
  BY <1>1 DEF branchVars
<1>2. ASSUME NEW m \in Writes, EnterWrite(m) PROVE BranchTypeOK'
  BY <1>2 DEF EnterWrite
<1>3. ASSUME NEW m \in Writes, SetUpFiles(m) PROVE BranchTypeOK'
  BY <1>3 DEF SetUpFiles
<1>4. ASSUME NEW m \in Writes, SetUpGit(m) PROVE BranchTypeOK'
  BY <1>4 DEF SetUpGit
<1>5. ASSUME NEW m \in Writes, SetUpBase(m) PROVE BranchTypeOK'
  BY <1>5 DEF SetUpBase
<1>6. ASSUME NEW m \in Writes, SetUpBranch(m) PROVE BranchTypeOK'
  BY <1>6 DEF SetUpBranch
<1>7. ASSUME NEW m \in Writes, ApplyPatch(m) PROVE BranchTypeOK'
  BY <1>7 DEF ApplyPatch
<1>8. ASSUME NEW m \in Writes, CommitPatch(m) PROVE BranchTypeOK'
  BY <1>8, CommitEffect
<1>9. ASSUME NEW m \in Writes, RecordWrite(m) PROVE BranchTypeOK'
  BY <1>9 DEF RecordWrite
<1>10. ASSUME NEW m \in Writes, BreakWrite(m) PROVE BranchTypeOK'
  BY <1>10 DEF BreakWrite
<1> QED
  BY <1>1, <1>2, <1>3, <1>4, <1>5, <1>6, <1>7, <1>8, <1>9, <1>10 DEF BranchNext

\* The steps that commit, or that turn the files back, find nothing committed.
LEMMA CommittedOnceStep == BranchInv /\ [BranchNext]_branchVars => CommittedOnce'
<1> SUFFICES ASSUME BranchInv, [BranchNext]_branchVars PROVE CommittedOnce'
  OBVIOUS
<1> USE DEF BranchInv, BranchTypeOK, CommittedOnce, Places, Stages, Progress, Move
<1>1. CASE UNCHANGED branchVars
  BY <1>1 DEF branchVars
<1>2. ASSUME NEW m \in Writes, EnterWrite(m) PROVE CommittedOnce'
  BY <1>2 DEF EnterWrite
<1>3. ASSUME NEW m \in Writes, SetUpFiles(m) PROVE CommittedOnce'
  BY <1>3 DEF SetUpFiles
<1>4. ASSUME NEW m \in Writes, SetUpGit(m) PROVE CommittedOnce'
  BY <1>4 DEF SetUpGit
<1>5. ASSUME NEW m \in Writes, SetUpBase(m) PROVE CommittedOnce'
  BY <1>5 DEF SetUpBase
<1>6. ASSUME NEW m \in Writes, SetUpBranch(m) PROVE CommittedOnce'
  BY <1>6 DEF SetUpBranch
<1>7. ASSUME NEW m \in Writes, ApplyPatch(m) PROVE CommittedOnce'
  BY <1>7 DEF ApplyPatch
<1>8. ASSUME NEW m \in Writes, CommitPatch(m) PROVE CommittedOnce'
  BY <1>8, CommitEffect
<1>9. ASSUME NEW m \in Writes, RecordWrite(m) \/ BreakWrite(m) PROVE CommittedOnce'
  BY <1>9 DEF RecordWrite, BreakWrite
<1> QED
  BY <1>1, <1>2, <1>3, <1>4, <1>5, <1>6, <1>7, <1>8, <1>9 DEF BranchNext

\* Whoever records has committed before; nothing is ever taken back from a branch.
LEMMA RecordsCommitStep == BranchInv /\ [BranchNext]_branchVars => RecordsCommit'
<1> SUFFICES ASSUME BranchInv, [BranchNext]_branchVars PROVE RecordsCommit'
  OBVIOUS
<1> USE DEF BranchInv, BranchTypeOK, CommittedOnce, RecordsCommit, Stages, Progress, Move
<1>1. CASE UNCHANGED branchVars
  BY <1>1 DEF branchVars
<1>2. ASSUME NEW m \in Writes, EnterWrite(m) PROVE RecordsCommit'
  BY <1>2 DEF EnterWrite
<1>3. ASSUME NEW m \in Writes, SetUpFiles(m) PROVE RecordsCommit'
  BY <1>3 DEF SetUpFiles
<1>4. ASSUME NEW m \in Writes, SetUpGit(m) PROVE RecordsCommit'
  BY <1>4 DEF SetUpGit
<1>5. ASSUME NEW m \in Writes, SetUpBase(m) PROVE RecordsCommit'
  BY <1>5 DEF SetUpBase
<1>6. ASSUME NEW m \in Writes, SetUpBranch(m) PROVE RecordsCommit'
  BY <1>6 DEF SetUpBranch
<1>7. ASSUME NEW m \in Writes, ApplyPatch(m) PROVE RecordsCommit'
  BY <1>7 DEF ApplyPatch
<1>8. ASSUME NEW m \in Writes, CommitPatch(m) PROVE RecordsCommit'
  BY <1>8, CommitEffect
<1>9. ASSUME NEW m \in Writes, RecordWrite(m) \/ BreakWrite(m) PROVE RecordsCommit'
  BY <1>9 DEF RecordWrite, BreakWrite
<1> QED
  BY <1>1, <1>2, <1>3, <1>4, <1>5, <1>6, <1>7, <1>8, <1>9 DEF BranchNext

\* The only way past the set-up, while it is not torn, is through its last stage.
LEMMA SetUpFirstStep == BranchInv /\ [BranchNext]_branchVars => SetUpFirst'
<1> SUFFICES ASSUME BranchInv, [BranchNext]_branchVars PROVE SetUpFirst'
  OBVIOUS
<1> USE DEF BranchInv, BranchTypeOK, SetUpFirst, Places, Stages, Move
<1>1. CASE UNCHANGED branchVars
  BY <1>1 DEF branchVars
<1>2. ASSUME NEW m \in Writes, EnterWrite(m) PROVE SetUpFirst'
  BY <1>2 DEF EnterWrite
<1>3. ASSUME NEW m \in Writes, SetUpFiles(m) PROVE SetUpFirst'
  BY <1>3 DEF SetUpFiles
<1>4. ASSUME NEW m \in Writes, SetUpGit(m) PROVE SetUpFirst'
  BY <1>4 DEF SetUpGit
<1>5. ASSUME NEW m \in Writes, SetUpBase(m) PROVE SetUpFirst'
  BY <1>5 DEF SetUpBase
<1>6. ASSUME NEW m \in Writes, SetUpBranch(m) PROVE SetUpFirst'
  BY <1>6 DEF SetUpBranch
<1>7. ASSUME NEW m \in Writes, ApplyPatch(m) PROVE SetUpFirst'
  BY <1>7 DEF ApplyPatch
<1>8. ASSUME NEW m \in Writes, CommitPatch(m) PROVE SetUpFirst'
  BY <1>8, CommitEffect
<1>9. ASSUME NEW m \in Writes, RecordWrite(m) \/ BreakWrite(m) PROVE SetUpFirst'
  BY <1>9 DEF RecordWrite, BreakWrite
<1> QED
  BY <1>1, <1>2, <1>3, <1>4, <1>5, <1>6, <1>7, <1>8, <1>9 DEF BranchNext

\* -- TaskBranch: theorems --------------------------------------------------
\* However many merges of a patch overlap and break off, it is committed at most once,
\* a recorded write has committed it, and while no merge met a half set-up repository
\* it is on the task branch (ensure and apply_patch of SyntheticRepo).
THEOREM PatchCommittedOnce == BranchSpec => []PatchOnTaskBranch
<1>1. BranchInv /\ [BranchNext]_branchVars => BranchInv'
  <2> SUFFICES ASSUME BranchInv, [BranchNext]_branchVars PROVE BranchInv'
    OBVIOUS
  <2>1. BranchTypeOK'
    BY BranchTypeStep DEF BranchInv
  <2> QED
    BY <2>1, CommittedOnceStep, RecordsCommitStep, SetUpFirstStep DEF BranchInv
<1>2. BranchInv => PatchOnTaskBranch
  BY DEF BranchInv, CommittedOnce, RecordsCommit, SetUpFirst, PatchOnTaskBranch
<1> QED
  BY BranchInitInv, <1>1, <1>2, PTL DEF BranchSpec
====
