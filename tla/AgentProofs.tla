---- MODULE AgentProofs ----
\* Proofs about the work of the agents: VerifySandbox, for any number of verifications and
\* of faults; FixPlanning, for a file of any length; ImpactScope, for code of any size;
\* ReviewInput, for an edit of any length.
EXTENDS VerifySandbox, FixPlanning, ImpactScope, ReviewInput, FiniteSetTheorems, SequenceTheorems, TLAPS

\* -- VerifySandbox: types --------------------------------------------------
Phases == {"baseline", "verify"}
Marks == {"CHECK_OK", "CHECK_FAIL", "APPLY_OK", "APPLY_FAIL", "LINT_OK", "LINT_FAIL"}
TestResults == {"pass", "skip", "fail", "empty"}
Coverages == {"unknown", "kept", "lost", "zero"}
Outputs == [marks : SUBSET Marks, tests : TestResults, coverage : Coverages, late : BOOLEAN]
Scripts == [at : {"off", "start", "apply", "lint", "test", "end"}, patched : BOOLEAN,
            clean : BOOLEAN, tests : TestResults, out : Outputs]

SandboxTypes ==
  /\ spot \in {"idle", "volume", "create", "exec", "join", "clean", "judge"}
  /\ phase \in Phases
  /\ script \in Scripts
  /\ result \in [Phases -> Outputs]
  /\ evidence \in {"none", "blocked", "sufficient", "insufficient", "error"}
  /\ messy \in BOOLEAN

\* -- VerifySandbox: what the output tells ----------------------------------
\* The marks a command has printed tell the truth about what it did.
ScriptTells(s) ==
  /\ s.at \in {"off", "start"} => s.out.marks = {}
  /\ s.at \in {"apply", "lint"} => "LINT_OK" \notin s.out.marks
  /\ /\ s.at \in {"lint", "test", "end"}
     /\ "CHECK_OK" \in s.out.marks /\ "CHECK_FAIL" \notin s.out.marks
     => s.patched
  /\ "LINT_OK" \in s.out.marks => s.clean
  /\ s.out.tests \in {"empty", s.tests}

\* What was read of a command that ended is what it printed, but for its end.
ReadOf(s, out) ==
  \/ out.late
  \/ out.marks = {}
  \/ s.at = "end" /\ out.marks = s.out.marks /\ out.tests \in {"empty", s.tests}

EvidenceTells ==
  /\ ScriptTells(script)
  /\ spot = "judge" \/ (spot = "clean" /\ phase = "verify" /\ evidence # "error")
       => ReadOf(script, result["verify"])
  /\ evidence = "sufficient" =>
       spot = "idle" /\ script.patched /\ script.clean /\ script.tests \in {"pass", "skip"}

\* -- VerifySandbox: what exists --------------------------------------------
\* The finally block knows of all that exists, unless something went wrong with it.
HeldExists ==
  /\ spot \in {"idle", "volume", "judge"} => held = {}
  /\ ~messy => docker = {<<k, phase>> : k \in held}

\* -- VerifySandbox: steps of the command -----------------------------------
\* Nothing has been printed where nothing has run.
LEMMA FreshOutput ==
  /\ NoOutput \in Outputs
  /\ NoScript \in Scripts /\ ScriptTells(NoScript)
  /\ \A s \in Scripts : ReadOf(s, NoOutput) /\ ReadOf(s, [NoOutput EXCEPT !.late = TRUE])
  /\ NoResults \in [Phases -> Outputs]
  BY DEF NoOutput, NoScript, NoResults, Outputs, Scripts, ScriptTells, ReadOf, Phases, Marks,
         TestResults, Coverages

\* The script prints a mark and goes on.
LEMMA Printing ==
  ASSUME script \in Scripts, NEW mark \in Marks, NEW at \in {"apply", "lint", "test"},
         NEW patched \in BOOLEAN, NEW clean \in BOOLEAN,
         script' = [script EXCEPT !.at = at, !.patched = patched, !.clean = clean,
                                  !.out.marks = Printed({mark})]
  PROVE  /\ script' \in Scripts
         /\ script'.at = at /\ script'.patched = patched /\ script'.clean = clean
         /\ script'.tests = script.tests /\ script'.out.tests = script.out.tests
         /\ script'.out.marks = script.out.marks \cup {mark}
<1> DEFINE out == [script.out EXCEPT !.marks = Printed({mark})]
<1>1. script.out \in Outputs
  BY DEF Scripts
<1>2. Printed({mark}) \in SUBSET Marks /\ Printed({mark}) = script.out.marks \cup {mark}
  BY <1>1 DEF Printed, Outputs
<1>3. out \in Outputs /\ out.marks = Printed({mark}) /\ out.tests = script.out.tests
  BY <1>1, <1>2 DEF Outputs
<1>4. script' = [script EXCEPT !.at = at, !.patched = patched, !.clean = clean, !.out = out]
  BY DEF Scripts
<1> HIDE DEF out
<1>5. /\ script' \in Scripts /\ script'.out = out
      /\ script'.at = at /\ script'.patched = patched /\ script'.clean = clean
      /\ script'.tests = script.tests
  BY <1>3, <1>4 DEF Scripts
<1> QED
  BY <1>2, <1>3, <1>5

\* The command goes on: its marks stay true.
LEMMA ScriptStepTells ==
  ASSUME script \in Scripts, ScriptTells(script), CheckStep \/ ApplyStep \/ LintStep \/ TestStep
  PROVE  script' \in Scripts /\ ScriptTells(script')
<1>0. script.patched \in BOOLEAN /\ script.clean \in BOOLEAN /\ script.out \in Outputs
  BY DEF Scripts
<1>1. CASE CheckStep
  <2>1. PICK mark \in {"CHECK_OK", "CHECK_FAIL", "APPLY_FAIL"}, at \in {"apply", "lint"} :
          /\ at = "lint" => mark = "APPLY_FAIL"
          /\ script' = [script EXCEPT !.at = at, !.out.marks = Printed({mark})]
    BY <1>1 DEF CheckStep
  <2>2. script' = [script EXCEPT !.at = at, !.patched = script.patched, !.clean = script.clean,
                                 !.out.marks = Printed({mark})]
    BY <2>1 DEF Scripts
  <2>3. script.out.marks = {}
    BY <1>1 DEF CheckStep, ScriptTells
  <2>4. mark \in Marks
    BY DEF Marks
  <2>5. /\ script' \in Scripts /\ script'.at = at /\ script'.tests = script.tests
        /\ script'.patched = script.patched /\ script'.clean = script.clean
        /\ script'.out.tests = script.out.tests /\ script'.out.marks = {mark}
    BY <1>0, <2>2, <2>3, <2>4, Printing
  <2> QED
    BY <2>1, <2>5 DEF ScriptTells
<1>2. CASE ApplyStep
  <2> DEFINE fits == "CHECK_FAIL" \notin script.out.marks
             mark == IF fits THEN "APPLY_OK" ELSE "APPLY_FAIL"
  <2>1. /\ script.at = "apply" /\ mark \in Marks /\ fits \in BOOLEAN
        /\ mark # "CHECK_OK" /\ mark # "CHECK_FAIL" /\ mark # "LINT_OK"
    BY <1>2 DEF ApplyStep, Marks
  <2>2. script' = [script EXCEPT !.at = "lint", !.patched = fits, !.clean = script.clean,
                                 !.out.marks = Printed({mark})]
    BY <1>2 DEF ApplyStep, Scripts
  <2> HIDE DEF mark
  <2>3. /\ script' \in Scripts /\ script'.at = "lint" /\ script'.patched = fits
        /\ script'.clean = script.clean
        /\ script'.tests = script.tests /\ script'.out.tests = script.out.tests
        /\ script'.out.marks = script.out.marks \cup {mark}
    BY <1>0, <2>1, <2>2, Printing
  <2> QED
    BY <2>1, <2>3 DEF ScriptTells
<1>3. CASE LintStep
  <2>1. PICK ok \in BOOLEAN :
          script' = [script EXCEPT !.at = "test", !.clean = ok,
                       !.out.marks = Printed({IF ok THEN "LINT_OK" ELSE "LINT_FAIL"})]
    BY <1>3 DEF LintStep
  <2> DEFINE mark == IF ok THEN "LINT_OK" ELSE "LINT_FAIL"
  <2>2. /\ script.at = "lint" /\ mark \in Marks /\ mark # "CHECK_OK" /\ mark # "CHECK_FAIL"
        /\ mark = "LINT_OK" => ok
    BY <1>3 DEF LintStep, Marks
  <2>3. script' = [script EXCEPT !.at = "test", !.patched = script.patched, !.clean = ok,
                                 !.out.marks = Printed({mark})]
    BY <2>1 DEF Scripts
  <2> HIDE DEF mark
  <2>4. /\ script' \in Scripts /\ script'.at = "test" /\ script'.patched = script.patched
        /\ script'.clean = ok
        /\ script'.tests = script.tests /\ script'.out.tests = script.out.tests
        /\ script'.out.marks = script.out.marks \cup {mark}
    BY <1>0, <2>2, <2>3, Printing
  <2> QED
    BY <2>2, <2>4 DEF ScriptTells
<1>4. CASE TestStep
  <2>1. PICK tests \in TestResults, coverage \in Coverages :
          script' = [script EXCEPT !.at = "end", !.tests = tests,
                                   !.out.tests = tests, !.out.coverage = coverage]
    BY <1>4 DEF TestStep, TestResults, Coverages
  <2> DEFINE tested == [script.out EXCEPT !.tests = tests]
             read == [tested EXCEPT !.coverage = coverage]
  <2>2. tested \in Outputs /\ tested.marks = script.out.marks /\ tested.tests = tests
    BY <1>0 DEF Outputs
  <2>3. script' = [script EXCEPT !.at = "end", !.tests = tests, !.out = read]
    BY <2>1 DEF Scripts
  <2> HIDE DEF tested
  <2>4. read \in Outputs /\ read.marks = script.out.marks /\ read.tests = tests
    BY <2>2 DEF Outputs
  <2>5. script.at \in {"start", "test"}
    BY <1>4 DEF TestStep
  <2> HIDE DEF read
  <2> QED
    BY <2>3, <2>4, <2>5 DEF Scripts, ScriptTells
<1> QED
  BY <1>1, <1>2, <1>3, <1>4

\* -- VerifySandbox: steps of the agent -------------------------------------
SandboxInv == SandboxTypes /\ EvidenceTells /\ HeldExists

\* The beginning: nothing has run and nothing exists.
LEMMA SandboxInitInv == SandboxInit => SandboxInv
<1> SUFFICES ASSUME SandboxInit PROVE SandboxInv
  OBVIOUS
<1>1. SandboxTypes
  BY FreshOutput DEF SandboxInit, SandboxTypes, Phases
<1>2. EvidenceTells
  BY FreshOutput DEF SandboxInit, EvidenceTells
<1>3. HeldExists
  BY DEF SandboxInit, HeldExists
<1> QED
  BY <1>1, <1>2, <1>3 DEF SandboxInv

\* A run that ends leaves what was read of its output in the results.
LEMMA LeaveTells ==
  ASSUME SandboxInv, spot = "join", NEW out \in Outputs, ReadOf(script, out), Leave(out)
  PROVE  SandboxTypes' /\ EvidenceTells'
<1>1. result'[phase] = out /\ result' \in [Phases -> Outputs]
  BY DEF Leave, SandboxInv, SandboxTypes
<1>2. SandboxTypes'
  BY <1>1 DEF Leave, SandboxInv, SandboxTypes
<1>3. EvidenceTells'
  BY <1>1 DEF Leave, SandboxInv, EvidenceTells, ReadOf, ScriptTells
<1> QED
  BY <1>2, <1>3

\* What can be read of a command that ended, or did not.
LEMMA EndingTells ==
  ASSUME SandboxInv, ExecEnded \/ ExecBroke \/ ExecTimedOut
  PROVE  SandboxTypes' /\ EvidenceTells'
<1>0. spot = "join" /\ script \in Scripts /\ script.out \in Outputs /\ ScriptTells(script)
  BY DEF ExecEnded, ExecBroke, ExecTimedOut, SandboxInv, SandboxTypes, EvidenceTells, Scripts
<1>1. CASE ExecEnded
  <2>1. PICK out \in {script.out, [script.out EXCEPT !.tests = "empty", !.coverage = "unknown"]} :
          Leave(out)
    BY <1>1 DEF ExecEnded
  <2>2. out \in Outputs /\ out.marks = script.out.marks /\ out.tests \in {"empty", script.out.tests}
    BY <1>0 DEF Outputs, TestResults, Coverages
  <2>3. ReadOf(script, out)
    BY <1>0, <1>1, <2>2 DEF ExecEnded, ReadOf, ScriptTells
  <2> QED
    BY <1>0, <2>1, <2>2, <2>3, LeaveTells
<1>2. CASE ExecBroke
  BY <1>0, <1>2, FreshOutput, LeaveTells DEF ExecBroke
<1>3. CASE ExecTimedOut
  <2>1. PICK out \in {[script.out EXCEPT !.late = TRUE], [NoOutput EXCEPT !.late = TRUE]} : Leave(out)
    BY <1>3 DEF ExecTimedOut
  <2>2. out \in Outputs /\ out.late
    BY <1>0, FreshOutput DEF Outputs
  <2> QED
    BY <1>0, <2>1, <2>2, LeaveTells DEF ReadOf
<1> QED
  BY <1>1, <1>2, <1>3

\* Sufficient evidence asks for marks that are only printed when they are true.
LEMMA JudgeTells ==
  ASSUME SandboxInv, Judge
  PROVE  SandboxTypes' /\ EvidenceTells'
<1>0. script \in Scripts /\ script.out \in Outputs /\ result["verify"] \in Outputs
  BY DEF SandboxInv, SandboxTypes, Scripts, Phases
<1>1. /\ script' = [script EXCEPT !.out = NoOutput]
      /\ script' \in Scripts /\ script'.out = NoOutput
      /\ script'.at = script.at /\ script'.patched = script.patched
      /\ script'.clean = script.clean /\ script'.tests = script.tests
  BY <1>0, FreshOutput DEF Judge, Scripts
<1>2. ASSUME Sufficient(result["verify"])
      PROVE  script.patched /\ script.clean /\ script.tests \in {"pass", "skip"}
  <2>1. ReadOf(script, result["verify"]) /\ ScriptTells(script)
    BY DEF SandboxInv, EvidenceTells, Judge
  <2>2. script.tests \in TestResults
    BY <1>0 DEF Scripts
  <2> QED
    BY <1>2, <2>1, <2>2
    DEF Sufficient, ApplyOk, LintOk, TestsOk, TestGap, ReadOf, ScriptTells, TestResults
<1>3. SandboxTypes'
  BY <1>1, FreshOutput DEF Judge, SandboxInv, SandboxTypes
<1>4. ScriptTells(script')
  BY <1>1 DEF ScriptTells, NoOutput
<1> QED
  BY <1>1, <1>2, <1>3, <1>4 DEF Judge, EvidenceTells

\* A verification begins, or its process dies: nothing has been printed.
LEMMA EdgeTells ==
  ASSUME SandboxInv, BeginVerify \/ DieVerifying
  PROVE  SandboxTypes' /\ EvidenceTells'
  BY FreshOutput
  DEF BeginVerify, DieVerifying, SandboxInv, SandboxTypes, EvidenceTells, Phases

\* The container is prepared, and the command started.
LEMMA SetUpTells ==
  ASSUME SandboxInv, Populate \/ CreateContainer \/ StartExec
  PROVE  SandboxTypes' /\ EvidenceTells'
<1>1. [NoScript EXCEPT !.at = "start"] \in Scripts /\ ScriptTells([NoScript EXCEPT !.at = "start"])
  BY FreshOutput DEF Scripts, ScriptTells, NoScript, NoOutput
<1>2. CASE Populate
  BY <1>2 DEF Populate, SandboxInv, SandboxTypes, EvidenceTells
<1>3. CASE CreateContainer
  BY <1>3 DEF CreateContainer, SandboxInv, SandboxTypes, EvidenceTells
<1>4. CASE StartExec
  BY <1>1, <1>4 DEF StartExec, SandboxInv, SandboxTypes, EvidenceTells
<1> QED
  BY <1>2, <1>3, <1>4

\* The finally block leads on, with the script of the last run kept for the judgement.
LEMMA CleanUpTells ==
  ASSUME SandboxInv, CleanUp
  PROVE  SandboxTypes' /\ EvidenceTells'
<1>1. SandboxTypes'
  BY FreshOutput DEF CleanUp, SandboxInv, SandboxTypes, Phases
<1>2. EvidenceTells'
  BY FreshOutput DEF CleanUp, SandboxInv, SandboxTypes, EvidenceTells, Phases
<1> QED
  BY <1>1, <1>2

\* The script goes on by itself.
LEMMA RunningTells ==
  ASSUME SandboxInv, ScriptStep
  PROVE  SandboxTypes' /\ EvidenceTells'
<1>1. script' \in Scripts /\ ScriptTells(script')
  BY ScriptStepTells DEF ScriptStep, SandboxInv, SandboxTypes, EvidenceTells
<1> QED
  BY <1>1 DEF ScriptStep, SandboxInv, SandboxTypes, EvidenceTells

\* Every step keeps what is held and what exists together.
LEMMA HeldStep ==
  ASSUME SandboxInv, SandboxNext
  PROVE  HeldExists'
<1> USE DEF SandboxInv, SandboxTypes, HeldExists, Phases
<1>1. CASE BeginVerify
  BY <1>1 DEF BeginVerify
<1>2. CASE Populate
  BY <1>2 DEF Populate, Here
<1>3. CASE CreateContainer
  BY <1>3 DEF CreateContainer, Here
<1>4. CASE StartExec \/ ScriptStep
  BY <1>4 DEF StartExec, ScriptStep
<1>5. CASE ExecEnded \/ ExecBroke \/ ExecTimedOut
  BY <1>5 DEF ExecEnded, ExecBroke, ExecTimedOut, Leave
<1>6. CASE CleanUp
  BY <1>6 DEF CleanUp, Here
<1>7. CASE Judge
  BY <1>7 DEF Judge
<1>8. CASE DieVerifying
  BY <1>8 DEF DieVerifying
<1> QED
  BY <1>1, <1>2, <1>3, <1>4, <1>5, <1>6, <1>7, <1>8 DEF SandboxNext, SandboxStep

\* -- VerifySandbox: theorems -----------------------------------------------
\* The invariant holds, however the runs of containers end.
THEOREM SandboxCorrect == SandboxSpec => []SandboxInv
<1>1. SandboxInv /\ [SandboxNext]_sandboxVars => SandboxInv'
  <2> SUFFICES ASSUME SandboxInv, [SandboxNext]_sandboxVars PROVE SandboxInv'
    OBVIOUS
  <2>1. CASE UNCHANGED sandboxVars
    BY <2>1 DEF sandboxVars, SandboxInv, SandboxTypes, EvidenceTells, HeldExists
  <2>2. CASE SandboxNext
    <3>1. SandboxTypes' /\ EvidenceTells'
      BY <2>2, EndingTells, JudgeTells, EdgeTells, SetUpTells, CleanUpTells, RunningTells
      DEF SandboxNext, SandboxStep
    <3> QED
      BY <2>2, <3>1, HeldStep DEF SandboxInv
  <2> QED
    BY <2>1, <2>2
<1> QED
  BY SandboxInitInv, <1>1, PTL DEF SandboxSpec

\* Whatever is killed, cut off or broken: a patch is called sufficient only if it was
\* applied, ruff passed on it and its tests came to an end without a failure.
THEOREM EvidenceCorrect == SandboxSpec => []SufficientIsEarned
<1>1. SandboxInv => SufficientIsEarned
  BY DEF SandboxInv, EvidenceTells, SufficientIsEarned
<1> QED
  BY <1>1, SandboxCorrect, PTL

\* Whatever ends a run, no volume, helper or container of it stays, unless a loading or
\* a removal failed or the process died.
THEOREM CleanUpCorrect == SandboxSpec => []NothingLeftBehind
<1>1. SandboxInv => NothingLeftBehind
  BY DEF SandboxInv, HeldExists, NothingLeftBehind
<1> QED
  BY <1>1, SandboxCorrect, PTL

\* -- least and greatest numbers --------------------------------------------

\* A set of numbers that is not empty has a least one.
LEMMA LeastExists ==
  ASSUME NEW S \in SUBSET Nat, S # {}
  PROVE  \E x \in S : \A y \in S : x <= y
<1>1. PICK x \in S : \A y \in S : ~ (<<y, x>> \in OpToRel(<, Nat))
  BY NatLessThanWellFounded, WFMin
<1>2. \A y \in S : ~(y < x)
  BY <1>1 DEF OpToRel
<1> QED
  BY <1>2

\* If it is bounded it has a greatest one: the least of its bounds.
LEMMA GreatestExists ==
  ASSUME NEW n \in Nat, NEW S \in SUBSET (0..n), S # {}
  PROVE  \E x \in S : \A y \in S : y <= x
<1> DEFINE T == {m \in Nat : \A y \in S : y <= m}
<1>1. n \in T
  OBVIOUS
<1>2. PICK m \in T : \A k \in T : m <= k
  BY <1>1, LeastExists
<1>3. m \in S
  <2> SUFFICES ASSUME m \notin S PROVE FALSE
    OBVIOUS
  <2>1. \A y \in S : y < m
    BY <1>2
  <2>2. m # 0
    <3>1. PICK y \in S : TRUE
      OBVIOUS
    <3> QED
      BY <2>1, <3>1
  <2>3. m - 1 \in T
    BY <2>1, <2>2
  <2> QED
    BY <1>2, <2>3
<1> QED
  BY <1>2, <1>3

\* Max finds it.
LEMMA MaxIsGreatest ==
  ASSUME NEW n \in Nat, NEW S \in SUBSET (0..n), S # {}
  PROVE  Max(S) \in S /\ \A y \in S : y <= Max(S)
<1>1. PICK x \in S : \A y \in S : y <= x
  BY GreatestExists
<1>2. \E z \in S : \A y \in S : z >= y
  BY <1>1
<1>3. Max(S) \in S /\ \A y \in S : Max(S) >= y
  BY <1>2 DEF Max
<1> QED
  BY <1>3

\* -- FixPlanning: where the lines of the file are --------------------------

Lines == [id : Nat, kind : Kinds \cup {"done"}]

\* The findings of a file have different lines, and all of them are named.
PlanTypes ==
  /\ file \in Seq(Lines)
  /\ named \in SUBSET (1..LineCount)
  /\ todo \in SUBSET [line : named, category : {"hardcoded_secret", "call"}]
  /\ \A g, h \in todo : g.line = h.line => g = h

\* Before "import os" is inserted every line has its number, and those rewritten are named.
InPlace ==
  /\ todo # {} => Len(file) = LineCount
  /\ \A i \in DOMAIN file : file[i].id = i /\ (file[i].kind = "done" => i \in named)

\* It was inserted as line p: the lines from there on have moved by one, and all findings
\* left lie before one that is done.  A line that moved may have been rewritten for the
\* next one, which is then not the last that was named.
ShiftedAt(p) ==
  /\ Len(file) = LineCount + 1
  /\ file[p].id = 0 /\ file[p].kind = "os"
  /\ \A i \in 1..p - 1 : file[i].id = i /\ (file[i].kind = "done" => i \in named)
  /\ \A i \in p + 1..LineCount + 1 :
       /\ file[i].id = i - 1
       /\ file[i].kind = "done" =>
            i - 1 \in named \/ (i \in named /\ \E m \in named : i < m)
  /\ \E m \in named : \A g \in todo : g.line < m

PlanInv == PlanTypes /\ (InPlace \/ \E p \in 1..LineCount + 1 : ShiftedAt(p))

\* A finding has the line of the file it was made for.
LEMMA FindingLines ==
  ASSUME PlanTypes, NEW g \in todo
  PROVE  g.line \in named /\ g.line \in 1..LineCount /\ g.line \in Nat
<1>1. g.line \in named
  BY DEF PlanTypes
<1>2. named \in SUBSET (1..LineCount)
  BY DEF PlanTypes
<1>3. \A k \in 1..LineCount : k \in Nat
  BY LineAssumption
<1> QED
  BY <1>1, <1>2, <1>3, Zenon

\* The next finding to plan is the one with the last line.
LEMMA LatestFinding ==
  ASSUME PlanTypes, todo # {}
  PROVE  LET f == CHOOSE f \in todo : \A g \in todo : g.line <= f.line
         IN  f \in todo /\ \A g \in todo : g.line <= f.line
<1> DEFINE numbers == {g.line : g \in todo}
<1>1. \A g \in todo : g.line \in 1..LineCount
  BY FindingLines
<1>2. numbers \in SUBSET (0..LineCount) /\ numbers # {}
  BY <1>1, LineAssumption
<1>3. PICK n \in numbers : \A k \in numbers : k <= n
  BY <1>2, GreatestExists, LineAssumption
<1>4. PICK f \in todo : n = f.line
  BY <1>3
<1>5. \A g \in todo : g.line <= f.line
  BY <1>3, <1>4
<1> QED
  BY <1>5

\* A rewritten line is marked; all else stays.
LEMMA MarkedLine ==
  ASSUME NEW lines \in Seq(Lines), NEW i \in DOMAIN lines,
         NEW done, done = [lines EXCEPT ![i].kind = "done"]
  PROVE  /\ done \in Seq(Lines) /\ Len(done) = Len(lines) /\ DOMAIN done = DOMAIN lines
         /\ \A j \in DOMAIN lines :
              /\ done[j].id = lines[j].id
              /\ done[j].kind = IF j = i THEN "done" ELSE lines[j].kind
<1>1. \A j \in DOMAIN lines : lines[j] \in Lines
  OBVIOUS
<1>2. DOMAIN lines = 1..Len(lines) /\ Len(lines) \in Nat
  OBVIOUS
<1>3. done = [j \in 1..Len(lines) |-> IF j = i THEN [lines[i] EXCEPT !.kind = "done"] ELSE lines[j]]
  BY <1>2
<1>4. [lines[i] EXCEPT !.kind = "done"] \in Lines
  BY <1>1 DEF Lines
<1>5. done \in Seq(Lines)
  BY <1>1, <1>2, <1>3, <1>4
<1>6. Len(done) = Len(lines) /\ DOMAIN done = DOMAIN lines
  BY <1>2, <1>3, <1>5
<1>7. ASSUME NEW j \in DOMAIN lines
      PROVE  /\ done[j].id = lines[j].id
             /\ done[j].kind = IF j = i THEN "done" ELSE lines[j].kind
  BY <1>1, <1>2, <1>3 DEF Lines
<1> QED
  BY <1>5, <1>6, <1>7

\* "import os" goes before, between or behind the lines.
LEMMA ImportInside ==
  ASSUME NEW lines \in Seq(Lines)
  PROVE  ImportIndex(lines) \in 1..Len(lines) + 1
<1> DEFINE code == {i \in DOMAIN lines : lines[i].kind \notin {"header", "os", "blank"}}
           end == IF code = {} THEN Len(lines) + 1 ELSE Min(code)
           top == {i \in DOMAIN lines : i < end /\ lines[i].kind # "blank"}
<1>1. ImportIndex(lines) = IF top = {} THEN 1 ELSE Max(top) + 1
  BY DEF ImportIndex
<1>2. top \in SUBSET (0..Len(lines)) /\ top \in SUBSET (1..Len(lines)) /\ Len(lines) \in Nat
  OBVIOUS
<1>3. top # {} => Max(top) \in 1..Len(lines)
  <2> HIDE DEF top
  <2> QED
    BY <1>2, MaxIsGreatest
<1> QED
  <2> HIDE DEF top
  <2> QED
    BY <1>1, <1>2, <1>3

\* What is inserted moves the lines behind it by one.
LEMMA InsertedLine ==
  ASSUME NEW lines \in Seq(Lines), NEW p \in 1..Len(lines) + 1, NEW line \in Lines,
         NEW longer, longer = InsertAt(lines, p, line)
  PROVE  /\ longer \in Seq(Lines) /\ Len(longer) = Len(lines) + 1
         /\ \A i \in 1..Len(lines) + 1 :
              longer[i] = IF i < p THEN lines[i] ELSE IF i = p THEN line ELSE lines[i - 1]
<1> DEFINE n == Len(lines)
           before == SubSeq(lines, 1, p - 1)
           behind == SubSeq(lines, p, n)
<1>0. n \in Nat /\ p \in Int /\ p - 1 \in Int
  OBVIOUS
<1>1. /\ before \in Seq(Lines) /\ Len(before) = p - 1
      /\ \A i \in 1..p - 1 : before[i] = lines[i]
  <2>1. \A i \in 1..p - 1 : lines[i] \in Lines
    BY <1>0
  <2>2. /\ before \in Seq(Lines)
        /\ Len(before) = IF 1 <= p - 1 THEN p - 1 - 1 + 1 ELSE 0
        /\ \A i \in 1..p - 1 - 1 + 1 : before[i] = lines[1 + i - 1]
    BY <1>0, <2>1, SubSeqProperties
  <2> QED
    BY <1>0, <2>2
<1>2. /\ behind \in Seq(Lines) /\ Len(behind) = n - p + 1
      /\ \A i \in 1..n - p + 1 : behind[i] = lines[p + i - 1]
  <2>1. \A i \in p..n : lines[i] \in Lines
    BY <1>0
  <2>2. /\ behind \in Seq(Lines)
        /\ Len(behind) = IF p <= n THEN n - p + 1 ELSE 0
        /\ \A i \in 1..n - p + 1 : behind[i] = lines[p + i - 1]
    BY <1>0, <2>1, SubSeqProperties
  <2> QED
    BY <1>0, <2>2
<1> HIDE DEF before, behind
<1>3. /\ before \o <<line>> \in Seq(Lines) /\ Len(before \o <<line>>) = p
      /\ \A i \in 1..p : (before \o <<line>>)[i] = IF i < p THEN lines[i] ELSE line
  <2>1. <<line>> \in Seq(Lines) /\ Len(<<line>>) = 1 /\ <<line>>[1] = line
    OBVIOUS
  <2>2. /\ before \o <<line>> \in Seq(Lines)
        /\ Len(before \o <<line>>) = Len(before) + Len(<<line>>)
        /\ \A i \in 1..Len(before) + Len(<<line>>) :
             (before \o <<line>>)[i] = IF i <= Len(before) THEN before[i] ELSE <<line>>[i - Len(before)]
    BY <1>1, <2>1, ConcatProperties
  <2> QED
    BY <1>0, <1>1, <2>1, <2>2
<1> DEFINE upto == before \o <<line>>
<1> HIDE DEF upto
<1>4. /\ upto \o behind \in Seq(Lines)
      /\ Len(upto \o behind) = Len(upto) + Len(behind)
      /\ \A i \in 1..Len(upto) + Len(behind) :
           (upto \o behind)[i] = IF i <= Len(upto) THEN upto[i] ELSE behind[i - Len(upto)]
  <2>1. upto \in Seq(Lines)
    BY <1>3 DEF upto
  <2> QED
    BY <1>2, <2>1, ConcatProperties
<1>5. longer = upto \o behind
  BY DEF InsertAt, before, behind, upto
<1>6. Len(upto) = p /\ \A i \in 1..p : upto[i] = IF i < p THEN lines[i] ELSE line
  BY <1>3 DEF upto
<1>7. Len(longer) = n + 1
  BY <1>0, <1>2, <1>4, <1>5, <1>6
<1>8. ASSUME NEW i \in 1..n + 1
      PROVE  longer[i] = IF i < p THEN lines[i] ELSE IF i = p THEN line ELSE lines[i - 1]
  <2>1. CASE i <= p
    BY <1>0, <1>2, <1>4, <1>5, <1>6, <2>1
  <2>2. CASE i > p
    <3>1. i - p \in 1..n - p + 1 /\ i \in 1..Len(upto) + Len(behind)
      BY <1>0, <1>2, <1>6, <2>2
    <3>2. longer[i] = behind[i - p]
      BY <1>0, <1>4, <1>5, <1>6, <2>2, <3>1
    <3>3. behind[i - p] = lines[p + (i - p) - 1]
      BY <1>2, <3>1
    <3> QED
      BY <1>0, <2>2, <3>2, <3>3
  <2> QED
    BY <1>0, <2>1, <2>2
<1> QED
  BY <1>4, <1>5, <1>7, <1>8

\* A finding that is rewritten while every line has its number: either the line is marked,
\* or "import os" goes in as well and this finding lies behind all that are left.
LEMMA RewriteInPlace ==
  ASSUME PlanTypes, InPlace, NEW f \in todo, \A g \in todo : g.line <= f.line,
         file' = Rewritten(file, f.line, f.category), todo' = todo \ {f}, named' = named
  PROVE  file' \in Seq(Lines) /\ (InPlace' \/ \E p \in 1..LineCount + 1 : ShiftedAt(p)')
<1> DEFINE n == f.line
           done == [file EXCEPT ![n].kind = "done"]
           os == [id |-> 0, kind |-> "os"]
<1>1. n \in named /\ n \in 1..LineCount /\ n \in DOMAIN file /\ Len(file) = LineCount
  <2>1. f.line \in named /\ f.line \in 1..LineCount
    BY FindingLines
  <2>2. Len(file) = LineCount /\ DOMAIN file = 1..Len(file)
    BY DEF PlanTypes, InPlace
  <2> QED
    BY <2>1, <2>2
<1>2. \A g \in todo' : g.line \in Nat /\ g.line < n
  <2> SUFFICES ASSUME NEW g \in todo, g # f PROVE g.line \in Nat /\ g.line < f.line
    OBVIOUS
  <2>1. g.line \in Nat /\ f.line \in Nat /\ g.line <= f.line
    BY FindingLines
  <2>2. g.line # f.line
    BY DEF PlanTypes
  <2> QED
    BY <2>1, <2>2
<1>3. /\ done \in Seq(Lines) /\ Len(done) = LineCount /\ DOMAIN done = DOMAIN file
      /\ \A j \in DOMAIN file :
           /\ done[j].id = file[j].id
           /\ done[j].kind = IF j = n THEN "done" ELSE file[j].kind
  <2> HIDE DEF done, n
  <2>1. done = [file EXCEPT ![n].kind = "done"]
    BY DEF done
  <2>2. file \in Seq(Lines)
    BY DEF PlanTypes
  <2> QED
    BY <1>1, <2>1, <2>2, MarkedLine
<1>4. file' = done \/ file' = InsertAt(done, ImportIndex(done), os)
  BY DEF Rewritten
<1> HIDE DEF done
<1>5. \A j \in DOMAIN file : done[j].id = j /\ (done[j].kind = "done" => j \in named)
  BY <1>1, <1>3 DEF InPlace
<1>6. CASE file' = done
  BY <1>1, <1>3, <1>5, <1>6 DEF InPlace
<1>7. CASE file' = InsertAt(done, ImportIndex(done), os)
  <2>0. ImportIndex(done) \in 1..LineCount + 1
    <3>1. done \in Seq(Lines)
      BY <1>3
    <3>2. ImportIndex(done) \in 1..Len(done) + 1
      BY <3>1, ImportInside
    <3> QED
      BY <1>3, <3>2
  <2>1. PICK p \in 1..LineCount + 1 : p = ImportIndex(done)
    BY <2>0
  <2> HIDE DEF os
  <2>2. /\ file' \in Seq(Lines) /\ Len(file') = LineCount + 1
        /\ \A i \in 1..LineCount + 1 :
             file'[i] = IF i < p THEN done[i] ELSE IF i = p THEN os ELSE done[i - 1]
    <3>1. done \in Seq(Lines) /\ Len(done) = LineCount
      BY <1>3
    <3>2. os \in Lines
      BY DEF os, Lines, Kinds
    <3>3. file' = InsertAt(done, p, os) /\ p \in 1..Len(done) + 1
      BY <1>7, <2>1, <3>1
    <3>4. /\ file' \in Seq(Lines) /\ Len(file') = Len(done) + 1
          /\ \A i \in 1..Len(done) + 1 :
               file'[i] = IF i < p THEN done[i] ELSE IF i = p THEN os ELSE done[i - 1]
      <4> HIDE DEF done
      <4>1. \A lines \in Seq(Lines) : \A q \in 1..Len(lines) + 1 : \A line \in Lines :
              LET longer == InsertAt(lines, q, line)
              IN  /\ longer \in Seq(Lines) /\ Len(longer) = Len(lines) + 1
                  /\ \A i \in 1..Len(lines) + 1 :
                       longer[i] = IF i < q THEN lines[i] ELSE IF i = q THEN line ELSE lines[i - 1]
        BY InsertedLine
      <4>2. p \in 1..Len(done) + 1
        BY <3>3
      <4>3. /\ InsertAt(done, p, os) \in Seq(Lines)
            /\ Len(InsertAt(done, p, os)) = Len(done) + 1
            /\ \A i \in 1..Len(done) + 1 :
                 InsertAt(done, p, os)[i]
                   = IF i < p THEN done[i] ELSE IF i = p THEN os ELSE done[i - 1]
        BY <3>1, <3>2, <4>1, <4>2, Zenon
      <4>4. file' = InsertAt(done, p, os)
        BY <3>3
      <4> QED
        BY <4>3, <4>4
    <3> QED
      BY <3>1, <3>4
  <2>3. DOMAIN file = 1..LineCount
    BY <1>1 DEF PlanTypes
  <2>4. file'[p].id = 0 /\ file'[p].kind = "os"
    BY <2>1, <2>2 DEF os
  <2>5. \A i \in 1..p - 1 : file'[i] = done[i] /\ i \in DOMAIN file
    BY <2>1, <2>2, <2>3, LineAssumption
  <2>6. \A i \in p + 1..LineCount + 1 : file'[i] = done[i - 1] /\ i - 1 \in DOMAIN file
    BY <2>1, <2>2, <2>3, LineAssumption
  <2>7. ShiftedAt(p)'
    <3>1. \A i \in 1..p - 1 : file'[i].id = i /\ (file'[i].kind = "done" => i \in named')
      BY <1>5, <2>5
    <3>2. \A i \in p + 1..LineCount + 1 :
            /\ file'[i].id = i - 1
            /\ file'[i].kind = "done" => i - 1 \in named'
      BY <1>5, <2>6
    <3>3. \E m \in named' : \A g \in todo' : g.line < m
      BY <1>1, <1>2
    <3> QED
      BY <2>2, <2>4, <3>1, <3>2, <3>3 DEF ShiftedAt
  <2> QED
    BY <2>1, <2>2, <2>7
<1> QED
  BY <1>4, <1>6, <1>7

\* A finding that is rewritten after "import os" went in: nothing goes in again, and the
\* line it marks is the one before its own if that has moved.
LEMMA RewriteShifted ==
  ASSUME PlanTypes, NEW p \in 1..LineCount + 1, ShiftedAt(p), NEW f \in todo,
         Rewrites(f.category, file[f.line].kind),
         file' = Rewritten(file, f.line, f.category), todo' = todo \ {f}, named' = named
  PROVE  file' \in Seq(Lines) /\ ShiftedAt(p)'
<1> DEFINE n == f.line
           done == [file EXCEPT ![n].kind = "done"]
<1>1. n \in named /\ n \in 1..LineCount /\ Len(file) = LineCount + 1 /\ DOMAIN file = 1..LineCount + 1
  <2>1. f.line \in named /\ f.line \in 1..LineCount
    BY FindingLines
  <2>2. Len(file) = LineCount + 1 /\ DOMAIN file = 1..Len(file)
    BY DEF PlanTypes, ShiftedAt
  <2> QED
    BY <2>1, <2>2
<1>2. n # p
  BY DEF Rewrites, ShiftedAt
<1>3. /\ done \in Seq(Lines) /\ Len(done) = LineCount + 1 /\ DOMAIN done = DOMAIN file
      /\ \A j \in DOMAIN file :
           /\ done[j].id = file[j].id
           /\ done[j].kind = IF j = n THEN "done" ELSE file[j].kind
  <2> HIDE DEF done, n
  <2>1. done = [file EXCEPT ![n].kind = "done"]
    BY DEF done
  <2>2. file \in Seq(Lines) /\ n \in DOMAIN file
    BY <1>1, LineAssumption DEF PlanTypes, n
  <2>3. /\ done \in Seq(Lines) /\ Len(done) = Len(file) /\ DOMAIN done = DOMAIN file
        /\ \A j \in DOMAIN file :
             /\ done[j].id = file[j].id
             /\ done[j].kind = IF j = n THEN "done" ELSE file[j].kind
    BY <2>1, <2>2, MarkedLine
  <2> QED
    BY <1>1, <2>3
<1>4. HasOsImport(done)
  <2>1. p \in DOMAIN done /\ done[p].kind = "os"
    BY <1>1, <1>2, <1>3 DEF ShiftedAt
  <2> HIDE DEF done
  <2> QED
    BY <2>1 DEF HasOsImport
<1>5. file' = done
  BY <1>4 DEF Rewritten
<1> HIDE DEF done
<1>6. PICK m \in named : \A g \in todo : g.line < m
  BY DEF ShiftedAt
<1>7. file'[p].id = 0 /\ file'[p].kind = "os"
  BY <1>1, <1>2, <1>3, <1>5 DEF ShiftedAt
<1>8. ASSUME NEW i \in 1..p - 1
      PROVE  file'[i].id = i /\ (file'[i].kind = "done" => i \in named)
  <2>1. i \in DOMAIN file
    BY <1>1, LineAssumption
  <2>2. file[i].id = i /\ (file[i].kind = "done" => i \in named)
    BY DEF ShiftedAt
  <2> QED
    BY <1>1, <1>3, <1>5, <2>1, <2>2
<1>9. ASSUME NEW i \in p + 1..LineCount + 1
      PROVE  /\ file'[i].id = i - 1
             /\ file'[i].kind = "done" => i - 1 \in named \/ (i \in named /\ \E k \in named : i < k)
  <2>1. i \in DOMAIN file
    BY <1>1, LineAssumption
  <2>2. CASE i = n
    BY <1>1, <1>3, <1>5, <1>6, <2>1, <2>2 DEF ShiftedAt
  <2>3. CASE i # n
    BY <1>3, <1>5, <2>1, <2>3 DEF ShiftedAt
  <2> QED
    BY <2>2, <2>3
<1>10. \E k \in named : \A g \in todo' : g.line < k
  BY <1>6
<1> QED
  BY <1>3, <1>5, <1>7, <1>8, <1>9, <1>10 DEF ShiftedAt

\* Lines move at most once, by one, while the findings of a file are planned.
LEMMA PlanningInvariant == PlanningSpec => []PlanInv
<1>1. PlanningInit => PlanInv
  BY DEF PlanningInit, PlanInv, PlanTypes, InPlace
<1>2. PlanInv /\ [PlanningNext]_planningVars => PlanInv'
  <2> SUFFICES ASSUME PlanInv, [PlanningNext]_planningVars PROVE PlanInv'
    OBVIOUS
  <2>1. CASE SelectFindings
    <3>1. PICK kinds \in [1..LineCount -> LineKinds \cap Kinds] :
            /\ file' = [i \in 1..LineCount |-> [id |-> i, kind |-> kinds[i]]]
            /\ named' = Selected(kinds)
            /\ todo' = {[line |-> i, category |-> Category(kinds[i])] : i \in named'}
      BY <2>1 DEF SelectFindings
    <3>2. named' \in SUBSET (1..LineCount)
      BY <3>1 DEF Selected
    <3>3. \A i \in 1..LineCount : [id |-> i, kind |-> kinds[i]] \in Lines
      BY LineAssumption DEF Lines
    <3>4. file' \in Seq(Lines) /\ Len(file') = LineCount /\ DOMAIN file' = 1..LineCount
      BY <3>1, <3>3, LineAssumption
    <3>5. \A kind : Category(kind) \in {"hardcoded_secret", "call"}
      BY DEF Category
    <3>6. PlanTypes'
      BY <3>1, <3>2, <3>4, <3>5 DEF PlanTypes, Lines
    <3>7. InPlace'
      <4>1. \A i \in 1..LineCount : file'[i].id = i /\ file'[i].kind # "done"
        BY <3>1 DEF Kinds, Flagged
      <4> QED
        BY <3>4, <4>1 DEF InPlace
    <3> QED
      BY <3>6, <3>7 DEF PlanInv
  <2>2. CASE PlanFinding
    <3>1. PICK f \in todo :
            /\ \A g \in todo : g.line <= f.line
            /\ todo' = todo \ {f}
            /\ file' = IF Rewrites(f.category, file[f.line].kind)
                       THEN Rewritten(file, f.line, f.category) ELSE file
            /\ named' = named
      BY <2>2, LatestFinding DEF PlanFinding, PlanInv
    <3>2. PlanTypes
      BY DEF PlanInv
    <3>3. CASE ~ Rewrites(f.category, file[f.line].kind)
      <4>1. file' = file
        BY <3>1, <3>3
      <4>2. PlanTypes'
        BY <3>1, <3>2, <4>1 DEF PlanTypes, Lines, Kinds, Flagged
      <4>3. InPlace => InPlace'
        BY <3>1, <4>1 DEF InPlace
      <4>4. ASSUME NEW p \in 1..LineCount + 1, ShiftedAt(p) PROVE ShiftedAt(p)'
        BY <3>1, <4>1, <4>4 DEF ShiftedAt
      <4> QED
        BY <4>2, <4>3, <4>4 DEF PlanInv
    <3>4. CASE Rewrites(f.category, file[f.line].kind)
      <4>1. file' = Rewritten(file, f.line, f.category)
        BY <3>1, <3>4
      <4>2. ASSUME InPlace
            PROVE  file' \in Seq(Lines) /\ (InPlace' \/ \E p \in 1..LineCount + 1 : ShiftedAt(p)')
        BY <3>1, <3>2, <4>1, <4>2, RewriteInPlace
      <4>3. ASSUME NEW p \in 1..LineCount + 1, ShiftedAt(p)
            PROVE  file' \in Seq(Lines) /\ ShiftedAt(p)'
        BY <3>1, <3>2, <3>4, <4>1, <4>3, RewriteShifted
      <4>4. file' \in Seq(Lines) /\ (InPlace' \/ \E p \in 1..LineCount + 1 : ShiftedAt(p)')
        BY <4>2, <4>3 DEF PlanInv
      <4>5. PlanTypes'
        BY <3>1, <3>2, <4>4 DEF PlanTypes, Lines, Kinds, Flagged
      <4> QED
        BY <4>4, <4>5 DEF PlanInv
    <3> QED
      BY <3>3, <3>4
  <2>3. CASE FinishPlan \/ UNCHANGED planningVars
    <3>1. file' = file /\ todo' = todo /\ named' = named
      BY <2>3 DEF FinishPlan, planningVars
    <3>2. PlanTypes'
      BY <3>1 DEF PlanInv, PlanTypes, Lines, Kinds, Flagged
    <3>3. InPlace => InPlace'
      BY <3>1 DEF InPlace
    <3>4. ASSUME NEW p \in 1..LineCount + 1, ShiftedAt(p) PROVE ShiftedAt(p)'
      BY <3>1, <3>4 DEF ShiftedAt
    <3> QED
      BY <3>2, <3>3, <3>4 DEF PlanInv
  <2> QED
    BY <2>1, <2>2, <2>3 DEF PlanningNext
<1> QED
  BY <1>1, <1>2, PTL DEF PlanningSpec

\* A rewritten line is one that was named, or the one before a named line that is not the
\* last; and the latter only after "import os" went in (_plan_by_file, recipes.py).
THEOREM PlanningCorrect == PlanningSpec => []MissByOne
<1>1. PlanInv => MissByOne
  <2> SUFFICES ASSUME PlanInv PROVE MissByOne
    OBVIOUS
  <2>1. CASE InPlace
    BY <2>1 DEF InPlace, Touched, MissByOne
  <2>2. ASSUME NEW p \in 1..LineCount + 1, ShiftedAt(p) PROVE MissByOne
    <3>1. DOMAIN file = 1..LineCount + 1 /\ named \in SUBSET (0..LineCount)
      BY <2>2, LineAssumption DEF PlanInv, PlanTypes, ShiftedAt
    <3>2. ASSUME NEW i \in DOMAIN file, file[i].kind = "done"
          PROVE  file[i].id \in named \/ file[i].id + 1 \in named \ {Max(named)}
      <4>1. CASE i < p
        BY <2>2, <3>1, <3>2, <4>1 DEF ShiftedAt
      <4>2. CASE i = p
        BY <2>2, <3>2, <4>2 DEF ShiftedAt
      <4>3. CASE i > p /\ file[i].id \notin named
        <5>1. file[i].id = i - 1 /\ i \in named /\ \E m \in named : i < m
          BY <2>2, <3>1, <3>2, <4>3 DEF ShiftedAt
        <5>2. PICK m \in named : i < m
          BY <5>1
        <5>3. m <= Max(named) /\ Max(named) \in named
          BY <3>1, LineAssumption, MaxIsGreatest
        <5>4. i # Max(named)
          BY <3>1, <5>2, <5>3, LineAssumption
        <5> QED
          BY <3>1, <5>1, <5>4, LineAssumption
      <4> QED
        BY <3>1, <4>1, <4>2, <4>3, LineAssumption
    <3>3. \E i \in DOMAIN file : file[i].id = 0
      BY <2>2, <3>1 DEF ShiftedAt
    <3> QED
      BY <3>2, <3>3 DEF Touched, MissByOne
  <2> QED
    BY <2>1, <2>2 DEF PlanInv
<1> QED
  BY <1>1, PlanningInvariant, PTL

\* -- ImpactScope: the report follows the change ----------------------------

\* The report is the one of the changed lines; while nothing is changed, an empty one.
Reported ==
  /\ modified \subseteq Files \X FileLines
  /\ modified = {} => report.files = {} /\ report.risk = "low"
  /\ modified # {} => report = ReportOf(modified)

\* The symbols of a file are its own and none of them is a module.
LEMMA SymbolsAreNoModules ==
  ASSUME NEW s \in Symbols
  PROVE  s.file \in Files /\ \A f : s # ModuleOf(f)
<1>1. PICK f \in Files : s \in SymbolsOf(f)
  BY DEF Symbols
<1>2. s.file = f /\ s.kind # "module"
  BY <1>1 DEF SymbolsOf
<1> QED
  BY <1>2 DEF ModuleOf

\* A symbol of the code that was changed stays changed when more lines are: only the module
\* that stands for a line outside of symbols may drop out.
LEMMA SymbolsStayChanged ==
  ASSUME NEW lines, NEW more, lines \subseteq more,
         NEW s \in Symbols, s \in ChangedSymbols(lines)
  PROVE  s \in ChangedSymbols(more)
<1>1. s \in UNION {Innermost(l[1], l[2]) : l \in {m \in lines : m[1] \in Files}}
  BY SymbolsAreNoModules DEF ChangedSymbols
<1>2. s \in UNION {Innermost(l[1], l[2]) : l \in {m \in more : m[1] \in Files}}
  BY <1>1
<1> QED
  BY <1>2 DEF ChangedSymbols

\* No file drops out of the report when more lines are changed, and all it names exist.
LEMMA FilesStay ==
  ASSUME NEW lines \in SUBSET (Files \X FileLines), NEW more \in SUBSET (Files \X FileLines),
         lines \subseteq more
  PROVE  /\ ReportOf(lines).files \subseteq ReportOf(more).files
         /\ ReportOf(more).files \subseteq Files
<1> DEFINE edges == {c \in calls : c.caller \in Symbols /\ c.callee \in Symbols}
           near(ls) == {e \in edges : e.caller \in ChangedSymbols(ls) \/ e.callee \in ChangedSymbols(ls)}
           files(ls) == {l[1] : l \in ls} \cup {e.caller.file : e \in near(ls)}
<1>1. \A ls : ReportOf(ls).files = files(ls)
  BY DEF ReportOf
<1>2. near(lines) \subseteq near(more)
  BY SymbolsStayChanged
<1>3. files(lines) \subseteq files(more)
  BY <1>2
<1>4. files(more) \subseteq Files
  <2>1. \A e \in near(more) : e.caller.file \in Files
    BY SymbolsAreNoModules
  <2>2. \A l \in more : l[1] \in Files
    OBVIOUS
  <2> QED
    BY <2>1, <2>2
<1> QED
  BY <1>1, <1>3, <1>4

\* More files are never classified as a lower risk.
LEMMA MoreFilesMoreRisk ==
  ASSUME NEW more \in SUBSET Files, NEW files \in SUBSET more
  PROVE  /\ Classify(files) \in {"low", "medium", "high"}
         /\ Rank(Classify(files)) <= Rank(Classify(more))
<1>1. IsFiniteSet(more)
  <2>1. IsFiniteSet(Files)
    BY FS_Interval, SizeAssumption DEF Files
  <2> QED
    BY <2>1, FS_Subset
<1>2. IsFiniteSet(files) /\ Cardinality(files) <= Cardinality(more)
  BY <1>1, FS_Subset
<1>3. Cardinality(files) \in Nat /\ Cardinality(more) \in Nat
  BY <1>1, <1>2, FS_CardinalityType
<1>4. files \cap RiskyFiles # {} => more \cap RiskyFiles # {}
  OBVIOUS
<1> QED
  BY <1>2, <1>3, <1>4, SizeAssumption DEF Classify, Rank

\* The reported risk is the classified one, raised from low if something is unresolved.
LEMMA ReportedRisk ==
  ASSUME NEW lines
  PROVE  LET files == ReportOf(lines).files
         IN  \/ ReportOf(lines).risk = Classify(files) /\ ~ (Classify(files) = "low" /\ (dynamic \/ broken # {}))
             \/ ReportOf(lines).risk = "medium" /\ Classify(files) = "low" /\ (dynamic \/ broken # {})
BY DEF ReportOf

\* With more changed lines the report names no file less and no lower risk.
LEMMA LargerChange ==
  ASSUME NEW lines \in SUBSET (Files \X FileLines), NEW more \in SUBSET (Files \X FileLines),
         lines \subseteq more
  PROVE  /\ ReportOf(lines).files \subseteq ReportOf(more).files
         /\ Rank(ReportOf(lines).risk) <= Rank(ReportOf(more).risk)
         /\ 0 <= Rank(ReportOf(more).risk)
<1> DEFINE before == ReportOf(lines).files
           after == ReportOf(more).files
<1>1. before \subseteq after /\ after \subseteq Files
  BY FilesStay
<1>2. /\ Classify(before) \in {"low", "medium", "high"}
      /\ Classify(after) \in {"low", "medium", "high"}
      /\ Rank(Classify(before)) <= Rank(Classify(after))
  BY <1>1, MoreFilesMoreRisk
<1>3. \/ ReportOf(lines).risk = Classify(before) /\ ~ (Classify(before) = "low" /\ (dynamic \/ broken # {}))
      \/ ReportOf(lines).risk = "medium" /\ Classify(before) = "low" /\ (dynamic \/ broken # {})
  BY ReportedRisk
<1>4. \/ ReportOf(more).risk = Classify(after) /\ ~ (Classify(after) = "low" /\ (dynamic \/ broken # {}))
      \/ ReportOf(more).risk = "medium" /\ Classify(after) = "low" /\ (dynamic \/ broken # {})
  BY ReportedRisk
<1> QED
  <2> HIDE DEF before, after
  <2> QED
    BY <1>1, <1>2, <1>3, <1>4 DEF Rank, before, after

\* The report is a function of the changed lines and of the code.
LEMMA ReportOfSameCode ==
  ASSUME UNCHANGED codeVars
  PROVE  ReportOf(modified)' = ReportOf(modified')
<1>1. broken' = broken /\ dynamic' = dynamic /\ calls' = calls
  BY DEF codeVars
<1>2. \A f : SymbolsOf(f)' = SymbolsOf(f)
  BY <1>1 DEF SymbolsOf
<1>3. Symbols' = Symbols
  BY <1>2 DEF Symbols, Files
<1>4. \A f, line : Innermost(f, line)' = Innermost(f, line)
  BY <1>2 DEF Innermost
<1>5. ChangedSymbols(modified)' = ChangedSymbols(modified')
  <2> DEFINE InFiles(lines, fs) == UNION {Innermost(l[1], l[2]) : l \in {m \in lines : m[1] \in fs}}
  <2>1. InFiles(modified, Files)' = InFiles(modified', Files)
    BY <1>4 DEF Files
  <2>2. {f \in {l[1] : l \in modified} : InFiles(modified, 1..f) = {}}'
          = {f \in {l[1] : l \in modified'} : InFiles(modified', 1..f) = {}}
    BY <1>4
  <2> QED
    BY <2>1, <2>2 DEF ChangedSymbols, ModuleOf
<1> QED
  BY <1>1, <1>3, <1>5 DEF ReportOf, Classify

\* A report that was made before the code is loaded is the empty one.
LEMMA ReportInvariant == ImpactSpec => []Reported
<1>1. ImpactInit => Reported
  <2> SUFFICES ASSUME ImpactInit PROVE Reported
    OBVIOUS
  <2>1. ReportOf({}).files = {}
    BY DEF ImpactInit, ReportOf
  <2>2. Classify({}) = "low"
    BY FS_EmptySet, SizeAssumption DEF Classify
  <2>3. ReportOf({}).risk = "low"
    BY <2>1, <2>2, ReportedRisk DEF ImpactInit
  <2> QED
    BY <2>1, <2>3 DEF ImpactInit, Reported
<1>2. Reported /\ [ImpactNext]_impactVars => Reported'
  <2> SUFFICES ASSUME Reported, [ImpactNext]_impactVars PROVE Reported'
    OBVIOUS
  <2>1. CASE LoadCode
    BY <2>1 DEF LoadCode, Reported
  <2>2. ASSUME NEW f \in Files, NEW line \in FileLines, ChangeLine(f, line) PROVE Reported'
    <3>1. modified' \in SUBSET (Files \X FileLines) /\ modified' # {}
      <4>1. <<f, line>> \in Files \X FileLines
        BY <2>2
      <4> QED
        BY <2>2, <4>1 DEF ChangeLine, Reported
    <3>2. ReportOf(modified)' = ReportOf(modified')
      BY <2>2, ReportOfSameCode DEF ChangeLine
    <3> QED
      BY <2>2, <3>1, <3>2 DEF ChangeLine, Reported, Files, FileLines
  <2>3. CASE UNCHANGED impactVars
    <3>1. ReportOf(modified)' = ReportOf(modified')
      <4>1. UNCHANGED codeVars /\ modified' = modified
        BY <2>3 DEF impactVars, codeVars
      <4> QED
        BY <4>1, ReportOfSameCode
    <3> QED
      BY <2>3, <3>1 DEF impactVars, Reported, Files, FileLines
  <2> QED
    BY <2>1, <2>2, <2>3 DEF ImpactNext
<1> QED
  BY <1>1, <1>2, PTL DEF ImpactSpec

\* A larger change is never reported as a smaller one (agents/impact/agent.py, classify).
THEOREM RiskCorrect == ImpactSpec => RiskNeverFalls
<1>1. Reported /\ [ImpactNext]_impactVars =>
        [/\ report.files \subseteq report'.files
         /\ Rank(report.risk) <= Rank(report'.risk)]_impactVars
  <2> SUFFICES ASSUME Reported, ImpactNext
               PROVE  /\ report.files \subseteq report'.files
                      /\ Rank(report.risk) <= Rank(report'.risk)
    OBVIOUS
  <2>1. CASE LoadCode
    BY <2>1 DEF LoadCode, Reported, Rank
  <2>2. ASSUME NEW f \in Files, NEW line \in FileLines, ChangeLine(f, line)
        PROVE  /\ report.files \subseteq report'.files
               /\ Rank(report.risk) <= Rank(report'.risk)
    <3>1. /\ modified \in SUBSET (Files \X FileLines)
          /\ modified' \in SUBSET (Files \X FileLines)
          /\ modified \subseteq modified'
          /\ report' = ReportOf(modified')
      BY <2>2 DEF ChangeLine, Reported
    <3>2. /\ ReportOf(modified).files \subseteq report'.files
          /\ Rank(ReportOf(modified).risk) <= Rank(report'.risk)
          /\ 0 <= Rank(report'.risk)
      BY <3>1, LargerChange
    <3>3. CASE modified = {}
      BY <3>2, <3>3 DEF Reported, Rank
    <3>4. CASE modified # {}
      BY <3>2, <3>4 DEF Reported
    <3> QED
      BY <3>3, <3>4
  <2> QED
    BY <2>1, <2>2 DEF ImpactNext
<1> QED
  BY <1>1, ReportInvariant, PTL DEF ImpactSpec, RiskNeverFalls

\* -- ReviewInput: what is parsed, known and kept ---------------------------

\* No added line of the edit looks like a header of the diff.
Plainly == \A i \in DOMAIN edit : ~(edit[i].origin = "added" /\ edit[i].content = "pluses")

\* What the new file holds, and which of its lines are added, at some places of the edit.
ImageOf(places) ==
  {<<NewNumber(edit, i), edit[i].content>> : i \in {j \in places : InNew(edit[j])}}
AddedAt(places) == {NewNumber(edit, i) : i \in {j \in places : edit[j].origin = "added"}}

\* Before the diff is read nothing is known, and before all of it is read nothing is found.
NothingYet ==
  /\ stage = "idle" \/ edit \in [1..EditLength -> EditLines]
  /\ stage \in {"idle", "start"} => image = {} /\ changed = {}
  /\ stage \in {"idle", "start", "parse"} => findings = {}

\* The lines are read in their order; where the next one follows its hunk header or a line
\* of the hunk, it is counted as the line of the new file that it is.
Parsing ==
  stage = "parse" =>
    /\ source = "diff"
    /\ rest \subseteq Shown(edit)
    /\ \A i \in rest, j \in Shown(edit) : i < j => j \in rest
    /\ \A i \in Hunks(edit) \cap rest : i \in headers \/ NextLine(i)
    /\ Plainly =>
         /\ image = ImageOf(Shown(edit) \ rest)
         /\ changed = AddedAt(Shown(edit) \ rest)
         /\ \A i \in rest : NextLine(i) /\ i \notin headers => number = NewNumber(edit, i - 1) + 1

\* What is scanned is the new file as far as the diff shows it, or all of it; what a ZIP
\* holds counts as changed.
Scanned ==
  stage \in {"score", "reported"} =>
    \/ source = "zip" /\ image = ImageOf(DOMAIN edit) /\ changed = {l[1] : l \in image}
    \/ source = "diff" /\ (Plainly => image = ImageOf(Shown(edit)) /\ changed = AddedAt(Shown(edit)))

\* The finding of a hit, and the findings that are the best of their hits.
Found(h) == [line |-> h.line, rule |-> h.rule, score |-> Score(h.rule, h.line \in changed, h.dynamic)]
Alike(f, g) == f.line = g.line /\ f.rule = g.rule
BestOf(found) ==
  /\ \A f \in findings : \E h \in found : f = Found(h)
  /\ \A f \in findings : \A h \in found : Alike(f, h) => Found(h).score <= f.score
  /\ \A h \in found : \E f \in findings : Alike(f, h)

Scoring ==
  stage \in {"score", "reported"} =>
    /\ hits \subseteq Scan(image, tree)
    /\ BestOf(Scan(image, tree) \ hits)
    /\ stage = "reported" => hits = {}

InputInv == NothingYet /\ Parsing /\ Scanned /\ Scoring

\* -- ReviewInput: numbers of lines -----------------------------------------

\* The number of a line in the new file is a number; a line of the new file adds one to it.
LEMMA NumberOfLine ==
  ASSUME NEW e, NEW i \in Nat
  PROVE  /\ NewNumber(e, i) \in Nat
         /\ i # 0 => NewNumber(e, i) = NewNumber(e, i - 1) + (IF InNew(e[i]) THEN 1 ELSE 0)
<1> DEFINE upto(n) == {j \in 1..n : InNew(e[j])}
<1>1. \A n \in Nat : IsFiniteSet(upto(n)) /\ Cardinality(upto(n)) \in Nat
  <2> SUFFICES ASSUME NEW n \in Nat PROVE IsFiniteSet(upto(n)) /\ Cardinality(upto(n)) \in Nat
    OBVIOUS
  <2>1. IsFiniteSet(1..n) /\ upto(n) \in SUBSET (1..n)
    BY FS_Interval
  <2>2. IsFiniteSet(upto(n))
    BY <2>1, FS_Subset
  <2> QED
    BY <2>2, FS_CardinalityType
<1>2. ASSUME i # 0
      PROVE  Cardinality(upto(i)) = Cardinality(upto(i - 1)) + (IF InNew(e[i]) THEN 1 ELSE 0)
  <2>1. i - 1 \in Nat /\ i \notin upto(i - 1)
    BY <1>2
  <2>2. CASE InNew(e[i])
    <3>1. upto(i) = upto(i - 1) \cup {i}
      BY <1>2, <2>2
    <3> HIDE DEF upto
    <3> QED
      BY <1>1, <2>1, <2>2, <3>1, FS_AddElement
  <2>3. CASE ~ InNew(e[i])
    <3>1. upto(i) = upto(i - 1)
      BY <1>2, <2>3
    <3> HIDE DEF upto
    <3> QED
      BY <1>1, <2>1, <2>3, <3>1
  <2> QED
    BY <2>2, <2>3
<1> QED
  BY <1>1, <1>2 DEF NewNumber

\* Later lines of the new file have larger numbers.
LEMMA NumbersGrow ==
  ASSUME NEW e, NEW i \in Nat, NEW j \in Nat, i < j, InNew(e[j])
  PROVE  NewNumber(e, i) < NewNumber(e, j)
<1> DEFINE upto(n) == {k \in 1..n : InNew(e[k])}
<1>1. j - 1 \in Nat
  OBVIOUS
<1>2. IsFiniteSet(1..j - 1) /\ upto(j - 1) \in SUBSET (1..j - 1)
  BY <1>1, FS_Interval
<1>3. IsFiniteSet(upto(j - 1))
  BY <1>2, FS_Subset
<1>4. upto(i) \in SUBSET upto(j - 1)
  OBVIOUS
<1>5. Cardinality(upto(i)) <= Cardinality(upto(j - 1))
  <2> HIDE DEF upto
  <2> QED
    BY <1>3, <1>4, FS_Subset
<1>6. NewNumber(e, i) <= NewNumber(e, j - 1)
  BY <1>5 DEF NewNumber
<1>7. NewNumber(e, j) = NewNumber(e, j - 1) + 1
  BY NumberOfLine
<1> QED
  BY <1>1, <1>6, <1>7, NumberOfLine

\* So two lines of the new file never share a number.
LEMMA NumbersDiffer ==
  ASSUME NEW e, NEW i \in Nat, NEW j \in Nat, InNew(e[i]), InNew(e[j]),
         NewNumber(e, i) = NewNumber(e, j)
  PROVE  i = j
<1>1. NewNumber(e, i) \in Nat /\ NewNumber(e, j) \in Nat
  BY NumberOfLine
<1> QED
  BY <1>1, NumbersGrow

\* -- ReviewInput: rules and scores -----------------------------------------

Rules == {"R001", "R002", "R003", "R004", "R005", "R007", "R008", "R011", "R012", "R015",
          "R018", "R019", "R020", "R022", "R024"}

\* Every hit is one of a rule of the table.
LEMMA HitsHaveRules ==
  ASSUME NEW shape, NEW h \in HitsIn(shape)
  PROVE  h.rule \in Rules
<1>1. \A r \in Rules : \A g \in Hit(r) \cup DynamicHit(r) : g.rule \in Rules
  BY DEF Hit, DynamicHit
<1>2. \E r \in Rules : TreeHits(shape) \subseteq Hit(r) \cup DynamicHit(r)
  BY DEF TreeHits, Rules
<1>3. \E r \in Rules : RunHits(shape) \subseteq Hit(r) \cup DynamicHit(r)
  BY DEF RunHits, Rules
<1>4. \E r \in Rules : YamlHits(shape) \subseteq Hit(r) \cup DynamicHit(r)
  BY DEF YamlHits, Rules
<1>5. \E r \in Rules : PatternHits(shape) \subseteq Hit(r) \cup DynamicHit(r)
  BY DEF PatternHits, Rules
<1>6. \E r \in Rules : RandomHits(shape) \subseteq Hit(r) \cup DynamicHit(r)
  BY DEF RandomHits, Rules
<1>7. \E r \in Rules : UrlHits(shape) \subseteq Hit(r) \cup DynamicHit(r)
  BY DEF UrlHits, Rules
<1> QED
  BY <1>1, <1>2, <1>3, <1>4, <1>5, <1>6, <1>7 DEF HitsIn

\* A score is a number, and large enough for a rule that has a fix.
LEMMA Scores ==
  ASSUME NEW rule \in Rules, NEW inChange, NEW byName
  PROVE  /\ Score(rule, inChange, byName) \in Nat
         /\ rule \in Fixable => Level(Score(rule, inChange, byName)) # "suppressed"
<1>1. Base(rule) \in 55..85 /\ (rule \in Fixable => Base(rule) >= 80)
  BY DEF Base, Fixable, Rules
<1>2. \/ Score(rule, inChange, byName) = 100
      \/ Score(rule, inChange, byName) \in {Base(rule) + 35, Base(rule) + 20, Base(rule), Base(rule) - 15}
  BY <1>1 DEF Score
<1> QED
  BY <1>1, <1>2 DEF Level

\* The hits of some lines are of rules, too, and each comes from a line that is known.
LEMMA ScannedHits ==
  ASSUME NEW lines, NEW parsed, NEW h \in Scan(lines, parsed)
  PROVE  /\ h.rule \in Rules
         /\ \E l \in lines : \E g \in HitsOf(l[2], parsed) :
              h = [line |-> l[1], rule |-> g.rule, dynamic |-> g.dynamic]
<1>1. PICK l \in lines : h \in {[line |-> l[1], rule |-> g.rule, dynamic |-> g.dynamic] :
                                  g \in HitsOf(l[2], parsed)}
  BY DEF Scan
<1>2. PICK g \in HitsOf(l[2], parsed) : h = [line |-> l[1], rule |-> g.rule, dynamic |-> g.dynamic]
  BY <1>1
<1>3. g.rule \in Rules
  BY HitsHaveRules DEF HitsOf
<1> QED
  BY <1>2, <1>3

\* Keep keeps the best finding of what is found.
LEMMA BestIsKept ==
  ASSUME NEW found, NEW h, NEW lines, NEW parsed, h \in Scan(lines, parsed),
         found \subseteq Scan(lines, parsed), BestOf(found),
         findings' = Keep(findings, Found(h)), changed' = changed
  PROVE  BestOf(found \cup {h})'
<1> DEFINE new == Found(h)
           same == {k \in findings : k.line = new.line /\ k.rule = new.rule}
<1>1. \A g \in found \cup {h} : /\ Found(g).line = g.line /\ Found(g).rule = g.rule
                                 /\ Found(g).score \in Nat
  BY ScannedHits, Scores DEF Found
<1>2. \A f \in findings : f.score \in Nat
  BY <1>1 DEF BestOf
<1>3. \A f, k \in findings : Alike(f, k) => f = k
  <2> SUFFICES ASSUME NEW f \in findings, NEW k \in findings, Alike(f, k) PROVE f = k
    OBVIOUS
  <2>1. PICK a \in found : f = Found(a)
    BY DEF BestOf
  <2>2. PICK b \in found : k = Found(b)
    BY DEF BestOf
  <2>3. Alike(f, b) /\ Alike(k, a)
    BY <1>1, <2>1, <2>2 DEF Alike
  <2>4. Found(b).score <= f.score /\ Found(a).score <= k.score
    BY <2>3 DEF BestOf
  <2>5. f.score = k.score
    BY <1>2, <2>1, <2>2, <2>4
  <2> QED
    BY <2>1, <2>2, <2>5 DEF Alike, Found
<1>4. \A g : Found(g)' = Found(g)
  BY DEF Found, Score, Base
<1>5. CASE \E k \in same : k.score >= new.score
  <2>1. findings' = findings
    BY <1>5 DEF Keep
  <2>2. PICK k \in findings : Alike(k, h) /\ k.score >= new.score
    BY <1>1, <1>5 DEF Alike
  <2>3. \A f \in findings : Alike(f, h) => new.score <= f.score
    BY <1>1, <1>2, <1>3, <2>2 DEF Alike
  <2> QED
    BY <1>4, <2>1, <2>2, <2>3 DEF BestOf, Alike
<1>6. CASE ~ \E k \in same : k.score >= new.score
  <2>1. findings' = (findings \ same) \cup {new}
    BY <1>6 DEF Keep
  <2>2. \A k \in same : k.score < new.score
    BY <1>1, <1>2, <1>6
  <2>3. ASSUME NEW f \in findings' PROVE \E g \in found \cup {h} : f = Found(g)
    BY <2>1, <2>3 DEF BestOf
  <2>4. ASSUME NEW f \in findings', NEW g \in found \cup {h}, Alike(f, g)
        PROVE  Found(g).score <= f.score
    <3>1. CASE f \in findings \ same
      <4>1. g \in found
        BY <1>1, <2>4, <3>1 DEF Alike
      <4> QED
        BY <2>4, <3>1, <4>1 DEF BestOf
    <3>2. CASE f = new /\ g \in found
      <4>1. PICK k \in findings : Alike(k, g)
        BY <3>2 DEF BestOf
      <4>2. k \in same
        BY <1>1, <2>4, <3>2, <4>1 DEF Alike
      <4>3. Found(g).score <= k.score /\ k.score < new.score
        BY <2>2, <3>2, <4>1, <4>2 DEF BestOf
      <4> QED
        BY <1>1, <1>2, <3>2, <4>1, <4>3
    <3>3. CASE f = new /\ g = h
      BY <1>1, <3>3
    <3> QED
      BY <2>1, <3>1, <3>2, <3>3
  <2>5. ASSUME NEW g \in found \cup {h} PROVE \E f \in findings' : Alike(f, g)
    <3>1. Alike(new, h)
      BY <1>1 DEF Alike
    <3>2. CASE g \in found
      <4>1. PICK k \in findings : Alike(k, g)
        BY <3>2 DEF BestOf
      <4>2. k \in same => Alike(new, g)
        BY <1>1, <4>1 DEF Alike
      <4> QED
        BY <2>1, <4>1, <4>2
    <3> QED
      BY <2>1, <3>1, <3>2
  <2> QED
    BY <1>4, <2>3, <2>4, <2>5 DEF BestOf, Alike
<1> QED
  BY <1>5, <1>6

\* -- ReviewInput: the steps ------------------------------------------------

\* The places of an edit, and what its lines may be.
LEMMA EditPlaces ==
  ASSUME edit \in [1..EditLength -> EditLines]
  PROVE  /\ DOMAIN edit = 1..EditLength /\ 1..EditLength \in SUBSET Nat
         /\ Shown(edit) \in SUBSET (1..EditLength)
         /\ \A i \in 1..EditLength : edit[i].origin \in {"context", "added", "removed"}
<1>1. DOMAIN edit = 1..EditLength /\ \A i \in 1..EditLength : edit[i] \in EditLines
  OBVIOUS
<1>2. \A line \in EditLines : line.origin \in {"context", "added", "removed"}
  BY DEF EditLines
<1>3. 1..EditLength \in SUBSET Nat
  BY EditAssumption
<1> QED
  BY <1>1, <1>2, <1>3 DEF Shown

\* What is said of an edit stays said while the edit is the same.
LEMMA SameEdit ==
  ASSUME edit' = edit
  PROVE  /\ \A places : ImageOf(places)' = ImageOf(places)
         /\ \A places : AddedAt(places)' = AddedAt(places)
         /\ Plainly' <=> Plainly
         /\ Shown(edit)' = Shown(edit) /\ Hunks(edit)' = Hunks(edit)
BY DEF ImageOf, AddedAt, Plainly

\* A line of an edit without misleading lines is entered at its number in the new file,
\* and the number that follows is ready for the next line.
LEMMA LineIsEntered ==
  ASSUME edit \in [1..EditLength -> EditLines], stage = "parse", Parsing, Plainly,
         NEW i \in 1..EditLength, ParseChange(i)
  PROVE  /\ stage' = "parse"
         /\ number' = NewNumber(edit, i) + 1
         /\ image' = ImageOf(Shown(edit) \ rest')
         /\ changed' = AddedAt(Shown(edit) \ rest')
<1> DEFINE read == Shown(edit) \ rest
           origin == edit[i].origin
           content == edit[i].content
<1>1. i \in Shown(edit) /\ i \in rest /\ rest' = rest \ {i} /\ i \in Nat
  BY EditPlaces DEF ParseChange, NextLine, Parsing
<1>2. Shown(edit) \ rest' = read \cup {i} /\ i \notin read
  BY <1>1
<1>3. number = NewNumber(edit, i - 1) + 1 /\ image = ImageOf(read) /\ changed = AddedAt(read)
  BY <1>1 DEF Parsing, ParseChange
<1>4. ~(origin = "added" /\ content = "pluses")
  BY EditPlaces DEF Plainly
<1>5. /\ NewNumber(edit, i) \in Nat /\ NewNumber(edit, i - 1) \in Nat
      /\ NewNumber(edit, i) = NewNumber(edit, i - 1) + (IF InNew(edit[i]) THEN 1 ELSE 0)
  <2>1. i - 1 \in Nat /\ i # 0
    BY EditAssumption
  <2>2. NewNumber(edit, i - 1) \in Nat
    BY <2>1, NumberOfLine
  <2> QED
    BY <1>1, <2>1, <2>2, NumberOfLine
<1>6. CASE origin = "removed"
  <2>1. stage' = stage /\ number' = number /\ image' = image /\ changed' = changed
    BY <1>6 DEF ParseChange, Counted
  <2>2. ~ InNew(edit[i]) /\ edit[i].origin # "added"
    BY <1>6 DEF InNew
  <2>3. ImageOf(read \cup {i}) = ImageOf(read) /\ AddedAt(read \cup {i}) = AddedAt(read)
    BY <2>2 DEF ImageOf, AddedAt
  <2>4. number' = NewNumber(edit, i) + 1
    BY <1>3, <1>5, <2>1, <2>2
  <2> QED
    BY <1>2, <1>3, <2>1, <2>3, <2>4
<1>7. CASE origin # "removed"
  <2>1. InNew(edit[i]) /\ number = NewNumber(edit, i)
    BY <1>3, <1>5, <1>7 DEF InNew
  <2>2. /\ stage' = stage /\ number' = number + 1
        /\ image' = {l \in image : l[1] # number} \cup {<<number, content>>}
        /\ changed' = IF origin = "added" THEN changed \cup {number} ELSE changed
    BY <1>4, <1>7 DEF ParseChange, Counted
  <2>3. \A l \in image : l[1] # number
    <3> SUFFICES ASSUME NEW j \in read, InNew(edit[j]) PROVE NewNumber(edit, j) # number
      BY <1>3 DEF ImageOf
    <3>1. j \in Nat /\ j # i
      BY <1>2, EditPlaces
    <3> QED
      BY <1>1, <2>1, <3>1, NumbersDiffer
  <2>4. ImageOf(read \cup {i}) = ImageOf(read) \cup {<<number, content>>}
    BY <2>1 DEF ImageOf
  <2>5. AddedAt(read \cup {i}) = IF origin = "added" THEN AddedAt(read) \cup {number} ELSE AddedAt(read)
    BY <2>1 DEF AddedAt
  <2> QED
    BY <1>2, <1>3, <1>5, <2>1, <2>2, <2>3, <2>4, <2>5
<1> QED
  BY <1>6, <1>7

\* Reading a line keeps the order of what is left: the next line belongs to a new hunk,
\* or follows the line just read.
LEMMA ParsingGoesOn ==
  ASSUME edit \in [1..EditLength -> EditLines], stage = "parse", Parsing,
         NEW i \in 1..EditLength, ParseChange(i)
  PROVE  Parsing'
<1>1. /\ i \in Shown(edit) /\ i \in rest /\ rest' = rest \ {i} /\ i \in Nat
      /\ edit' = edit /\ source' = source /\ headers' = headers
      /\ \A j \in rest : i <= j
  BY EditPlaces DEF ParseChange, NextLine, Parsing
<1>2. Shown(edit) \in SUBSET Nat /\ rest \in SUBSET Shown(edit)
  BY EditPlaces DEF Parsing
<1>3. \A k \in rest', j \in Shown(edit) : k < j => j \in rest'
  BY <1>1, <1>2 DEF Parsing
<1>4. \A j \in Hunks(edit) \cap rest' : j \in headers
  <2> SUFFICES ASSUME NEW j \in Hunks(edit) \cap rest', NextLine(j) PROVE FALSE
    BY <1>1 DEF Parsing
  <2>1. j \in rest /\ j # i /\ \A k \in rest : j <= k
    BY <1>1 DEF NextLine
  <2> QED
    BY <1>1, <1>2, <2>1
<1>5. ASSUME NEW k \in rest', \A j \in rest' : k <= j, k \notin headers
      PROVE  k - 1 = i
  <2>1. k \in Shown(edit) /\ k \notin Hunks(edit)
    BY <1>1, <1>2, <1>4, <1>5
  <2>2. k - 1 \in Shown(edit) /\ k \in Nat /\ i < k
    BY <1>1, <1>2, <2>1 DEF Hunks
  <2>3. k - 1 \in rest => k - 1 = i
    BY <1>1, <1>2, <1>5, <2>2
  <2>4. i < k - 1 => k - 1 \in rest
    BY <1>1, <2>2 DEF Parsing
  <2> QED
    BY <1>1, <1>2, <2>2, <2>3, <2>4
<1>6. ASSUME Plainly
      PROVE  /\ image' = ImageOf(Shown(edit) \ rest')
             /\ changed' = AddedAt(Shown(edit) \ rest')
             /\ number' = NewNumber(edit, i) + 1
  BY <1>6, LineIsEntered
<1>7. ASSUME Plainly
      PROVE  \A k \in rest' : NextLine(k)' /\ k \notin headers' => number' = NewNumber(edit', k - 1) + 1
  BY <1>1, <1>5, <1>6, <1>7 DEF NextLine
<1>8. /\ Shown(edit)' = Shown(edit) /\ Hunks(edit)' = Hunks(edit)
      /\ Plainly' <=> Plainly
      /\ ImageOf(Shown(edit) \ rest)' = ImageOf(Shown(edit) \ rest')
      /\ AddedAt(Shown(edit) \ rest)' = AddedAt(Shown(edit) \ rest')
  BY <1>1, SameEdit DEF ImageOf, AddedAt
<1>9. source' = "diff" /\ rest' \subseteq Shown(edit)'
  BY <1>1, <1>2, <1>8 DEF Parsing
<1> QED
  BY <1>1, <1>3, <1>4, <1>6, <1>7, <1>8, <1>9 DEF Parsing

\* When nothing is scored yet, nothing is found.
LEMMA NothingFound ==
  ASSUME findings = {}
  PROVE  BestOf({})
BY DEF BestOf

\* A step that only scores a hit: the findings are the best of one hit more.
LEMMA HitIsScored ==
  ASSUME Scoring, ScoreHit
  PROVE  Scoring'
<1>1. PICK h \in hits :
        /\ hits' = hits \ {h}
        /\ findings' = Keep(findings, Found(h))
  BY DEF ScoreHit, Found
<1> DEFINE all == Scan(image, tree)
<1>2. stage = "score" /\ stage' = "score" /\ image' = image /\ tree' = tree /\ changed' = changed
  BY DEF ScoreHit
<1>3. hits \subseteq all /\ BestOf(all \ hits) /\ h \in all
  BY <1>1, <1>2 DEF Scoring
<1>4. BestOf(Scan(image, tree) \ hits)'
  <2>1. ASSUME NEW found, found = all \ hits PROVE BestOf(found \cup {h})'
    <3>1. found \subseteq Scan(image, tree) /\ BestOf(found)
      BY <1>3, <2>1
    <3> QED
      BY <1>1, <1>2, <1>3, <3>1, BestIsKept
  <2>2. Scan(image, tree)' = all
    BY <1>2
  <2>3. ASSUME NEW found, found = all \ hits
        PROVE  found \cup {h} = (Scan(image, tree) \ hits)'
    BY <1>1, <1>3, <2>2, <2>3
  <2> QED
    BY <2>1, <2>3
<1>5. hits' \subseteq Scan(image, tree)'
  BY <1>1, <1>2, <1>3
<1> QED
  BY <1>2, <1>4, <1>5 DEF Scoring

\* What is parsed is what was changed, and what is kept is the best of what was found.
LEMMA InputInvariant == InputSpec => []InputInv
<1>1. InputInit => InputInv
  BY DEF InputInit, InputInv, NothingYet, Parsing, Scanned, Scoring
<1>2. InputInv /\ [InputNext]_inputVars => InputInv'
  <2> SUFFICES ASSUME InputInv, [InputNext]_inputVars PROVE InputInv'
    OBVIOUS
  <2> USE DEF InputInv
  <2>1. CASE Submit
    BY <2>1 DEF Submit, NothingYet, Parsing, Scanned, Scoring
  <2>2. CASE StartDiff
    <3>1. edit \in [1..EditLength -> EditLines] /\ edit' = edit
      BY <2>2 DEF StartDiff, NothingYet
    <3>2. image' = {} /\ changed' = {} /\ findings' = {} /\ source' = "diff"
      BY <2>2 DEF StartDiff, NothingYet
    <3>3. CASE stage' = "parse"
      <4>1. rest' = Shown(edit) /\ headers' = Hunks(edit)
        BY <2>2, <3>3 DEF StartDiff
      <4>2. Shown(edit) \in SUBSET Nat
        BY <3>1, EditPlaces
      <4>3. ASSUME NEW i \in Shown(edit), \A j \in Shown(edit) : i <= j
            PROVE  i \in Hunks(edit)
        BY <4>2, <4>3 DEF Hunks
      <4>4. Hunks(edit) \subseteq Shown(edit)
        BY DEF Hunks
      <4>5. ImageOf({}) = {} /\ AddedAt({}) = {}
        BY DEF ImageOf, AddedAt
      <4>6. Shown(edit)' = rest' /\ Hunks(edit)' = headers'
        BY <3>1, <4>1, SameEdit
      <4>7. /\ ImageOf(Shown(edit) \ rest)' = {}
            /\ AddedAt(Shown(edit) \ rest)' = {}
        BY <4>6 DEF ImageOf, AddedAt
      <4>8. Parsing'
        BY <3>2, <4>1, <4>3, <4>4, <4>6, <4>7 DEF Parsing, NextLine
      <4> QED
        BY <3>1, <3>2, <3>3, <4>8 DEF NothingYet, Scanned, Scoring
    <3>4. CASE stage' = "refused"
      BY <3>1, <3>2, <3>4 DEF NothingYet, Parsing, Scanned, Scoring
    <3> QED
      BY <2>2, <3>3, <3>4 DEF StartDiff
  <2>3. CASE ParseHunk
    <3>1. PICK i \in headers :
            NextLine(i) /\ headers' = headers \ {i} /\ number' = NewNumber(edit, i - 1) + 1
      BY <2>3 DEF ParseHunk
    <3>2. /\ stage = "parse" /\ stage' = "parse"
          /\ UNCHANGED <<edit, source, rest, image, changed, tree, hits, findings>>
      BY <2>3 DEF ParseHunk
    <3>3. edit \in [1..EditLength -> EditLines] /\ rest \in SUBSET Nat
      BY <3>2, EditPlaces DEF NothingYet, Parsing
    <3>4. /\ Shown(edit)' = Shown(edit) /\ Hunks(edit)' = Hunks(edit) /\ (Plainly' <=> Plainly)
          /\ ImageOf(Shown(edit) \ rest)' = ImageOf(Shown(edit) \ rest)
          /\ AddedAt(Shown(edit) \ rest)' = AddedAt(Shown(edit) \ rest)
      BY <3>2, SameEdit DEF ImageOf, AddedAt
    <3>5. \A k \in rest : NextLine(k)' <=> NextLine(k)
      BY <3>2 DEF NextLine
    <3>6. \A k \in rest : NextLine(k) => k = i
      BY <3>1, <3>3 DEF NextLine
    <3>7. Parsing'
      <4>1. \A k \in rest', j \in Shown(edit)' : k < j => j \in rest'
        BY <3>2, <3>4 DEF Parsing
      <4>2. \A k \in Hunks(edit)' \cap rest' : k \in headers' \/ NextLine(k)'
        BY <3>1, <3>2, <3>4, <3>5 DEF Parsing
      <4>3. \A k \in rest' : NextLine(k)' /\ k \notin headers' => number' = NewNumber(edit', k - 1) + 1
        BY <3>1, <3>2, <3>5, <3>6
      <4>4. source' = "diff" /\ rest' \subseteq Shown(edit)'
        BY <3>2, <3>4 DEF Parsing
      <4>5. Plainly' => image' = ImageOf(Shown(edit) \ rest)' /\ changed' = AddedAt(Shown(edit) \ rest)'
        BY <3>2, <3>4 DEF Parsing
      <4> QED
        BY <4>1, <4>2, <4>3, <4>4, <4>5 DEF Parsing
    <3> QED
      BY <3>2, <3>7 DEF NothingYet, Scanned, Scoring
  <2>4. ASSUME NEW i \in 1..EditLength, ParseChange(i) PROVE InputInv'
    <3>1. stage = "parse" /\ edit' = edit /\ findings' = findings
      BY <2>4 DEF ParseChange
    <3>2. edit \in [1..EditLength -> EditLines]
      BY <3>1 DEF NothingYet
    <3>3. Parsing'
      BY <2>4, <3>1, <3>2, ParsingGoesOn
    <3>4. stage' \in {"parse", "refused"}
      BY <2>4, <3>1 DEF ParseChange
    <3> QED
      BY <3>1, <3>2, <3>3, <3>4 DEF NothingYet, Scanned, Scoring
  <2>5. CASE BuildWorkspace
    <3>1. /\ stage = "parse" /\ rest = {} /\ stage' = "score" /\ hits' = Scan(image, tree')
          /\ UNCHANGED <<edit, source, image, changed, findings>>
      BY <2>5 DEF BuildWorkspace
    <3>2. findings' = {} /\ Scan(image, tree)' = hits' /\ source' = "diff"
      BY <3>1 DEF NothingYet, Parsing
    <3>3. BestOf(Scan(image, tree) \ hits)'
      BY <3>2 DEF BestOf
    <3>4. (Plainly' <=> Plainly) /\ ImageOf(Shown(edit))' = ImageOf(Shown(edit))
          /\ AddedAt(Shown(edit))' = AddedAt(Shown(edit))
      BY <3>1, SameEdit DEF ImageOf, AddedAt
    <3>5. Shown(edit) \ rest = Shown(edit)
      BY <3>1
    <3>6. Plainly' => image' = ImageOf(Shown(edit))' /\ changed' = AddedAt(Shown(edit))'
      BY <3>1, <3>4, <3>5 DEF Parsing
    <3> QED
      BY <3>1, <3>2, <3>3, <3>6 DEF NothingYet, Parsing, Scanned, Scoring
  <2>6. CASE TakeZip
    <3>1. stage = "start" /\ source = "zip" /\ UNCHANGED <<edit, source, findings>>
      BY <2>6 DEF TakeZip
    <3>2. findings' = {} /\ edit \in [1..EditLength -> EditLines]
      BY <3>1 DEF NothingYet
    <3>3. CASE stage' = "score"
      <4>1. image' = ImageOf(DOMAIN edit) /\ changed' = {l[1] : l \in image'} /\ hits' = Scan(image', tree')
        BY <2>6, <3>3 DEF TakeZip, ImageOf
      <4>2. ImageOf(DOMAIN edit)' = ImageOf(DOMAIN edit) /\ Scan(image, tree)' = hits'
        BY <3>1, <4>1, SameEdit DEF ImageOf
      <4>3. BestOf(Scan(image, tree) \ hits)'
        BY <3>2, <4>2 DEF BestOf
      <4> QED
        BY <3>1, <3>2, <3>3, <4>1, <4>2, <4>3 DEF NothingYet, Parsing, Scanned, Scoring
    <3>4. CASE stage' = "refused"
      BY <3>1, <3>2, <3>4 DEF NothingYet, Parsing, Scanned, Scoring
    <3> QED
      BY <2>6, <3>3, <3>4 DEF TakeZip
  <2>7. CASE ScoreHit
    <3>1. Scoring'
      BY <2>7, HitIsScored
    <3>2. /\ stage = "score" /\ stage' = "score"
          /\ UNCHANGED <<edit, source, image, changed>>
      BY <2>7 DEF ScoreHit
    <3> QED
      BY <3>1, <3>2, SameEdit DEF NothingYet, Parsing, Scanned, ImageOf, AddedAt
  <2>8. CASE ReportFindings
    <3>1. /\ stage = "score" /\ hits = {} /\ stage' = "reported"
          /\ UNCHANGED <<edit, source, image, changed, tree, hits, findings>>
      BY <2>8 DEF ReportFindings
    <3>2. Scan(image, tree)' = Scan(image, tree)
      BY <3>1
    <3>3. BestOf(Scan(image, tree) \ hits)'
      BY <3>1, <3>2 DEF BestOf, Scoring, Found, Alike
    <3> QED
      BY <3>1, <3>2, <3>3, SameEdit DEF NothingYet, Parsing, Scanned, Scoring, ImageOf, AddedAt
  <2>9. CASE UNCHANGED inputVars
    <3>1. UNCHANGED <<edit, source, stage, rest, headers, number, image, changed, tree, hits, findings>>
      BY <2>9 DEF inputVars
    <3>2. NothingYet' /\ Scanned'
      BY <3>1, SameEdit DEF NothingYet, Scanned, ImageOf, AddedAt
    <3>3. Parsing'
      BY <3>1, SameEdit DEF Parsing, NextLine, ImageOf, AddedAt
    <3>4. Scan(image, tree)' = Scan(image, tree)
      BY <3>1
    <3>5. Scoring'
      BY <3>1, <3>4 DEF Scoring, BestOf, Found, Alike
    <3> QED
      BY <3>2, <3>3, <3>5
  <2> QED
    BY <2>1, <2>2, <2>3, <2>4, <2>5, <2>6, <2>7, <2>8, <2>9 DEF InputNext
<1> QED
  BY <1>1, <1>2, PTL DEF InputSpec

\* A greatest number of a set is its Max.
LEMMA MaxOfNumbers ==
  ASSUME NEW S \in SUBSET Nat, NEW m \in S, \A x \in S : x <= m
  PROVE  Max(S) = m
<1>1. \A y \in S : m >= y
  OBVIOUS
<1>2. Max(S) \in S /\ \A y \in S : Max(S) >= y
  BY <1>1 DEF Max
<1>3. Max(S) \in Nat /\ m \in Nat /\ Max(S) >= m /\ Max(S) <= m
  BY <1>2
<1> QED
  BY <1>3

\* What is known of the new file in the end: its lines at their numbers, and which of them
\* count as changed.
LEMMA KnownLines ==
  ASSUME InputInv, stage = "reported", source = "diff" => Plainly
  PROVE  LET places == {j \in DOMAIN edit : InNew(edit[j]) /\ Known(j)}
         IN  /\ places \in SUBSET Nat
             /\ image = {<<NewNumber(edit, i), edit[i].content>> : i \in places}
             /\ \A i \in places :
                  NewNumber(edit, i) \in changed <=> source = "zip" \/ edit[i].origin = "added"
<1> DEFINE places == {j \in DOMAIN edit : InNew(edit[j]) /\ Known(j)}
<1>1. /\ edit \in [1..EditLength -> EditLines] /\ DOMAIN edit \in SUBSET Nat
      /\ Shown(edit) = {j \in DOMAIN edit : edit[j].shown}
  BY EditPlaces DEF InputInv, NothingYet, Shown
<1>2. CASE source = "zip"
  <2>1. places = {j \in DOMAIN edit : InNew(edit[j])}
    BY <1>2 DEF Known
  <2>2. image = {<<NewNumber(edit, i), edit[i].content>> : i \in places} /\ changed = {l[1] : l \in image}
    BY <1>2, <2>1 DEF InputInv, Scanned, ImageOf
  <2>3. ASSUME NEW i \in places PROVE NewNumber(edit, i) \in changed
    <3>1. <<NewNumber(edit, i), edit[i].content>> \in image
      BY <2>2
    <3>2. \A l \in image : l[1] \in changed
      BY <2>2
    <3> QED
      BY <3>1, <3>2
  <2> QED
    BY <1>1, <1>2, <2>2, <2>3
<1>3. CASE source = "diff" /\ source # "zip"
  <2>1. places = {j \in Shown(edit) : InNew(edit[j])}
    BY <1>1, <1>3 DEF Known
  <2>2. image = ImageOf(Shown(edit)) /\ changed = AddedAt(Shown(edit))
    BY <1>3 DEF InputInv, Scanned
  <2>3. ASSUME NEW i \in places, NewNumber(edit, i) \in changed
        PROVE  edit[i].origin = "added"
    <3>1. PICK j \in Shown(edit) : edit[j].origin = "added" /\ NewNumber(edit, j) = NewNumber(edit, i)
      BY <2>2, <2>3 DEF AddedAt
    <3>2. InNew(edit[j]) /\ InNew(edit[i]) /\ i \in Nat /\ j \in Nat
      BY <1>1, <3>1 DEF InNew
    <3> QED
      BY <3>1, <3>2, NumbersDiffer
  <2>4. ASSUME NEW i \in places, edit[i].origin = "added"
        PROVE  NewNumber(edit, i) \in changed
    BY <2>1, <2>2, <2>4 DEF AddedAt
  <2> QED
    BY <1>1, <1>3, <2>1, <2>2, <2>3, <2>4 DEF ImageOf
<1> QED
  BY <1>2, <1>3 DEF InputInv, Scanned

\* The findings of a review are the true ones (parse_unified_diff, from_diff, from_zip,
\* run_rule, score_confidence, dedup_findings).
THEOREM FindingsCorrect == InputSpec => []FindingsTrue
<1>1. InputInv => FindingsTrue
  <2> SUFFICES ASSUME InputInv, stage = "reported", source = "diff" => Plainly
               PROVE  /\ findings =
                           UNION {{[line |-> NewNumber(edit, i), rule |-> h.rule,
                             score |-> Max({Score(h.rule, source = "zip" \/ edit[i].origin = "added", g.dynamic) :
                                   g \in {f \in HitsOf(edit[i].content, tree) : f.rule = h.rule}})] :
                                     h \in HitsOf(edit[i].content, tree)} :
                                    i \in {j \in DOMAIN edit : InNew(edit[j]) /\ Known(j)}}
                      /\ \A f \in findings : f.rule \in Fixable => Level(f.score) # "suppressed"
    BY DEF FindingsTrue, Plainly
  <2> DEFINE places == {j \in DOMAIN edit : InNew(edit[j]) /\ Known(j)}
             HitsAt(i) == HitsOf(edit[i].content, tree)
             Changed(i) == source = "zip" \/ edit[i].origin = "added"
             ScoresOf(i, h) ==
               {Score(h.rule, Changed(i), g.dynamic) : g \in {f \in HitsAt(i) : f.rule = h.rule}}
             Truth(i, h) == [line |-> NewNumber(edit, i), rule |-> h.rule, score |-> Max(ScoresOf(i, h))]
             all == Scan(image, tree)
  <2>1. /\ places \in SUBSET Nat
        /\ image = {<<NewNumber(edit, i), edit[i].content>> : i \in places}
        /\ \A i \in places : NewNumber(edit, i) \in changed <=> Changed(i)
    BY KnownLines
  <2>2. BestOf(all)
    <3>1. all \ hits = all
      BY DEF InputInv, Scoring
    <3> QED
      BY <3>1 DEF InputInv, Scoring
  <2>3. ASSUME NEW a \in all
        PROVE  \E i \in places : \E g \in HitsAt(i) :
                 a = [line |-> NewNumber(edit, i), rule |-> g.rule, dynamic |-> g.dynamic]
    <3>1. PICK l \in image : \E g \in HitsOf(l[2], tree) :
                 a = [line |-> l[1], rule |-> g.rule, dynamic |-> g.dynamic]
      BY ScannedHits
    <3>2. PICK i \in places : l = <<NewNumber(edit, i), edit[i].content>>
      BY <2>1
    <3> QED
      BY <3>1, <3>2
  <2>4. ASSUME NEW i \in places, NEW g \in HitsAt(i)
        PROVE  [line |-> NewNumber(edit, i), rule |-> g.rule, dynamic |-> g.dynamic] \in all
    <3>1. <<NewNumber(edit, i), edit[i].content>> \in image
      BY <2>1
    <3> QED
      BY <3>1 DEF Scan
  <2>5. ASSUME NEW i \in places, NEW g \in HitsAt(i)
        PROVE  /\ g.rule \in Rules
               /\ Found([line |-> NewNumber(edit, i), rule |-> g.rule, dynamic |-> g.dynamic])
                    = [line |-> NewNumber(edit, i), rule |-> g.rule,
                       score |-> Score(g.rule, Changed(i), g.dynamic)]
    <3>1. g.rule \in Rules
      BY HitsHaveRules DEF HitsOf
    <3>2. Score(g.rule, NewNumber(edit, i) \in changed, g.dynamic) = Score(g.rule, Changed(i), g.dynamic)
      BY <2>1 DEF Score
    <3> QED
      BY <3>1, <3>2 DEF Found
  <2>6. ASSUME NEW i \in places, NEW h \in HitsAt(i), NEW f \in findings,
               f.line = NewNumber(edit, i), f.rule = h.rule
        PROVE  f = Truth(i, h)
    <3>1. PICK a \in all : f = Found(a)
      BY <2>2 DEF BestOf
    <3>0. PICK j \in places : \E b \in HitsAt(j) :
            a = [line |-> NewNumber(edit, j), rule |-> b.rule, dynamic |-> b.dynamic]
      BY <2>3
    <3>2. PICK b \in HitsAt(j) :
            a = [line |-> NewNumber(edit, j), rule |-> b.rule, dynamic |-> b.dynamic]
      BY <3>0
    <3>3. f.line = NewNumber(edit, j) /\ f.rule = b.rule /\ f.score = Score(b.rule, Changed(j), b.dynamic)
      <4>1. Found(a) = [line |-> NewNumber(edit, j), rule |-> b.rule,
                        score |-> Score(b.rule, Changed(j), b.dynamic)]
        BY <2>5, <3>2, Zenon
      <4> QED
        BY <3>1, <4>1
    <3>4. j = i
      BY <2>1, <2>6, <3>3, NumbersDiffer
    <3>5. f.score \in ScoresOf(i, h)
      BY <2>6, <3>2, <3>3, <3>4
    <3>6. ASSUME NEW g \in HitsAt(i), g.rule = h.rule
          PROVE  Score(h.rule, Changed(i), g.dynamic) \in Nat /\ Score(h.rule, Changed(i), g.dynamic) <= f.score
      <4>1. PICK c \in all : c = [line |-> NewNumber(edit, i), rule |-> g.rule, dynamic |-> g.dynamic]
        BY <2>4
      <4>2. Alike(f, c)
        BY <2>6, <3>6, <4>1 DEF Alike
      <4>3. Found(c).score <= f.score
        BY <2>2, <4>2 DEF BestOf
      <4>4. Found(c).score = Score(h.rule, Changed(i), g.dynamic)
        <5>1. Found(c) = [line |-> NewNumber(edit, i), rule |-> g.rule,
                          score |-> Score(g.rule, Changed(i), g.dynamic)]
          BY <2>5, <4>1, Zenon
        <5> QED
          BY <3>6, <5>1
      <4> QED
        BY <2>5, <3>6, <4>3, <4>4, Scores
    <3>7. Max(ScoresOf(i, h)) = f.score
      <4>1. ScoresOf(i, h) \in SUBSET Nat /\ \A x \in ScoresOf(i, h) : x <= f.score
        BY <3>6
      <4> HIDE DEF ScoresOf
      <4> QED
        BY <3>5, <4>1, MaxOfNumbers
    <3> QED
      BY <2>6, <3>1, <3>7 DEF Found
  <2>7. ASSUME NEW f \in findings
        PROVE  \E i \in places : \E h \in HitsAt(i) : f = Truth(i, h)
    <3>1. PICK a \in all : f = Found(a)
      BY <2>2 DEF BestOf
    <3>0. PICK i \in places : \E h \in HitsAt(i) :
            a = [line |-> NewNumber(edit, i), rule |-> h.rule, dynamic |-> h.dynamic]
      BY <2>3
    <3>2. PICK h \in HitsAt(i) :
            a = [line |-> NewNumber(edit, i), rule |-> h.rule, dynamic |-> h.dynamic]
      BY <3>0
    <3>3. f.line = NewNumber(edit, i) /\ f.rule = h.rule
      BY <3>1, <3>2 DEF Found
    <3> HIDE DEF Truth
    <3> QED
      BY <2>6, <3>2, <3>3
  <2>8. ASSUME NEW i \in places, NEW h \in HitsAt(i)
        PROVE  Truth(i, h) \in findings
    <3>1. PICK f \in findings :
            Alike(f, [line |-> NewNumber(edit, i), rule |-> h.rule, dynamic |-> h.dynamic])
      BY <2>2, <2>4 DEF BestOf
    <3>2. f = Truth(i, h)
      <4> HIDE DEF Truth
      <4> QED
        BY <2>6, <3>1 DEF Alike
    <3> QED
      BY <3>2
  <2>9. findings = UNION {{Truth(i, h) : h \in HitsAt(i)} : i \in places}
    <3> HIDE DEF Truth, HitsAt, places
    <3> QED
      BY <2>7, <2>8
  <2>10. ASSUME NEW f \in findings, f.rule \in Fixable
         PROVE  Level(f.score) # "suppressed"
    <3>1. PICK a \in all : f = Found(a)
      BY <2>2 DEF BestOf
    <3>2. a.rule \in Rules
      BY ScannedHits
    <3>3. f.rule = a.rule /\ f.score = Score(a.rule, a.line \in changed, a.dynamic)
      BY <3>1 DEF Found
    <3> QED
      BY <2>10, <3>2, <3>3, Scores
  <2> QED
    BY <2>9, <2>10
<1> QED
  BY <1>1, InputInvariant, PTL
====
