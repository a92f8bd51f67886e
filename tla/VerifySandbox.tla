---- MODULE VerifySandbox ----
\* The verification of a patch (agents/verify/agent.py) by two runs in Docker
\* containers (sandbox/docker.py): the tests as they are, then the patch, ruff and the
\* tests again.  Docker is external: a call of its API may fail, the command may hang,
\* the process may die; the child may be executed again under the same names.
\* What really happened in the container is told apart from what is read in its output.
\* An operator whose name extends the one after it is a faulty variant of it.
EXTENDS Naturals, FiniteSets

CONSTANTS
  MaxVerifies,  \* bound: executions of the child
  MaxFaults     \* bound: failed calls, kills and crashes

VARIABLES
  spot,       \* where the agent is
  phase,      \* "baseline" or "verify"
  docker,     \* volumes, helpers and containers that exist, by kind and name
  held,       \* the kinds that the finally block knows of
  script,     \* the command in the container: how far it got, what it did and printed
  result,     \* what the agent reads of each run
  evidence,   \* "none", "blocked", "sufficient", "insufficient" or "error"
  messy,      \* a loading or a removal failed, or the process died (for properties only)
  verifies,
  faults

sandboxVars == <<spot, phase, docker, held, script, result, evidence, messy, verifies, faults>>

NoOutput == [marks |-> {}, tests |-> "empty", coverage |-> "unknown", late |-> FALSE]
NoResults == [p \in {"baseline", "verify"} |-> NoOutput]
NoScript == [at |-> "off", patched |-> FALSE, clean |-> FALSE, tests |-> "empty", out |-> NoOutput]

SandboxInit ==
  /\ spot = "idle"
  /\ phase = "baseline"
  /\ docker = {}
  /\ held = {}
  /\ script = NoScript
  /\ result = NoResults
  /\ evidence = "none"
  /\ messy = FALSE
  /\ verifies = 0
  /\ faults = 0

Fault == faults < MaxFaults /\ faults' = faults + 1
Here(kind) == <<kind, phase>>

\* prescan_patch looks at the added lines; a dangerous one ends the verification.
BeginVerify ==
  /\ spot = "idle"
  /\ verifies < MaxVerifies
  /\ verifies' = verifies + 1
  /\ phase' = "baseline"
  /\ script' = NoScript
  /\ result' = NoResults
  /\ \/ spot' = "idle" /\ evidence' = "blocked"
     \/ spot' = "volume" /\ evidence' = "none"
  /\ UNCHANGED <<docker, held, messy, faults>>

\* -- sandbox.run ------------------------------------------------------------
\* _populate_volume: a volume of that name is made or found, a helper container is
\* made, filled and removed.  The caller learns of both when all of it succeeded.
Populate ==
  /\ spot = "volume"
  /\ \/ /\ docker' = docker \cup {Here("volume")}
        /\ held' = {"volume"}
        /\ spot' = "create"
        /\ UNCHANGED <<messy, faults, evidence>>
     \/ /\ Fault
        /\ \E made \in {{}, {"volume"}, {"volume", "helper"}} :
             docker' = docker \cup {Here(k) : k \in made}
        /\ spot' = "clean"
        /\ evidence' = "error"
        /\ messy' = TRUE
        /\ UNCHANGED held
  /\ UNCHANGED <<phase, script, result, verifies>>

\* The name of the container must be free.
CreateContainer ==
  /\ spot = "create"
  /\ \/ /\ Here("container") \notin docker
        /\ docker' = docker \cup {Here("container")}
        /\ held' = held \cup {"container"}
        /\ spot' = "exec"
        /\ UNCHANGED <<evidence, faults>>
     \/ /\ \/ Here("container") \in docker /\ UNCHANGED faults
           \/ Fault
        /\ spot' = "clean"
        /\ evidence' = "error"
        /\ UNCHANGED <<docker, held>>
  /\ UNCHANGED <<phase, script, result, messy, verifies>>

\* The command starts in a thread of its own, under timeout.
StartExec ==
  /\ spot = "exec"
  /\ \/ /\ script' = [NoScript EXCEPT !.at = "start"]
        /\ spot' = "join"
        /\ UNCHANGED <<evidence, faults>>
     \/ /\ Fault
        /\ spot' = "clean"
        /\ evidence' = "error"
        /\ UNCHANGED script
  /\ UNCHANGED <<phase, docker, held, result, messy, verifies>>

\* -- the command ------------------------------------------------------------
Printed(marks) == script.out.marks \cup marks

\* git init, then git apply --check: strict, or else without context.  Neither the
\* check nor a failing git init stops what follows.  CHECK_OK stands for both its marks.
CheckStep ==
  /\ script.at = "start" /\ phase = "verify"
  /\ \/ \E mark \in {"CHECK_OK", "CHECK_FAIL"} :
          script' = [script EXCEPT !.at = "apply", !.out.marks = Printed({mark})]
     \/ script' = [script EXCEPT !.at = "lint", !.out.marks = Printed({"APPLY_FAIL"})]

ApplyStep ==
  LET fits == "CHECK_FAIL" \notin script.out.marks
  IN  /\ script.at = "apply"
      /\ script' = [script EXCEPT
           !.at = "lint",
           !.patched = fits,
           !.out.marks = Printed({IF fits THEN "APPLY_OK" ELSE "APPLY_FAIL"})]

LintStep ==
  /\ script.at = "lint"
  /\ \E ok \in BOOLEAN :
       script' = [script EXCEPT !.at = "test", !.clean = ok,
                                !.out.marks = Printed({IF ok THEN "LINT_OK" ELSE "LINT_FAIL"})]

\* pytest, with coverage.  It may be killed for its memory: then there is no summary,
\* and the script ends well all the same.
TestStep ==
  /\ script.at = (IF phase = "baseline" THEN "start" ELSE "test")
  /\ \E tests \in {"pass", "skip", "fail", "empty"}, coverage \in {"unknown", "kept", "lost", "zero"} :
       /\ phase = "baseline" => tests # "skip" /\ coverage \in {"unknown", "kept"}
       /\ tests = "empty" => coverage = "unknown"
       /\ script' = [script EXCEPT !.at = "end", !.tests = tests,
                                   !.out.tests = tests, !.out.coverage = coverage]

ScriptStep ==
  /\ spot = "join"
  /\ CheckStep \/ ApplyStep \/ LintStep \/ TestStep
  /\ UNCHANGED <<spot, phase, docker, held, result, evidence, messy, verifies, faults>>

\* -- the end of a run -------------------------------------------------------
Leave(out) ==
  /\ result' = [result EXCEPT ![phase] = out]
  /\ spot' = "clean"
  /\ UNCHANGED <<phase, docker, held, script, evidence, messy, verifies>>

\* The command ended, and its output is read, perhaps without the end of it.
ExecEnded ==
  /\ spot = "join" /\ script.at = "end"
  /\ Leave(script.out) \/ Leave([script.out EXCEPT !.tests = "empty", !.coverage = "unknown"])
  /\ UNCHANGED faults

\* The exec call failed: no output, no exit code, and no timeout either.
ExecBroke ==
  /\ spot = "join" /\ Fault
  /\ Leave(NoOutput)

\* timeout in the container ends the command (124), or the join runs out and the
\* container is killed: what was printed so far is read, or nothing.
ExecTimedOutInside ==
  /\ spot = "join" /\ script.at # "start"
  /\ Leave([script.out EXCEPT !.late = TRUE])
  /\ UNCHANGED faults
ExecTimedOut ==
  /\ spot = "join"
  /\ Leave([script.out EXCEPT !.late = TRUE]) \/ Leave([NoOutput EXCEPT !.late = TRUE])
  /\ UNCHANGED faults

\* finally: what is held is removed; failures are swallowed, and a volume that a
\* container uses stays.  Then the next run, the evidence, or the error.
CleanUpAfterSuccess ==
  /\ spot = "clean"
  /\ docker' = IF evidence = "error" THEN docker ELSE docker \ {Here(k) : k \in held}
  /\ held' = {}
  /\ spot' = IF evidence = "error" THEN "idle" ELSE IF phase = "baseline" THEN "volume" ELSE "judge"
  /\ phase' = IF evidence = "error" THEN phase ELSE "verify"
  /\ script' = NoScript
  /\ UNCHANGED <<result, evidence, messy, verifies, faults>>
CleanUp ==
  /\ spot = "clean"
  /\ \/ /\ docker' = docker \ {Here(k) : k \in held}
        /\ UNCHANGED <<messy, faults>>
     \/ /\ Fault
        /\ docker' \in {docker, docker \ {Here(k) : k \in held \ {"volume"}}}
        /\ messy' = TRUE
  /\ held' = {}
  /\ spot' = IF evidence = "error" THEN "idle" ELSE IF phase = "baseline" THEN "volume" ELSE "judge"
  /\ phase' = IF evidence = "error" THEN phase ELSE "verify"
  /\ script' = IF evidence = "error" \/ phase = "baseline" THEN NoScript ELSE script
  /\ result' = IF evidence = "error" THEN NoResults ELSE result
  /\ UNCHANGED <<evidence, verifies>>

\* The process dies; nothing is cleaned up.
DieVerifying ==
  /\ spot # "idle" /\ Fault
  /\ spot' = "idle"
  /\ held' = {}
  /\ script' = NoScript
  /\ evidence' = "error"
  /\ result' = NoResults
  /\ messy' = TRUE
  /\ UNCHANGED <<phase, docker, verifies>>

\* -- the evidence -----------------------------------------------------------
ApplyOk(out) ==
  /\ "CHECK_OK" \in out.marks
  /\ "CHECK_FAIL" \notin out.marks
LintOk(out) == "LINT_OK" \in out.marks /\ "LINT_FAIL" \notin out.marks
TestsOk(out) == out.tests # "fail"
Regressed(out) == result.baseline.tests = "fail" /\ out.tests = "fail"
CoverageFell(out) ==
  result.baseline.coverage # "unknown" /\ out.coverage \in {"lost", "zero"}
TestGapUnlessCovered(out) == out.coverage = "zero"
TestGap(out) == out.tests = "empty" \/ out.coverage = "zero"

\* _sufficient.
Sufficient(out) ==
  /\ ~out.late
  /\ ApplyOk(out) /\ LintOk(out) /\ TestsOk(out)
  /\ ~Regressed(out) /\ ~CoverageFell(out) /\ ~TestGap(out)

Judge ==
  /\ spot = "judge"
  /\ evidence' = IF Sufficient(result.verify) THEN "sufficient" ELSE "insufficient"
  /\ spot' = "idle"
  /\ script' = [script EXCEPT !.out = NoOutput]
  /\ result' = NoResults
  /\ UNCHANGED <<phase, docker, held, messy, verifies, faults>>

SandboxStep ==
  \/ Populate \/ CreateContainer \/ StartExec
  \/ ExecEnded \/ ExecTimedOut \/ CleanUp \/ Judge

SandboxNext ==
  \/ BeginVerify
  \/ SandboxStep
  \/ ScriptStep
  \/ ExecBroke
  \/ DieVerifying

\* The agent's thread runs; nothing is assumed of the command in the container.
SandboxSpec == SandboxInit /\ [][SandboxNext]_sandboxVars /\ WF_sandboxVars(SandboxStep)

\* -- properties -------------------------------------------------------------
\* Sufficient evidence is earned: the patch was in the files that were tested, ruff
\* found nothing in them, and the tests ran to their end and none failed, whatever was
\* killed, cut off or left behind in the runs.  That all of them were skipped is enough.
SufficientIsEarned ==
  evidence = "sufficient" =>
    /\ script.patched
    /\ script.clean
    /\ script.tests \in {"pass", "skip"}

\* However the runs end, by success, failure, timeout or a broken call, nothing of
\* them is left in Docker, unless a removal or the loading of the volume failed or the
\* process died.  A container left behind makes every later run of its name fail.
NothingLeftBehind == spot = "idle" /\ ~messy => docker = {}

\* A verification ends, even if its command never does.
VerificationEnds == spot # "idle" ~> spot = "idle"
====
