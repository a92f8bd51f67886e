---- MODULE TaskBranch ----
\* The synthetic repository of a task (repositories/repo_store.py) under merges of its
\* approved patch (tools/write.py) that overlap, break off and are tried again.  What
\* a merge checks before, and commits to the database after, is in MergeGate; there
\* the branch is recorded in one step, here by the commands it takes.
\* An operator whose name extends the one after it is a faulty variant of it.
EXTENDS Naturals

CONSTANTS
  Writes,     \* merges that write the patch
  MaxBreaks   \* bound: merges that break off

VARIABLES
  place,    \* per merge
  repo,     \* stage of the set-up, where the patch is, commits of it per branch
  recorded, \* a merge recorded its execution and committed
  ensured,  \* "open", "through", or "torn": a merge found the set-up half way
            \* (for properties only)
  breaks

branchVars == <<place, repo, recorded, ensured, breaks>>

\* The stages of ensure: the directory, its files, git init, the base commit, the
\* task branch.  The patch is nowhere, in the files, or in some commit.
Stages == {"absent", "dir", "files", "init", "base", "ready"}
Progress == {"none", "files", "committed"}

BranchInit ==
  /\ place = [m \in Writes |-> "idle"]
  /\ repo = [stage |-> "absent", patch |-> "none", main |-> 0, task |-> 0]
  /\ recorded = FALSE
  /\ ensured = "open"
  /\ breaks = 0

Move(m, to) == place' = [place EXCEPT ![m] = to]

\* write_patch: an approved patch, the branch of the task.  ensure makes the directory,
\* or takes the one it finds for a finished repository.  An execution that is
\* recorded is answered from its row, and nothing is recorded.
EnterWrite(m) ==
  /\ place[m] = "idle"
  /\ ~recorded
  /\ IF repo.stage = "absent"
     THEN /\ repo' = [repo EXCEPT !.stage = "dir"]
          /\ Move(m, "setup")
          /\ UNCHANGED ensured
     ELSE /\ repo' = repo
          /\ Move(m, "apply")
          /\ ensured' = IF ensured = "open" THEN "torn" ELSE ensured
  /\ UNCHANGED <<recorded, breaks>>

\* ensure goes on: the files are recorded, over whatever is there; git init; the base
\* commit, which fails if another merge has left nothing to commit; the task branch.
SetUpFiles(m) ==
  /\ place[m] = "setup" /\ repo.stage = "dir"
  /\ repo' = [repo EXCEPT !.stage = "files", !.patch = "none"]
  /\ UNCHANGED <<place, recorded, ensured, breaks>>

SetUpGit(m) ==
  /\ place[m] = "setup" /\ repo.stage = "files"
  /\ repo' = [repo EXCEPT !.stage = "init"]
  /\ UNCHANGED <<place, recorded, ensured, breaks>>

SetUpBase(m) ==
  /\ place[m] = "setup" /\ repo.stage = "init"
  /\ IF repo.main > 0
     THEN repo' = repo /\ Move(m, "idle")
     ELSE /\ repo' = [repo EXCEPT !.stage = "base",
                                  !.patch = IF @ = "none" THEN @ ELSE "committed"]
          /\ UNCHANGED place
  /\ UNCHANGED <<recorded, ensured, breaks>>

SetUpBranchLater(m) ==
  /\ place[m] = "setup" /\ repo.stage = "base"
  /\ Move(m, "apply")
  /\ ensured' = IF ensured = "open" THEN "through" ELSE ensured
  /\ UNCHANGED <<repo, recorded, breaks>>
SetUpBranch(m) ==
  /\ place[m] = "setup" /\ repo.stage = "base"
  /\ repo' = [repo EXCEPT !.stage = "ready"]
  /\ Move(m, "apply")
  /\ ensured' = IF ensured = "open" THEN "through" ELSE ensured
  /\ UNCHANGED <<recorded, breaks>>

\* apply_patch: git apply --check, strict or not, and git apply.  The lines it takes out
\* must be there: a patch that is in the files already is refused.
ApplyPatch(m) ==
  /\ place[m] = "apply"
  /\ IF repo.stage = "dir" \/ repo.patch # "none"
     THEN repo' = repo /\ Move(m, "idle")
     ELSE repo' = [repo EXCEPT !.patch = "files"] /\ Move(m, "commit")
  /\ UNCHANGED <<recorded, ensured, breaks>>

\* git add and git commit, on the branch that is checked out.  Outside of a repository
\* they fail, and so does a commit of what another merge has committed meanwhile.
CommitPatch(m) ==
  /\ place[m] = "commit"
  /\ IF repo.stage = "files" \/ repo.patch # "files"
     THEN repo' = repo /\ Move(m, "idle")
     ELSE /\ repo' = IF repo.stage = "ready"
                       THEN [repo EXCEPT !.patch = "committed", !.task = @ + 1]
                       ELSE [repo EXCEPT !.patch = "committed", !.main = @ + 1]
          /\ Move(m, "record")
  /\ UNCHANGED <<recorded, ensured, breaks>>

\* The execution is recorded and the merge committed.
RecordWrite(m) ==
  /\ place[m] = "record"
  /\ recorded' = TRUE
  /\ Move(m, "idle")
  /\ UNCHANGED <<repo, ensured, breaks>>

\* A git command runs into its timeout, the transaction is refused, or the process
\* dies: the repository stays as it is and nothing is recorded.
BreakWrite(m) ==
  /\ place[m] # "idle"
  /\ breaks < MaxBreaks
  /\ breaks' = breaks + 1
  /\ Move(m, "idle")
  /\ UNCHANGED <<repo, recorded, ensured>>

BranchNext ==
  \E m \in Writes :
    \/ EnterWrite(m)
    \/ SetUpFiles(m) \/ SetUpGit(m) \/ SetUpBase(m) \/ SetUpBranch(m)
    \/ ApplyPatch(m) \/ CommitPatch(m)
    \/ RecordWrite(m) \/ BreakWrite(m)

BranchSpec == BranchInit /\ [][BranchNext]_branchVars

\* -- properties -------------------------------------------------------------
\* The approved patch is committed at most once, however many merges write it, and to
\* the task branch, unless a merge met a repository whose set-up another merge or a
\* break had left half way: ensure takes any directory for a finished repository.
PatchOnTaskBranch ==
  /\ repo.main + repo.task <= 1
  /\ recorded => repo.main + repo.task = 1
  /\ ensured # "torn" => repo.main = 0
====
