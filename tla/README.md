# A verification development for CodePilot (daima)

CodePilot reviews a code change with four agents (review, impact, fix, verify).  A
coordinator drives one *review task* through a status machine, runs the agents as
*child tasks*, gates their results, and stops in `PENDING_APPROVAL`.  People take it
from there: an approver decides, a merge writes the patch to the task branch, an
administrator resumes a task that waits in `NEEDS_HUMAN`.  Everything is kept in one
PostgreSQL database; the task branch is a git repository beside it.

What must be right is first the interplay: several orchestration runs of one task,
several requests of people, a process that may die at any point, and rows that each of
them read some time ago.  Around it are components that must be right on their own: how
runs are scheduled and recovered, how a client follows the audit log, what the agents may
call, how a patch gets into a repository, when a sandbox has tested it, and what the
analyses make of lines and numbers.  That is what the modules here describe.

## Inventory

| Component (src/) | State | Operations | Talks to | What is hard | Must hold |
|---|---|---|---|---|---|
| State machines, errors (`domain/state_machine.py`, `domain/errors.py`) | none | which move is legal, which failure is retried, where an error parks | called by every writer | consulted before the UPDATE, on a row that may move | the status only moves along the table |
| Task store, audit (`repositories/store.py`, `audit.py`) | `review_task`, `a2a_task`, `audit_event` | create, get, apply_intent, human_resume, transition | every session | the version of the caller is old when the UPDATE runs; replay by key | one intent per version; what is written was decided on the row it replaces |
| Coordinator (`agents/coordinator/coordinator.py`) | local variables of a run | review, fix and verify phase, park | store, invoker, records | overlapping runs, lost races, resumes into the middle | reviewed needs both reviewers; approval needs the gate; every run ends |
| In-process invoker (`a2a/inprocess.py`) | child rows, artifacts | submit, execute, cancel | coordinator, agents | two runs claim one child; claims answered as replays; deadline; row locks | a first attempt is executed by one run; a result stands, whoever executes again |
| HTTP invoker, agent service (`a2a/http_invoker.py`, `apps/api/agent_service.py`) | local and remote child rows, lock table | submit, poll, cancel, execute | each other over HTTP | lost or late answers, deadlines, cancel against completion | same result on both sides; one execution per child |
| Approvals, merge (`coordinator.py`, `records.py`, `repo_store.py`) | `approval`, `fix_patch`, task branch | decide, merge, resume | store, tool registry | check and commit are apart; git is outside the transaction | nothing written without an approve; rejection is final |
| Review service (`apps/api/service.py`, `main.py`) | table of running tasks, semaphore | create, schedule, trigger_fix, recover at start | coordinator | triggers are not exclusive; recovery is not registered | bounded number of runs; whoever waits gets its turn |
| Command idempotency (`apps/api/idempotency.py`, `repositories/idempotency.py`) | `idempotency_record` | reserve, complete, fail | all POST handlers | crash between reservation and completion; retry of a failed command | one execution per key |
| Restart recovery (`repositories/recovery.py`, `Coordinator.recover`) | none (plan from rows) | build plan, list plans, recover | service | plans are made early and used late; a limit; a run that breaks the loop | every interrupted review goes on or needs a human; nothing is fixed unasked |
| Event stream (`apps/api/events.py`, `repositories/ddl.py`) | cursor of a client | drain, stream | audit log | events after the last read; 500 event limit; commits out of order | a client sees every event in the end, in order |
| Tool registry (`tools/registry.py`, `write.py`, `readonly.py`, `lint.py`, `domain/budget.py`) | `tool_execution`, budget of a handler | authorize, charge, call | agents, merge | a handler that goes on after refusals; replays by key | calls stay within policy, budget and loop limit |
| Task branch repository (`repositories/repo_store.py`, `tools/write.py`) | directory, git repository | ensure, apply_patch | merge | merges overlap and break off half way | the patch once, on the task branch |
| Verify agent, sandbox (`agents/verify/agent.py`, `sandbox/docker.py`) | volumes, containers, evidence | baseline run, patched run, clean up | Docker, tool registry | hanging commands, failed calls, truncated output, leftovers of an earlier execution | sufficient evidence is earned; nothing is left behind; it ends |
| Fix agent (`agents/fix/agent.py`, `recipes.py`) | lines of a file | select, plan, compose | coordinator | each recipe moves the lines of the next | only what was found is rewritten |
| Impact agent (`agents/impact/agent.py`, `domain/impact_policy.py`) | report | symbols, call graph, classify | coordinator | unresolved calls, unparsable files | a larger change is no smaller risk |
| Review agent, rules, diffs (`agents/review/agent.py`, `rules/`, `domain/diffparse.py`, `workspace.py`, `confidence.py`) | findings | parse, check, score, merge | coordinator | line numbers of context, hidden lines, lines that look like headers | the findings are the true ones, once each |
| Accounts, dashboard, evaluations, LLM client, scripts | sessions, static data | - | - | - | not modelled |

## Modules

| Module | Models | State |
|---|---|---|
| `StateMachine` | `domain/state_machine.py`, two columns of `domain/errors.py` | - |
| `TaskStore` | the row of a task, `apply_intent`, `human_resume` | `task`, `audit`, `seen`, `patch` |
| `Coordinator` | `Coordinator.run`, the in-process invoker, child rows | `offline`, `run`, `child`, `comments`, `sandbox` |
| `MergeGate` | decisions, merges, resumes, the task branch | `decider`, `approval`, `merger`, `branch` |
| `ReviewSystem` | all of the above in one process that may crash; the properties | `crashes` |
| `TaskLifecycle` | what the system promises about a task (abstract) | `status`, `decision`, `written` |
| `CommandLedger` | `execute_idempotent` and the rows of one key | `record`, `worker`, `executed`, `given`, `history`, `crashes` |
| `AgentService` | the agent's rows, their ledger, the scheduler and the threads | `remote`, `ledger`, `running`, `thread`, `lock`, `executed`, `late` |
| `HttpInvoker` | `A2AInvoker` and the retry of the review phase | `local`, `tracker` |
| `A2AExchange` | both sides of one child; the properties | - |
| `ChildLifecycle` | what the protocol promises of a row (abstract) | `status`, `attempt` |
| `RunScheduling` | `ReviewService`, the start of the process, `recovery.py`, `recover` | `status`, `kids`, `job`, `waiting`, `entry`, `plans`, ... |
| `EventStream` | the audit log of a task, `stream_events`, a client that reconnects | `draft`, `log`, `conn`, `got`, ... |
| `ToolGate` | `ToolRegistry.call`, the policies, `Budget.charge_tool` | `executions`, `handler` |
| `TaskBranch` | `SyntheticRepo.ensure`, `apply_patch`, command by command | `place`, `repo`, `recorded` |
| `VerifySandbox` | the verify agent, `DockerSandbox.run`, its script | `spot`, `docker`, `held`, `script`, `result`, `evidence` |
| `FixPlanning` | how the fix agent applies recipes to the lines of a file | `file`, `todo`, `outcome` |
| `ImpactScope` | changed symbols, call graph, risk | `modified`, `broken`, `calls`, `report` |
| `ReviewInput` | parsing of a diff or ZIP, rules, scores, merging of findings | `edit`, `rest`, `headers`, `image`, `hits`, `findings` |
| `ReviewTypeProofs`, `ReviewSafetyProofs`, `ReviewExecutionProofs` | theorems about `ReviewSystem` | - |
| `CommandLedgerProofs`, `A2AExchangeProofs` | theorems about the module of that name | - |
| `ToolProofs` | theorems about `ToolGate`, `TaskBranch` | - |
| `ServiceProofs` | theorems about `RunScheduling`, `EventStream` | - |
| `AgentProofs` | theorems about `VerifySandbox`, `FixPlanning`, `ImpactScope`, `ReviewInput` | - |
| `MCReviewSystem`, `MCCommandLedger`, `MCA2AExchange` | symmetry for TLC | - |
| `MCComponents` | `A2AExchange` under fairness and the eight modules from `RunScheduling` to `ReviewInput`, each in behaviours of its own | `part` |

`ReviewSystem` composes `MergeGate` and `Coordinator`, which share `TaskStore`.  The ledger
is on its own: it guards the POST handlers from outside and knows nothing of what they do.
The modules from `RunScheduling` on share no variable with each other or with
`ReviewSystem`; where two look at the same code they look at different sides of it:
`RunScheduling` has the queue, the table and the plans, and of a run only the path of status
and children, which `Coordinator` has in full; `TaskBranch` has the commands of the write
that is one step in `MergeGate`; `VerifySandbox` has the run whose evidence is a choice in
`Coordinator`.  `MCComponents` puts them into one run of TLC: `part` is chosen in the
initial state, and only the variables of that component ever change.

**Sessions and versions.**  A writer gets the row, decides, and calls `apply_intent` with
the version it got; `seen[s]` is the status and version of that read (`Get`), and is
forgotten when the intent is through.  `apply_intent` itself begins with a read that
replaces whatever the session holds (`populate_existing`, `repositories/store.py:215`,
`:281`), so the search for the key, the transition table and the row a replay returns are of
the row as it is *then*; only the version in the WHERE clause is the caller's
(`store.py:328`).  The outcomes are `Applied`, `Replayed` (the key is in the audit log; the
run goes on by the status of the row that was read) and `Refused`, with the code the caller
sees.  The reads and the UPDATE are statements of their own and the database is READ
COMMITTED, so another session may commit between any two of them.  The modules have one
step for the three, and the two statements that can tell a later commit from an earlier one
show as choices in it: in `Replayed` the row may be that of the caller or the present one,
and `Overtaken` has both ways to a version conflict.

**Runs.**  `run[r].pc` names the place between two commits of `Coordinator.run_async`;
an action is what happens from one commit (or raise) to the next, and a decision has its
`store.get` as a step before it (`Look`).  `Onward` is where a run goes after an intent, by
the status of the row `apply_intent` returned.  `asyncio.gather` lets the siblings of a
failed child finish, hence `bad` and `error`.  Three things start runs of one task without
excluding each other: a schedule, a trigger of a fix, and the recovery thread.  A run goes on
to the fix phase if it was triggered to, or if `CODEPILOT_AUTO_FIX` says so (`auto`, either
value in `Schedule`).

**Children.**  A child is *claimed* (`submitted -> working`, flushed, not committed) and
*handled*; the UPDATE takes the row lock, so `Locked` blocks a second claimer until the first
has committed its result.  What the second finds depends on where it was
(`A2ATaskStore.transition`, `store.py:540-620`): if it reads the row now, the key of the
claim is found on a row that has ended, the call is a *replay* and raises nothing, and
`execute` reads the row again and runs the handler of a child that has ended
(`a2a/inprocess.py:146`); if it had read the row before, it raises `IDEMPOTENCY_CONFLICT`
(the key came between its read and its lookup) or `STATE_VERSION_CONFLICT` (between its
lookup and its UPDATE).  `ClaimChild` has all three.  A run in a handler may so be one
of several.  `CompleteChild` and `FailChild` say what their results do: `completed` is
written over `completed` under the key of the later version, or is a replay of an
execution from the same version, or is refused over `failed`; `_fail` reads the row once
more and fails what is still open, whosever it is, and otherwise returns the status that is
there.  `RetryChild` is the same: a key that is found leads to the execution all the same.

**People.**  A decision or a merge is a request that checks, and commits some time later:
two actions with anything in between.  A merge has a third, the git commit, which is
before the database commit and is not undone by it.

The handlers are `async def` with synchronous bodies, so within *one* API process two
requests never overlap; a request overlaps with the runs, which are in threads.  The modules
let requests overlap with each other too: several API processes on one database, which is
what the unique keys and the `IntegrityError` branches of `record` and `reserve` are for.
The safety properties hold for more behaviours than one process has, and no finding about
the review needs two requests at once.

**Ledger.**  One key of one actor and command type.  A row per aggregate, because the unique
constraint includes the aggregate (`repositories/models.py:562`) while the lookup does not
(`find_by_key`): two processes that insert at once may leave two rows.  `Succeed` is the
work with all its commits, `executed` counts it; `history` remembers, for the properties
only, whether a failure was recorded or an execution lost in a crash.

**Exchange.**  The same child when the agents are processes of their own.  `HttpInvoker`
extends `AgentService`, because a call is one step of both sides: the agent's handlers never
await.  What may go wrong with a call is a choice of the caller's action: the request is
lost, or the answer is, or the agent dies in the handler (`SubmitCrashes`).  A key of a
submission names the agent's row, the ledger record and, in `executed`, the executions; there
is one key per attempt.  A *tracker* is a run of the coordinator that follows the child; two
may overlap, as in `Coordinator`, and then an UPDATE may be refused (`LoseRace`).  An
execution is a thread of its own: lookup, acquisition, release and removal of its lock are
four steps, and the callback that removes the asyncio task is a fifth.  An exception the
HTTP library raises is not a `CodePilotError`, and ends the run (`"broken"`).

**Scheduling and recovery.**  `job[x]` is a run in a slot or in the recovery thread
(worker 0), `waiting` the queue of the semaphore, `entry` the table `_running`.  The plans are
made in one step at the start (`RestartProcess`), and run one after the other beside what
requests schedule (`RecoverNext`), so a plan may be stale.  `BreakRun` is the end of a run by
an exception that is not a `CodePilotError`; in the recovery thread it ends the whole loop.
`AutoFix` is the switch `CODEPILOT_AUTO_FIX` for runs that were not asked to fix.
A plan counts every child of its task; of the later phases there is one child here (`"fix"`),
which stands for the verify child too.  `left`, `resumed` and `worked` remember, for the properties only, the tasks a restart may
leave alone and those a request has run.

**Event stream.**  An event is stamped when it is recorded (`RecordEvent`) and visible when
its transaction commits, so the log may grow in the middle.  A connection is a loop of five
places with its cursor; a client that comes back brings the last id it has seen.

**Tools.**  A handler calls what it likes, also after a refusal.  The budget and the counter
of calls are of one execution, the rows of `tool_execution` of the child, so a second
execution meets the rows of the first.  `ran` holds the calls that reached a tool, each with
its number, so that a budget is a cardinality.

**Sandbox.**  Docker is external.  What happened in the container (`script`) is told apart
from what the agent reads of its output (`result`): output may be cut off, a container or a
volume of an earlier execution may still be there, any call may fail, the command may hang
and be killed at a deadline.  `held` is what the `finally` block knows of.

**Lines and numbers.**  `FixPlanning`, `ImpactScope` and `ReviewInput` are algorithms, run
step by step on every input up to a bound.  A line of code is a *shape*: what rules and
recipes can see in it.  The lines of a diff are places of the edit, and what is still to parse
is a set of them (`rest`, and `headers` for those a hunk header comes before); the parser goes
through them in their order, a line at a time.  `FindingsTrue` compares the whole way
from the diff to the findings with a reference definition on the true edit.

**Crash.**  Sessions, runs and requests are lost; rows and branch stay.  A recovery is a
`Schedule` after it.

### Abstractions

* One task, one patch version (`v1`); nothing in the in-process code makes a second one
  for the same task.
* Loading the workspace of a task succeeds.  A missing `Finding` artifact with fixable
  comments cannot occur.
* The statuses `input_required`, `canceled` of a child need a caller that the in-process
  deployment does not have.
* Error codes that park a task the same way are one code; wide impact behaves as
  `PATCH_INVALID` does.  Of the codes an in-process child fails with only `TASK_TIMEOUT` is
  retryable, and the retry inherits the deadline that has passed (`late`).
* An `IntegrityError` on an INSERT is not a `CodePilotError`: the run just ends
  (`LoseInsertRace`, and the middle case of `CollectVerify`).
* `sandbox` may start with the constant key `prescan-blocked`, left by another task.

## Hard behaviours

`PROJECT.json` lists each hazard at its line.  In short: versions and claims that are
old when they are used; replays that are not repeats (a resumed task meets the keys of its
first pass, a late claim starts a handler again); two runs on one child; a retry that another run has made; row locks; check and commit of a
request apart; a git commit that no rollback undoes; a crash anywhere.

## Runs

| Run | Instance | Properties | Shows |
|---|---|---|---|
| `lifecycle` | 1 run, 2 decisions, 2 approvers, 2 merges, 1 resume, 1 crash | `TypeOK`, `OneIntentPerVersion`, `BranchNeedsApproval`, `MergedIsWritten`, `RejectionIsFinal` | the log and the gate under every interleaving and a crash at any point |
| `races` | 2 runs, 1 decision, 1 merge, 1 resume to `REVIEWING`, `FIXING`, `TESTING` or `PENDING_APPROVAL` | `NoStaleDecision`, `OneExecution`, `LegalMoves`, `ReviewedNeedsBoth`, `ResultStands`, `GateBeforeApproval`, `ImplementsLifecycle` | two runs on the same row and children: claims, replayed claims, retries, late results, racing with people; refinement of `TaskLifecycle` |
| `liveness` | 2 runs, fairness | `EveryRunEnds`, `ReviewSettles` | no deadlock on row locks; reviews come to rest |
| `parked_again`, `prescan_stuck`, `drift_approved` | 1 run | one each | the findings below |
| `ledger` | 2 processes, 2 aggregates, 2 contents, 1 crash | `TypeOK`, `OnceUnlessFailed`, `AnswersAgree`, `InProgressIsServed` | what the ledger keeps as long as no failure is recorded, and that only a crash blocks a key |
| `command_repeated` | 1 process, 1 crash | `ExecutedOnce` | the finding below |
| `exchange` | 2 trackers, 2 threads, 1 crash of the agent, 1 cancellation | `TypeOK`, `OneInstance`, `ExecutedOncePerLife`, `RetryReconciled`, `CompletedIsRemote`, `ImplementsLocal`, `ImplementsRemote` | no second instance of a child, whatever is lost or restarted; both rows implement `ChildLifecycle` |
| `components` | the nine parts of `MCComponents`, one at a time, fairness | see below | the components on their own: crashes, timeouts, overlaps, and that what waits ends |
| `fix_lines` | 4 lines, 3 findings | `OnlyFoundLines` | the finding below |
| `network_fault` | 1 tracker, 1 thread | `RunSettlesChild` | the finding below |

The parts of `components`, with their instances and properties:

| Part | Instance | Properties |
|---|---|---|
| exchange | 1 tracker, 2 threads, 1 agent crash, 1 cancellation | `EveryTrackerEnds`: the deadline ends every run, even if the agent never answers |
| scheduling | 2 tasks, 2 slots, semaphore of 1, recovery limit 1 or 2, 2 requests, 1 restart, `CODEPILOT_AUTO_FIX` off (its default) | `RestartResumes`, `RecoveryStopsAtReviewed`, `QueuedRuns` |
| events | 2 writers, 4 events, pages of 3, 1 dropped connection | `OrderedBelowLimit`, `EverySeenOrLost`, `StreamEnds` |
| tools | 2 agents, 3 tools, 2 parameters, budget and loop limit 3, 2 executions of up to 4 calls | `CallsContained` |
| branch | 3 merges, 2 breaks | `PatchOnTaskBranch` |
| sandbox | 2 verifications, 1 fault | `SufficientIsEarned`, `NothingLeftBehind`, `VerificationEnds` |
| planning | 5 lines of 6 kinds, 3 findings, 1 file and another | `MissByOne` |
| impact | 4 files, thresholds 1 and 2, 3 changed lines | `RiskNeverFalls` |
| input | every edit of 3 lines of 5 contents, as diff or ZIP | `FindingsTrue` |

**Bounds.**  Two runs are enough for every pairwise race, and a row lock has one holder
and one waiter; what three
may do to one child (two late claims execute it together) is left to the theorems, which hold
for any number.  Two deciders and two mergers give two requests of the same kind at once,
which is what their unique keys guard against.  One resume key lets a task be taken back once,
which is what brings the keys of a first pass and the flags of an old patch into play: with
one run to every target (`lifecycle`), with two back into each phase and to the gate
(`races`).  One crash can hit any point; a second would hit a state the first can leave.
Nothing else is bounded: versions and the log are finite because keys are.  Runs, deciders, mergers and approvers
are symmetric: no action tells them apart, and symmetry is used in no liveness run.  In the
ledger two processes, aggregates and contents make every mismatch possible; two executions
are one more than may happen.  In the exchange a second tracker is what resubmits after a
lost answer or a crash of the coordinator, and what races; a slot of `Threads` is free again
when its callback has run, so two are enough for an execution that ends while the next one
begins.  A crash of the coordinator needs no bound, because a tracker ends once.  The run
has some three million states and takes two minutes; `components` has 429,000 in all.

In `components` the limits of the code (500 events, 30 calls, 10 findings, ...) are
constants with small values, and one more than the limit is possible: a fourth event behind
a page of three, a fourth call, a fourth finding, a third file.  Two tasks make a queue
behind a semaphore of one and a plan behind another plan; two requests are a fix beside a
second review, or a resume and a schedule.  Of three merges one may leave the set-up half
way, the next take it for finished, and the third meet what they left.  Two verifications
make the second meet leftovers of the first, one fault leaves them.  Five lines hold an
import, two secrets, a text between them and something that no recipe rewrites.  Three
lines of an edit are what a hunk needs for an added, a removed and a kept line in any order,
or a misleading header before a finding.

**Fairness.**  `FairSpec` asks weak fairness of `RunStep(r)` for each run: its thread is
scheduled by the operating system, and PostgreSQL grants a row lock when its holder
commits.  Nothing is asked of people, of the start of a run or of crashes.  A claim that
waits for a lock is not enabled, and weak fairness of the holder is what frees it.  In the
exchange it is asked of each tracker, whose thread polls in a loop, and of the passing of
time (`DeadlinePasses`), and of nothing at the agent or in the network: a poll that is lost
is always possible.

Of the other components weak fairness is asked of the semaphore and of the workers, which
are threads and asyncio tasks that never wait for a person (`RunScheduling`); of the loop of
a connection and of the client that reconnects, as browsers do (`EventStream`), not of the
transactions; and of the steps of a verification, which include the deadline of the exec
call (`VerifySandbox`), not of the command in the container, which may hang.  Each is asked
for only in behaviours of its component.

**What the properties say together.**  `MergedIsWritten` is one-directional towards the
branch: a crash (or a refused intent) between the git commit and the database commit
leaves a written branch and an unmerged task, and each later merge is refused by
`git apply --check`.  `BranchNeedsApproval` says that even then there was an approve.

`OneInstance` rests on `RetryReconciled` for the two attempts of a child, and on the
scheduler for one attempt.  The lock table of the agent adds nothing: without it (TLC finds
the same result) the table of running tasks and the terminal status keep executions of a row
apart, and the gap between the release of a lock and its removal does no harm.  That changes
if anything but the scheduler ever calls `execute`.

The properties of the components name their exceptions, and each exception is something the
code does: `RestartResumes` excuses tasks beyond the limit of the recovery, tasks behind a
run that broke the loop, and tasks an administrator took back, which starts no run;
`RecoveryStopsAtReviewed` excuses tasks that a request worked on after the plan was made, and
all tasks if `CODEPILOT_AUTO_FIX` is on;
`EverySeenOrLost` excuses events behind the first page and events that committed behind one
the client had read; `PatchOnTaskBranch` excuses a set-up that was torn; `NothingLeftBehind`
excuses failed removals, the loading of a volume, and crashes; `MissByOne` is what is left of
`OnlyFoundLines`; `FindingsTrue` excuses an added line that begins like a header of a diff.
Take an exception away and TLC shows the behaviour.

## Findings

Each is a `violation` run: the property quotes the repository, TLC finds the trace.

* `parked_again` - the key of the intent that parks is `task:park:<code>`
  (`coordinator.py:1277`).  A task that is resumed and fails with the same error again is
  taken for a replay and stays where it was.
* `prescan_stuck` - the evidence of a blocked patch has the constant id `prescan-blocked`
  (`agents/verify/agent.py:362`), the primary key of `sandbox_run`.  The second task that
  is blocked stays in `TESTING`.
* `drift_approved` - the verify evidence always says "no drift" and the coordinator copies
  that into the patch row (`coordinator.py:749`); after a resume to `TESTING` a drifting
  patch can be approved.
* `command_repeated` - the retry of a failed command leaves its row `failed` while it works
  (`apps/api/idempotency.py:49`).  If the process stops after the work and before `_update`,
  the next retry repeats the work.
* `fix_lines` - `_plan_by_file` promises that line numbers stay valid because findings are
  applied from the last line upwards (`agents/fix/agent.py`), but the recipe for secrets
  inserts `import os` at the top: the next secret is one line further down, stays unfixed,
  and a string assignment above it may be rewritten.
* `network_fault` - a submission over HTTP that times out raises an exception of httpx, which
  neither `submit` (`a2a/http_invoker.py:125`) nor `run_async` handles: the run ends with the
  child open and the task neither retried nor parked.

Seen while modelling, and not a run of their own, because a property names them as an
exception or the repository says nothing to the contrary:

* Children.  A run that read a child as `submitted` and claims it after another run has
  completed it is told "replayed" (`repositories/store.py:563`), which `execute` does not
  look at (`a2a/inprocess.py:146`): the handler runs again and completes the child once more,
  although "completed children are never replayed" (`repositories/recovery.py:4`).  The
  recovery thread and a repeated `POST /reviews` are two such runs.  `ResultStands` says what
  saves the review: the row stays completed, and the first artifact is the one that is read.
* Scheduling.  A repeated `POST /reviews` with the key of a task that is `REVIEWED`
  schedules a run, which enters the fix phase without a trigger (`main.py:225`; the
  docstring of `run_async`, `coordinator.py:269`, has a fix only on request).  The callback
  of a finished run removes a later run's entry (`service.py:79`, `:144`).  `resume` starts
  no run.  The limit of the recovery counts tasks before they are filtered.
  `comment_ids` of `POST /fixes` (`apps/api/schemas.py:62`) is read by nobody.
* Events.  A cursor that is not on the first page starts from its beginning again.
* Tools.  A failed call that is repeated with its key answers `ok` with no data; a merge that
  is rolled back takes the record of its refused call with it.
* Task branch.  `ensure` takes any directory for a finished repository: after a torn set-up
  the patch may end on `main`, or every later merge fails.
* Sandbox.  If loading the volume fails, helper and volume stay (`_populate_volume` is
  outside the `try`), and a container name that is left blocks later runs of that name.  Tests
  that are all skipped, with unknown coverage, are sufficient.  Ruff and pytest run although
  the patch did not apply (`agents/verify/agent.py:155` says otherwise).
* Fix.  Only the first ten findings are planned, and all are listed as fixed; an import may
  be inserted into a docstring that is longer than a line.
* Input.  Inside a hunk, lines that begin with `+++ ` or `--- ` are taken for headers, and
  the counts of a hunk are compared with nothing.  No rule of the table can reach
  "suppressed".  A module stands for changed lines outside of symbols only while no symbol
  was found in any earlier file.

## Proofs

`ReviewTypeProofs` and `ReviewSafetyProofs` prove, for every number of runs, requests,
approvers, resume keys and crashes, from the four assumptions of `ReviewSystem` on its
constants (sessions are runs, deciders and mergers; those are disjoint; resumes go to resume
targets of the state machine; `MaxCrashes` is a natural number):

1. `TypeInv == TypeOK /\ BusyKnows`.  `TypeOK` is not inductive: `Head(run[r].todo)`
   is typed only if a run that executes children has one.  `BusyKnows` says so, and that
   it has a place to go on from.  One lemma per helper (`WriteTypes`, `CopyTypes`,
   `NextChildTypes`, ...), one step per action.  Gives `TypeCorrect`.
2. `RowInv` adds `OneIntentPerVersion` and `CopiesPast`: a version that a session got is not
   above that of the row, and if it is the same, so is the status.  They need each other's
   types only: `RowSteps` shows that every step of the system leaves the row alone or writes
   one intent (`RowMoves`), and that what sessions hold is only read or forgotten
   (`CopyMoves`).  `Applied` compares versions and consults the table on the row; that
   the *decision* was made on that row, too (`Decided`), is where `CopiesPast` is used.
   Gives `AuditCorrect`, `LockCorrect` (`NoStaleDecision`) and, with the same lemma,
   `MovesLegal`.
3. `GateInv` adds `GateSafe` (the conjunction of `BranchNeedsApproval`, `MergedIsWritten`,
   `RejectionIsFinal`) and two facts about the past: `MergeHistory` (the key of the merge is
   logged only if the task is merged; a merge that is about to commit has written the
   branch) and `DeciderHistory` (what a decision request read was `PENDING_APPROVAL`).
   Without them a replayed merge, or a reject that commits late, could break the gate.
   Gives `ApprovalCorrect`, `MergeCorrect`, `RejectionCorrect`.
4. `LifecycleImplemented`: each step under `GateInv` is a step of `TaskLifecycle` or leaves
   its variables alone; initial states map to initial states.

`CommandLedgerProofs` proves, for every number of processes, aggregates, contents,
executions and crashes, the invariant `LedgerInv`: `TypeOK`, what a process in each place
knows about the row it works on (`WorkerKnows`), what a row says about the executions so far
(`RowKnows`), and one conjunct each for the time before and after a failure was recorded
(`FirstTime`, `AfterFailure`).  Before a failure there is at most one process at work and
its place determines how often the command was executed; this is what makes
`OnceUnlessFailed` inductive.  Gives `ExecutionExclusive`, `AnswersCorrect` and
`ProgressCorrect`.

`ReviewExecutionProofs` proves what the runs do to the children, for any number of them.  Its
invariant `ChildInv` says of a row that it is at its first version exactly while it is
submitted (`RowSound`).  Of each run it says which children it may execute
(`TodoSubmitted`), what the row it has read tells of the row as it is (`CopySound`), and
what its place tells of the past: a run that is about to write `REVIEWED` has both reviews,
one that is about to ask for approval has passed the gate (`PlaceSound`).  And of the locks:
a claimed row is still submitted for everybody else (`LockSound`), and its claimer is alone
in the handler of that child (`OneExecution`).  The last two need each other: a run gets to a
handler without a claim only if the row has left `submitted`, and that it cannot while
somebody holds the claim.

Runs do not disturb each other's knowledge because rows only grow: `WorkGrows` says what any
step may do to them, `LockKept` what a step of one run must not do to the claims of the
others.  Each action is shown to obey both, and `OthersStay` carries the knowledge of the runs
that stand still over every such step.  A replayed claim is where it could fail: its run goes
on with whatever the row is then, and `EnterHandler` shows that this is enough.  Gives
`ClaimExclusive`, `ChildrenCorrect` (`ResultStands` is the part of `WorkGrows` about rows),
`ReviewComplete` (which needs both reviews of the *row*, whichever run wrote it) and
`GateCorrect`.

`A2AExchangeProofs` proves the exchange for every number of trackers, threads, agent crashes
and cancellations, from one assumption on the constants (`Threads` is finite and does not
contain "none"; the bounds are natural numbers).  Its invariant has a side of the agent and
one of the coordinator:

1. `AgentInv`: the types; `LocksApart` (locks of two rows are two objects, and there is
   always a fresh one: a counting argument over the threads); `SoleExecution` (while a row is
   open, or its handler may run, it has one execution, and the scheduler knows it);
   `RowsKnown` (what the place of an execution says of its row); `Unscheduled` (no execution
   before its submission is on record); `StartsCounted`.  `ThreadKeepsInv` states once what a
   step of a thread must satisfy, and each action is shown to.
2. `TrackInv`: the types; `AttemptsInOrder` (whatever names the second attempt exists only
   since the first has failed at the agent, also in the hands of another run);
   `TrackerKnows` (what a run remembers of a completed or failed row is still so, because
   terminal rows do not move); `AbsentUntouched`.
3. Every step moves each of the three rows along `ChildLifecycle` (`RowsObey`).

Gives `ExchangeTypeCorrect`, `OneHandler`, `ExecutedRarely`, `RetryAfterFailure`,
`CompletionGenuine`, and the two refinements `LocalObeys` and `RemoteObeys`.

`ToolProofs` has two parts.  Of `ToolGate`, for every number of calls and executions, whatever
the two limits are (natural numbers): `BudgetInv` says that calls that ran were counted, by
the budget and for their signature, and that each has a number of its own, so that a call that
runs adds one to a cardinality that was below the limit.  The counters bound what ran and not
the other way round, because refused calls are counted too.  Gives `CallsCorrect`.  Of
`TaskBranch`, for any number of merges and breaks: the patch is in a commit exactly once if
it was committed (`CommittedOnce`), what was recorded was committed (`RecordsCommit`), and
nobody but the merge that sets up is there before the set-up is through, unless it is torn
(`SetUpFirst`).  Gives `PatchCommittedOnce`.

`ServiceProofs` has two parts.  Of `RunScheduling`, for every number of tasks, slots, requests
and restarts and whatever the limits of semaphore and recovery and the switch for automatic
fixes are, `SchedulingInv`: an
unfinished review has a plan, a worker that will still run its review, or one of the excuses
(`AllCovered`; a worker in the fix phase does not count, since a resume may take its task
back), and a plan is fresh unless a slot has worked on its task (`PlansFresh`).  Gives
`RecoveryComplete` and `RecoveryModest`.  Of `EventStream`, for any number of writers, events
and connections and any length of a page, `EventInv`: as long as the log fits into a page, all
a connection has left to send lies behind its cursor (`BatchAhead`).  A log that grows within
the page was within it before, and then the query returns all of it (`PageOfShortLog`).  Gives
`StreamOrdered`.

`AgentProofs` has a part for each of four modules.

1. `VerifySandbox`, for any number of verifications and faults: marks in the output imply
   what the script did, also when output is cut off (`EvidenceTells`), and what exists in
   Docker is known to the `finally` block (`HeldExists`).  Gives `EvidenceCorrect` and
   `CleanUpCorrect`.
2. `FixPlanning`, for a file of any length: `PlanInv` says that every line has the number it
   was found at (`InPlace`), or `import os` was inserted as some line `p`, all lines from there
   on have moved by one, and every finding that is left lies before one that is done
   (`ShiftedAt`).  The import goes in at most once, and findings are planned from the last
   line on; so a wrong line can only be the one before a named line, and never before the
   last.  Gives `PlanningCorrect`.
3. `ImpactScope`, for code of any size and any thresholds: the report is a function of the
   changed lines (`Reported`), and no file drops out of it and no risk falls when there are
   more of them (`LargerChange`).  Changed *symbols* may drop out, namely the module that
   stands for lines outside of symbols; the files they have in the report stay
   (`FilesStay`).  Gives `RiskCorrect`.
4. `ReviewInput`, for an edit of any length: the counter of the parser is the number of the
   line in the true new file, after every line (`Parsing`, from lemmas that count the lines
   of the new file before a place); what is scanned is that file as far as it is shown
   (`Scanned`); the findings are the best of the hits scored so far (`BestOf`, kept by
   merging in any order).  Gives `FindingsCorrect`.

Parts 2 to 4 compute on data of any size, and are proved without an induction over data: a
model that goes a step at a time has an inductive invariant, which is the induction.  Where a
greatest element was needed (the last finding of a file, the greatest of some scores), it
comes from the well-foundedness of `<` on the natural numbers (`LeastExists`,
`GreatestExists`).  The assumptions are only that sizes are natural numbers.

Every safety invariant and every action property that a passing run checks is now a theorem.
Only model-checked is what must eventually happen (`EveryRunEnds`, `ReviewSettles`,
`EveryTrackerEnds`, `QueuedRuns`, `EverySeenOrLost`, `StreamEnds`, `VerificationEnds`): it
rests on fairness and on `ENABLED`, which these provers do not handle.  The theorems are about
the safety part of each specification, so they hold with and without fairness.

## Not modelled, and why

* Roles, sessions, login (`apps/api/auth.py`, `deps.py`): they guard requests from outside; no
  state of a task depends on them.
* Cards, versions and schemas (`a2a/protocol.py`, `schema_registry.py`): static tables and
  validation of documents.  Of `a2a/registry.py` the tool policies are in `ToolGate`.
* What SQL, shell and syntax trees look like inside rules and recipes: a line is a shape.
* Queries of the API, the outcome of a probe for Docker, resource limits of containers.
* `cancel` of both invokers, `rollback` and `cleanup` of a repository: nobody in `src/` calls
  them.  `requires_human` of the scope check and `blocks_pipeline` are used by nobody.
* The LLM (external), evaluations, dashboard, scripts, migrations.

## Plan

Done, in this order: the review (`StateMachine`, `TaskStore`, `Coordinator`, `MergeGate`,
`ReviewSystem`, `TaskLifecycle`), the ledger, the exchange (`AgentService`, `HttpInvoker`,
`A2AExchange`, `ChildLifecycle`), scheduling and recovery, the event stream, tools, task
branch, sandbox, and the algorithms of the agents; their runs, and the theorems above.

What would add most next:

1. Runs of `RunScheduling` with `Coordinator` instead of its outline, on an instance small
   enough for TLC; with it, a property for a late fix run that overwrites the evidence and
   the status of a patch that already waits for approval (`coordinator.py:621`), the one
   hazard without one.
2. The recipes on tokens instead of shapes of lines, if a recipe ever rewrites more than
   one line.
