# Overmind in TLA+

A verification development for Overmind (`src/brain`), the orchestrator `om`:
it turns a goal into a plan of tasks, hands each task to a worker session of the
Agent Orchestrator daemon (AO), verifies the work and merges it locally.  The
modules are checked with TLC; what is said of every size of system is proved
with TLAPS.

## 1. The system

| Component | State it keeps | Operations | Talks to | What is hard | What makes it correct |
|---|---|---|---|---|---|
| Event store, `internal/store` | `brain_events`, and the cache columns of `plans` and `tasks` (SQLite) | one transaction per transition: a guarded UPDATE and one row; the replay `PlanState` | called by every `om` process | guard and reader use different copies of the state; any process may crash between two calls, two may interleave | caches equal the replay; ended tasks and plans stay ended; a retried task has no old session |
| Schema, `store/store.go` | the definition of table `tasks` | `Open`: four migrations, each a read and a statement or transaction | every command, at its start | two commands migrate at once; a kill between two statements | an open store is current; no saved value is reset |
| Run lock, `store/runlock.go` | `run_lock_pid`, `run_lock_heartbeat_at` | acquire (three statements), heartbeat, release | `run.go` | stale and dead holders are robbed; time | one runner per plan; a dead runner does not block resume |
| Scheduler, `internal/scheduler/run.go`, `tick.go` | in memory: clocks, merged parents, snapshots of a tick | reconcile, poll, cascade, gate, dispatch, decide the plan | store, AO, git; beside `om approve-task` and `reject-task` | crashes between a record and the call it announces; snapshots that grow old | idempotent dispatch, gates, slots, children after merges; a plan ends |
| Polling, `poll.go`, `verify.go`, `outcome.go` | the task's clock | marker, tier 0, system commit, tier 1, merge, finish, retry, fail | AO, git, LLM, store | each call may fail in three ways; time-outs; retries; counts kept in memory | done means verified and merged; the retry budget |
| Spawn prompt, `marker.go` | none | prompt, feedback and footer within AO's cap | `createAndDispatch`, AO | bytes against characters | the request fits, and a retry is told why |
| git merges, `internal/gitops` | the repository, a temporary worktree, a flock | merge, ancestry, commit, exclude | git, other plans, humans | what a crash, or a command that fails, leaves in a checkout or worktree; the user beside it; two plans, with a lock for merges and none for the exclude file | success means merged; the user's merges and lines are left alone; nothing is left behind that could be aborted |
| AO client, `internal/aoclient` | none | HTTP calls; a project's configuration decoded and encoded | AO | which errors mean "unreachable"; what is unknown to it must survive | see Scheduler and Commands |
| Planner, `internal/planner`, and `store/dag.go` | none | generate, retry once, edit, two validations | LLM, editor, store | two validations at two places | what the first accepts, the second and the scheduler can use |
| Configuration, `internal/config` | none | file, environment, legacy block, roles, autonomy | every command | precedence; an opt-in that must not be bypassed; roles that are needed later than they are looked at | no bypass without the opt-in; what Load accepts is usable, or found not to be before anything is done |
| Commands, `cmd/om` | none | plan, approve, approve-task, reject-task, run | all of these | two commands on one database, project and repository; a kill at any call | what each of the others promises, together |
| Tier-1 verifier, LLM providers, notifications, argument parsing | none | LLM calls, text | LLMs | text | not modelled |
| AO daemon, workers, LLMs, git | sessions, projects, repositories | external | | late, lost and refused requests | modelled from their use |

`om plan` asks an LLM for a plan and stores it, `om approve` makes it runnable.
`om run` sets the project's permissions, takes the lock, excludes the marker files,
records `run_started` and loops: heartbeat, tick, completion check, sleep.  A tick
adopts or repeats dispatches a crash cut short, polls followed tasks, fails the
dependents of failed tasks, and dispatches ready ones.  Other `om` processes meet it in
the store, in AO's configuration of the project, and in the repository.

PROJECT.json lists the components and, at the line where each bites, the hazards
the properties are aimed at.

## 2. The modules

| Module | Models | Built on |
|---|---|---|
| `BrainStore` | the transactions of `events.go`, and the replay as an accumulator | |
| `BrainLog` | the table `brain_events` itself, and the replay as a fold over it | `BrainStore` |
| `RunnerState` | the variables of a runner, AO's sessions, what a process forgets | `BrainStore` |
| `Polling` | `pollTask` and everything it calls | `RunnerState` |
| `Scheduler` | `Run`, `loop`, `tick`, dispatch, completion, the other commands, crashes; the system once a plan is approved | `Polling` |
| `PlanExecution` | abstract: what `om run` promises of a plan | implemented by `Scheduler` |
| `GitMerge` | `Merge` command by command, for several plans on one repository | |
| `RunLock` | the run lock and the loop that refreshes it, with time | |
| `Database` | `store.Open` and its migrations | |
| `Planning` | `planner.Parse`, `validate` and `validateDAG` as operators, and a reference | |
| `SpawnPrompt` | the spawn prompt, in bytes | |
| `Configuration` | `config.Load`, `newRoleLLM`, `resolveAutonomy` as operators | |
| `Commands` | the commands beside each other, up to the first dispatch | `Database`, `Planning`, `SpawnPrompt`, `Configuration` |
| `BrainStoreProofs`, `BrainLogProofs`, `RunLockProofs`, `GitMergeProofs`, `PlanExecutionProofs`, `CommandsProofs` | theorems | the module they are named for; `BrainLogProofs` on `BrainStoreProofs` |
| `SchedulerProofs`, `SchedulerSafety` | theorems: the inductive invariant, types, slots and the refinement; the other safety properties | `Scheduler` and `BrainStoreProofs`, then the one before |
| `MCBrainLog`, `MCScheduler`, `MCRunLock`, `MCGitMerge`, `MCCommands` | instances for TLC | |

### Store

`planCache`, `taskCache` and `session` are the columns the UPDATEs test and set.
`derived` is what `PlanState` returns.  `PlanState` is a left fold over an
append-only table, so one appended row changes its result by one step of the
fold; `BrainStore` keeps only the result.  `BrainLog` keeps the table, folds all
of it and checks that this is right.  One operator per method of `Store`; the five
`Record...` methods, whose rows the replay skips, are one.  `ao_session_id` and
`branch` are written together and are one column.

### Scheduler

The process is sequential: `pc` is the call it is about to make, `job` the
arguments and results of the handler it is in, `toReconcile`, `toPoll`,
`toDispatch`, `toCheck` what is left of a `for` loop, `phase` the loop to which a
handler returns.  A step ends where another actor could see or cause a difference:
at a call of AO, of git or of the store.  Reads that no other actor can change
meanwhile belong to the step that uses them.

* `clock[t]` is `runner.clocks[t]`: whether the task has been observed, the stage
  of the pipeline passed, the malformed marker's grace, the LLM's failures in a
  row.  That count has no bound: the limit ends the task with a kill, and a kill without
  an answer keeps the clock, so that the next failure counts on and kills again
  (`LLMErrBound` bounds it in the runs).  Durations are left out; a time-out may expire
  at any poll but the one that starts its clock.
* `outcome` and `rows` are the parts of the payloads and informational rows
  the properties speak of: the `kind` of a failure, as far as they tell kinds apart
  (`KindsKept`), and, for the current round, the tiers passed, an empty diff, the merge.
* `ao` is AO's sessions, named by task, round and order of creation.  AO creates a
  session for a request at once, or after the client gave up (`late`, at most
  `MaxLate` of them); sessions end and are removed at any time; a kill is done,
  refused, or gets no answer.  GetSession may answer any error for any session.
* `inDefault` holds the sessions whose branch is in the default branch.  Git
  answers as it likes but never loses a merge.  The merge and its row in the log are two
  steps (`MergeBranch`, `MergeDone`).  That AO's status `merged`
  means the same is taken from the code's comment.
* `Crash` stops the process at any step; also a store error, which ends the run.  A request
  to AO that is under way then is lost, acted on, or acted on later, like one given up.
  `Interrupt` cancels the context: from then on the calls of AO, git and the LLM
  fail with an error that is not a transport error, and the loop stops at its top.
* `LegacyDone` are tasks that a binary older than local merging left done, with a
  session that was never merged (`tick.go` reckons with them).  A behaviour begins with
  a draft, or with a plan in which these are done.

Only one runner is in this module; that there is only one is the subject of
`RunLock`.  `RunnerState` assumes an acyclic `Deps`: what `AcceptedPlansCanRun` proves of
every plan that passes the planner's rules.

`PlanExecution` is what a user may rely on, without processes, sessions or logs: a
task is waiting, working, done or failed; it is worked on with its gate open, all its
parents done and a slot free; it is sent back at most `MaxRetries` times; the plan is
over when nothing is at work and nothing can be.  The mapping reads all of it off the
log: `StageOf` the status, `derived.approved`, `derived.rounds`.  A crash, a Ctrl-C, a
resume, a repeated request are no steps of it.

### Run lock

Each SQL statement is a step.  `age` is the time since the heartbeat, counted up to
where it is stale; `left[p]` the time for which a waiting process may still wait.
A process may be killed at any step, and an id is not used again.  `overrun` records
that a running holder has let its heartbeat become stale.  The type invariant includes `HeldInRun`:
the holder is past the acquisition and has not left `Run`, whichever way it ends but by a kill.

### Git merges

`Scheduler` takes the result of a merge as a choice; `GitMerge` is where it comes from.
`tip` and `target` count the commits of a branch, and those of them in the default
branch.  `mergeHead` is the MERGE_HEAD of the user's checkout, with who began that merge,
which the code has to guess; `worktree` the temporary worktree, which all processes
share because its path is a function of repository and branch.  `git merge` has two
steps; killed in between, it leaves its MERGE_HEAD, changed files without one, or a
finished merge.  After Ctrl-C no command of the process runs, except the deferred
removal of the worktree.  Any other command may fail of itself, too (`Failing`: a stale
`index.lock`, a full disk).  The code returns most of these errors; it ignores those of the
commands that look for its merge and abort it (`abortOwnMerge`): the MERGE_HEAD is om's
still, and `mergeHead` says that om has given it up (`GiveUp`).

The user may edit, merge and end merges of his own at any time.  Two restrictions are
assumed: he switches branches only between two visits of om in his checkout; and, unless
`Meddling`, he touches neither task branches nor om's merges while a Merge is under way.

### Commands

`pc` is the next call of each process.  Every command first opens the store: the steps
of `Database`.  `table` is the set of what the definition of `tasks` has, `snap` the
definition a process has read and decided on, `kept` the columns whose values the rows of
the saved plan still have, `step` the statement each process is at.

The rest is what the commands share: `plan`, the one plan that is followed; `registered`
and `project`, AO's registration and configuration of the project, the latter a function
whose domain are the keys that are set, since the PUT replaces it whole; `exclude`, the
lines of `.git/info/exclude`, which `WriteFile` empties before it writes.  The user edits
the project's configuration beside them.  `Stop` is an error, Ctrl-C or a kill at any
call.  `torn`, `overlapped`, `meddled` and `optIn` record what the properties except, or
require: a write cut short or read half done, a rebuild of an old table decided on a definition since
changed, a run whose permissions another run has replaced, a bypassing run of a user who opted in.

The run lock is a column of the plan's row, so runs of different plans do not exclude each other,
while project, repository and exclude file are shared.  "run another" is the run of a plan that is
not followed: it passes all the calls of a run, and what is kept of it is what it does to the shared
state.  Before a run does anything it builds the LLM of the verifier, if its plan has graded tasks
(`LoadPlan`, `verifier`): one whose settings do not assign the role ends at "unverified".  A run's settings
are chosen there, where they first matter.  A run of another plan has the verifier it needs, or stops.

The inputs are families that vary one concern at a time (`MCCommands`): configurations with all
types of providers, declared and assigned or not, or all plain settings; drafts of one task with any
fields, neither gated nor graded, and chains (gated and graded) and circles of three with any
titles; prompts and feedbacks around the cap, with characters of one to four bytes.  `Planning`,
`SpawnPrompt` and `Configuration` are pure: the actions apply them to these inputs.

## 3. What is checked

All bounds are constants in the cfg files.

| Run | Instance | Shows |
|---|---|---|
| `log` | 2 tasks, 2 sessions, tables of up to 7 rows | caches are the replay, and the replay the fold of the table; session column and status agree; ended tasks and plans are final; one dispatch per round; gate rows alternate |
| `pipeline` | 1 gated, graded task; 1 retry; a limit of 2 LLM failures in a row (the code: 3), counted to 3; up to 2 sessions per round; 2 crashes or interrupts; no late request | retry budget; done means verified in this round and merged; rejected tasks never ran; the session recorded is of the current round; one session per round, its intent recorded first; `Scheduler` implements `PlanExecution` |
| `chain` | 2 gated tasks in a chain, the first done by an older binary or not; 1 slot, no retry, 1 crash or Ctrl-C, 1 creation AO acts on late | gates; children follow merges; `Scheduler` implements `PlanExecution`: work is founded, and the plan ends only for its reason |
| `slots` | 2 independent tasks, one gated; 1 slot, no retry, 1 crash | MaxParallel; an approved plan ends (liveness) |
| `run_lock` | 3 processes, 2 killable; a tick may outlast StaleAfter | one runner unless a heartbeat went stale; who has left Run does not hold the lock; a dead holder is replaced, a robbed runner stops (liveness) |
| `git_merge` | 2 plans with a branch of 2 commits each, 3 crashes or interrupts, commands that fail of themselves | success means merged; the temporary worktree has one user; the user's merges are kept; no merge left behind without a cause |
| `commands` | any 2 commands at once, runs of one plan or of two, on the database of any release, killed anywhere | an open store is current and no value of a saved plan is reset; an open fails only in company; what is accepted early is not refused late, but for a verifier nobody assigned, and that before anything is done; bypass needs the opt-in; a run dispatches under its permissions; the project's other settings and the user's exclude lines stay; prompts fit |

The bounds: two tasks suffice for what a property relates, a parent and a child or
two claimants of a slot; a retry distinguishes the current round from an earlier one and
reaches the budget; a crash may strike at every step, and the resumed run starts with
nothing in memory; two sessions per round are what idempotence forbids.  Two commands are
what a race needs, and every command a third could have run before them is in the initial
states: a fresh project (no table, nothing registered), or one in which an older om has
run (the definition of any release, permissions set, the marker excluded).  Deadlock is not
checked where a system really ends: a plan that is done or failed, a table or a number of
crashes at its bound, a refused command.

Fairness.  In `RunLock` each process executes its next statement, and a refused
`om run` is tried again; time need not pass, since a dead holder is replaced by the check of
its process and not by waiting.  In `Scheduler` (`FairSpec`, for `PlanEnds`): the process
makes its next step, and `om run` is called again when it has ended, which resume asks of the
user; a worker's session does not live for ever, which TaskTimeout and IdleNoMarkerTimeout see
to where the worker does not; a gate is answered, without which a plan waits by design; and
from some time on there are no more faults (`Fault`: AO unreachable, a merge blocked, a crash,
Ctrl-C), since the code retries these without end.  Nothing else is fair: which answer a call
gets is never forced.

### Where the code differs from what is said of it

Each of these runs ends in a counterexample; PROJECT.json quotes the lines.

| Run | What happens |
|---|---|
| `approved_twice` | a task approved between the two reads of a tick is parked for approval again |
| `interrupted` | Ctrl-C while sessions are polled fails their tasks as `session_lost` |
| `merged_retried` | after a crash between a merge and `task_done`, tier 0 finds the merged branch empty: the task is sent back, or failed for its budget |
| `unmerged_parent` | after a crash between `task_dispatching` and `task_failed` of a child whose parent cannot be merged, resume starts the child |
| `git_leftover` | after a crash, a temporary worktree registered without its directory makes every merge of the repository fail |

Others are in the models without a run of their own:

* a tick longer than LockStaleAfter (60 s; one check command may take 5 minutes) lets a second
  `om run` in, until the first one's next heartbeat (the exception of
  `OneRunner`; `run.go:18` says that the lock rejects a second run);
* a task that fails while it is dispatched fails the plan in the same tick, before the
  cascade names its dependents (`tick.go:154` says each of them is failed);
* a retry starts beside the old session when AO refuses to kill it (`events.go:208`
  says it is terminated);
* a slow AO, which acts on a request after the client gave it up, has two sessions of
  one round (the exception of `OneSessionPerRound`);
* a merge of a task's branch that the user makes by hand, and has not committed yet,
  is aborted as om's own (`MCGitMerge.cfg` with `Meddling = TRUE`);
* `truncate` cuts a feedback inside a character, and the JSON encoder makes three bytes of each
  byte left: AO may see up to 6 bytes more than its cap (`marker.go:88` says the prompt stays
  within it), refuses the request, and the task fails as `create_failed` (the exception of
  `PromptSound`);
* `om run` sets the project's permissions before it asks for the lock: one that is then refused
  has changed those under which the other dispatches (`meddled`);
* a project left on bypass-permissions stays so for a later run with autonomy off, whose
  dispatches nobody opted in for at that time (`BypassNeedsOptIn` only asks for some opt-in);
* two commands that both rebuild the key of the same old table reset checks, strategies and gates
  of a plan saved in between (`overlapped`);
* a kill between the truncation and the write of the exclude file loses the user's lines, and so does
  the run of another plan that reads the file then: the run lock does not keep it away (`torn`);
* a git that fails while om looks for the merge it has begun, or aborts it, leaves the MERGE_HEAD in
  the user's checkout; om recovers it only when it next merges the same branch at the same commit;
* `Load` accepts a configuration that assigns no `roles.verifier`, and the planner's rules accept a plan
  with `verify: llm`: the run refuses it, before it does anything (the exception of `AcceptedIsUsable`).

## 4. What is proved

`BrainStoreProofs`, for any tasks and sessions: `StoreTypeOK`, `CacheMatchesReplay`,
`SessionMatchesStatus`, `TerminalTaskIsFinal`, `TerminalPlanIsFinal`.  The inductive
invariant is `StoreInv`, the conjunction of the first three: a guard tests a cache,
while the row changes the replay, so that neither is preserved without the other.
`PlanTransitionInv` and `TaskTransitionInv` say what any transaction preserves;
each operation is an instance.  The final states follow from the invariant: no
operation's guard admits an ended task.

`BrainLogProofs`, for tables of any length: `ReplayIsDerived`, `OneDispatchPerRound` (of the
sessions recorded, not of the intents) and `GateRowsAlternate` (not that a gate is asked only once).
The replay is a recursive function, of which only what its equation says is known.  So the invariant
(`Replays`) says that the equation has a solution and that every solution ends in `derived`; a row
that is appended extends a solution by one step (`ReplayAppend`).  The counts go with the status:
what a transaction appends, and from where to where it takes its task, is one lemma
(`TaskRowEffect`).

`RunLockProofs`, for any number of processes and any times: `RunLockTypeOK` and `OneRunner`,
from `LockInv`: as long as no holder has overrun its heartbeat, a process that runs holds the
lock.  Nothing in the code keeps a tick shorter than StaleAfter, so no more can be said for every
value of the times; when a heartbeat goes stale, the lock changes hands as `run_lock` shows.

`GitMergeProofs`, for any processes, branches and bounds, proves every safety property that
`git_merge` checks.  Four invariants build on each other.

* `GitInv`, for `GitTypeOK` and `WorktreeIsOwn`: a process holds the flock from where it takes it
  to where it releases it, so that no other removes the worktree it merges in, and only a process
  that merges or cleans up has a worktree.
* `MergedInv`, for `SuccessIsMerged`: the default branch never has more of a branch than there is,
  and a merge in progress there never less than the default branch has, so that its commit takes
  nothing away; a call has no result before it is answered.
* `UserInv`, for `UserMergeKept`: a merge of the user's is of something foreign, and a process
  that is in its merge or about to abort one finds one of om's.  This is under `~Meddling`, as in
  the run: a task branch merged by hand is what om cannot tell from its own merge.
* `LeftInv`, for `NoMergeLeftBehind`: without a stop, a MERGE_HEAD of om's that it has not given up
  has a process at it under the flock, or its branch moved on; `NotOwn` is the window between the
  failed merge and its abort.

`PlanExecutionProofs`, for plans of any size and shape: what implements `PlanExecution` founds
its work (parents done, gate open), bounds it (slots, retries), and ends a plan only for its
reason.

The two `Scheduler` modules prove every safety property of `Scheduler`, for plans of any size and
any acyclic shape, any number of slots, rounds, sessions, crashes, interrupts and late requests.

* `Inv` is the inductive invariant that everything else starts from. `TypeOK` needs it: a handler
  passes on the task and the session it holds, and a clock is of a followed task
  (`ClocksOfFollowed`), whose handler forgets it when the task ends or is sent back.  `StoreInv` is
  BrainStore's, and is kept because the scheduler only ever makes a transaction of BrainStore
  (`StoreClient`).  `PhaseInv`: a process runs while the plan does.  `LoopInv`: what is left of a
  snapshot is still so, because nobody else moves a task that is dispatching, followed or ready.
  `JobInv`: so is the task in hand.  `TaskInv`: a task that awaits approval is gated and its parents
  are done.  `SlotInv`: dispatchReady's count never falls behind the slots taken; it goes back
  through `cascade`, where the count is still to be made, to `LoopInv`, by which the snapshot shows
  every working task.
* `SchedulerTypeCorrect` (`TypeOK`) and `SlotsBounded` (`ParallelBound`) follow.
* `RunImplementsExecution` (`ImplementsExecution`) maps each transaction to a step of
  `PlanExecution` (`TaskPromise`), every other step to a stutter.  The hard part is the end of a plan:
  `checkCompletion` looks for no active, awaiting or ready task, the promise says that what is left
  waits for a failed parent.  `StuckHasFailed` takes, of the tasks that are not done, one of least
  rank; that there is one is the acyclicity of `Deps`.
* `SchedulerSafety` strengthens `Inv` by one invariant for each property.
  `IntentComesFirst` needs none: `SessionOrigin` says where a session can come from, this process
  at its intent or a request given up.  `GatesHold`: nothing of an unapproved task is in the
  log, in AO or on its way (`GateInv`).  `RejectedStayUntouched`: nor of what the snapshot of the
  approvals does not show, which is what the gate asks about (`RejectInv`).
  `SessionIsOfCurrentRound`: also the session in hand (`SessionInv`).  `DispatchIsIdempotent`:
  a round whose intent is to come has neither session nor request, and who is about to create has
  seen none (`LoneInv`).  `BudgetKept`: the budget read before a kill is still spent after it
  (`BudgetInv`).  `DoneMeansVerified`: a stage remembered in `clock` or reached by `pc` has its verdict
  in the log, in this round (`VerifiedInv`).  `ChildrenComeAfterMerges`: what this
  binary has finished, what it remembers as merged, and the parents it has checked are in the
  default branch; the child that is about to fail is the one exception, and a stop at that point
  the one in the property (`FollowInv`).

Each of these has one lemma for each thing a step may do to the state (`ColumnStep`, `StatusStep`,
`BornStep`, ...), by cases on the actions, and argues about the invariant from these alone.

`CommandsProofs`, for any number of processes, settings, drafts, prompts and feedbacks, proves
everything that `commands` checks, in two halves.

The operators.  Recursive functions again, over a plan, a walk or a text.  `Induction` (a set with 0
and with each successor has all numbers, from the well-foundedness of `<`) and `Recursion` (a
recursion has a solution, which stays where its steps stay) are proved once and used for all of them.

* `Planning`: a draft that passes the planner's rules has no set of tasks each of which waits for one
  of the set, since a walk up inside it would come back to where it has been (`ClosedChainLoops`:
  more steps than parents, the pigeonhole).  Kahn's algorithm visits all of a plan without such a set
  (`KahnVisitsAll`: each round adds a task), and none of such a set (`StoredIsAcyclic`); the round in
  which it visits a task is the rank that the scheduler's proofs assume (`AcceptedPlansCanRun`).
* `SpawnPrompt`: `TruncateFits` (the limit is kept, a first character it has room for is kept whole),
  `EncodeGrows` (by two bytes for each one left of a cut character, and no more) and the bounds of
  `PromptAssumption` give `SpawnedIsSound`, of any prompt and feedback; `PromptsSound` is an instance.
* `Configuration`: `SettingsSound`, by cases.

The steps.  `Inv` has six parts.

* `MigrationInv`: what a step of Open has seen in the table, and goes on to rely on, is still there
  (`Relied`).  Only a rebuild of the key takes columns away, and until two overlap it starts from
  the first release, on whose table nobody can rely yet.  From it `OpenIsCurrent`, `PlanKept` and
  `OpenFailsInCompany`.
* `ControlInv`: label, command and what is carried agree; a plan on its way to the store was accepted.
  With the lemmas of `Planning`, half of `AcceptedIsUsable`.
* `VerifierInv`: a run past verifierFor has the verifier its plan needs (`Equipped`), which stays so
  because a plan's graded tasks are known from CreatePlan on.  The other half.
* `ConfigInv`: permissions, and those a run is about to set, bypass only after an opt-in; a run past
  its PUT that nobody meddled with has its own.  From it `BypassNeedsOptIn`, `DispatchedAsAsked` and
  `ProjectKept`.
* `FileInv`: unless a write was cut short or read half done, what any process has read of the exclude
  file has the user's lines, and the file has them but while a process writes.  It needs no exclusion
  between the processes.  From it `UserLinesKept`.
* `TypeInv`, for `CommandsTypeOK`.

Only assumptions on constants are used, the named ASSUMEs, `ExecAssumption` and `~Meddling`; TLC
evaluates the ASSUMEs in every run.  `CommandsAssumption` says what a draft is (sequences of tasks,
and of the titles they wait for), that its prompts passed the planner's limit, and that a feedback
begins with a reason.

Left to TLC: the liveness properties (`PlanEnds`, `DeadHolderReplaced`, `DispossessedStops`), which the
prover does not reach, and the five properties that the code violates.  Every invariant and every other
action property of the passing runs is proved.

## 5. Not modelled

The contents of branches, prompts, payloads and logs, and so the commits a worker adds after
tier 0 has passed; the LLM providers; the tier-1 verifier's prompt and the parsing of its answer,
whose three results are choices in `Polling`; notifications, argument parsing, `om status` and
`om events`, which only read; settings that are plain numbers or paths, and letter case and white
space in the others; the reuse of process ids; the calls of `aoclient` that nothing makes.  What
`git` does in a command is reduced to its effect on branches, MERGE_HEAD and worktrees; a git
command that outlives a killed `om` is taken to end before anything else looks.  The run lock's
time stamps are compared as times.  Two `om plan` that register one project at once get whatever
AO answers.

## 6. Plan

1. `GitMerge`: an abstract merge (what `Polling` assumes of it), refined.
2. Branch contents from tier 0 to the merge (commits that come late).
3. `Scheduler` with two runners, for the time between a stolen lock and the heartbeat that sees it.
