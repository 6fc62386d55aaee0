----------------------------- MODULE BrainStore -----------------------------
(***************************************************************************)
(* The event-sourced store of one plan (internal/store).                   *)
(*                                                                         *)
(* Every operation is one SQLite transaction: a guarded UPDATE of a cache  *)
(* column and an INSERT of one row of brain_events.  Readers never trust   *)
(* the cache: PlanState replays the log.  The replay is a left fold over   *)
(* the rows, so the module keeps its accumulator, `derived`, and each      *)
(* operation applies to it the one step of the fold its row causes.        *)
(* BrainLog keeps the log itself and checks that the accumulator is the    *)
(* replay of all of it.                                                    *)
(*                                                                         *)
(* ao_session_id and branch are written by the same UPDATEs, AO deriving   *)
(* the branch from the session, and are one column here: `session`.        *)
(* Time stamps, run ids, PR urls and payloads are left out.                *)
(***************************************************************************)
EXTENDS Integers

CONSTANTS
    Tasks,          \* the task ids of the plan
    SessionIds,     \* the AO session ids that may be recorded
    NoSession,      \* the NULL of ao_session_id
    RoundBound      \* bound of the checks on task_retry rows per task

ASSUME StoreAssumption ==
    /\ NoSession \notin SessionIds
    /\ RoundBound \in Nat

VARIABLES
    planCache,      \* plans.status
    taskCache,      \* tasks.status
    session,        \* tasks.ao_session_id (and tasks.branch)
    derived         \* PlanState(log): what a replay of brain_events returns

storeVars == <<planCache, taskCache, session, derived>>

PlanStatuses == {"draft", "approved", "running", "done", "failed", "cancelled"}
PlanTerminal == {"done", "failed", "cancelled"}

TaskStatuses == {"pending", "dispatching", "dispatched", "running",
                 "needs_human", "awaiting_approval", "done", "failed"}
TaskTerminal == {"done", "failed"}

\* Statuses of a task whose AO session is being followed.
Followed == {"dispatched", "running", "needs_human"}

\* Statuses that take one of the MaxParallel slots.
Active == Followed \cup {"dispatching"}

-----------------------------------------------------------------------------
(* derive.go: one iteration of the loop of PlanState.                      *)

\* The status a plan event leaves the plan in.
PlanStatusAfter ==
    [plan_created |-> "draft", plan_approved |-> "approved",
     run_started |-> "running", plan_done |-> "done",
     plan_failed |-> "failed", plan_cancelled |-> "cancelled"]

\* The status a task event leaves its task in.
TaskStatusAfter ==
    [task_dispatching |-> "dispatching", task_dispatched |-> "dispatched",
     task_started |-> "running", task_needs_human |-> "needs_human",
     task_resumed |-> "running", task_done |-> "done",
     task_failed |-> "failed", task_retry |-> "pending",
     task_approval_requested |-> "awaiting_approval",
     task_approved |-> "pending"]

PlanEvents == DOMAIN PlanStatusAfter
TaskEvents == DOMAIN TaskStatusAfter

\* The types that PlanState skips, as one: ao_unreachable, task_branch_merged,
\* merge_blocked, task_verdict, task_system_commit.
Informational == {"informational"}

\* Mutant: the replay counts no retry round.
ReplayTask_NoRounds(st, event, t) ==
    [plan |-> st.plan,
     task |-> [st.task EXCEPT ![t] = TaskStatusAfter[event]],
     rounds |-> st.rounds,
     approved |-> IF event = "task_approved" THEN st.approved \cup {t}
                                             ELSE st.approved]

\* Mutant: a retry is to be approved again.
ReplayTask_RetryForgets(st, event, t) ==
    [plan |-> st.plan,
     task |-> [st.task EXCEPT ![t] = TaskStatusAfter[event]],
     rounds |-> IF event = "task_retry" THEN [st.rounds EXCEPT ![t] = @ + 1]
                                        ELSE st.rounds,
     approved |-> IF event = "task_approved" THEN st.approved \cup {t}
                  ELSE IF event = "task_retry" THEN st.approved \ {t}
                  ELSE st.approved]

ReplayTask(st, event, t) ==
    [plan |-> st.plan,
     task |-> [st.task EXCEPT ![t] = TaskStatusAfter[event]],
     rounds |-> IF event = "task_retry" THEN [st.rounds EXCEPT ![t] = @ + 1]
                                        ELSE st.rounds,
     approved |-> IF event = "task_approved" THEN st.approved \cup {t}
                                             ELSE st.approved]

ReplayPlan(st, event) ==
    [plan |-> PlanStatusAfter[event], task |-> st.task,
     rounds |-> st.rounds, approved |-> st.approved]

\* What PlanState starts from, before the first row.
EmptyReplay ==
    [plan |-> "draft", task |-> [t \in Tasks |-> "pending"],
     rounds |-> [t \in Tasks |-> 0], approved |-> {}]

-----------------------------------------------------------------------------
(* events.go: the transactions.                                            *)

\* planTransition: no row updated, no event.
PlanTransition(from, to, event) ==
    /\ planCache \in from
    /\ planCache' = to
    /\ derived' = ReplayPlan(derived, event)
    /\ UNCHANGED <<taskCache, session>>

\* taskTransition: no row updated, no event.  `column` is the new value of
\* ao_session_id.
TaskTransition(t, from, to, event, column) ==
    /\ taskCache[t] \in from
    /\ taskCache' = [taskCache EXCEPT ![t] = to]
    /\ session' = [session EXCEPT ![t] = column]
    /\ derived' = ReplayTask(derived, event, t)
    /\ UNCHANGED planCache

\* Mutant: the run starts whatever state the plan is in.
StartRun_AnyStatus ==
    PlanTransition(PlanStatuses, "running", "run_started")

ApprovePlan == PlanTransition({"draft"}, "approved", "plan_approved")
StartRun    == PlanTransition({"approved", "running"}, "running", "run_started")
FinishPlan  == PlanTransition({"running"}, "done", "plan_done")
FailPlan    == PlanTransition(PlanStatuses \ PlanTerminal, "failed", "plan_failed")
CancelPlan  == PlanTransition(PlanStatuses \ PlanTerminal, "cancelled", "plan_cancelled")

MarkTaskDispatching(t) ==
    TaskTransition(t, {"pending"}, "dispatching", "task_dispatching", session[t])

DispatchTask(t, s) ==
    TaskTransition(t, {"pending", "dispatching"}, "dispatched", "task_dispatched", s)

StartTask(t) ==
    TaskTransition(t, {"dispatched"}, "running", "task_started", session[t])

MarkTaskNeedsHuman(t) ==
    TaskTransition(t, {"dispatched", "running"}, "needs_human", "task_needs_human", session[t])

ResumeTask(t) ==
    TaskTransition(t, {"needs_human"}, "running", "task_resumed", session[t])

RequestTaskApproval(t) ==
    TaskTransition(t, {"pending"}, "awaiting_approval", "task_approval_requested", session[t])

\* Mutant: approving records the request event a second time.
ApproveTask_WrongEvent(t) ==
    TaskTransition(t, {"awaiting_approval"}, "pending", "task_approval_requested", session[t])

\* Mutant: a pending task can be approved before it was asked about.
ApproveTask_FromPending(t) ==
    TaskTransition(t, {"pending", "awaiting_approval"}, "pending", "task_approved", session[t])

ApproveTask(t) ==
    TaskTransition(t, {"awaiting_approval"}, "pending", "task_approved", session[t])

\* Mutant: a rejected task gets a status of its own.
RejectTask_OwnStatus(t) ==
    TaskTransition(t, {"awaiting_approval"}, "rejected", "task_failed", session[t])

RejectTask(t) ==
    TaskTransition(t, {"awaiting_approval"}, "failed", "task_failed", session[t])

\* Mutant: the retry keeps the session of the round that failed.
RetryTask_KeepsSession(t) ==
    TaskTransition(t, Followed, "pending", "task_retry", session[t])

\* Mutant: a failed task may be retried.
RetryTask_FromFailed(t) ==
    TaskTransition(t, Followed \cup {"failed"}, "pending", "task_retry", NoSession)

RetryTask(t) ==
    TaskTransition(t, Followed, "pending", "task_retry", NoSession)

FinishTask(t) ==
    TaskTransition(t, Followed, "done", "task_done", session[t])

FailTask(t) ==
    TaskTransition(t, Active \cup {"awaiting_approval"}, "failed", "task_failed", session[t])

FailPendingTask(t) ==
    TaskTransition(t, {"pending"}, "failed", "task_failed", session[t])

\* RecordAOUnreachable, RecordTaskBranchMerged, RecordMergeBlocked,
\* RecordTaskVerdict and RecordTaskSystemCommit append a row the replay skips.
RecordInformational == UNCHANGED storeVars

\* CreatePlan: the plan row, its task rows and plan_created, in one
\* transaction.
StoreInit ==
    /\ planCache = "draft"
    /\ taskCache = [t \in Tasks |-> "pending"]
    /\ session = [t \in Tasks |-> NoSession]
    /\ derived = ReplayPlan(EmptyReplay, "plan_created")

PlanOperation ==
    \/ ApprovePlan
    \/ StartRun
    \/ FinishPlan
    \/ FailPlan
    \/ CancelPlan

TaskOperation(t) ==
    \/ MarkTaskDispatching(t)
    \/ \E s \in SessionIds : DispatchTask(t, s)
    \/ StartTask(t)
    \/ MarkTaskNeedsHuman(t)
    \/ ResumeTask(t)
    \/ RequestTaskApproval(t)
    \/ ApproveTask(t)
    \/ RejectTask(t)
    \/ derived.rounds[t] < RoundBound /\ RetryTask(t)
    \/ FinishTask(t)
    \/ FailTask(t)
    \/ FailPendingTask(t)

StoreNext ==
    \/ PlanOperation
    \/ \E t \in Tasks : TaskOperation(t)
    \/ RecordInformational

StoreSpec == StoreInit /\ [][StoreNext]_storeVars

-----------------------------------------------------------------------------
(* Properties.                                                             *)

\* Type invariant of the store.
StoreTypeOK ==
    /\ planCache \in PlanStatuses
    /\ taskCache \in [Tasks -> TaskStatuses]
    /\ session \in [Tasks -> SessionIds \cup {NoSession}]
    /\ derived \in [plan : PlanStatuses, task : [Tasks -> TaskStatuses],
                    rounds : [Tasks -> Nat], approved : SUBSET Tasks]

\* The status columns, which the guards of the transactions test, are what a
\* replay of the log returns, which the scheduler decides by (schema.sql and
\* derive.go: "status columns are display caches only").  It relates, for
\* every operation, the UPDATE to the event type it appends.
CacheMatchesReplay ==
    /\ planCache = derived.plan
    /\ taskCache = derived.task

\* A task being followed, or done, names the session that did the work; a task
\* that has not been dispatched in its current round names none, so that a
\* retry can never be polled against the session of the round before.
\* (pollTask's "active task has no AO session id" is unreachable.)
SessionMatchesStatus ==
    \A t \in Tasks :
        /\ taskCache[t] \in Followed \cup {"done"} => session[t] # NoSession
        /\ taskCache[t] \in {"pending", "dispatching", "awaiting_approval"}
              => session[t] = NoSession

\* A done or failed task is never touched again: no operation, whatever the
\* order of calls of `om run`, `om approve-task` and `om reject-task`, changes
\* its status, its session or its retry count.
TerminalTaskIsFinal ==
    [][\A t \in Tasks : taskCache[t] \in TaskTerminal =>
          /\ taskCache'[t] = taskCache[t]
          /\ session'[t] = session[t]
          /\ derived'.rounds[t] = derived.rounds[t]]_storeVars

\* A done, failed or cancelled plan never leaves that state ("a failed plan is
\* TERMINAL", schema.sql), neither in the cache nor in the replay.
TerminalPlanIsFinal ==
    [][(planCache \in PlanTerminal) =>
          planCache' = planCache /\ derived'.plan = planCache]_storeVars
=============================================================================
