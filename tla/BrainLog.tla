------------------------------ MODULE BrainLog ------------------------------
(***************************************************************************)
(* The append-only table brain_events of one plan, beside the cache        *)
(* columns of BrainStore.  Every transaction appends exactly one row; this *)
(* module says which, and PlanState replays the whole table, as derive.go  *)
(* does.  It justifies the accumulator `derived` of BrainStore and states  *)
(* what only the history shows.                                            *)
(***************************************************************************)
EXTENDS BrainStore, Sequences, FiniteSets

CONSTANT LogBound       \* bound of the checks on the rows of the table

ASSUME LogAssumption == LogBound \in Nat

VARIABLE log            \* the rows of brain_events: <<type, task>>

NoTask == 0

\* appendEvent
Row(type, t) == log' = Append(log, [type |-> type, task |-> t])

\* One iteration of the loop of PlanState.
ReplayRow(st, row) ==
    IF row.type \in PlanEvents THEN ReplayPlan(st, row.type)
    ELSE IF row.type \in TaskEvents THEN ReplayTask(st, row.type, row.task)
    ELSE st

\* PlanState: the replay of a table from nothing, row after row.
PlanState(rows) ==
    LET st[i \in 0..Len(rows)] ==
            IF i = 0 THEN EmptyReplay ELSE ReplayRow(st[i - 1], rows[i])
    IN  st[Len(rows)]

\* Mutant: the transaction that fails a task appends no row of its own.
TaskRows_FailAsVerdict(t) ==
    \/ Row("task_dispatching", t) /\ MarkTaskDispatching(t)
    \/ Row("task_dispatched", t) /\ \E s \in SessionIds : DispatchTask(t, s)
    \/ Row("informational", t) /\ (FailTask(t) \/ RejectTask(t) \/ FailPendingTask(t))

TaskRows(t) ==
    \/ Row("task_dispatching", t) /\ MarkTaskDispatching(t)
    \/ Row("task_dispatched", t) /\ \E s \in SessionIds : DispatchTask(t, s)
    \/ Row("task_started", t) /\ StartTask(t)
    \/ Row("task_needs_human", t) /\ MarkTaskNeedsHuman(t)
    \/ Row("task_resumed", t) /\ ResumeTask(t)
    \/ Row("task_approval_requested", t) /\ RequestTaskApproval(t)
    \/ Row("task_approved", t) /\ ApproveTask(t)
    \/ Row("task_failed", t) /\ (RejectTask(t) \/ FailTask(t) \/ FailPendingTask(t))
    \/ Row("task_retry", t) /\ RetryTask(t)
    \/ Row("task_done", t) /\ FinishTask(t)

PlanRows ==
    \/ Row("plan_approved", NoTask) /\ ApprovePlan
    \/ Row("run_started", NoTask) /\ StartRun
    \/ Row("plan_done", NoTask) /\ FinishPlan
    \/ Row("plan_failed", NoTask) /\ FailPlan
    \/ Row("plan_cancelled", NoTask) /\ CancelPlan
    \/ \E type \in Informational : Row(type, NoTask) /\ RecordInformational

LogInit == StoreInit /\ log = <<[type |-> "plan_created", task |-> NoTask]>>

LogNext ==
    /\ Len(log) < LogBound
    /\ \/ PlanRows
       \/ \E t \in Tasks : TaskRows(t)

LogSpec == LogInit /\ [][LogNext]_<<storeVars, log>>

-----------------------------------------------------------------------------
(* Properties.                                                             *)

Count(type, t) == Cardinality({i \in DOMAIN log : log[i] = [type |-> type, task |-> t]})

\* A replay of the whole table, from nothing, is the accumulator, and so
\* are the caches: a process that starts after a crash, and reads only the
\* table, resumes from exactly the state the writers' guards enforce
\* (derive.go: "Resume/crash-recovery MUST use this").
ReplayIsDerived ==
    /\ PlanState(log) = derived
    /\ PlanState(log).task = taskCache
    /\ PlanState(log).plan = planCache

\* Each round has at most one task_dispatched row: there is one for every
\* task_retry, and one more exactly when a session is recorded.  A retry therefore
\* neither loses nor repeats the record of a session; intents are not counted.
OneDispatchPerRound ==
    \A t \in Tasks :
        Count("task_dispatched", t) =
            derived.rounds[t] + (IF session[t] = NoSession THEN 0 ELSE 1)

\* A task_approved row answers the task_approval_requested row before it: the
\* rows of the gate alternate, a request coming first.  A gate may be asked again
\* after its answer (run approved_twice).
GateRowsAlternate ==
    \A t \in Tasks :
        Count("task_approval_requested", t) - Count("task_approved", t) \in
            IF taskCache[t] = "awaiting_approval" THEN {1}
            ELSE IF taskCache[t] = "failed" THEN {0, 1} ELSE {0}

=============================================================================
