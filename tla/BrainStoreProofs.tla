-------------------------- MODULE BrainStoreProofs --------------------------
(***************************************************************************)
(* Proofs about BrainStore, for any set of tasks and of sessions.          *)
(***************************************************************************)
EXTENDS BrainStore, TLAPS

Derived == [plan : PlanStatuses, task : [Tasks -> TaskStatuses],
            rounds : [Tasks -> Nat], approved : SUBSET Tasks]

\* The invariant that is inductive: the caches are the replay, and the session
\* column follows the status.  Each guard tests the cache, each row changes
\* the replay: neither part is preserved without the type of both.
StoreInv == StoreTypeOK /\ CacheMatchesReplay /\ SessionMatchesStatus

-----------------------------------------------------------------------------
(* Lemmas: what one step of the replay does.                               *)

\* A plan event sets the plan status its type stands for, and nothing else.
LEMMA ReplayPlanEffect ==
    ASSUME NEW event, NEW to \in PlanStatuses,
           event \in PlanEvents, PlanStatusAfter[event] = to,
           derived \in Derived
    PROVE  LET next == ReplayPlan(derived, event) IN
           /\ next \in Derived
           /\ next.plan = to
           /\ next.task = derived.task
           /\ next.rounds = derived.rounds
           /\ next.approved = derived.approved
  BY DEF ReplayPlan, Derived

\* A task event sets the status of its task, counts a retry, remembers an
\* approval, and leaves the plan and the other tasks alone.
LEMMA ReplayTaskEffect ==
    ASSUME NEW event, NEW t \in Tasks, NEW to \in TaskStatuses,
           TaskStatusAfter[event] = to,
           derived \in Derived
    PROVE  LET next == ReplayTask(derived, event, t) IN
           /\ next \in Derived
           /\ next.plan = derived.plan
           /\ next.task = [derived.task EXCEPT ![t] = to]
           /\ \A u \in Tasks \ {t} : next.rounds[u] = derived.rounds[u]
           /\ event # "task_retry" => next.rounds = derived.rounds
           /\ derived.approved \subseteq next.approved
  BY DEF ReplayTask, Derived

\* What a plan transaction preserves.
LEMMA PlanTransitionInv ==
    ASSUME StoreInv,
           NEW from, NEW to \in PlanStatuses, NEW event,
           event \in PlanEvents, PlanStatusAfter[event] = to,
           PlanTransition(from, to, event)
    PROVE  StoreInv'
<1>1. derived \in Derived
  BY DEF StoreInv, StoreTypeOK, Derived
<1>2. /\ derived' \in Derived
      /\ derived'.plan = to
      /\ derived'.task = derived.task
  BY <1>1, ReplayPlanEffect DEF PlanTransition
<1>3. StoreTypeOK'
  BY <1>2 DEF StoreInv, StoreTypeOK, PlanTransition, Derived
<1>4. CacheMatchesReplay'
  BY <1>2 DEF StoreInv, CacheMatchesReplay, PlanTransition
<1>5. SessionMatchesStatus'
  BY DEF StoreInv, SessionMatchesStatus, PlanTransition
<1>6. QED
  BY <1>3, <1>4, <1>5 DEF StoreInv

\* What a task transaction preserves, if the session column it writes agrees
\* with the status it writes.
LEMMA TaskTransitionInv ==
    ASSUME StoreInv,
           NEW t \in Tasks, NEW from, NEW to \in TaskStatuses, NEW event,
           NEW column \in SessionIds \cup {NoSession},
           TaskStatusAfter[event] = to,
           to \in Followed \cup {"done"} => column # NoSession,
           to \in {"pending", "dispatching", "awaiting_approval"} => column = NoSession,
           TaskTransition(t, from, to, event, column)
    PROVE  StoreInv'
<1>1. derived \in Derived
  BY DEF StoreInv, StoreTypeOK, Derived
<1>2. /\ derived' \in Derived
      /\ derived'.plan = derived.plan
      /\ derived'.task = [derived.task EXCEPT ![t] = to]
  BY <1>1, ReplayTaskEffect DEF TaskTransition
<1>3. StoreTypeOK'
  BY <1>2 DEF StoreInv, StoreTypeOK, TaskTransition, Derived
<1>4. CacheMatchesReplay'
  BY <1>2 DEF StoreInv, CacheMatchesReplay, TaskTransition
<1>5. SessionMatchesStatus'
  BY DEF StoreInv, StoreTypeOK, SessionMatchesStatus, TaskTransition
<1>6. QED
  BY <1>3, <1>4, <1>5 DEF StoreInv

-----------------------------------------------------------------------------
(* The invariant.                                                          *)

\* A plan just created satisfies the invariant.
LEMMA StoreInitInv == StoreInit => StoreInv
<1> SUFFICES ASSUME StoreInit PROVE StoreInv
  OBVIOUS
<1>1. StoreTypeOK
  BY DEF StoreInit, StoreTypeOK, ReplayPlan, EmptyReplay, PlanStatusAfter,
         PlanStatuses, TaskStatuses
<1>2. CacheMatchesReplay
  BY DEF StoreInit, CacheMatchesReplay, ReplayPlan, EmptyReplay, PlanStatusAfter
<1>3. SessionMatchesStatus
  BY DEF StoreInit, SessionMatchesStatus, Followed
<1>4. QED
  BY <1>1, <1>2, <1>3 DEF StoreInv

\* Every transaction on the plan preserves it.
LEMMA PlanOperationInv ==
    ASSUME StoreInv, PlanOperation PROVE StoreInv'
<1> USE DEF PlanStatusAfter, PlanEvents, PlanStatuses
<1>1. CASE ApprovePlan
  BY <1>1, PlanTransitionInv DEF ApprovePlan
<1>2. CASE StartRun
  BY <1>2, PlanTransitionInv DEF StartRun
<1>3. CASE FinishPlan
  BY <1>3, PlanTransitionInv DEF FinishPlan
<1>4. CASE FailPlan
  BY <1>4, PlanTransitionInv DEF FailPlan
<1>5. CASE CancelPlan
  BY <1>5, PlanTransitionInv DEF CancelPlan
<1>6. QED
  BY <1>1, <1>2, <1>3, <1>4, <1>5 DEF PlanOperation

\* Every transaction on a task preserves it, a retry past the bound of the
\* checks included.
LEMMA TaskOperationInv ==
    ASSUME StoreInv, NEW t \in Tasks, TaskOperation(t) \/ RetryTask(t)
    PROVE  StoreInv'
<1>1. session[t] \in SessionIds \cup {NoSession}
  BY DEF StoreInv, StoreTypeOK
<1>2. /\ taskCache[t] \in Followed \cup {"done"} => session[t] # NoSession
      /\ taskCache[t] \in {"pending", "dispatching", "awaiting_approval"}
            => session[t] = NoSession
  BY DEF StoreInv, SessionMatchesStatus
<1> USE DEF TaskStatusAfter, TaskStatuses, Followed, Active
<1>3. CASE MarkTaskDispatching(t)
  BY <1>1, <1>2, <1>3, TaskTransitionInv DEF MarkTaskDispatching, TaskTransition
<1>4. CASE \E s \in SessionIds : DispatchTask(t, s)
  BY <1>4, StoreAssumption, TaskTransitionInv DEF DispatchTask
<1>5. CASE StartTask(t)
  BY <1>1, <1>2, <1>5, TaskTransitionInv DEF StartTask, TaskTransition
<1>6. CASE MarkTaskNeedsHuman(t)
  BY <1>1, <1>2, <1>6, TaskTransitionInv DEF MarkTaskNeedsHuman, TaskTransition
<1>7. CASE ResumeTask(t)
  BY <1>1, <1>2, <1>7, TaskTransitionInv DEF ResumeTask, TaskTransition
<1>8. CASE RequestTaskApproval(t)
  BY <1>1, <1>2, <1>8, TaskTransitionInv DEF RequestTaskApproval, TaskTransition
<1>9. CASE ApproveTask(t)
  BY <1>1, <1>2, <1>9, TaskTransitionInv DEF ApproveTask, TaskTransition
<1>10. CASE RejectTask(t)
  BY <1>1, <1>10, TaskTransitionInv DEF RejectTask
<1>11. CASE RetryTask(t)
  BY <1>11, TaskTransitionInv DEF RetryTask
<1>12. CASE FinishTask(t)
  BY <1>1, <1>2, <1>12, TaskTransitionInv DEF FinishTask, TaskTransition
<1>13. CASE FailTask(t)
  BY <1>1, <1>13, TaskTransitionInv DEF FailTask
<1>14. CASE FailPendingTask(t)
  BY <1>1, <1>14, TaskTransitionInv DEF FailPendingTask
<1>15. QED
  BY <1>3, <1>4, <1>5, <1>6, <1>7, <1>8, <1>9, <1>10, <1>11, <1>12, <1>13, <1>14
     DEF TaskOperation

\* The invariant is inductive.
LEMMA StoreStepInv == StoreInv /\ [StoreNext]_storeVars => StoreInv'
<1> SUFFICES ASSUME StoreInv, [StoreNext]_storeVars PROVE StoreInv'
  OBVIOUS
<1>1. CASE PlanOperation
  BY <1>1, PlanOperationInv
<1>2. CASE \E t \in Tasks : TaskOperation(t)
  BY <1>2, TaskOperationInv
<1>3. CASE UNCHANGED storeVars
  BY <1>3 DEF storeVars, StoreInv, StoreTypeOK, CacheMatchesReplay, SessionMatchesStatus
<1>4. QED
  BY <1>1, <1>2, <1>3 DEF StoreNext, RecordInformational

\* Type correctness of the store, for any tasks and sessions.
THEOREM StoreTypeCorrect == StoreSpec => []StoreTypeOK
<1>1. StoreInv => StoreTypeOK
  BY DEF StoreInv
<1>2. QED
  BY <1>1, StoreInitInv, StoreStepInv, PTL DEF StoreSpec

\* The cache columns are always the replay of the log: the guards of every
\* transaction test the state a restarted process would derive.
THEOREM CacheIsReplay == StoreSpec => []CacheMatchesReplay
<1>1. StoreInv => CacheMatchesReplay
  BY DEF StoreInv
<1>2. QED
  BY <1>1, StoreInitInv, StoreStepInv, PTL DEF StoreSpec

\* A task names a session exactly while, and after, one works on its current
\* round.
THEOREM SessionFollowsStatus == StoreSpec => []SessionMatchesStatus
<1>1. StoreInv => SessionMatchesStatus
  BY DEF StoreInv
<1>2. QED
  BY <1>1, StoreInitInv, StoreStepInv, PTL DEF StoreSpec
-----------------------------------------------------------------------------
(* Terminal statuses.                                                      *)

\* A transaction of one task leaves the columns and the rounds of another.
LEMMA TransitionOfAnother ==
    ASSUME StoreInv, NEW t \in Tasks, NEW u \in Tasks \ {t},
           NEW from, NEW to \in TaskStatuses, NEW event, NEW column,
           TaskStatusAfter[event] = to,
           TaskTransition(t, from, to, event, column)
    PROVE  /\ taskCache'[u] = taskCache[u]
           /\ session'[u] = session[u]
           /\ derived'.rounds[u] = derived.rounds[u]
<1>1. /\ derived \in Derived
      /\ taskCache \in [Tasks -> TaskStatuses]
      /\ session \in [Tasks -> SessionIds \cup {NoSession}]
  BY DEF StoreInv, StoreTypeOK, Derived
<1>2. taskCache'[u] = taskCache[u] /\ session'[u] = session[u]
  BY <1>1 DEF TaskTransition
<1>3. derived'.rounds[u] = derived.rounds[u]
  BY <1>1 DEF TaskTransition, ReplayTask, Derived
<1>4. QED
  BY <1>2, <1>3

\* No transaction of t itself applies once t is terminal, and one of another
\* task leaves t's columns and rounds alone.
LEMMA TerminalTaskStep ==
    ASSUME StoreInv, NEW t \in Tasks, TaskOperation(t),
           NEW u \in Tasks, taskCache[u] \in TaskTerminal
    PROVE  /\ taskCache'[u] = taskCache[u]
           /\ session'[u] = session[u]
           /\ derived'.rounds[u] = derived.rounds[u]
<1>1. taskCache[t] \notin TaskTerminal
  BY DEF TaskOperation, MarkTaskDispatching, DispatchTask, StartTask,
         MarkTaskNeedsHuman, ResumeTask, RequestTaskApproval, ApproveTask,
         RejectTask, RetryTask, FinishTask, FailTask, FailPendingTask,
         TaskTransition, TaskTerminal, Followed, Active
<1>2. u \in Tasks \ {t}
  BY <1>1
<1> USE DEF TaskStatusAfter, TaskStatuses
<1>3. CASE MarkTaskDispatching(t)
  BY <1>2, <1>3, TransitionOfAnother DEF MarkTaskDispatching
<1>4. CASE \E s \in SessionIds : DispatchTask(t, s)
  BY <1>2, <1>4, TransitionOfAnother DEF DispatchTask
<1>5. CASE StartTask(t)
  BY <1>2, <1>5, TransitionOfAnother DEF StartTask
<1>6. CASE MarkTaskNeedsHuman(t)
  BY <1>2, <1>6, TransitionOfAnother DEF MarkTaskNeedsHuman
<1>7. CASE ResumeTask(t)
  BY <1>2, <1>7, TransitionOfAnother DEF ResumeTask
<1>8. CASE RequestTaskApproval(t)
  BY <1>2, <1>8, TransitionOfAnother DEF RequestTaskApproval
<1>9. CASE ApproveTask(t)
  BY <1>2, <1>9, TransitionOfAnother DEF ApproveTask
<1>10. CASE RejectTask(t)
  BY <1>2, <1>10, TransitionOfAnother DEF RejectTask
<1>11. CASE RetryTask(t)
  BY <1>2, <1>11, TransitionOfAnother DEF RetryTask
<1>12. CASE FinishTask(t)
  BY <1>2, <1>12, TransitionOfAnother DEF FinishTask
<1>13. CASE FailTask(t)
  BY <1>2, <1>13, TransitionOfAnother DEF FailTask
<1>14. CASE FailPendingTask(t)
  BY <1>2, <1>14, TransitionOfAnother DEF FailPendingTask
<1>15. QED
  BY <1>3, <1>4, <1>5, <1>6, <1>7, <1>8, <1>9, <1>10, <1>11, <1>12, <1>13, <1>14
     DEF TaskOperation

\* A plan transaction touches no task.
LEMMA PlanOperationKeepsTasks ==
    ASSUME StoreInv, PlanOperation
    PROVE  /\ taskCache' = taskCache
           /\ session' = session
           /\ derived'.rounds = derived.rounds
<1>1. derived \in Derived
  BY DEF StoreInv, StoreTypeOK, Derived
<1>2. QED
  BY <1>1 DEF PlanOperation, ApprovePlan, StartRun, FinishPlan, FailPlan, CancelPlan,
              PlanTransition, ReplayPlan, Derived

\* A done or failed task stays so, with its session and its rounds, under any
\* sequence of operations of any number of processes.
THEOREM TerminalTasksStay == StoreSpec => TerminalTaskIsFinal
<1> DEFINE Final == \A t \in Tasks : taskCache[t] \in TaskTerminal =>
                        /\ taskCache'[t] = taskCache[t]
                        /\ session'[t] = session[t]
                        /\ derived'.rounds[t] = derived.rounds[t]
<1>1. StoreInv /\ [StoreNext]_storeVars => [Final]_storeVars
  <2> SUFFICES ASSUME StoreInv, StoreNext PROVE Final \/ UNCHANGED storeVars
    OBVIOUS
  <2>1. CASE PlanOperation
    BY <2>1, PlanOperationKeepsTasks
  <2>2. CASE \E t \in Tasks : TaskOperation(t)
    BY <2>2, TerminalTaskStep
  <2>3. CASE RecordInformational
    BY <2>3 DEF RecordInformational
  <2>4. QED
    BY <2>1, <2>2, <2>3 DEF StoreNext
<1>2. QED
  BY <1>1, StoreInitInv, StoreStepInv, PTL DEF StoreSpec, TerminalTaskIsFinal

\* A done, failed or cancelled plan stays so, in the cache and in the replay.
THEOREM TerminalPlansStay == StoreSpec => TerminalPlanIsFinal
<1> DEFINE Final == (planCache \in PlanTerminal) =>
                        planCache' = planCache /\ derived'.plan = planCache
<1>1. StoreInv /\ [StoreNext]_storeVars => [Final]_storeVars
  <2> SUFFICES ASSUME StoreInv, StoreNext, planCache \in PlanTerminal
               PROVE  (planCache' = planCache /\ derived'.plan = planCache)
                      \/ UNCHANGED storeVars
    OBVIOUS
  <2>1. derived \in Derived /\ planCache = derived.plan
    BY DEF StoreInv, StoreTypeOK, CacheMatchesReplay, Derived
  <2>2. CASE PlanOperation
    BY <2>2 DEF PlanOperation, ApprovePlan, StartRun, FinishPlan, FailPlan,
                CancelPlan, PlanTransition, PlanTerminal
  <2>3. CASE \E t \in Tasks : TaskOperation(t)
    <3>1. planCache' = planCache
      BY <2>3 DEF TaskOperation, MarkTaskDispatching, DispatchTask, StartTask,
                  MarkTaskNeedsHuman, ResumeTask, RequestTaskApproval, ApproveTask,
                  RejectTask, RetryTask, FinishTask, FailTask, FailPendingTask,
                  TaskTransition
    <3>2. StoreInv'
      BY StoreStepInv
    <3>3. QED
      BY <2>1, <3>1, <3>2 DEF StoreInv, CacheMatchesReplay
  <2>4. CASE RecordInformational
    BY <2>4 DEF RecordInformational
  <2>5. QED
    BY <2>2, <2>3, <2>4 DEF StoreNext
<1>2. QED
  BY <1>1, StoreInitInv, StoreStepInv, PTL DEF StoreSpec, TerminalPlanIsFinal
=============================================================================
