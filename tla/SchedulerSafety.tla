-------------------------- MODULE SchedulerSafety --------------------------
(***************************************************************************)
(* Safety properties of Scheduler proved from its invariant: the gates,    *)
(* the sessions, the retry budget, what done means, rejections, children   *)
(* and their parents, and one session per round.                           *)
(***************************************************************************)
EXTENDS SchedulerProofs

-----------------------------------------------------------------------------
(* Where sessions come from.                                               *)

\* The intent for this round of the task is in the log, and the session is the next
\* call.
Intended(t, round) ==
    /\ derived.task[t] = "dispatching" /\ derived.rounds[t] = round
    /\ pc = "create" /\ job.task = t

\* A session is created for an intent, or for a request given up; a request is
\* given up for an intent; no session is forgotten.
Origin ==
    /\ \A s \in SessionIds : ao[s] = "none" /\ ao'[s] # "none" =>
          Intended(TaskOf(s), RoundOf(s)) \/ <<TaskOf(s), RoundOf(s), "pending">> \in late
    /\ \A s \in SessionIds : ao[s] # "none" => ao'[s] # "none"
    /\ \A t \in Tasks, round \in 0..MaxVerifyRounds, state \in {"pending", "acted"} :
          <<t, round, state>> \in late' =>
             \/ <<t, round, state>> \in late \/ <<t, round, "pending">> \in late
             \/ Intended(t, round)

\* Every step leaves it so.
LEMMA SessionOrigin ==
    ASSUME Inv, Next PROVE Origin
<1>c. /\ ao \in [SessionIds -> {"none", "live", "terminated", "gone"}]
      /\ pc = "create" => job.task \in Tasks /\ derived.task[job.task] = "dispatching"
  BY Typed DEF Inv, TypeOK, JobInv, CreatePcs
<1>u. UNCHANGED aoVars => Origin
  BY DEF aoVars, Origin
<1> USE DEF Origin, Intended
<1>1. CASE Bury \/ Kill \/ KillUnreachable
  BY <1>1, <1>c DEF Bury, Return, Terminated, Kill, KillUnreachable, AbortTick, At,
        Created
<1>2. ASSUME NEW s \in SessionIds, SessionEnds(s) \/ SessionRemoved(s)
           PROVE  Origin
  BY <1>2, <1>c DEF SessionEnds, SessionRemoved, At, Created
<1>3. CASE CreateAnswered
  BY <1>3, <1>c DEF CreateAnswered, Fresh, At, Created
<1>4. ASSUME pc = "create", RequestLost PROVE Origin
  BY <1>4, <1>c DEF RequestLost, Created, Fresh, aoVars
<1>5. CASE CreateUnreachable \/ CreateRefused \/ Crash
  BY <1>4, <1>5, <1>u DEF CreateUnreachable, CreateRefused, Crash, At
<1>6. CASE LateCreate
  BY <1>6, <1>c DEF LateCreate, Fresh, At, Created
<1>7. CASE Start \/ Stop \/ Tick \/ (\E t \in Tasks : ReconcileAdopt(t)) \/
           (\E t \in Tasks : ReconcileCreate(t)) \/
           (\E t \in Tasks : ReconcileUnreachable(t)) \/
           (\E t \in Tasks : ReconcileInterrupted(t)) \/ Record \/ ReadState \/
           ReadReady \/ (\E t \in Tasks : Cascade(t)) \/ (\E t \in Tasks : Gate(t))
  BY <1>7, <1>u DEF Start, Stop, Exit, Tick, ReconcileAdopt, Reconciled, First,
        SessionsNamed, Existing, ReconcileCreate, ReconcileUnreachable, AbortTick,
        ReconcileInterrupted, Record, Return, TakeSlot, At, ReadState, ReadReady,
        Cascade, Blocked, Gate, Dispatched, MustWait, aoVars, runFrame
<1>8. CASE (\E t \in Tasks : Postpone(t)) \/ (\E t \in Tasks : Consider(t)) \/
           (\E d \in Tasks : ParentMerged(d)) \/
           (\E d \in Tasks : ParentConflict(d)) \/
           (\E d \in Tasks : ParentBlocked(d)) \/ ParentsChecked \/ Intent \/
           DependencyFailed \/ AllDispatched \/ PlanOver \/ PlanGoesOn
  BY <1>8, <1>u DEF Postpone, Dispatched, First, Consider, MustWait, ParentMerged,
        At, ParentConflict, ParentBlocked, Return, ParentsChecked, Intent,
        DependencyFailed, FailJob, FailAs, AllDispatched, PlanOver, Exit,
        PlanGoesOn, aoVars, runFrame, parentFrame
<1>9. CASE (\E t \in Tasks : PollUnreachable(t)) \/ (\E t \in Tasks : PollLost(t)) \/
           (\E t \in Tasks : PollNeedsHuman(t)) \/ (\E t \in Tasks : PollRunning(t)) \/
           (\E t \in Tasks : PollTimeout(t)) \/ (\E t \in Tasks : PollNoSignal(t)) \/
           (\E t \in Tasks : PollMerged(t)) \/ (\E t \in Tasks : PollEnded(t)) \/
           MarkerOK \/ MarkerFail \/ MarkerMalformed \/ MarkerAbsent
  BY <1>9, <1>u DEF PollUnreachable, Polled, AbortTick, PollLost, PollDone, FailAs,
        First, PollNeedsHuman, PollRunning, PollTimeout, PollGoesOn, PollNoSignal,
        PollMerged, PollEnded, MarkerOK, Goto, GoAndTell, NextStage, SetClock,
        MarkerFail, KillThen, KillFirst, MarkerMalformed, Return, MarkerAbsent,
        FailJob, aoVars
<1>10. CASE MarkerError \/ MarkerUnreachable \/ Tier0Pass \/ Tier0Empty \/ Tier0Fail \/
            CommitDone \/ CommitError \/ Tier1Pass \/ Tier1Fail \/ Tier1LLMError \/
            Tier1DiffError \/ MergeBranch \/ MergeDone
  BY <1>10, <1>u DEF MarkerError, FailJob, FailAs, Return, MarkerUnreachable,
        JobUnreachable, AbortTick, Tier0Pass, SetClock, AppendRow, GoAndTell,
        Tier0Empty, RetryOrFail, KillFirst, Tier0Fail, CommitDone, Goto,
        CommitError, Tier1Pass, Tier1Fail, Tier1LLMError, KillThen, Tier1DiffError,
        MergeBranch, MergeDone, aoVars
<1>11. CASE MergeConflict \/ MergeBlocked \/ MergeError \/ Finish \/ SettleRetry \/
            SettleFail
  BY <1>11, <1>u DEF MergeConflict, KillThen, KillFirst, Goto, GoAndTell,
        MergeBlocked, Return, MergeError, FailJob, FailAs, Finish, SettleRetry,
        SettleFail, aoVars
<1>12. CASE CLIApprovePlan \/ (\E t \in Tasks : CLIApprove(t)) \/
            (\E t \in Tasks : CLIReject(t)) \/ Interrupt
  BY <1>12, <1>u DEF CLIApprovePlan, CLIApprove, CLIReject, Interrupt, aoVars, cliFrame,
        runFrame
<1>13. QED
  BY <1>1, <1>2, <1>3, <1>4, <1>5, <1>6, <1>7, <1>8, <1>9, <1>10, <1>11, <1>12
     DEF Next, RunStep, PollStep, CLIStep, AOStep
\* A session of this process is only created for a task whose intent, in that
\* round, is in the log (tick.go: task_dispatching is recorded before CreateSession
\* is called): a resume knows of every session there can be.
THEOREM IntentComesFirst == Spec => IntentBeforeSession
<1> DEFINE IntentFirst == \A s \in SessionIds :
                        /\ ao[s] = "none" /\ ao'[s] # "none"
                        /\ <<TaskOf(s), RoundOf(s), "pending">> \notin late
                        => /\ derived.task[TaskOf(s)] = "dispatching"
                           /\ derived.rounds[TaskOf(s)] = RoundOf(s)
<1>1. ASSUME Inv, [Next]_vars PROVE [IntentFirst]_vars
  <2>1. CASE Next
    BY <1>1, <2>1, SessionOrigin DEF Origin, Intended
  <2>2. QED
    BY <1>1, <2>1
<1>2. QED
  BY <1>1, SchedulerInvariance, PTL DEF Spec, IntentBeforeSession

-----------------------------------------------------------------------------
(* The gates.                                                              *)

\* Nothing of the task is dispatched, in the log, in AO or on its way there.
Untouched(t) ==
    /\ derived.task[t] \notin Active \cup {"done"}
    /\ \A s \in SessionIds : TaskOf(s) = t => ao[s] = "none"
    /\ \A round \in 0..MaxVerifyRounds, state \in {"pending", "acted"} : <<t, round, state>> \notin late

GateInv == \A t \in Gated \ derived.approved : Untouched(t)

\* A gated task that is not at work comes to it by its approval, which is kept.
LEMMA WorkStep ==
    ASSUME Inv, Next
    PROVE  /\ derived.approved \subseteq derived'.approved
           /\ \A t \in Gated : derived'.task[t] \in Active \cup {"done"} =>
                 derived.task[t] \in Active \cup {"done"} \/ t \in derived.approved
<1>1. derived \in Derived /\ derived' \in Derived /\ Gated \subseteq Tasks
  BY Typed, StoreStep, SchedulerAssumption DEF StoreInv, StoreTypeOK, Derived
<1>2. \A s \in TaskStatuses : StageOf[s] \in {"working", "done"} <=> s \in Active \cup {"done"}
  BY DEF StageOf, Active, Followed, TaskTerminal, TaskStatuses
<1>3. \A t \in Tasks : /\ Stage[t] \in {"working", "done"} <=> derived.task[t] \in Active \cup {"done"}
                       /\ Stage'[t] \in {"working", "done"} <=> derived'.task[t] \in Active \cup {"done"}
  BY <1>1, <1>2 DEF Stage, Derived
<1>4. /\ derived.approved \subseteq derived'.approved
      /\ \A t \in Gated : Stage'[t] \in {"working", "done"} =>
            Stage[t] \in {"working", "done"} \/ t \in derived.approved
  <2> DEFINE Goal == /\ derived.approved \subseteq derived'.approved
                     /\ \A t \in Gated : Stage'[t] \in {"working", "done"} =>
                           Stage[t] \in {"working", "done"} \/ t \in derived.approved
  <2> USE <1>1 DEF Stage
  <2>1. CASE Execution!Accept \/ Execution!Begin \/ Execution!End \/ UNCHANGED Execution!execVars
    BY <2>1 DEF Execution!Accept, Execution!Begin, Execution!End, Execution!execVars
  <2>2. ASSUME NEW t \in Tasks, Execution!Approve(t) PROVE Goal
    BY <2>2 DEF Execution!Approve
  <2>3. ASSUME NEW t \in Tasks, Execution!Work(t) PROVE Goal
    BY <2>3 DEF Execution!Work, Execution!MoveTo
  <2>4. ASSUME NEW t \in Tasks, Execution!SendBack(t) \/ Execution!Succeed(t) \/ Execution!Fail(t) PROVE Goal
    BY <2>4 DEF Execution!SendBack, Execution!Succeed, Execution!Fail, Execution!MoveTo
  <2>5. QED
    BY <2>1, <2>2, <2>3, <2>4, PromiseStep DEF Promised, Execution!ExecNext
<1>5. QED
  BY <1>1, <1>3, <1>4

\* Every step keeps the gates.
LEMMA GateStep == Inv /\ GateInv /\ [Next]_vars => GateInv'
<1> SUFFICES ASSUME Inv, GateInv, [Next]_vars PROVE GateInv'
  OBVIOUS
<1>1. CASE Next
  <2> SUFFICES ASSUME NEW t \in Gated \ derived'.approved PROVE Untouched(t)'
    BY DEF GateInv
  <2>1. t \in Gated \ derived.approved /\ t \in Tasks /\ Untouched(t)
    BY <1>1, WorkStep, SchedulerAssumption DEF GateInv
  <2>2. derived'.task[t] \notin Active \cup {"done"}
    BY <1>1, <2>1, WorkStep DEF Untouched
  <2>3. \A round : ~Intended(t, round)
    BY <2>1 DEF Untouched, Intended, Active
  <2>4. \A s \in SessionIds : TaskOf(s) = t => ao'[s] = "none"
    BY <1>1, <2>1, <2>3, SessionOrigin, Facts DEF Origin, Untouched
  <2>5. \A round \in 0..MaxVerifyRounds, state \in {"pending", "acted"} : <<t, round, state>> \notin late'
    BY <1>1, <2>1, <2>3, SessionOrigin DEF Origin, Untouched
  <2>6. QED
    BY <2>2, <2>4, <2>5 DEF Untouched
<1>2. CASE UNCHANGED vars
  BY <1>2 DEF vars, storeVars, aoVars, GateInv, Untouched
<1>3. QED
  BY <1>1, <1>2

\* They are shut when the program starts.
LEMMA GateInit == Init => GateInv
<1>1. ASSUME NEW legacy, InitWith(legacy) PROVE GateInv
  <2> SUFFICES ASSUME NEW t \in Gated \ derived.approved PROVE Untouched(t)
    BY DEF GateInv
  <2>1. t \in Tasks /\ t \notin legacy
    BY <1>1, SchedulerAssumption DEF InitWith
  <2>2. derived.task[t] = "pending" /\ late = {}
    BY <1>1, <2>1 DEF InitWith
  <2>3. \A s \in SessionIds : TaskOf(s) = t => ao[s] = "none"
    BY <1>1, <2>1 DEF InitWith
  <2>4. QED
    BY <2>2, <2>3 DEF Untouched, Active, Followed
<1>2. QED
  BY <1>1 DEF Init

\* A task that requires approval has no session, and nothing of it is dispatched,
\* before a human approved it: though the tick decides by an approval it has read
\* before, and AO may act on a request of a process long gone.
THEOREM GatesHold == Spec => []GateHolds
<1>1. GateInv => GateHolds
  BY DEF GateInv, Untouched, GateHolds
<1>2. Init => Inv /\ GateInv
  BY SchedulerInit, GateInit
<1>3. Inv /\ GateInv /\ [Next]_vars => (Inv /\ GateInv)'
  BY SchedulerStep, GateStep
<1>4. QED
  BY <1>1, <1>2, <1>3, PTL DEF Spec

-----------------------------------------------------------------------------
(* Sessions.                                                               *)

\* The session is one AO created for the task, in the round it is in.
OfRound(t, s) ==
    /\ s \in SessionIds /\ TaskOf(s) = t /\ RoundOf(s) = derived.rounds[t]
    /\ ao[s] # "none"

SessionInv ==
    /\ SessionOfCurrentRound
    /\ pc = "created" => OfRound(job.task, job.session)

\* The column ao_session_id of a task is cleared, kept in the same round, or set
\* to a session of that round.
ColumnKept ==
    \A t \in Tasks :
        \/ session'[t] = NoSession
        \/ session'[t] = session[t] /\ derived'.rounds[t] = derived.rounds[t]
        \/ OfRound(t, session'[t]) /\ derived'.rounds[t] = derived.rounds[t]

\* Each transaction does so.
LEMMA ColumnEffects ==
    ASSUME Inv, NEW t \in Tasks
    PROVE  /\ FailTask(t) \/ FinishTask(t) \/ StartTask(t) \/ ResumeTask(t) \/ MarkTaskNeedsHuman(t)
              \/ RequestTaskApproval(t) \/ ApproveTask(t) \/ RejectTask(t) \/ FailPendingTask(t)
              \/ MarkTaskDispatching(t) \/ RetryTask(t) => ColumnKept
           /\ \A s : DispatchTask(t, s) /\ OfRound(t, s) => ColumnKept
<1>1. session \in [Tasks -> SessionIds \cup {NoSession}] /\ derived.rounds \in [Tasks -> Nat]
  BY Typed DEF StoreInv, StoreTypeOK
<1>2. ASSUME NEW s, session' = [session EXCEPT ![t] = s], s = session[t] \/ OfRound(t, s), KeepsRounds
      PROVE  ColumnKept
  BY <1>1, <1>2 DEF ColumnKept, KeepsRounds
<1>3. FailTask(t) \/ FinishTask(t) \/ RejectTask(t) \/ FailPendingTask(t) => ColumnKept
  BY <1>2, Typed, TaskEffects DEF Moves, FailTask, FinishTask, RejectTask, FailPendingTask, TaskTransition
<1>4. StartTask(t) \/ ResumeTask(t) \/ MarkTaskNeedsHuman(t) => ColumnKept
  BY <1>2, Typed, TaskEffects DEF Moves, StartTask, ResumeTask, MarkTaskNeedsHuman, TaskTransition
<1>5. RequestTaskApproval(t) \/ ApproveTask(t) \/ MarkTaskDispatching(t) => ColumnKept
  BY <1>2, Typed, TaskEffects DEF Moves, RequestTaskApproval, ApproveTask, MarkTaskDispatching, TaskTransition
<1>6. ASSUME RetryTask(t) PROVE ColumnKept
  <2>1. /\ session' = [session EXCEPT ![t] = NoSession]
        /\ derived'.rounds = [derived.rounds EXCEPT ![t] = @ + 1]
    BY <1>6, Typed, TaskEffects DEF RetryTask, TaskTransition
  <2>2. QED
    BY <1>1, <2>1 DEF ColumnKept
<1>7. ASSUME NEW s, DispatchTask(t, s), OfRound(t, s) PROVE ColumnKept
  <2>1. session' = [session EXCEPT ![t] = s] /\ KeepsRounds
    BY <1>7, Typed, TaskEffects DEF DispatchTask, TaskTransition, Moves
  <2>2. QED
    BY <1>2, <1>7, <2>1
<1>8. QED
  BY <1>3, <1>4, <1>5, <1>6, <1>7

\* Every step leaves it so.
LEMMA ColumnStep ==
    ASSUME Inv, SessionInv, Next PROVE ColumnKept
<1>u. UNCHANGED <<session, derived>> => ColumnKept
  BY DEF ColumnKept
<1>n. ApprovePlan \/ StartRun \/ FinishPlan \/ FailPlan => ColumnKept
  BY Typed, PlanEffects DEF Turns, KeepsRounds, ColumnKept, ApprovePlan, StartRun, FinishPlan, FailPlan, PlanTransition
<1>r. pc \in PollPcs \cup CreatePcs \cup {"depFailed", "parents", "intent"} => job.task \in Tasks
  BY JobTask
<1>t. ASSUME NEW t \in Tasks
      PROVE  /\ FailTask(t) \/ FinishTask(t) \/ StartTask(t) \/ ResumeTask(t) \/ MarkTaskNeedsHuman(t)
                \/ RequestTaskApproval(t) \/ ApproveTask(t) \/ RejectTask(t) \/ FailPendingTask(t)
                \/ MarkTaskDispatching(t) \/ RetryTask(t) => ColumnKept
             /\ \A s : DispatchTask(t, s) /\ OfRound(t, s) => ColumnKept
  BY ColumnEffects
<1> USE DEF PollPcs, CreatePcs, Stages
<1>1. CASE Start \/ PlanOver \/ CLIApprovePlan
  BY <1>1, <1>r, <1>t, <1>n DEF Start, PlanOver, CLIApprovePlan, At
<1>2. ASSUME NEW t \in Tasks, CLIApprove(t) \/ CLIReject(t) PROVE ColumnKept
  BY <1>2, <1>r, <1>t, <1>n DEF CLIApprove, CLIReject, At
<1>3. ASSUME NEW t \in Tasks, Gate(t) \/ PollLost(t) \/ Cascade(t)
           PROVE  ColumnKept
  BY <1>3, <1>r, <1>t, <1>n DEF Gate, Dispatched, First, MustWait, PollLost, Polled,
        PollDone, FailAs, Cascade, Blocked, At
<1>4. ASSUME NEW t \in Tasks, PollNeedsHuman(t) \/ PollRunning(t)
           PROVE  ColumnKept
  BY <1>4, <1>r, <1>t, <1>n, <1>u DEF PollNeedsHuman, Polled, PollDone, First,
        PollRunning, storeVars, At
<1>5. CASE DependencyFailed \/ MarkerError \/ CommitError \/ MergeError \/
           SettleFail \/ CreateRefused
  BY <1>5, <1>r, <1>t, <1>n DEF DependencyFailed, At, FailJob, FailAs, MarkerError,
        CommitError, MergeError, SettleFail, CreateRefused, Created, TakeSlot, Fresh
<1>6. CASE Finish \/ SettleRetry \/ Intent
  BY <1>6, <1>r, <1>t, <1>n DEF Finish, SettleRetry, Intent, At
<1>7. ASSUME NEW t \in Tasks, ReconcileAdopt(t) PROVE ColumnKept
  <2>1. PICK s \in SessionsNamed(t, derived.rounds[t]) : DispatchTask(t, s)
    BY <1>7 DEF ReconcileAdopt
  <2>2. OfRound(t, s)
    BY <2>1 DEF SessionsNamed, Existing, OfRound
  <2>3. QED
    BY <1>7, <1>t, <2>1, <2>2
<1>8. CASE Record
  <2>1. job.task \in Tasks /\ OfRound(job.task, job.session)
    BY <1>8, Typed DEF Record, At, SessionInv, JobInv, CreatePcs, OfRound
  <2>2. QED
    BY <1>8, <1>t, <2>1 DEF Record
<1>9. CASE MarkerAbsent
  BY <1>9, <1>r, <1>t, <1>n, <1>u DEF MarkerAbsent, KillThen, KillFirst, Goto,
        GoAndTell, SetClock, Return, FailJob, FailAs, storeVars, At
<1>10. CASE Stop \/ Tick \/ (\E t \in Tasks : ReconcileCreate(t)) \/
            (\E t \in Tasks : ReconcileUnreachable(t)) \/
            (\E t \in Tasks : ReconcileInterrupted(t)) \/ CreateAnswered \/
            CreateUnreachable \/ ReadState \/ ReadReady \/
            (\E t \in Tasks : Postpone(t)) \/ (\E t \in Tasks : Consider(t)) \/
            (\E d \in Tasks : ParentMerged(d))
  BY <1>10, <1>u DEF Stop, Exit, Tick, ReconcileCreate, Reconciled, First,
        ReconcileUnreachable, AbortTick, ReconcileInterrupted, CreateAnswered,
        Fresh, At, CreateUnreachable, Created, ReadState, ReadReady, Postpone,
        Dispatched, Consider, MustWait, ParentMerged, storeVars, parentFrame
<1>11. CASE (\E d \in Tasks : ParentConflict(d)) \/
            (\E d \in Tasks : ParentBlocked(d)) \/ ParentsChecked \/ AllDispatched \/
            PlanGoesOn
  BY <1>11, <1>u DEF ParentConflict, At, First, ParentBlocked, Return,
        ParentsChecked, AllDispatched, PlanGoesOn, parentFrame, storeVars
<1>12. CASE (\E t \in Tasks : PollUnreachable(t)) \/
            (\E t \in Tasks : PollTimeout(t)) \/ (\E t \in Tasks : PollNoSignal(t)) \/
            (\E t \in Tasks : PollMerged(t)) \/ (\E t \in Tasks : PollEnded(t)) \/
            MarkerOK \/ MarkerFail \/ MarkerMalformed \/ MarkerUnreachable \/
            Tier0Pass \/ Tier0Empty \/ Tier0Fail
  BY <1>12, <1>u DEF PollUnreachable, Polled, AbortTick, PollTimeout, PollGoesOn,
        First, PollNoSignal, PollDone, PollMerged, PollEnded, MarkerOK, Goto,
        GoAndTell, NextStage, SetClock, MarkerFail, KillThen, KillFirst,
        MarkerMalformed, Return, MarkerUnreachable, JobUnreachable, Tier0Pass,
        AppendRow, Tier0Empty, RetryOrFail, Tier0Fail, storeVars
<1>13. CASE CommitDone \/ Tier1Pass \/ Tier1Fail \/ Tier1LLMError \/ Tier1DiffError \/
            MergeBranch \/ MergeDone \/ MergeConflict \/ MergeBlocked \/ Bury \/ Kill \/
            KillUnreachable
  BY <1>13, <1>u DEF CommitDone, SetClock, Goto, GoAndTell, Tier1Pass, AppendRow,
        Tier1Fail, RetryOrFail, KillFirst, Tier1LLMError, KillThen, Return,
        Tier1DiffError, MergeBranch, MergeDone, MergeConflict, MergeBlocked, Bury, Terminated,
        Kill, KillUnreachable, AbortTick, storeVars
<1>14. CASE LateCreate \/ (\E s \in SessionIds : SessionEnds(s)) \/
            (\E s \in SessionIds : SessionRemoved(s)) \/ Crash \/ Interrupt
  BY <1>14, <1>u DEF LateCreate, Fresh, SessionEnds, SessionRemoved, Crash, Exit,
        Interrupt, storeVars
<1>15. QED
  BY <1>1, <1>2, <1>3, <1>4, <1>5, <1>6, <1>7, <1>8, <1>9, <1>10, <1>11, <1>12,
     <1>13, <1>14
     DEF Next, RunStep, PollStep, CLIStep, AOStep

\* The session that a created answer names is one of the round.
CreatedNext == pc' = "created" => OfRound(job.task, job.session)'

\* Every step sees to it.
LEMMA CreatedStep ==
    ASSUME Inv, SessionInv, Next PROVE CreatedNext
<1>k. UNCHANGED <<pc, job>> /\ KeepsRounds => CreatedNext
  BY SessionOrigin DEF SessionInv, OfRound, Origin, KeepsRounds, CreatedNext
<1>e. /\ ApprovePlan => KeepsRounds
      /\ \A t \in Tasks : ApproveTask(t) \/ RejectTask(t) => KeepsRounds
  BY Typed, PlanEffects, TaskEffects DEF Turns, Moves
<1> USE DEF CreatedNext
<1>1. CASE (\E t \in Tasks : ReconcileUnreachable(t)) \/ CreateUnreachable \/
           (\E t \in Tasks : PollUnreachable(t)) \/ MarkerUnreachable \/
           KillUnreachable
  BY <1>1, Typed DEF ReconcileUnreachable, Reconciled, AbortTick, CreateUnreachable,
        Created, Fresh, At, PollUnreachable, Polled, MarkerUnreachable,
        JobUnreachable, KillUnreachable, Terminated, StepTypes
<1>2. CASE Stop \/ (\E t \in Tasks : ReconcileInterrupted(t)) \/ Crash \/ PlanOver
  BY <1>2, Typed DEF Stop, Exit, ReconcileInterrupted, Reconciled, Crash, PlanOver,
        At, StepTypes
<1>3. CASE Tick
  BY <1>3, Typed DEF Tick, jobVars, At, StepTypes
<1>4. CASE Start
  BY <1>4, Typed DEF Start, jobVars, At, StepTypes
<1>5. ASSUME NEW t \in Tasks, ReconcileCreate(t) PROVE CreatedNext
  BY <1>5, Typed DEF ReconcileCreate, Reconciled, First, At, StepTypes
<1>6. CASE CreateAnswered
  <2>1. job.task \in Tasks /\ UNCHANGED derived
    BY <1>6, JobTask DEF CreateAnswered, At, storeVars, CreatePcs
  <2>2. QED
    BY <1>6, <2>1, Typed DEF CreateAnswered, At, OfRound, Jobs, Inv, TypeOK
<1>7. CASE CreateRefused
  BY <1>7, Typed DEF CreateRefused, Created, Return, TakeSlot, Fresh, At, FailAs,
        StepTypes
<1>8. CASE Record
  BY <1>8, Typed DEF Record, Return, TakeSlot, At, StepTypes
<1>9. CASE ReadState
  BY <1>9, Typed DEF ReadState, At, StepTypes
<1>10. CASE ReadReady
  BY <1>10, Typed DEF ReadReady, jobVars, At, StepTypes
<1>11. ASSUME NEW t \in Tasks, Consider(t) PROVE CreatedNext
  BY <1>11, Typed DEF Consider, Dispatched, First, MustWait, At, StepTypes
<1>12. ASSUME NEW d \in Tasks, ParentConflict(d) PROVE CreatedNext
  BY <1>12, Typed DEF ParentConflict, At, First, StepTypes
<1>13. ASSUME NEW d \in Tasks, ParentBlocked(d) PROVE CreatedNext
  BY <1>13, Typed DEF ParentBlocked, At, First, Return, StepTypes
<1>14. CASE ParentsChecked
  BY <1>14, Typed DEF ParentsChecked, At, StepTypes
<1>15. CASE Intent
  BY <1>15, Typed DEF Intent, At, jobVars, StepTypes
<1>16. CASE DependencyFailed
  BY <1>16, Typed DEF DependencyFailed, At, FailJob, FailAs, Return, StepTypes
<1>17. CASE AllDispatched
  BY <1>17, Typed DEF AllDispatched, At, StepTypes
<1>18. CASE PlanGoesOn
  BY <1>18, Typed DEF PlanGoesOn, jobVars, At, StepTypes
<1>19. ASSUME NEW t \in Tasks, PollTimeout(t) PROVE CreatedNext
  BY <1>19, Typed DEF PollTimeout, Polled, PollGoesOn, First, At, StepTypes
<1>20. ASSUME NEW t \in Tasks, PollNoSignal(t) PROVE CreatedNext
  BY <1>20, Typed DEF PollNoSignal, Polled, PollGoesOn, PollDone, First, jobVars,
        At, StepTypes
<1>21. ASSUME NEW t \in Tasks, PollMerged(t) PROVE CreatedNext
  BY <1>21, Typed DEF PollMerged, Polled, First, At, StepTypes
<1>22. ASSUME NEW t \in Tasks, PollEnded(t) PROVE CreatedNext
  BY <1>22, Typed DEF PollEnded, Polled, PollGoesOn, First, At, StepTypes
<1>23. CASE MarkerOK
  BY <1>23, StageNext DEF MarkerOK, Goto, GoAndTell, At, Stages
<1>24. CASE MarkerFail
  BY <1>24, Typed DEF MarkerFail, KillThen, KillFirst, Goto, GoAndTell, At,
        StepTypes
<1>25. CASE MarkerMalformed
  BY <1>25, Typed DEF MarkerMalformed, KillThen, KillFirst, Goto, GoAndTell,
        SetClock, Return, At, StepTypes
<1>26. CASE MarkerAbsent
  BY <1>26, Typed DEF MarkerAbsent, KillThen, KillFirst, Goto, GoAndTell, SetClock,
        Return, FailJob, FailAs, At, StepTypes
<1>27. CASE MarkerError
  BY <1>27, Typed DEF MarkerError, FailJob, FailAs, Return, At, StepTypes
<1>28. CASE Tier0Pass
  BY <1>28, Typed DEF Tier0Pass, SetClock, AppendRow, GoAndTell, At, StepTypes
<1>29. CASE Tier0Empty
  BY <1>29, Typed DEF Tier0Empty, RetryOrFail, KillFirst, AppendRow, GoAndTell, At,
        StepTypes
<1>30. CASE Tier0Fail
  BY <1>30, Typed DEF Tier0Fail, RetryOrFail, KillFirst, GoAndTell, At, StepTypes
<1>31. CASE CommitDone
  BY <1>31, Typed DEF CommitDone, SetClock, Goto, GoAndTell, At, StepTypes
<1>32. CASE CommitError
  BY <1>32, Typed DEF CommitError, FailJob, FailAs, Return, At, StepTypes
<1>33. CASE Tier1Pass
  BY <1>33, Typed DEF Tier1Pass, AppendRow, GoAndTell, At, StepTypes
<1>34. CASE Tier1Fail
  BY <1>34, Typed DEF Tier1Fail, RetryOrFail, KillFirst, GoAndTell, SetClock, At,
        StepTypes
<1>35. CASE Tier1LLMError
  BY <1>35, Typed DEF Tier1LLMError, KillThen, KillFirst, Goto, GoAndTell, SetClock,
        Return, At, StepTypes
<1>36. CASE Tier1DiffError
  BY <1>36, Typed DEF Tier1DiffError, KillThen, KillFirst, Goto, GoAndTell, At,
        StepTypes
<1>37. CASE MergeBranch \/ MergeDone
  BY <1>37, Typed DEF MergeBranch, MergeDone, AppendRow, At, StepTypes
<1>38. CASE MergeConflict
  BY <1>38, Typed DEF MergeConflict, KillThen, KillFirst, Goto, GoAndTell, At,
        StepTypes
<1>39. CASE MergeBlocked
  BY <1>39, Typed DEF MergeBlocked, Return, At, StepTypes
<1>40. CASE MergeError
  BY <1>40, Typed DEF MergeError, FailJob, FailAs, Return, At, StepTypes
<1>41. CASE Finish
  BY <1>41, Typed DEF Finish, Return, jobVars, At, StepTypes
<1>42. CASE Bury
  BY <1>42, Typed DEF Bury, Return, Terminated, At, StepTypes
<1>43. CASE Kill
  BY <1>43, Typed DEF Kill, Terminated, jobVars, At, StepTypes
<1>44. CASE SettleRetry
  BY <1>44, Typed DEF SettleRetry, Return, At, StepTypes
<1>45. CASE SettleFail
  BY <1>45, Typed DEF SettleFail, FailJob, FailAs, Return, At, StepTypes
<1>46. CASE (\E t \in Tasks : ReconcileAdopt(t)) \/ (\E t \in Tasks : Cascade(t)) \/
            (\E t \in Tasks : Gate(t)) \/ (\E t \in Tasks : Postpone(t)) \/
            (\E d \in Tasks : ParentMerged(d))
  BY <1>46 DEF ReconcileAdopt, Reconciled, First, SessionsNamed, Existing, Cascade,
        Blocked, Gate, Dispatched, MustWait, Postpone, ParentMerged, At, jobVars
<1>47. ASSUME NEW t \in Tasks, PollLost(t) \/ PollNeedsHuman(t) \/ PollRunning(t)
           PROVE  CreatedNext
  BY <1>47 DEF PollLost, Polled, PollDone, FailAs, First, PollNeedsHuman,
        PollRunning, jobVars, At
<1>48. CASE CLIApprovePlan \/ (\E t \in Tasks : CLIApprove(t)) \/
            (\E t \in Tasks : CLIReject(t)) \/ LateCreate \/
            (\E s \in SessionIds : SessionEnds(s)) \/
            (\E s \in SessionIds : SessionRemoved(s)) \/ Interrupt
  BY <1>48, <1>k, <1>e DEF CLIApprovePlan, CLIApprove, CLIReject, LateCreate, Fresh,
        SessionEnds, SessionRemoved, Interrupt, cliFrame, jobVars, KeepsRounds,
        storeVars
<1>49. QED
  BY <1>1, <1>2, <1>3, <1>4, <1>5, <1>6, <1>7, <1>8, <1>9, <1>10, <1>11, <1>12,
     <1>13, <1>14, <1>15, <1>16, <1>17, <1>18, <1>19, <1>20, <1>21, <1>22, <1>23,
     <1>24, <1>25, <1>26, <1>27, <1>28, <1>29, <1>30, <1>31, <1>32, <1>33, <1>34,
     <1>35, <1>36, <1>37, <1>38, <1>39, <1>40, <1>41, <1>42, <1>43, <1>44, <1>45,
     <1>46, <1>47, <1>48
     DEF Next, RunStep, PollStep, CLIStep, AOStep

\* Every step keeps the sessions of the round.
LEMMA SessionStep == Inv /\ SessionInv /\ [Next]_vars => SessionInv'
<1> SUFFICES ASSUME Inv, SessionInv, [Next]_vars PROVE SessionInv'
  OBVIOUS
<1>1. CASE Next
  <2>1. ASSUME NEW t \in Tasks, session'[t] # NoSession 
        PROVE  /\ session'[t] \in SessionIds /\ TaskOf(session'[t]) = t
               /\ RoundOf(session'[t]) = derived'.rounds[t] /\ ao'[session'[t]] # "none"
    <3>1. CASE session'[t] = session[t] /\ derived'.rounds[t] = derived.rounds[t]
      <4>1. session[t] \in SessionIds
        BY <2>1, <3>1, Typed DEF StoreInv, StoreTypeOK
      <4>2. OfRound(t, session[t])
        BY <2>1, <3>1, <4>1 DEF SessionInv, SessionOfCurrentRound, OfRound
      <4>3. QED
        BY <1>1, <3>1, <4>2, SessionOrigin DEF OfRound, Origin
    <3>2. CASE OfRound(t, session'[t]) /\ derived'.rounds[t] = derived.rounds[t]
      BY <1>1, <3>2, SessionOrigin DEF OfRound, Origin
    <3>3. QED
      BY <1>1, <2>1, <3>1, <3>2, ColumnStep DEF ColumnKept
  <2>2. QED
    BY <1>1, <2>1, CreatedStep DEF SessionInv, SessionOfCurrentRound, OfRound, CreatedNext
<1>2. CASE UNCHANGED vars
  BY <1>2 DEF vars, storeVars, aoVars, jobVars, SessionInv, SessionOfCurrentRound, OfRound
<1>3. QED
  BY <1>1, <1>2

\* Older binaries left them so.
LEMMA SessionInit == Init => SessionInv
<1>1. ASSUME NEW legacy, legacy \subseteq Tasks, InitWith(legacy) PROVE SessionInv
  <2>1. \A t \in Tasks : session[t] = (IF t \in legacy THEN <<t, 0, 1>> ELSE NoSession)
    BY <1>1 DEF InitWith
  <2>2. \A t \in Tasks : TaskOf(<<t, 0, 1>>) = t /\ RoundOf(<<t, 0, 1>>) = 0 /\ CopyOf(<<t, 0, 1>>) = 1
    BY DEF TaskOf, RoundOf, CopyOf
  <2>3. \A t \in Tasks : <<t, 0, 1>> \in SessionIds /\ derived.rounds[t] = 0
    <3>1. 1 \in 1..Copies /\ 0 \in 0..MaxVerifyRounds
      BY SchedulerAssumption
    <3>2. \A t \in Tasks : <<t, 0, 1>> \in SessionIds
      BY <3>1, SchedulerAssumption
    <3>3. \A t \in Tasks : derived.rounds[t] = 0
      BY <1>1 DEF InitWith
    <3>4. QED
      BY <3>2, <3>3
  <2>4. \A t \in legacy : ao[<<t, 0, 1>>] = "terminated"
    <3>1. \A s \in SessionIds : TaskOf(s) \in legacy /\ RoundOf(s) = 0 /\ CopyOf(s) = 1
                                => ao[s] = "terminated"
      BY <1>1 DEF InitWith
    <3>2. QED
      BY <1>1, <2>2, <2>3, <3>1
  <2>5. SessionOfCurrentRound
    BY <1>1, <2>1, <2>2, <2>3, <2>4 DEF SessionOfCurrentRound
  <2>6. QED
    BY <1>1, <2>5 DEF InitWith, SessionInv
<1>2. QED
  BY <1>1, SchedulerAssumption DEF Init

\* The session recorded for a task is one AO created for it in its current round,
\* whatever crashes, retries and late requests came in between (tick.go: "a retry
\* dispatch must only ever adopt the current round's session").
THEOREM SessionIsOfCurrentRound == Spec => []SessionOfCurrentRound
<1>1. SessionInv => SessionOfCurrentRound
  BY DEF SessionInv
<1>2. Init => Inv /\ SessionInv
  BY SchedulerInit, SessionInit
<1>3. Inv /\ SessionInv /\ [Next]_vars => (Inv /\ SessionInv)'
  BY SchedulerStep, SessionStep
<1>4. QED
  BY <1>1, <1>2, <1>3, PTL DEF Spec

-----------------------------------------------------------------------------
(* The retry budget.                                                       *)

\* A session is killed for an exhausted budget after all rounds.
BudgetInv ==
    /\ \A t \in Tasks : outcome[t] = "verify_budget_exhausted" => derived.rounds[t] = MaxVerifyRounds
    /\ pc \in {"kill", "settle"} /\ job.why = "verify_budget_exhausted" =>
          derived.rounds[job.task] = MaxVerifyRounds

OutcomeKept ==
    \A t \in Tasks : outcome'[t] = "verify_budget_exhausted" =>
        outcome[t] = "verify_budget_exhausted" \/ derived.rounds[t] = MaxVerifyRounds

\* A task is failed for its budget only where the budget has been read.
LEMMA OutcomeStep ==
    ASSUME Inv, BudgetInv, Next PROVE OutcomeKept
<1>c. outcome \in [Tasks -> Outcomes]
  BY DEF Inv, TypeOK
<1>u. UNCHANGED outcome => OutcomeKept
  BY DEF OutcomeKept
<1>b. pc = "settle" /\ FailAs(job.task, job.why) => OutcomeKept
  BY <1>c, JobTask DEF FailAs, Kept, OutcomeKept, BudgetInv, PollPcs
<1> USE DEF OutcomeKept
<1>1. CASE CreateRefused \/ DependencyFailed \/ MarkerError \/ CommitError \/
           MergeError
  BY <1>1, <1>c DEF CreateRefused, At, FailAs, DependencyFailed, FailJob,
        MarkerError, CommitError, MergeError, Kept
<1>2. ASSUME NEW t \in Tasks, Cascade(t) PROVE OutcomeKept
  BY <1>2, <1>c DEF Cascade, Blocked, Kept
<1>3. ASSUME NEW t \in Tasks, PollLost(t) PROVE OutcomeKept
  BY <1>3, <1>c DEF PollLost, Polled, FailAs, First, Kept
<1>4. CASE MarkerAbsent
  BY <1>4, <1>c DEF MarkerAbsent, KillThen, KillFirst, Goto, GoAndTell, SetClock,
        Return, FailJob, FailAs, rowVars, Kept
<1>5. CASE Finish
  BY <1>5, Typed DEF Finish, JobInv, At
<1>6. CASE SettleFail
  BY <1>6, <1>b DEF SettleFail, FailJob, FailAs, At
<1>7. ASSUME NEW t \in Tasks, CLIReject(t) PROVE OutcomeKept
  BY <1>7, <1>c DEF CLIReject, Kept
<1>8. CASE Start \/ Stop \/ Tick \/ (\E t \in Tasks : ReconcileAdopt(t)) \/
           (\E t \in Tasks : ReconcileCreate(t)) \/
           (\E t \in Tasks : ReconcileUnreachable(t)) \/
           (\E t \in Tasks : ReconcileInterrupted(t)) \/ CreateAnswered \/
           CreateUnreachable \/ Record \/ ReadState \/ ReadReady
  BY <1>8, <1>u DEF Start, Stop, Exit, Tick, ReconcileAdopt, Reconciled, First,
        SessionsNamed, Existing, ReconcileCreate, ReconcileUnreachable, AbortTick,
        ReconcileInterrupted, CreateAnswered, Fresh, At, CreateUnreachable, Created,
        Record, Return, TakeSlot, ReadState, ReadReady, rowVars, runFrame
<1>9. CASE (\E t \in Tasks : Gate(t)) \/ (\E t \in Tasks : Postpone(t)) \/
           (\E t \in Tasks : Consider(t)) \/ (\E d \in Tasks : ParentMerged(d)) \/
           (\E d \in Tasks : ParentConflict(d)) \/
           (\E d \in Tasks : ParentBlocked(d)) \/ ParentsChecked \/ Intent \/
           AllDispatched \/ PlanOver \/ PlanGoesOn
  BY <1>9, <1>u DEF Gate, Dispatched, First, MustWait, Postpone, Consider,
        ParentMerged, At, ParentConflict, ParentBlocked, Return, ParentsChecked,
        Intent, AllDispatched, PlanOver, Exit, PlanGoesOn, rowVars, runFrame,
        parentFrame
<1>10. CASE (\E t \in Tasks : PollUnreachable(t)) \/
            (\E t \in Tasks : PollNeedsHuman(t)) \/
            (\E t \in Tasks : PollRunning(t)) \/ (\E t \in Tasks : PollTimeout(t)) \/
            (\E t \in Tasks : PollNoSignal(t)) \/ (\E t \in Tasks : PollMerged(t)) \/
            (\E t \in Tasks : PollEnded(t)) \/ MarkerOK \/ MarkerFail \/
            MarkerMalformed \/ MarkerUnreachable \/ Tier0Pass
  BY <1>10, <1>u DEF PollUnreachable, Polled, AbortTick, PollNeedsHuman, PollDone,
        First, PollRunning, PollTimeout, PollGoesOn, PollNoSignal, PollMerged,
        PollEnded, MarkerOK, Goto, GoAndTell, NextStage, SetClock, MarkerFail,
        KillThen, KillFirst, MarkerMalformed, Return, MarkerUnreachable,
        JobUnreachable, Tier0Pass, AppendRow, rowVars
<1>11. CASE Tier0Empty \/ Tier0Fail \/ CommitDone \/ Tier1Pass \/ Tier1Fail \/
            Tier1LLMError \/ Tier1DiffError \/ MergeBranch \/ MergeDone \/ MergeConflict \/
            MergeBlocked \/ Bury \/ Kill
  BY <1>11, <1>u DEF Tier0Empty, RetryOrFail, KillFirst, AppendRow, GoAndTell,
        Tier0Fail, CommitDone, SetClock, Goto, Tier1Pass, Tier1Fail, Tier1LLMError,
        KillThen, Return, Tier1DiffError, MergeBranch, MergeDone, MergeConflict, MergeBlocked,
        Bury, Terminated, Kill, rowVars
<1>12. CASE KillUnreachable \/ SettleRetry
  BY <1>12, <1>u DEF KillUnreachable, Terminated, AbortTick, SettleRetry, Return,
        rowVars
<1>13. CASE CLIApprovePlan \/ (\E t \in Tasks : CLIApprove(t)) \/ LateCreate \/
            (\E s \in SessionIds : SessionEnds(s)) \/
            (\E s \in SessionIds : SessionRemoved(s)) \/ Crash \/ Interrupt
  BY <1>13, <1>u DEF CLIApprovePlan, CLIApprove, LateCreate, Fresh, SessionEnds,
        SessionRemoved, Crash, Exit, Interrupt, rowVars, runFrame
<1>14. QED
  BY <1>1, <1>2, <1>3, <1>4, <1>5, <1>6, <1>7, <1>8, <1>9, <1>10, <1>11, <1>12,
     <1>13
     DEF Next, RunStep, PollStep, CLIStep, AOStep

\* A round begins only while there is one left.
LEMMA RoundsStep ==
    ASSUME Inv, Next
    PROVE  \A t \in Tasks : derived'.rounds[t] = derived.rounds[t] \/ derived.rounds[t] < MaxVerifyRounds
<1> DEFINE Goal == \A t \in Tasks : derived'.rounds[t] = derived.rounds[t] \/ derived.rounds[t] < MaxVerifyRounds
<1>1. derived.rounds \in [Tasks -> Nat]
  BY Typed DEF Derived
<1>2. CASE Execution!Accept \/ Execution!Begin \/ Execution!End \/ UNCHANGED Execution!execVars
  BY <1>2 DEF Execution!Accept, Execution!Begin, Execution!End, Execution!execVars
<1>3. ASSUME NEW t \in Tasks, Execution!SendBack(t) PROVE Goal
  BY <1>1, <1>3 DEF Execution!SendBack
<1>4. ASSUME NEW t \in Tasks, \/ Execution!Approve(t) \/ Execution!Work(t) \/ Execution!Succeed(t)
                              \/ Execution!Fail(t)
      PROVE  Goal
  BY <1>4 DEF Execution!Approve, Execution!Work, Execution!Succeed, Execution!Fail
<1>5. QED
  BY <1>2, <1>3, <1>4, PromiseStep DEF Promised, Execution!ExecNext

\* The kill that comes first finds the budget as it was.
JobBudget ==
    pc' \in {"kill", "settle"} /\ job'.why = "verify_budget_exhausted" =>
        derived'.rounds[job'.task] = MaxVerifyRounds

\* Every step finds it so.
LEMMA JobBudgetStep ==
    ASSUME Inv, BudgetInv, Next PROVE JobBudget
<1>d. \A t \in Tasks : derived.rounds[t] = MaxVerifyRounds => derived'.rounds[t] = MaxVerifyRounds
  BY RoundsStep, Facts
<1>j. pc \in PollPcs => job.task \in Tasks /\ derived.rounds[job.task] <= MaxVerifyRounds
                       /\ derived.rounds[job.task] \in Nat
  BY JobTask, Typed DEF TaskInv, Derived
<1>k. pc' \in {"kill", "settle"} /\ pc \in {"kill", "settle"} /\ job' = job => JobBudget
  BY <1>d, <1>j DEF BudgetInv, PollPcs, JobBudget
<1> USE DEF JobBudget, PollPcs, Stages
<1>1. CASE (\E t \in Tasks : ReconcileUnreachable(t)) \/ CreateUnreachable \/
           (\E t \in Tasks : PollUnreachable(t)) \/ MarkerUnreachable \/
           KillUnreachable
  BY <1>1, Typed, <1>d DEF ReconcileUnreachable, Reconciled, AbortTick,
        CreateUnreachable, Created, Fresh, At, PollUnreachable, Polled,
        MarkerUnreachable, JobUnreachable, KillUnreachable, Terminated, StepTypes
<1>2. CASE Stop \/ (\E t \in Tasks : ReconcileInterrupted(t)) \/ Crash \/ PlanOver
  BY <1>2, Typed, <1>d DEF Stop, Exit, ReconcileInterrupted, Reconciled, Crash,
        PlanOver, At, StepTypes
<1>3. CASE Tier0Empty \/ Tier0Fail \/ Tier1Fail
  BY <1>3, <1>j, <1>d, Typed, Facts DEF Tier0Empty, RetryOrFail, KillFirst,
        AppendRow, GoAndTell, Tier0Fail, Tier1Fail, SetClock, At, Jobs
<1>4. CASE MarkerFail \/ MergeConflict \/ Tier1DiffError
  BY <1>4, Typed, <1>d DEF MarkerFail, KillThen, KillFirst, Goto, GoAndTell,
        MergeConflict, Tier1DiffError, At, StepTypes, Jobs, Kept, KindsKept
<1>5. ASSUME NEW t \in Tasks, PollTimeout(t) \/ PollNoSignal(t) PROVE JobBudget
  BY <1>5, Typed, <1>d DEF PollTimeout, Polled, PollGoesOn, First, PollNoSignal,
        PollDone, jobVars, At, StepTypes, Jobs, Kept, KindsKept
<1>6. CASE Start
  BY <1>6, Typed, <1>d DEF Start, jobVars, At, StepTypes
<1>7. CASE Tick
  BY <1>7, Typed, <1>d DEF Tick, jobVars, At, StepTypes
<1>8. ASSUME NEW t \in Tasks, ReconcileCreate(t) PROVE JobBudget
  BY <1>8, Typed, <1>d DEF ReconcileCreate, Reconciled, First, At, StepTypes
<1>9. CASE CreateAnswered
  BY <1>9, Typed, <1>d DEF CreateAnswered, Fresh, At, StepTypes
<1>10. CASE CreateRefused
  BY <1>10, Typed, <1>d DEF CreateRefused, Created, Return, TakeSlot, Fresh, At,
        FailAs, StepTypes
<1>11. CASE Record
  BY <1>11, Typed, <1>d DEF Record, Return, TakeSlot, At, StepTypes
<1>12. CASE ReadState
  BY <1>12, Typed, <1>d DEF ReadState, At, StepTypes
<1>13. CASE ReadReady
  BY <1>13, Typed, <1>d DEF ReadReady, jobVars, At, StepTypes
<1>14. ASSUME NEW t \in Tasks, Consider(t) PROVE JobBudget
  BY <1>14, Typed, <1>d DEF Consider, Dispatched, First, MustWait, At, StepTypes
<1>15. ASSUME NEW d \in Tasks, ParentConflict(d) PROVE JobBudget
  BY <1>15, Typed, <1>d DEF ParentConflict, At, First, StepTypes
<1>16. ASSUME NEW d \in Tasks, ParentBlocked(d) PROVE JobBudget
  BY <1>16, Typed, <1>d DEF ParentBlocked, At, First, Return, StepTypes
<1>17. CASE ParentsChecked
  BY <1>17, Typed, <1>d DEF ParentsChecked, At, StepTypes
<1>18. CASE Intent
  BY <1>18, Typed, <1>d DEF Intent, At, jobVars, StepTypes
<1>19. CASE DependencyFailed
  BY <1>19, Typed, <1>d DEF DependencyFailed, At, FailJob, FailAs, Return, StepTypes
<1>20. CASE AllDispatched
  BY <1>20, Typed, <1>d DEF AllDispatched, At, StepTypes
<1>21. CASE PlanGoesOn
  BY <1>21, Typed, <1>d DEF PlanGoesOn, jobVars, At, StepTypes
<1>22. ASSUME NEW t \in Tasks, PollMerged(t) PROVE JobBudget
  BY <1>22, Typed, <1>d DEF PollMerged, Polled, First, At, StepTypes
<1>23. ASSUME NEW t \in Tasks, PollEnded(t) PROVE JobBudget
  BY <1>23, Typed, <1>d DEF PollEnded, Polled, PollGoesOn, First, At, StepTypes
<1>24. CASE MarkerOK
  BY <1>24, StageNext DEF MarkerOK, Goto, GoAndTell, At, Stages
<1>25. CASE MarkerMalformed
  BY <1>25, Typed, <1>d DEF MarkerMalformed, KillThen, KillFirst, Goto, GoAndTell,
        SetClock, Return, At, StepTypes, Jobs, Kept, KindsKept
<1>26. CASE MarkerAbsent
  BY <1>26, Typed, <1>d DEF MarkerAbsent, KillThen, KillFirst, Goto, GoAndTell,
        SetClock, Return, FailJob, FailAs, At, StepTypes, Jobs, Kept, KindsKept
<1>27. CASE MarkerError
  BY <1>27, Typed, <1>d DEF MarkerError, FailJob, FailAs, Return, At, StepTypes
<1>28. CASE Tier0Pass
  BY <1>28, Typed, <1>d DEF Tier0Pass, SetClock, AppendRow, GoAndTell, At, StepTypes
<1>29. CASE CommitDone
  BY <1>29, Typed, <1>d DEF CommitDone, SetClock, Goto, GoAndTell, At, StepTypes
<1>30. CASE CommitError
  BY <1>30, Typed, <1>d DEF CommitError, FailJob, FailAs, Return, At, StepTypes
<1>31. CASE Tier1Pass
  BY <1>31, Typed, <1>d DEF Tier1Pass, AppendRow, GoAndTell, At, StepTypes
<1>32. CASE Tier1LLMError
  BY <1>32, Typed, <1>d DEF Tier1LLMError, KillThen, KillFirst, Goto, GoAndTell,
        SetClock, Return, At, StepTypes, Jobs, Kept, KindsKept
<1>33. CASE MergeBranch \/ MergeDone
  BY <1>33, Typed, <1>d DEF MergeBranch, MergeDone, AppendRow, At, StepTypes
<1>34. CASE MergeBlocked
  BY <1>34, Typed, <1>d DEF MergeBlocked, Return, At, StepTypes
<1>35. CASE MergeError
  BY <1>35, Typed, <1>d DEF MergeError, FailJob, FailAs, Return, At, StepTypes
<1>36. CASE Finish
  BY <1>36, Typed, <1>d DEF Finish, Return, jobVars, At, StepTypes
<1>37. CASE Bury
  BY <1>37, Typed, <1>d DEF Bury, Return, Terminated, At, StepTypes
<1>38. CASE Kill
  BY <1>38, <1>k DEF Kill, Terminated, jobVars, At
<1>39. CASE SettleRetry
  BY <1>39, Typed, <1>d DEF SettleRetry, Return, At, StepTypes
<1>40. CASE SettleFail
  BY <1>40, Typed, <1>d DEF SettleFail, FailJob, FailAs, Return, At, StepTypes
<1>41. CASE (\E t \in Tasks : ReconcileAdopt(t)) \/ (\E t \in Tasks : Cascade(t)) \/
            (\E t \in Tasks : Gate(t)) \/ (\E t \in Tasks : Postpone(t)) \/
            (\E d \in Tasks : ParentMerged(d))
  BY <1>41, <1>d DEF ReconcileAdopt, Reconciled, First, SessionsNamed, Existing,
        Cascade, Blocked, Gate, Dispatched, MustWait, Postpone, ParentMerged, At,
        jobVars
<1>42. ASSUME NEW t \in Tasks, PollLost(t) \/ PollNeedsHuman(t) \/ PollRunning(t)
           PROVE  JobBudget
  BY <1>42, <1>d DEF PollLost, Polled, PollDone, FailAs, First, PollNeedsHuman,
        PollRunning, jobVars, At
<1>43. CASE CLIApprovePlan \/ (\E t \in Tasks : CLIApprove(t)) \/
            (\E t \in Tasks : CLIReject(t)) \/ LateCreate \/
            (\E s \in SessionIds : SessionEnds(s)) \/
            (\E s \in SessionIds : SessionRemoved(s)) \/ Interrupt
  BY <1>43, <1>k DEF CLIApprovePlan, CLIApprove, CLIReject, LateCreate, Fresh,
        SessionEnds, SessionRemoved, Interrupt, cliFrame, jobVars
<1>44. QED
  BY <1>1, <1>2, <1>3, <1>4, <1>5, <1>6, <1>7, <1>8, <1>9, <1>10, <1>11, <1>12,
     <1>13, <1>14, <1>15, <1>16, <1>17, <1>18, <1>19, <1>20, <1>21, <1>22, <1>23,
     <1>24, <1>25, <1>26, <1>27, <1>28, <1>29, <1>30, <1>31, <1>32, <1>33, <1>34,
     <1>35, <1>36, <1>37, <1>38, <1>39, <1>40, <1>41, <1>42, <1>43
     DEF Next, RunStep, PollStep, CLIStep, AOStep

\* Every step keeps the budget.
LEMMA BudgetStep == Inv /\ BudgetInv /\ [Next]_vars => BudgetInv'
<1> SUFFICES ASSUME Inv, BudgetInv, [Next]_vars PROVE BudgetInv'
  OBVIOUS
<1>1. CASE Next
  <2>1. \A t \in Tasks : derived.rounds[t] = MaxVerifyRounds => derived'.rounds[t] = MaxVerifyRounds
    BY <1>1, RoundsStep, Facts
  <2>2. ASSUME NEW t \in Tasks, outcome'[t] = "verify_budget_exhausted"
        PROVE  derived'.rounds[t] = MaxVerifyRounds
    BY <1>1, <2>1, <2>2, OutcomeStep DEF OutcomeKept, BudgetInv
  <2>3. QED
    BY <1>1, <2>2, JobBudgetStep DEF BudgetInv, JobBudget
<1>2. CASE UNCHANGED vars
  BY <1>2 DEF vars, storeVars, rowVars, jobVars, BudgetInv
<1>3. QED
  BY <1>1, <1>2

\* It is whole at the start.
LEMMA BudgetInit == Init => BudgetInv
  BY DEF Init, InitWith, BudgetInv

\* Crashes neither refund nor lose retry rounds: no task is sent back more than
\* MaxVerifyRounds times, over all runs, and it is failed for its budget only after
\* exactly that many.
THEOREM BudgetKept == Spec => []RetryBudget
<1>1. Inv /\ BudgetInv => RetryBudget
  BY DEF Inv, ControlInv, TaskInv, BudgetInv, RetryBudget
<1>2. Init => Inv /\ BudgetInv
  BY SchedulerInit, BudgetInit
<1>3. Inv /\ BudgetInv /\ [Next]_vars => (Inv /\ BudgetInv)'
  BY SchedulerStep, BudgetStep
<1>4. QED
  BY <1>1, <1>2, <1>3, PTL DEF Spec

-----------------------------------------------------------------------------
(* What done means.                                                        *)

\* Both tiers have passed the work of this round, and its branch is merged.
GoodWork(t) ==
    /\ "pass0" \in rows[t] /\ (t \in Graded => "pass1" \in rows[t])
    /\ session[t] \in inDefault

\* What the process remembers of a task's progress is in the log.
ClockInv ==
    \A t \in Tasks :
        /\ clock[t].progress \in {"verified", "committed", "graded"} => "pass0" \in rows[t]
        /\ clock[t].progress = "graded" => "pass1" \in rows[t]

\* And so is what it has done for the task in hand.
HandInv ==
    /\ pc \in {"commit", "tier1", "merge", "record"} => "pass0" \in rows[job.task]
    /\ pc \in {"merge", "record"} /\ job.task \in Graded => "pass1" \in rows[job.task]
    /\ pc = "record" => job.session \in inDefault
    /\ pc \in PollPcs => job.session = session[job.task]
    /\ pc = "finish" /\ job.why = "ok" => GoodWork(job.task)

OkInv == \A t \in Tasks : outcome[t] = "ok" => derived.task[t] = "done" /\ GoodWork(t)

VerifiedInv == ClockInv /\ HandInv /\ OkInv

\* Rows stay for the round, and merges for good.
RowsKept == \A t \in Tasks : rows[t] \subseteq rows'[t] \/ (pc = "settle" /\ job.why = "retry" /\ t = job.task)
MergesKept == inDefault \subseteq inDefault'

OkKept == \A t \in Tasks : outcome'[t] = "ok" =>
             outcome[t] = "ok" \/ (pc = "finish" /\ job.why = "ok" /\ t = job.task /\ Finish)

\* Rows are forgotten only by a retry.
LEMMA RowsStep ==
    ASSUME Inv, Next PROVE RowsKept
<1>c. rows \in [Tasks -> SUBSET RowKinds]
  BY DEF Inv, TypeOK
<1>u. UNCHANGED rows => RowsKept
  BY DEF RowsKept
<1> USE DEF RowsKept
<1>1. CASE Tier0Pass \/ Tier0Empty \/ Tier1Pass \/ MergeBranch \/ MergeDone
  BY <1>1, <1>c DEF Tier0Pass, SetClock, AppendRow, GoAndTell, Tier0Empty,
        RetryOrFail, KillFirst, Tier1Pass, MergeBranch, MergeDone, rowVars, At
<1>2. CASE SettleRetry
  BY <1>2, <1>c DEF SettleRetry, Return, At
<1>3. CASE Start \/ Stop \/ Tick \/ (\E t \in Tasks : ReconcileAdopt(t)) \/
           (\E t \in Tasks : ReconcileCreate(t)) \/
           (\E t \in Tasks : ReconcileUnreachable(t)) \/
           (\E t \in Tasks : ReconcileInterrupted(t)) \/ CreateAnswered \/
           CreateUnreachable \/ CreateRefused \/ Record \/ ReadState
  BY <1>3, <1>u DEF Start, Stop, Exit, Tick, ReconcileAdopt, Reconciled, First,
        SessionsNamed, Existing, ReconcileCreate, ReconcileUnreachable, AbortTick,
        ReconcileInterrupted, CreateAnswered, Fresh, At, CreateUnreachable, Created,
        CreateRefused, Return, TakeSlot, FailAs, Record, ReadState, rowVars,
        runFrame
<1>4. CASE ReadReady \/ (\E t \in Tasks : Cascade(t)) \/ (\E t \in Tasks : Gate(t)) \/
           (\E t \in Tasks : Postpone(t)) \/ (\E t \in Tasks : Consider(t)) \/
           (\E d \in Tasks : ParentMerged(d)) \/
           (\E d \in Tasks : ParentConflict(d)) \/
           (\E d \in Tasks : ParentBlocked(d)) \/ ParentsChecked \/ Intent \/
           DependencyFailed \/ AllDispatched
  BY <1>4, <1>u DEF ReadReady, Cascade, Blocked, Gate, Dispatched, First, MustWait,
        Postpone, Consider, ParentMerged, At, ParentConflict, ParentBlocked, Return,
        ParentsChecked, Intent, DependencyFailed, FailJob, FailAs, AllDispatched,
        rowVars, runFrame, parentFrame
<1>5. CASE PlanOver \/ PlanGoesOn
  BY <1>5, <1>u DEF PlanOver, Exit, PlanGoesOn, rowVars, runFrame
<1>6. CASE (\E t \in Tasks : PollUnreachable(t)) \/ (\E t \in Tasks : PollLost(t)) \/
           (\E t \in Tasks : PollNeedsHuman(t)) \/ (\E t \in Tasks : PollRunning(t)) \/
           (\E t \in Tasks : PollTimeout(t)) \/ (\E t \in Tasks : PollNoSignal(t)) \/
           (\E t \in Tasks : PollMerged(t)) \/ (\E t \in Tasks : PollEnded(t)) \/
           MarkerOK \/ MarkerFail \/ MarkerMalformed \/ MarkerAbsent
  BY <1>6, <1>u DEF PollUnreachable, Polled, AbortTick, PollLost, PollDone, FailAs,
        First, PollNeedsHuman, PollRunning, PollTimeout, PollGoesOn, PollNoSignal,
        PollMerged, PollEnded, MarkerOK, Goto, GoAndTell, NextStage, SetClock,
        MarkerFail, KillThen, KillFirst, MarkerMalformed, Return, MarkerAbsent,
        FailJob, rowVars
<1>7. CASE MarkerError \/ MarkerUnreachable \/ Tier0Fail \/ CommitDone \/
           CommitError \/ Tier1Fail \/ Tier1LLMError \/ Tier1DiffError \/
           MergeConflict \/ MergeBlocked \/ MergeError \/ Finish
  BY <1>7, <1>u DEF MarkerError, FailJob, FailAs, Return, MarkerUnreachable,
        JobUnreachable, AbortTick, Tier0Fail, RetryOrFail, KillFirst, GoAndTell,
        CommitDone, SetClock, Goto, CommitError, Tier1Fail, Tier1LLMError, KillThen,
        Tier1DiffError, MergeConflict, MergeBlocked, MergeError, Finish, rowVars
<1>8. CASE Bury \/ Kill \/ KillUnreachable \/ SettleFail
  BY <1>8, <1>u DEF Bury, Return, Terminated, Kill, KillUnreachable, AbortTick,
        SettleFail, FailJob, FailAs, rowVars
<1>9. CASE CLIApprovePlan \/ (\E t \in Tasks : CLIApprove(t)) \/
           (\E t \in Tasks : CLIReject(t)) \/ LateCreate \/
           (\E s \in SessionIds : SessionEnds(s)) \/
           (\E s \in SessionIds : SessionRemoved(s)) \/ Crash \/ Interrupt
  BY <1>9, <1>u DEF CLIApprovePlan, CLIApprove, CLIReject, LateCreate, Fresh,
        SessionEnds, SessionRemoved, Crash, Exit, Interrupt, rowVars, runFrame
<1>10. QED
  BY <1>1, <1>2, <1>3, <1>4, <1>5, <1>6, <1>7, <1>8, <1>9
     DEF Next, RunStep, PollStep, CLIStep, AOStep

\* No merge is undone.
LEMMA MergesStep ==
    ASSUME Inv, Next PROVE MergesKept
<1> USE DEF MergesKept
<1>1. ASSUME NEW d \in Tasks, ParentMerged(d) PROVE MergesKept
  BY <1>1 DEF ParentMerged, At, First
<1>2. ASSUME NEW t \in Tasks, PollMerged(t) PROVE MergesKept
  BY <1>2 DEF PollMerged, Polled, First, At
<1>3. CASE MergeBranch \/ MergeDone
  BY <1>3 DEF MergeBranch, MergeDone, AppendRow, At
<1>4. CASE MergeError
  BY <1>4 DEF MergeError, FailJob, FailAs, Return, At
<1>5. CASE Start \/ Stop \/ Tick \/ (\E t \in Tasks : ReconcileAdopt(t)) \/
           (\E t \in Tasks : ReconcileCreate(t)) \/
           (\E t \in Tasks : ReconcileUnreachable(t)) \/
           (\E t \in Tasks : ReconcileInterrupted(t)) \/ CreateAnswered \/
           CreateUnreachable \/ CreateRefused \/ Record \/ ReadState
  BY <1>5 DEF Start, Stop, Exit, Tick, ReconcileAdopt, Reconciled, First,
        SessionsNamed, Existing, ReconcileCreate, ReconcileUnreachable, AbortTick,
        ReconcileInterrupted, CreateAnswered, Fresh, At, CreateUnreachable, Created,
        CreateRefused, Return, TakeSlot, FailAs, Record, ReadState, runFrame,
        createFrame
<1>6. CASE ReadReady \/ (\E t \in Tasks : Cascade(t)) \/ (\E t \in Tasks : Gate(t)) \/
           (\E t \in Tasks : Postpone(t)) \/ (\E t \in Tasks : Consider(t)) \/
           (\E d \in Tasks : ParentConflict(d)) \/
           (\E d \in Tasks : ParentBlocked(d)) \/ ParentsChecked \/ Intent \/
           DependencyFailed \/ AllDispatched \/ PlanOver
  BY <1>6 DEF ReadReady, Cascade, Blocked, Gate, Dispatched, First, MustWait,
        Postpone, Consider, ParentConflict, At, ParentBlocked, Return,
        ParentsChecked, Intent, DependencyFailed, FailJob, FailAs, AllDispatched,
        PlanOver, Exit, runFrame
<1>7. CASE PlanGoesOn
  BY <1>7 DEF PlanGoesOn, runFrame
<1>8. CASE (\E t \in Tasks : PollUnreachable(t)) \/ (\E t \in Tasks : PollLost(t)) \/
           (\E t \in Tasks : PollNeedsHuman(t)) \/ (\E t \in Tasks : PollRunning(t)) \/
           (\E t \in Tasks : PollTimeout(t)) \/ (\E t \in Tasks : PollNoSignal(t)) \/
           (\E t \in Tasks : PollEnded(t)) \/ MarkerOK \/ MarkerFail \/
           MarkerMalformed \/ MarkerAbsent \/ MarkerError
  BY <1>8 DEF PollUnreachable, Polled, AbortTick, PollLost, PollDone, FailAs, First,
        PollNeedsHuman, PollRunning, PollTimeout, PollGoesOn, PollNoSignal,
        PollEnded, MarkerOK, Goto, GoAndTell, NextStage, SetClock, MarkerFail,
        KillThen, KillFirst, MarkerMalformed, Return, MarkerAbsent, FailJob,
        MarkerError
<1>9. CASE MarkerUnreachable \/ Tier0Pass \/ Tier0Empty \/ Tier0Fail \/ CommitDone \/
           CommitError \/ Tier1Pass \/ Tier1Fail \/ Tier1LLMError \/ Tier1DiffError \/
           MergeConflict \/ MergeBlocked
  BY <1>9 DEF MarkerUnreachable, JobUnreachable, AbortTick, Tier0Pass, SetClock,
        AppendRow, GoAndTell, Tier0Empty, RetryOrFail, KillFirst, Tier0Fail,
        CommitDone, Goto, CommitError, FailJob, FailAs, Return, Tier1Pass,
        Tier1Fail, Tier1LLMError, KillThen, Tier1DiffError, MergeConflict,
        MergeBlocked
<1>10. CASE Finish \/ Bury \/ Kill \/ KillUnreachable \/ SettleRetry \/ SettleFail
  BY <1>10 DEF Finish, Return, Bury, Terminated, Kill, KillUnreachable, AbortTick,
        SettleRetry, SettleFail, FailJob, FailAs
<1>11. CASE CLIApprovePlan \/ (\E t \in Tasks : CLIApprove(t)) \/
            (\E t \in Tasks : CLIReject(t)) \/ LateCreate \/
            (\E s \in SessionIds : SessionEnds(s)) \/
            (\E s \in SessionIds : SessionRemoved(s)) \/ Crash \/ Interrupt
  BY <1>11 DEF CLIApprovePlan, CLIApprove, CLIReject, LateCreate, Fresh,
        SessionEnds, SessionRemoved, Crash, Exit, Interrupt, cliFrame, runFrame
<1>12. QED
  BY <1>1, <1>2, <1>3, <1>4, <1>5, <1>6, <1>7, <1>8, <1>9, <1>10, <1>11
     DEF Next, RunStep, PollStep, CLIStep, AOStep

\* Only the finish of verified work makes the outcome ok.
LEMMA OutcomeOkStep ==
    ASSUME Inv, Next PROVE OkKept
<1>c. outcome \in [Tasks -> Outcomes]
  BY DEF Inv, TypeOK
<1>u. UNCHANGED outcome => OkKept
  BY DEF OkKept
<1>k. \A kind : Kept(kind) # "ok"
  BY DEF Kept, KindsKept
<1>f. ASSUME NEW t, NEW kind, FailAs(t, kind) PROVE OkKept
  BY <1>c, <1>k, <1>f DEF FailAs, OkKept
<1> USE DEF OkKept
<1>1. CASE CreateRefused \/ DependencyFailed \/ MarkerError \/ CommitError \/
           MergeError \/ SettleFail
  BY <1>1, <1>f, <1>c DEF CreateRefused, At, DependencyFailed, FailJob, MarkerError,
        CommitError, MergeError, SettleFail
<1>2. ASSUME NEW t \in Tasks, Cascade(t) PROVE OkKept
  BY <1>2, <1>f, <1>c DEF Cascade, Blocked
<1>3. ASSUME NEW t \in Tasks, PollLost(t) PROVE OkKept
  BY <1>3, <1>f, <1>c DEF PollLost, Polled, First
<1>4. CASE MarkerAbsent
  BY <1>4, <1>f, <1>c DEF MarkerAbsent, KillThen, KillFirst, Goto, GoAndTell,
        SetClock, Return, FailJob, FailAs, rowVars
<1>5. CASE Finish
  BY <1>5, <1>f, <1>c DEF Finish, At
<1>6. ASSUME NEW t \in Tasks, CLIReject(t) PROVE OkKept
  BY <1>6, <1>f, <1>c DEF CLIReject
<1>7. CASE Start \/ Stop \/ Tick \/ (\E t \in Tasks : ReconcileAdopt(t)) \/
           (\E t \in Tasks : ReconcileCreate(t)) \/
           (\E t \in Tasks : ReconcileUnreachable(t)) \/
           (\E t \in Tasks : ReconcileInterrupted(t)) \/ CreateAnswered \/
           CreateUnreachable \/ Record \/ ReadState \/ ReadReady
  BY <1>7, <1>u DEF Start, Stop, Exit, Tick, ReconcileAdopt, Reconciled, First,
        SessionsNamed, Existing, ReconcileCreate, ReconcileUnreachable, AbortTick,
        ReconcileInterrupted, CreateAnswered, Fresh, At, CreateUnreachable, Created,
        Record, Return, TakeSlot, ReadState, ReadReady, rowVars, runFrame
<1>8. CASE (\E t \in Tasks : Gate(t)) \/ (\E t \in Tasks : Postpone(t)) \/
           (\E t \in Tasks : Consider(t)) \/ (\E d \in Tasks : ParentMerged(d)) \/
           (\E d \in Tasks : ParentConflict(d)) \/
           (\E d \in Tasks : ParentBlocked(d)) \/ ParentsChecked \/ Intent \/
           AllDispatched \/ PlanOver \/ PlanGoesOn
  BY <1>8, <1>u DEF Gate, Dispatched, First, MustWait, Postpone, Consider,
        ParentMerged, At, ParentConflict, ParentBlocked, Return, ParentsChecked,
        Intent, AllDispatched, PlanOver, Exit, PlanGoesOn, rowVars, runFrame,
        parentFrame
<1>9. CASE (\E t \in Tasks : PollUnreachable(t)) \/
           (\E t \in Tasks : PollNeedsHuman(t)) \/ (\E t \in Tasks : PollRunning(t)) \/
           (\E t \in Tasks : PollTimeout(t)) \/ (\E t \in Tasks : PollNoSignal(t)) \/
           (\E t \in Tasks : PollMerged(t)) \/ (\E t \in Tasks : PollEnded(t)) \/
           MarkerOK \/ MarkerFail \/ MarkerMalformed \/ MarkerUnreachable \/
           Tier0Pass
  BY <1>9, <1>u DEF PollUnreachable, Polled, AbortTick, PollNeedsHuman, PollDone,
        First, PollRunning, PollTimeout, PollGoesOn, PollNoSignal, PollMerged,
        PollEnded, MarkerOK, Goto, GoAndTell, NextStage, SetClock, MarkerFail,
        KillThen, KillFirst, MarkerMalformed, Return, MarkerUnreachable,
        JobUnreachable, Tier0Pass, AppendRow, rowVars
<1>10. CASE Tier0Empty \/ Tier0Fail \/ CommitDone \/ Tier1Pass \/ Tier1Fail \/
            Tier1LLMError \/ Tier1DiffError \/ MergeBranch \/ MergeDone \/ MergeConflict \/
            MergeBlocked \/ Bury \/ Kill
  BY <1>10, <1>u DEF Tier0Empty, RetryOrFail, KillFirst, AppendRow, GoAndTell,
        Tier0Fail, CommitDone, SetClock, Goto, Tier1Pass, Tier1Fail, Tier1LLMError,
        KillThen, Return, Tier1DiffError, MergeBranch, MergeDone, MergeConflict, MergeBlocked,
        Bury, Terminated, Kill, rowVars
<1>11. CASE KillUnreachable \/ SettleRetry
  BY <1>11, <1>u DEF KillUnreachable, Terminated, AbortTick, SettleRetry, Return,
        rowVars
<1>12. CASE CLIApprovePlan \/ (\E t \in Tasks : CLIApprove(t)) \/ LateCreate \/
            (\E s \in SessionIds : SessionEnds(s)) \/
            (\E s \in SessionIds : SessionRemoved(s)) \/ Crash \/ Interrupt
  BY <1>12, <1>u DEF CLIApprovePlan, CLIApprove, LateCreate, Fresh, SessionEnds,
        SessionRemoved, Crash, Exit, Interrupt, rowVars, runFrame
<1>13. QED
  BY <1>1, <1>2, <1>3, <1>4, <1>5, <1>6, <1>7, <1>8, <1>9, <1>10, <1>11, <1>12
     DEF Next, RunStep, PollStep, CLIStep, AOStep

\* The session of a done task stays.
LEMMA DoneStep ==
    ASSUME Inv, Next, NEW t \in Tasks, derived.task[t] = "done"
    PROVE  derived'.task[t] = "done" /\ session'[t] = session[t]
<1>1. [StoreNext]_storeVars /\ StoreInv /\ taskCache = derived.task
  BY StoreClient, Typed DEF StoreInv, CacheMatchesReplay
<1>2. session'[t] = session[t]
  <2>1. CASE PlanOperation
    BY <1>1, <2>1, PlanOperationKeepsTasks
  <2>2. CASE \E u \in Tasks : TaskOperation(u)
    BY <1>1, <2>2, TerminalTaskStep DEF TaskTerminal
  <2>3. CASE RecordInformational \/ UNCHANGED storeVars
    BY <2>3 DEF RecordInformational, storeVars
  <2>4. QED
    BY <1>1, <2>1, <2>2, <2>3 DEF StoreNext
<1>3. QED
  BY <1>2, StoreStep DEF TaskTerminal

\* Every step keeps the outcomes sound.
LEMMA OkStep == ASSUME Inv, VerifiedInv, Next PROVE OkInv'
<1> SUFFICES ASSUME NEW t \in Tasks, outcome'[t] = "ok" PROVE derived'.task[t] = "done" /\ GoodWork(t)'
  BY DEF OkInv
<1>1. CASE outcome[t] = "ok"
  <2>1. derived.task[t] = "done" /\ GoodWork(t)
    BY <1>1 DEF VerifiedInv, OkInv
  <2>2. rows[t] \subseteq rows'[t]
    BY <2>1, RowsStep, Typed DEF RowsKept, JobInv, PollPcs, Followed
  <2>3. QED
    BY <2>1, <2>2, DoneStep, MergesStep DEF MergesKept, GoodWork
<1>2. CASE pc = "finish" /\ job.why = "ok" /\ t = job.task /\ Finish
  <2>1. GoodWork(t)
    BY <1>2 DEF VerifiedInv, HandInv
  <2>2. derived'.task[t] = "done" /\ session' = session
    <3>1. FinishTask(t) /\ session \in [Tasks -> SessionIds \cup {NoSession}]
      BY <1>2, Typed DEF Finish, StoreInv, StoreTypeOK
    <3>2. SetsTask(t, "done")
      BY <3>1, Typed, TaskEffects DEF Moves
    <3>3. QED
      BY <3>1, <3>2, Typed, OneTask DEF FinishTask, TaskTransition
  <2>3. QED
    BY <1>2, <2>1, <2>2 DEF Finish, GoodWork
<1>3. QED
  BY <1>1, <1>2, OutcomeOkStep DEF OkKept

\* And the progress remembered.
LEMMA ClockStep ==
    ASSUME Inv, VerifiedInv, Next PROVE ClockInv'
<1>c. /\ clock \in [Tasks -> Clocks] /\ rows \in [Tasks -> SUBSET RowKinds]
      /\ pc \in PollPcs \cup CreatePcs \cup {"depFailed"} => job.task \in Tasks
  BY JobTask, TypeParts DEF Inv, RecordTypes
<1>v. ClockInv
  BY DEF VerifiedInv
<1>h. pc \in {"commit", "tier1", "merge"} => "pass0" \in rows[job.task]
  BY DEF VerifiedInv, HandInv
<1>u. UNCHANGED <<clock, rows>> => ClockInv'
  BY <1>v DEF ClockInv
<1>o. UNCHANGED rows => /\ \A t \in Tasks : clock' = Observed(t) => ClockInv'
                        /\ \A t \in Tasks : clock' = Unobserved(t) => ClockInv'
                        /\ clock' = [t \in Tasks |-> NoClock] => ClockInv'
  BY <1>c, <1>v DEF Observed, Unobserved, FreshClock, NoClock, ClockInv, Clocks
<1>b. UNCHANGED rows /\ pc \in PollPcs =>
         /\ \A b : SetClock("bad", b) => ClockInv'
         /\ \A n : SetClock("llmErrs", n) => ClockInv'
  BY <1>c, <1>v DEF SetClock, ClockInv, Clocks
<1> USE DEF PollPcs, CreatePcs, Stages
<1>1. CASE Stop \/ (\E t \in Tasks : ReconcileInterrupted(t)) \/ Crash \/ PlanOver
  BY <1>1, <1>c, <1>u, <1>o, <1>b DEF Stop, Exit, ReconcileInterrupted, Reconciled,
        Crash, PlanOver, rowVars, runFrame, At
<1>2. ASSUME NEW t \in Tasks, PollLost(t) \/ PollNeedsHuman(t) \/ PollRunning(t)
           PROVE  ClockInv'
  BY <1>2, <1>c, <1>u, <1>o, <1>b DEF PollLost, Polled, PollDone, FailAs, First,
        PollNeedsHuman, PollRunning, rowVars, At
<1>3. ASSUME NEW t \in Tasks, PollTimeout(t) \/ PollNoSignal(t) \/ PollEnded(t) \/
                              PollMerged(t) PROVE ClockInv'
  BY <1>3, <1>c, <1>u, <1>o, <1>b DEF PollTimeout, Polled, PollGoesOn, First,
        PollNoSignal, PollDone, PollEnded, PollMerged, rowVars, At
<1>4. CASE CreateRefused \/ DependencyFailed \/ MarkerError \/ CommitError \/
           MergeError \/ SettleFail
  BY <1>4, <1>c, <1>u, <1>o, <1>b DEF CreateRefused, Created, Return, TakeSlot,
        Fresh, At, FailAs, DependencyFailed, FailJob, MarkerError, CommitError,
        MergeError, SettleFail
<1>5. CASE MarkerOK
  BY <1>5, <1>c, <1>u, <1>o, <1>b DEF MarkerOK, Goto, GoAndTell, NextStage, At
<1>6. CASE MarkerMalformed
  BY <1>6, <1>c, <1>u, <1>o, <1>b DEF MarkerMalformed, KillThen, KillFirst, Goto,
        GoAndTell, Return, rowVars, At
<1>7. CASE MarkerAbsent
  BY <1>7, <1>c, <1>u, <1>o, <1>b DEF MarkerAbsent, KillThen, KillFirst, Goto,
        GoAndTell, Return, FailJob, FailAs, rowVars, At
<1>8. CASE Tier0Pass
  BY <1>8, <1>c, <1>u, <1>o, <1>b, <1>v, <1>h DEF Tier0Pass, SetClock, AppendRow,
        GoAndTell, At, ClockInv, Clocks
<1>9. CASE Tier0Empty
  BY <1>9, <1>c, <1>u, <1>o, <1>b, <1>v DEF Tier0Empty, RetryOrFail, KillFirst,
        AppendRow, GoAndTell, At, ClockInv
<1>10. CASE CommitDone
  BY <1>10, <1>c, <1>u, <1>o, <1>b, <1>v, <1>h DEF CommitDone, SetClock, Goto,
        GoAndTell, At, ClockInv, Clocks
<1>11. CASE Tier1Pass
  BY <1>11, <1>c, <1>u, <1>o, <1>b, <1>v, <1>h DEF Tier1Pass, AppendRow, GoAndTell,
        At, ClockInv, Clocks, SetClock
<1>12. CASE Tier1Fail
  BY <1>12, <1>c, <1>u, <1>o, <1>b DEF Tier1Fail, RetryOrFail, KillFirst, GoAndTell,
        At
<1>13. CASE Tier1LLMError
  BY <1>13, <1>c, <1>u, <1>o, <1>b DEF Tier1LLMError, KillThen, KillFirst, Goto,
        GoAndTell, Return, rowVars, At
<1>14. CASE MergeBranch \/ MergeDone
  BY <1>14, <1>c, <1>u, <1>o, <1>b, <1>v DEF MergeBranch, MergeDone, AppendRow, At, ClockInv,
        rowVars, memVars
<1>15. CASE Finish
  BY <1>15, <1>c, <1>u, <1>o, <1>b DEF Finish, Return, At
<1>16. CASE SettleRetry
  BY <1>16, <1>c, <1>u, <1>o, <1>b, <1>v DEF SettleRetry, Return, At, Unobserved,
        NoClock, ClockInv
<1>17. CASE Start \/ Tick \/ (\E t \in Tasks : ReconcileAdopt(t)) \/
            (\E t \in Tasks : ReconcileCreate(t)) \/
            (\E t \in Tasks : ReconcileUnreachable(t)) \/ CreateAnswered \/
            CreateUnreachable \/ Record \/ ReadState \/ ReadReady \/
            (\E t \in Tasks : Cascade(t)) \/ (\E t \in Tasks : Gate(t))
  BY <1>17, <1>u DEF Start, Tick, ReconcileAdopt, Reconciled, First, SessionsNamed,
        Existing, ReconcileCreate, ReconcileUnreachable, AbortTick, CreateAnswered,
        Fresh, At, CreateUnreachable, Created, Record, Return, TakeSlot, ReadState,
        ReadReady, Cascade, Blocked, Gate, Dispatched, MustWait, memVars, rowVars,
        runFrame, dispatchFrame
<1>18. CASE (\E t \in Tasks : Postpone(t)) \/ (\E t \in Tasks : Consider(t)) \/
            (\E d \in Tasks : ParentMerged(d)) \/
            (\E d \in Tasks : ParentConflict(d)) \/
            (\E d \in Tasks : ParentBlocked(d)) \/ ParentsChecked \/ Intent \/
            AllDispatched \/ PlanGoesOn
  BY <1>18, <1>u DEF Postpone, Dispatched, First, Consider, MustWait, ParentMerged,
        At, ParentConflict, ParentBlocked, Return, ParentsChecked, Intent,
        AllDispatched, PlanGoesOn, dispatchFrame, memVars, rowVars, runFrame,
        parentFrame
<1>19. CASE (\E t \in Tasks : PollUnreachable(t)) \/ MarkerFail \/ MarkerUnreachable \/
            Tier0Fail \/ Tier1DiffError \/ MergeConflict \/ MergeBlocked \/ Bury \/
            Kill \/ KillUnreachable
  BY <1>19, <1>u DEF PollUnreachable, Polled, AbortTick, MarkerFail, KillThen,
        KillFirst, Goto, GoAndTell, MarkerUnreachable, JobUnreachable, Tier0Fail,
        RetryOrFail, Tier1DiffError, MergeConflict, MergeBlocked, Return, Bury,
        Terminated, Kill, KillUnreachable, memVars, rowVars
<1>20. CASE CLIApprovePlan \/ (\E t \in Tasks : CLIApprove(t)) \/
            (\E t \in Tasks : CLIReject(t)) \/ LateCreate \/
            (\E s \in SessionIds : SessionEnds(s)) \/
            (\E s \in SessionIds : SessionRemoved(s)) \/ Interrupt
  BY <1>20, <1>u DEF CLIApprovePlan, CLIApprove, CLIReject, LateCreate, Fresh,
        SessionEnds, SessionRemoved, Interrupt, cliFrame, memVars, rowVars, runFrame
<1>21. QED
  BY <1>1, <1>2, <1>3, <1>4, <1>5, <1>6, <1>7, <1>8, <1>9, <1>10, <1>11, <1>12,
     <1>13, <1>14, <1>15, <1>16, <1>17, <1>18, <1>19, <1>20
     DEF Next, RunStep, PollStep, CLIStep, AOStep

\* And what the handler knows.
LEMMA HandStep ==
    ASSUME Inv, VerifiedInv, Next PROVE HandInv'
<1>v. HandInv /\ ClockInv
  BY DEF VerifiedInv
<1>c. /\ rows \in [Tasks -> SUBSET RowKinds] /\ session \in [Tasks -> SessionIds \cup {NoSession}]
      /\ pc \in PollPcs => job.task \in Tasks
      /\ phase \notin PollPcs
  BY JobTask, Typed DEF Inv, TypeOK, StoreInv, StoreTypeOK, StepTypes, PollPcs, Stages
<1>o. pc' \notin PollPcs => HandInv'
  BY DEF HandInv, PollPcs, Stages
<1>u. UNCHANGED <<pc, job, rows, session, inDefault>> => HandInv'
  BY <1>v DEF HandInv, GoodWork
<1>k. pc \in PollPcs /\ pc' \in {"kill", "settle"} /\ job'.task = job.task /\ job'.session = job.session
         /\ UNCHANGED session => HandInv'
  BY <1>v DEF HandInv, PollPcs
<1> USE DEF PollPcs, Stages
<1>1. CASE (\E t \in Tasks : ReconcileUnreachable(t)) \/ CreateUnreachable \/
           (\E t \in Tasks : PollUnreachable(t)) \/ MarkerUnreachable \/
           KillUnreachable
  BY <1>1, <1>o, <1>c DEF ReconcileUnreachable, Reconciled, AbortTick,
        CreateUnreachable, Created, Fresh, At, PollUnreachable, Polled,
        MarkerUnreachable, JobUnreachable, KillUnreachable, Terminated, rowVars,
        runFrame, storeVars
<1>2. CASE Stop \/ (\E t \in Tasks : ReconcileInterrupted(t)) \/ Crash \/ PlanOver
  BY <1>2, <1>o, <1>c, <1>u DEF Stop, Exit, ReconcileInterrupted, Reconciled, Crash,
        PlanOver, rowVars, runFrame, storeVars, At
<1>3. ASSUME NEW t \in Tasks, CLIApprove(t) \/ CLIReject(t) PROVE HandInv'
  BY <1>3, <1>o, <1>c, <1>u DEF CLIApprove, CLIReject, cliFrame, jobVars, rowVars,
        At, ApprovePlan, PlanTransition, ApproveTask, RejectTask, TaskTransition
<1>4. CASE MarkerFail \/ Tier1DiffError \/ MergeConflict
  BY <1>4, <1>o, <1>c, <1>k, TypeParts DEF MarkerFail, KillThen, KillFirst, Goto,
        GoAndTell, Tier1DiffError, MergeConflict, storeVars, At, Inv, Jobs
<1>5. CASE Tier0Empty \/ Tier0Fail \/ Tier1Fail
  BY <1>5, <1>o, <1>c, <1>k, TypeParts DEF Tier0Empty, RetryOrFail, KillFirst,
        AppendRow, GoAndTell, Tier0Fail, Tier1Fail, SetClock, storeVars, At, Inv,
        Jobs
<1>6. ASSUME NEW t \in Tasks, Gate(t) \/ Cascade(t) \/ ReconcileAdopt(t) \/
                              PollLost(t) \/ PollNeedsHuman(t) \/ PollRunning(t)
           PROVE  HandInv'
  BY <1>6, <1>o, <1>c DEF Gate, Dispatched, First, MustWait, Cascade, Blocked,
        ReconcileAdopt, Reconciled, SessionsNamed, Existing, PollLost, Polled,
        PollDone, FailAs, PollNeedsHuman, PollRunning, jobVars, rowVars, runFrame,
        storeVars, At
<1>7. CASE CreateRefused \/ DependencyFailed \/ MarkerError \/ CommitError \/
           MergeError \/ SettleFail
  BY <1>7, <1>o, <1>c DEF CreateRefused, Created, Return, TakeSlot, Fresh, At,
        FailAs, DependencyFailed, FailJob, MarkerError, CommitError, MergeError,
        SettleFail
<1>8. ASSUME NEW d \in Tasks, ParentMerged(d) \/ ParentConflict(d) \/
                              ParentBlocked(d) PROVE HandInv'
  BY <1>8, <1>o, <1>c DEF ParentMerged, At, First, ParentConflict, ParentBlocked,
        Return, parentFrame, rowVars, storeVars, runFrame
<1>9. CASE Record \/ MergeBlocked \/ SettleRetry \/ Bury \/ Finish
  BY <1>9, <1>o, <1>c DEF Record, Return, TakeSlot, At, MergeBlocked, SettleRetry,
        Bury, Terminated, Finish, rowVars, storeVars, jobVars
<1>10. CASE Start
  BY <1>10, <1>o, <1>c DEF Start, jobVars, rowVars, runFrame, At
<1>11. CASE Tick
  BY <1>11, <1>o, <1>c DEF Tick, jobVars, rowVars, runFrame, storeVars, At
<1>12. ASSUME NEW t \in Tasks, ReconcileCreate(t) PROVE HandInv'
  BY <1>12, <1>o, <1>c DEF ReconcileCreate, Reconciled, First, rowVars, runFrame,
        storeVars, At
<1>13. CASE CreateAnswered
  BY <1>13, <1>o, <1>c DEF CreateAnswered, Fresh, At, createFrame, rowVars,
        storeVars
<1>14. CASE ReadState
  BY <1>14, <1>o, <1>c DEF ReadState, rowVars, runFrame, storeVars, At
<1>15. CASE ReadReady
  BY <1>15, <1>o, <1>c DEF ReadReady, jobVars, rowVars, runFrame, storeVars, At
<1>16. ASSUME NEW t \in Tasks, Consider(t) PROVE HandInv'
  BY <1>16, <1>o, <1>c DEF Consider, Dispatched, First, MustWait, rowVars, runFrame,
        storeVars, At
<1>17. CASE ParentsChecked
  BY <1>17, <1>o, <1>c DEF ParentsChecked, At, parentFrame, rowVars, storeVars
<1>18. CASE Intent
  BY <1>18, <1>o, <1>c DEF Intent, At, jobVars, rowVars, runFrame
<1>19. CASE AllDispatched
  BY <1>19, <1>o, <1>c DEF AllDispatched, rowVars, runFrame, storeVars, At
<1>20. CASE PlanGoesOn
  BY <1>20, <1>o, <1>c DEF PlanGoesOn, jobVars, rowVars, runFrame, storeVars, At
<1>21. ASSUME NEW t \in Tasks, PollTimeout(t) PROVE HandInv'
  BY <1>21, <1>o, <1>c, <1>v DEF PollTimeout, Polled, PollGoesOn, First, rowVars,
        storeVars, At, HandInv, GoodWork
<1>22. ASSUME NEW t \in Tasks, PollNoSignal(t) PROVE HandInv'
  BY <1>22, <1>o, <1>c, <1>v DEF PollNoSignal, Polled, PollGoesOn, PollDone, First,
        jobVars, rowVars, storeVars, At, HandInv, GoodWork
<1>23. ASSUME NEW t \in Tasks, PollMerged(t) PROVE HandInv'
  BY <1>23, <1>o, <1>c, <1>v DEF PollMerged, Polled, First, rowVars, storeVars, At,
        HandInv, GoodWork
<1>24. ASSUME NEW t \in Tasks, PollEnded(t) PROVE HandInv'
  BY <1>24, <1>o, <1>c, <1>v DEF PollEnded, Polled, PollGoesOn, First, rowVars,
        storeVars, At, HandInv, GoodWork
<1>25. CASE MarkerOK
  <2>1. /\ pc = "marker" /\ pc' = NextStage(job.task) /\ UNCHANGED <<rows, session>> /\ job' \in Jobs
        /\ job'.task = job.task /\ job'.session = job.session /\ job.task \in Tasks
    BY <1>25, <1>c, TypeParts, JobTypeStep DEF MarkerOK, Goto, GoAndTell, At, Inv, Jobs, storeVars
  <2>2. clock[job.task].progress \in {"fresh", "verified", "committed", "graded"}
    BY <2>1, Typed, TypeParts DEF JobInv, Inv, Clocks
  <2>3. QED
    BY <1>v, <2>1, <2>2 DEF HandInv, ClockInv, NextStage, GoodWork
<1>26. CASE MarkerMalformed
  BY <1>26, <1>o, <1>c, <1>k, TypeParts DEF MarkerMalformed, KillThen, KillFirst,
        Goto, GoAndTell, SetClock, Return, rowVars, storeVars, At, Inv, Jobs
<1>27. CASE MarkerAbsent
  BY <1>27, <1>o, <1>c, <1>k, TypeParts DEF MarkerAbsent, KillThen, KillFirst, Goto,
        GoAndTell, SetClock, Return, FailJob, FailAs, rowVars, storeVars, At, Inv,
        Jobs
<1>28. CASE Tier0Pass
  BY <1>28, <1>o, <1>c, <1>v, TypeParts DEF Tier0Pass, SetClock, AppendRow,
        GoAndTell, storeVars, At, HandInv, GoodWork, Inv, Jobs
<1>29. CASE CommitDone
  BY <1>29, <1>o, <1>c, <1>v, TypeParts DEF CommitDone, SetClock, Goto, GoAndTell,
        storeVars, At, HandInv, GoodWork, Inv, Jobs
<1>30. CASE Tier1Pass
  BY <1>30, <1>o, <1>c, <1>v, TypeParts DEF Tier1Pass, AppendRow, GoAndTell,
        storeVars, At, HandInv, GoodWork, Inv, Jobs
<1>31. CASE Tier1LLMError
  BY <1>31, <1>o, <1>c, <1>k, TypeParts DEF Tier1LLMError, KillThen, KillFirst,
        Goto, GoAndTell, SetClock, Return, rowVars, storeVars, At, Inv, Jobs
<1>32. CASE MergeBranch \/ MergeDone
  BY <1>32, <1>o, <1>c, <1>v, TypeParts DEF MergeBranch, MergeDone, AppendRow, storeVars, At,
        HandInv, GoodWork, Inv, Jobs, rowVars, jobVars
<1>33. CASE Kill
  BY <1>33, <1>o, <1>c, <1>k, TypeParts DEF Kill, Terminated, jobVars, rowVars,
        storeVars, At, Inv, Jobs
<1>34. ASSUME NEW t \in Tasks, Postpone(t) PROVE HandInv'
  BY <1>34, <1>u, <1>o DEF Postpone, Dispatched, First, jobVars, rowVars, runFrame,
        storeVars, At
<1>35. CASE CLIApprovePlan \/ LateCreate \/ (\E s \in SessionIds : SessionEnds(s)) \/
            (\E s \in SessionIds : SessionRemoved(s)) \/ Interrupt
  BY <1>35, <1>u, <1>o, <1>c DEF CLIApprovePlan, LateCreate, Fresh, SessionEnds,
        SessionRemoved, Interrupt, cliFrame, jobVars, rowVars, storeVars, runFrame,
        At, ApprovePlan, PlanTransition, ApproveTask, RejectTask, TaskTransition
<1>36. QED
  BY <1>1, <1>2, <1>3, <1>4, <1>5, <1>6, <1>7, <1>8, <1>9, <1>10, <1>11, <1>12,
     <1>13, <1>14, <1>15, <1>16, <1>17, <1>18, <1>19, <1>20, <1>21, <1>22, <1>23,
     <1>24, <1>25, <1>26, <1>27, <1>28, <1>29, <1>30, <1>31, <1>32, <1>33, <1>34,
     <1>35
     DEF Next, RunStep, PollStep, CLIStep, AOStep

\* Every step keeps what the process knows in the log.
LEMMA VerifiedStep == Inv /\ VerifiedInv /\ [Next]_vars => VerifiedInv'
<1> SUFFICES ASSUME Inv, VerifiedInv, [Next]_vars PROVE VerifiedInv'
  OBVIOUS
<1>1. CASE Next
  BY <1>1, OkStep, ClockStep, HandStep DEF VerifiedInv
<1>2. CASE UNCHANGED vars
  BY <1>2 DEF vars, storeVars, rowVars, jobVars, memVars, VerifiedInv, OkInv, ClockInv, HandInv, GoodWork
<1>3. QED
  BY <1>1, <1>2

\* It knows nothing at the start.
LEMMA VerifiedInit == Init => VerifiedInv
  BY DEF Init, InitWith, VerifiedInv, OkInv, ClockInv, HandInv, PollPcs, Stages, NoClock

\* A task done on its marker has, for the round and the session that did the work,
\* a tier-0 pass, a tier-1 pass if it asked for one, and its branch merged: over
\* retries, crashes between any two of the steps, and resumes that begin again.
THEOREM DoneMeansVerified == Spec => []DoneIsVerifiedAndMerged
<1>1. VerifiedInv => DoneIsVerifiedAndMerged
  BY DEF VerifiedInv, OkInv, GoodWork, DoneIsVerifiedAndMerged
<1>2. Init => Inv /\ VerifiedInv
  BY SchedulerInit, VerifiedInit
<1>3. Inv /\ VerifiedInv /\ [Next]_vars => (Inv /\ VerifiedInv)'
  BY SchedulerStep, VerifiedStep
<1>4. QED
  BY <1>1, <1>2, <1>3, PTL DEF Spec

-----------------------------------------------------------------------------
(* Rejections.                                                             *)

\* After the intent, the session is created or the child failed.
Told == pc' = (IF job.why = "dependency_failed" THEN "depFailed" ELSE "create") /\ job' = job

\* A task comes to work only from pending and at its intent, and waits for an
\* approval only when the gate has asked for one; it is done by its handler.
StatusKept ==
    \A t \in Tasks :
        /\ derived'.task[t] \in Active \cup {"done"} =>
              \/ derived.task[t] \in Active \cup {"done"}
              \/ derived.task[t] = "pending" /\ pc = "intent" /\ job.task = t /\ Told
        /\ derived'.task[t] = "done" =>
              derived.task[t] = "done" \/ (pc = "finish" /\ job.task = t /\ session'[t] = session[t])
        /\ derived'.task[t] = "awaiting_approval" =>
              derived.task[t] = "awaiting_approval" \/ (pc = "dispatch" /\ MustWait(t))
        /\ derived.task[t] = "failed" => derived'.task[t] = "failed"

\* Each transaction of the store leaves it so, where the scheduler uses it.
LEMMA StatusEffects ==
    ASSUME Inv, NEW t \in Tasks
    PROVE  /\ FailTask(t) \/ StartTask(t) \/ ResumeTask(t) \/ MarkTaskNeedsHuman(t)
              \/ ApproveTask(t) \/ RejectTask(t) \/ FailPendingTask(t) \/ RetryTask(t) => StatusKept
           /\ \A s : DispatchTask(t, s) /\ derived.task[t] = "dispatching" => StatusKept
           /\ FinishTask(t) /\ pc = "finish" /\ job.task = t => StatusKept
           /\ RequestTaskApproval(t) /\ pc = "dispatch" /\ MustWait(t) => StatusKept
           /\ MarkTaskDispatching(t) /\ pc = "intent" /\ job.task = t /\ Told => StatusKept
<1>1. derived.task \in [Tasks -> TaskStatuses]
  BY Typed DEF Derived
<1>2. ASSUME NEW to, SetsTask(t, to), derived.task[t] # "failed",
             to \in Active \cup {"done"} => derived.task[t] \in Active \/
                (derived.task[t] = "pending" /\ pc = "intent" /\ job.task = t /\ Told),
             to = "done" => pc = "finish" /\ job.task = t /\ session'[t] = session[t],
             to = "awaiting_approval" => pc = "dispatch" /\ MustWait(t)
      PROVE  StatusKept
  BY <1>1, <1>2 DEF SetsTask, StatusKept
<1>3. FailTask(t) \/ RejectTask(t) \/ FailPendingTask(t) => StatusKept
  BY <1>2, Typed, TaskEffects DEF Moves, Active, Followed
<1>4. StartTask(t) \/ ResumeTask(t) \/ MarkTaskNeedsHuman(t) => StatusKept
  BY <1>2, Typed, TaskEffects DEF Moves, Active, Followed
<1>5. ApproveTask(t) \/ RetryTask(t) => StatusKept
  BY <1>2, Typed, TaskEffects DEF Active, Followed
<1>6. /\ RequestTaskApproval(t) /\ pc = "dispatch" /\ MustWait(t) => StatusKept
      /\ MarkTaskDispatching(t) /\ pc = "intent" /\ job.task = t /\ Told => StatusKept
      /\ \A s : DispatchTask(t, s) /\ derived.task[t] = "dispatching" => StatusKept
  BY <1>2, Typed, TaskEffects DEF Moves, Active, Followed
<1>7. FinishTask(t) /\ pc = "finish" /\ job.task = t => StatusKept
  <2>1. session \in [Tasks -> SessionIds \cup {NoSession}]
    BY Typed DEF StoreInv, StoreTypeOK
  <2>2. FinishTask(t) => session'[t] = session[t]
    BY <2>1 DEF FinishTask, TaskTransition
  <2>3. QED
    BY <1>2, <2>2, Typed, TaskEffects DEF Moves, Active, Followed
<1>8. QED
  BY <1>3, <1>4, <1>5, <1>6, <1>7

\* And so does every step.
LEMMA StatusStep ==
    ASSUME Inv, Next PROVE StatusKept
<1>u. UNCHANGED derived => StatusKept
  BY DEF StatusKept
<1>n. ApprovePlan \/ StartRun \/ FinishPlan \/ FailPlan => StatusKept
  BY Typed, PlanEffects DEF Turns, StatusKept
<1>r. /\ pc \in PollPcs \cup CreatePcs \cup {"depFailed", "parents", "intent"} => job.task \in Tasks
      /\ pc = "created" => derived.task[job.task] = "dispatching"
      /\ \A t \in toReconcile : derived.task[t] = "dispatching"
  BY JobTask, Typed DEF JobInv, LoopInv, CreatePcs
<1>t. ASSUME NEW t \in Tasks
      PROVE  /\ FailTask(t) \/ StartTask(t) \/ ResumeTask(t) \/ MarkTaskNeedsHuman(t)
                \/ ApproveTask(t) \/ RejectTask(t) \/ FailPendingTask(t) \/ RetryTask(t) => StatusKept
             /\ \A s : DispatchTask(t, s) /\ derived.task[t] = "dispatching" => StatusKept
             /\ FinishTask(t) /\ pc = "finish" /\ job.task = t => StatusKept
             /\ RequestTaskApproval(t) /\ pc = "dispatch" /\ MustWait(t) => StatusKept
             /\ MarkTaskDispatching(t) /\ pc = "intent" /\ job.task = t /\ Told => StatusKept
  BY StatusEffects
<1> USE DEF PollPcs, CreatePcs, Stages
<1>1. CASE Start \/ PlanOver \/ CLIApprovePlan
  BY <1>1, <1>r, <1>t, <1>n DEF Start, PlanOver, CLIApprovePlan, At
<1>2. ASSUME NEW t \in Tasks, CLIApprove(t) \/ CLIReject(t) PROVE StatusKept
  BY <1>2, <1>r, <1>t, <1>n DEF CLIApprove, CLIReject, At
<1>3. ASSUME NEW t \in Tasks, PollLost(t) \/ Cascade(t) PROVE StatusKept
  BY <1>3, <1>r, <1>t, <1>n DEF PollLost, Polled, PollDone, FailAs, First, Cascade,
        Blocked, At
<1>4. ASSUME NEW t \in Tasks, PollNeedsHuman(t) \/ PollRunning(t)
           PROVE  StatusKept
  BY <1>4, <1>r, <1>t, <1>n, <1>u DEF PollNeedsHuman, Polled, PollDone, First,
        PollRunning, storeVars, At
<1>5. CASE DependencyFailed \/ MarkerError \/ CommitError \/ MergeError \/
           SettleFail \/ CreateRefused
  BY <1>5, <1>r, <1>t, <1>n DEF DependencyFailed, At, FailJob, FailAs, MarkerError,
        CommitError, MergeError, SettleFail, CreateRefused, Created, TakeSlot, Fresh
<1>6. CASE Finish \/ SettleRetry
  BY <1>6, <1>r, <1>t, <1>n DEF Finish, SettleRetry, At
<1>7. ASSUME NEW t \in Tasks, ReconcileAdopt(t) PROVE StatusKept
  <2>1. (\E s : DispatchTask(t, s)) /\ derived.task[t] = "dispatching"
    BY <1>7, <1>r DEF ReconcileAdopt, Reconciled, First
  <2>2. QED
    BY <1>t, <2>1
<1>8. CASE Record
  BY <1>8, <1>r, <1>t, <1>n DEF Record, TakeSlot, At
<1>9. ASSUME NEW t \in Tasks, Gate(t) PROVE StatusKept
  BY <1>9, <1>r, <1>t, <1>n DEF Gate, Dispatched, First, MustWait, At
<1>10. CASE Intent
  BY <1>10, <1>r, <1>t, <1>n DEF Intent, At, Told, jobVars
<1>11. CASE MarkerAbsent
  BY <1>11, <1>r, <1>t, <1>n, <1>u DEF MarkerAbsent, KillThen, KillFirst, Goto,
        GoAndTell, SetClock, Return, FailJob, FailAs, storeVars, At
<1>12. CASE Stop \/ Tick \/ (\E t \in Tasks : ReconcileCreate(t)) \/
            (\E t \in Tasks : ReconcileUnreachable(t)) \/
            (\E t \in Tasks : ReconcileInterrupted(t)) \/ CreateAnswered \/
            CreateUnreachable \/ ReadState \/ ReadReady \/
            (\E t \in Tasks : Postpone(t)) \/ (\E t \in Tasks : Consider(t)) \/
            (\E d \in Tasks : ParentMerged(d))
  BY <1>12, <1>u DEF Stop, Exit, Tick, ReconcileCreate, Reconciled, First,
        ReconcileUnreachable, AbortTick, ReconcileInterrupted, CreateAnswered,
        Fresh, At, CreateUnreachable, Created, ReadState, ReadReady, Postpone,
        Dispatched, Consider, MustWait, ParentMerged, storeVars, parentFrame
<1>13. CASE (\E d \in Tasks : ParentConflict(d)) \/
            (\E d \in Tasks : ParentBlocked(d)) \/ ParentsChecked \/ AllDispatched \/
            PlanGoesOn
  BY <1>13, <1>u DEF ParentConflict, At, First, ParentBlocked, Return,
        ParentsChecked, AllDispatched, PlanGoesOn, parentFrame, storeVars
<1>14. CASE (\E t \in Tasks : PollUnreachable(t)) \/
            (\E t \in Tasks : PollTimeout(t)) \/ (\E t \in Tasks : PollNoSignal(t)) \/
            (\E t \in Tasks : PollMerged(t)) \/ (\E t \in Tasks : PollEnded(t)) \/
            MarkerOK \/ MarkerFail \/ MarkerMalformed \/ MarkerUnreachable \/
            Tier0Pass \/ Tier0Empty \/ Tier0Fail
  BY <1>14, <1>u DEF PollUnreachable, Polled, AbortTick, PollTimeout, PollGoesOn,
        First, PollNoSignal, PollDone, PollMerged, PollEnded, MarkerOK, Goto,
        GoAndTell, NextStage, SetClock, MarkerFail, KillThen, KillFirst,
        MarkerMalformed, Return, MarkerUnreachable, JobUnreachable, Tier0Pass,
        AppendRow, Tier0Empty, RetryOrFail, Tier0Fail, storeVars
<1>15. CASE CommitDone \/ Tier1Pass \/ Tier1Fail \/ Tier1LLMError \/ Tier1DiffError \/
            MergeBranch \/ MergeDone \/ MergeConflict \/ MergeBlocked \/ Bury \/ Kill \/
            KillUnreachable
  BY <1>15, <1>u DEF CommitDone, SetClock, Goto, GoAndTell, Tier1Pass, AppendRow,
        Tier1Fail, RetryOrFail, KillFirst, Tier1LLMError, KillThen, Return,
        Tier1DiffError, MergeBranch, MergeDone, MergeConflict, MergeBlocked, Bury, Terminated,
        Kill, KillUnreachable, AbortTick, storeVars
<1>16. CASE LateCreate \/ (\E s \in SessionIds : SessionEnds(s)) \/
            (\E s \in SessionIds : SessionRemoved(s)) \/ Crash \/ Interrupt
  BY <1>16, <1>u DEF LateCreate, Fresh, SessionEnds, SessionRemoved, Crash, Exit,
        Interrupt, storeVars
<1>17. QED
  BY <1>1, <1>2, <1>3, <1>4, <1>5, <1>6, <1>7, <1>8, <1>9, <1>10, <1>11, <1>12,
     <1>13, <1>14, <1>15, <1>16
     DEF Next, RunStep, PollStep, CLIStep, AOStep

\* An outcome becomes a rejection only where a task waits for an approval.
RejectionKept ==
    \A t \in Tasks : outcome'[t] = "rejected" =>
        \/ outcome[t] = "rejected"
        \/ derived.task[t] = "awaiting_approval" /\ derived'.task[t] = "failed"

\* Only om reject-task rejects.
LEMMA RejectionStep ==
    ASSUME Inv, Next PROVE RejectionKept
<1>c. outcome \in [Tasks -> Outcomes] /\ derived.task \in [Tasks -> TaskStatuses]
  BY Typed DEF Inv, TypeOK, Derived
<1>u. UNCHANGED outcome => RejectionKept
  BY DEF RejectionKept
<1>k. \A kind : Kept(kind) # "rejected"
  BY DEF Kept, KindsKept
<1>f. ASSUME NEW t, NEW kind, FailAs(t, kind) PROVE RejectionKept
  BY <1>c, <1>k, <1>f DEF FailAs, RejectionKept
<1> USE DEF RejectionKept
<1>1. CASE CreateRefused \/ DependencyFailed \/ MarkerError \/ CommitError \/
           MergeError \/ SettleFail
  BY <1>1, <1>c, <1>f, <1>k DEF CreateRefused, At, DependencyFailed, FailJob,
        MarkerError, CommitError, MergeError, SettleFail
<1>2. ASSUME NEW t \in Tasks, Cascade(t) PROVE RejectionKept
  BY <1>2, <1>c, <1>f, <1>k DEF Cascade, Blocked, At
<1>3. ASSUME NEW t \in Tasks, PollLost(t) PROVE RejectionKept
  BY <1>3, <1>c, <1>f, <1>k DEF PollLost, Polled, First, At
<1>4. CASE MarkerAbsent
  BY <1>4, <1>c, <1>f, <1>k DEF MarkerAbsent, KillThen, KillFirst, Goto, GoAndTell,
        SetClock, Return, FailJob, FailAs, rowVars, At
<1>5. CASE Finish
  BY <1>5, <1>c, Typed DEF Finish, JobInv, At
<1>6. ASSUME NEW t \in Tasks, CLIReject(t) PROVE RejectionKept
  BY <1>6, <1>c, Typed, TaskEffects DEF CLIReject, Moves, SetsTask
<1>7. CASE Start \/ Stop \/ Tick \/ (\E t \in Tasks : ReconcileAdopt(t)) \/
           (\E t \in Tasks : ReconcileCreate(t)) \/
           (\E t \in Tasks : ReconcileUnreachable(t)) \/
           (\E t \in Tasks : ReconcileInterrupted(t)) \/ CreateAnswered \/
           CreateUnreachable \/ Record \/ ReadState \/ ReadReady
  BY <1>7, <1>u DEF Start, Stop, Exit, Tick, ReconcileAdopt, Reconciled, First,
        SessionsNamed, Existing, ReconcileCreate, ReconcileUnreachable, AbortTick,
        ReconcileInterrupted, CreateAnswered, Fresh, At, CreateUnreachable, Created,
        Record, Return, TakeSlot, ReadState, ReadReady, rowVars, runFrame
<1>8. CASE (\E t \in Tasks : Gate(t)) \/ (\E t \in Tasks : Postpone(t)) \/
           (\E t \in Tasks : Consider(t)) \/ (\E d \in Tasks : ParentMerged(d)) \/
           (\E d \in Tasks : ParentConflict(d)) \/
           (\E d \in Tasks : ParentBlocked(d)) \/ ParentsChecked \/ Intent \/
           AllDispatched \/ PlanOver \/ PlanGoesOn
  BY <1>8, <1>u DEF Gate, Dispatched, First, MustWait, Postpone, Consider,
        ParentMerged, At, ParentConflict, ParentBlocked, Return, ParentsChecked,
        Intent, AllDispatched, PlanOver, Exit, PlanGoesOn, rowVars, runFrame,
        parentFrame
<1>9. CASE (\E t \in Tasks : PollUnreachable(t)) \/
           (\E t \in Tasks : PollNeedsHuman(t)) \/ (\E t \in Tasks : PollRunning(t)) \/
           (\E t \in Tasks : PollTimeout(t)) \/ (\E t \in Tasks : PollNoSignal(t)) \/
           (\E t \in Tasks : PollMerged(t)) \/ (\E t \in Tasks : PollEnded(t)) \/
           MarkerOK \/ MarkerFail \/ MarkerMalformed \/ MarkerUnreachable \/
           Tier0Pass
  BY <1>9, <1>u DEF PollUnreachable, Polled, AbortTick, PollNeedsHuman, PollDone,
        First, PollRunning, PollTimeout, PollGoesOn, PollNoSignal, PollMerged,
        PollEnded, MarkerOK, Goto, GoAndTell, NextStage, SetClock, MarkerFail,
        KillThen, KillFirst, MarkerMalformed, Return, MarkerUnreachable,
        JobUnreachable, Tier0Pass, AppendRow, rowVars
<1>10. CASE Tier0Empty \/ Tier0Fail \/ CommitDone \/ Tier1Pass \/ Tier1Fail \/
            Tier1LLMError \/ Tier1DiffError \/ MergeBranch \/ MergeDone \/ MergeConflict \/
            MergeBlocked \/ Bury \/ Kill
  BY <1>10, <1>u DEF Tier0Empty, RetryOrFail, KillFirst, AppendRow, GoAndTell,
        Tier0Fail, CommitDone, SetClock, Goto, Tier1Pass, Tier1Fail, Tier1LLMError,
        KillThen, Return, Tier1DiffError, MergeBranch, MergeDone, MergeConflict, MergeBlocked,
        Bury, Terminated, Kill, rowVars
<1>11. CASE KillUnreachable \/ SettleRetry
  BY <1>11, <1>u DEF KillUnreachable, Terminated, AbortTick, SettleRetry, Return,
        rowVars
<1>12. CASE CLIApprovePlan \/ (\E t \in Tasks : CLIApprove(t)) \/ LateCreate \/
            (\E s \in SessionIds : SessionEnds(s)) \/
            (\E s \in SessionIds : SessionRemoved(s)) \/ Crash \/ Interrupt
  BY <1>12, <1>u DEF CLIApprovePlan, CLIApprove, LateCreate, Fresh, SessionEnds,
        SessionRemoved, Crash, Exit, Interrupt, rowVars, runFrame
<1>13. QED
  BY <1>1, <1>2, <1>3, <1>4, <1>5, <1>6, <1>7, <1>8, <1>9, <1>10, <1>11, <1>12
     DEF Next, RunStep, PollStep, CLIStep, AOStep

\* dispatchReady reads the approvals once, and takes up no task that must wait.
ReadingKept ==
    phase' = "dispatch" =>
        \/ seenApproved' = derived.approved /\ pc' = "cascade"
        \/ /\ phase = "dispatch" /\ seenApproved' = seenApproved
           /\ pc' \in {"parents", "intent"} =>
                 \/ ~MustWait(job'.task)
                 \/ pc \in {"parents", "intent"} /\ job'.task = job.task

\* Every step does so.
LEMMA ReadingStep ==
    ASSUME Inv, Next PROVE ReadingKept
<1>v. UNCHANGED <<phase, seenApproved, pc, job>> => ReadingKept
  BY DEF ReadingKept
<1> USE DEF ReadingKept, DispatchPcs, CreatePcs, Stages
<1>1. CASE (\E t \in Tasks : ReconcileUnreachable(t)) \/ CreateUnreachable \/
           (\E t \in Tasks : PollUnreachable(t)) \/ MarkerUnreachable \/
           KillUnreachable
  BY <1>1, Typed DEF ReconcileUnreachable, Reconciled, AbortTick, CreateUnreachable,
        Created, Fresh, At, PollUnreachable, Polled, MarkerUnreachable,
        JobUnreachable, KillUnreachable, Terminated, PhaseInv, StepTypes
<1>2. CASE Stop \/ (\E t \in Tasks : ReconcileInterrupted(t)) \/ Crash \/ PlanOver
  BY <1>2, Typed DEF Stop, Exit, ReconcileInterrupted, Reconciled, Crash, PlanOver,
        At, PhaseInv, StepTypes
<1>3. CASE Start \/ Tick \/ CreateAnswered \/ CreateRefused
  BY <1>3, Typed DEF Start, Tick, CreateAnswered, Fresh, At, CreateRefused, Created,
        Return, TakeSlot, FailAs, jobVars, loopVars, createFrame, jobFrame,
        PhaseInv, StepTypes
<1>4. CASE Record \/ ReadState \/ ReadReady \/ ParentsChecked
  BY <1>4, Typed DEF Record, Return, TakeSlot, At, ReadState, ReadReady,
        ParentsChecked, jobVars, jobFrame, loopVars, parentFrame, PhaseInv,
        StepTypes
<1>5. CASE Intent \/ DependencyFailed \/ AllDispatched \/ PlanGoesOn
  BY <1>5, Typed DEF Intent, At, DependencyFailed, FailJob, FailAs, Return,
        AllDispatched, PlanGoesOn, jobFrame, jobVars, loopVars, PhaseInv, StepTypes
<1>6. CASE MarkerFail \/ MarkerMalformed \/ MarkerAbsent \/ MarkerError
  BY <1>6, Typed DEF MarkerFail, KillThen, KillFirst, Goto, GoAndTell,
        MarkerMalformed, SetClock, Return, MarkerAbsent, FailJob, FailAs,
        MarkerError, jobFrame, loopVars, At, PhaseInv, StepTypes
<1>7. CASE Tier0Pass \/ Tier0Empty \/ Tier0Fail \/ CommitDone
  BY <1>7, Typed DEF Tier0Pass, SetClock, AppendRow, GoAndTell, Tier0Empty,
        RetryOrFail, KillFirst, Tier0Fail, CommitDone, Goto, jobFrame, loopVars, At,
        PhaseInv, StepTypes
<1>8. CASE CommitError \/ Tier1Pass \/ Tier1Fail \/ Tier1LLMError
  BY <1>8, Typed DEF CommitError, FailJob, FailAs, Return, Tier1Pass, AppendRow,
        GoAndTell, Tier1Fail, RetryOrFail, KillFirst, SetClock, Tier1LLMError,
        KillThen, Goto, jobFrame, loopVars, At, PhaseInv, StepTypes
<1>9. CASE Tier1DiffError \/ MergeBranch \/ MergeDone \/ MergeConflict \/ MergeBlocked
  BY <1>9, Typed DEF Tier1DiffError, KillThen, KillFirst, Goto, GoAndTell,
        MergeBranch, MergeDone, AppendRow, MergeConflict, MergeBlocked, Return, jobFrame,
        loopVars, jobVars, At, PhaseInv, StepTypes
<1>10. CASE MergeError \/ Finish \/ Bury \/ Kill
  BY <1>10, Typed DEF MergeError, FailJob, FailAs, Return, Finish, Bury, Terminated,
        Kill, jobFrame, loopVars, jobVars, At, PhaseInv, StepTypes
<1>11. CASE SettleRetry \/ SettleFail
  BY <1>11, Typed DEF SettleRetry, Return, SettleFail, FailJob, FailAs, jobFrame,
        loopVars, At, PhaseInv, StepTypes
<1>12. ASSUME NEW t \in Tasks, ReconcileCreate(t) \/ PollTimeout(t) \/
                               PollNoSignal(t) \/ PollMerged(t)
           PROVE  ReadingKept
  BY <1>12, Typed DEF ReconcileCreate, Reconciled, First, PollTimeout, Polled,
        PollGoesOn, PollNoSignal, PollDone, PollMerged, pollFrame, jobVars, At,
        PhaseInv, StepTypes
<1>13. ASSUME NEW t \in Tasks, Consider(t) PROVE ReadingKept
  BY <1>13, Typed DEF Consider, Dispatched, First, MustWait, dispatchFrame, At,
        PhaseInv, StepTypes, Jobs
<1>14. ASSUME NEW d \in Tasks, ParentConflict(d) PROVE ReadingKept
  BY <1>14, Typed DEF ParentConflict, At, First, jobFrame, loopVars, parentFrame,
        PhaseInv, StepTypes, Jobs
<1>15. ASSUME NEW d \in Tasks, ParentBlocked(d) PROVE ReadingKept
  BY <1>15, Typed DEF ParentBlocked, At, First, Return, jobFrame, loopVars,
        PhaseInv, StepTypes
<1>16. ASSUME NEW t \in Tasks, PollEnded(t) PROVE ReadingKept
  BY <1>16, Typed DEF PollEnded, Polled, PollGoesOn, First, pollFrame, At, PhaseInv,
        StepTypes
<1>17. CASE MarkerOK
  BY <1>17, StageNext, Typed DEF MarkerOK, Goto, GoAndTell, jobFrame, loopVars, At,
        PhaseInv, Stages
<1>18. CASE (\E t \in Tasks : ReconcileAdopt(t)) \/ (\E t \in Tasks : Cascade(t)) \/
            (\E t \in Tasks : Gate(t)) \/ (\E t \in Tasks : Postpone(t)) \/
            (\E d \in Tasks : ParentMerged(d))
  BY <1>18, <1>v DEF ReconcileAdopt, Reconciled, First, SessionsNamed, Existing,
        Cascade, Blocked, Gate, Dispatched, MustWait, Postpone, ParentMerged, At,
        jobVars, dispatchFrame, jobFrame, loopVars, parentFrame
<1>19. ASSUME NEW t \in Tasks, PollLost(t) \/ PollNeedsHuman(t) \/ PollRunning(t)
           PROVE  ReadingKept
  BY <1>19, <1>v DEF PollLost, Polled, PollDone, FailAs, First, PollNeedsHuman,
        PollRunning, jobVars, pollFrame
<1>20. CASE CLIApprovePlan \/ (\E t \in Tasks : CLIApprove(t)) \/
            (\E t \in Tasks : CLIReject(t)) \/ LateCreate \/
            (\E s \in SessionIds : SessionEnds(s)) \/
            (\E s \in SessionIds : SessionRemoved(s)) \/ Interrupt
  BY <1>20, <1>v DEF CLIApprovePlan, CLIApprove, CLIReject, LateCreate, Fresh,
        SessionEnds, SessionRemoved, Interrupt, cliFrame, jobVars, loopVars
<1>21. QED
  BY <1>1, <1>2, <1>3, <1>4, <1>5, <1>6, <1>7, <1>8, <1>9, <1>10, <1>11, <1>12,
     <1>13, <1>14, <1>15, <1>16, <1>17, <1>18, <1>19, <1>20
     DEF Next, RunStep, PollStep, CLIStep, AOStep

\* The snapshot of the approvals is as good as the approvals: whatever it does not
\* show is untouched, though a human may have approved it since.
RejectInv ==
    /\ phase = "dispatch" => \A t \in Gated \ seenApproved : Untouched(t)
    /\ phase = "dispatch" /\ pc \in {"parents", "intent"} => ~MustWait(job.task)
    /\ \A t \in Tasks : derived.task[t] = "awaiting_approval" => Untouched(t)
    /\ \A t \in Tasks : outcome[t] = "rejected" => derived.task[t] = "failed" /\ Untouched(t)

\* What is untouched stays so, but for the intent.
LEMMA UntouchedStep ==
    ASSUME Inv, Next, NEW t \in Tasks, Untouched(t),
           derived.task[t] = "pending" => ~(pc = "intent" /\ job.task = t)
    PROVE  Untouched(t)'
<1>1. derived'.task[t] \notin Active \cup {"done"}
  BY StatusStep DEF StatusKept, Untouched
<1>2. \A round : ~Intended(t, round)
  BY DEF Untouched, Intended, Active
<1>3. \A s \in SessionIds : TaskOf(s) = t => ao'[s] = "none"
  BY <1>2, SessionOrigin, Facts DEF Origin, Untouched
<1>4. \A round \in 0..MaxVerifyRounds, state \in {"pending", "acted"} : <<t, round, state>> \notin late'
  BY <1>2, SessionOrigin DEF Origin, Untouched
<1>5. QED
  BY <1>1, <1>3, <1>4 DEF Untouched

\* Every step keeps it.
LEMMA RejectStep == Inv /\ GateInv /\ RejectInv /\ [Next]_vars => RejectInv'
<1> SUFFICES ASSUME Inv, GateInv, RejectInv, [Next]_vars PROVE RejectInv'
  OBVIOUS
<1>1. CASE Next
  <2> USE <1>1
  <2>g. Gated \subseteq Tasks
    BY SchedulerAssumption
  <2>1. ASSUME phase' = "dispatch", NEW t \in Gated \ seenApproved' PROVE Untouched(t)'
    <3>1. CASE seenApproved' = derived.approved /\ pc' = "cascade"
      <4>1. t \in Gated \ derived.approved
        BY <2>1, <3>1
      <4>2. Untouched(t)
        BY <4>1 DEF GateInv
      <4>3. derived.task[t] = "pending" => ~(pc = "intent" /\ job.task = t)
        BY <4>1, Typed DEF JobInv
      <4>4. QED
        BY <2>g, <4>1, <4>2, <4>3, UntouchedStep
    <3>2. CASE phase = "dispatch" /\ seenApproved' = seenApproved
      BY <2>1, <2>g, <3>2, UntouchedStep DEF RejectInv, MustWait
    <3>3. QED
      BY <2>1, <3>1, <3>2, ReadingStep DEF ReadingKept
  <2>2. phase' = "dispatch" /\ pc' \in {"parents", "intent"} => ~MustWait(job.task)'
    <3>1. phase' = "dispatch" /\ pc' \in {"parents", "intent"} =>
            phase = "dispatch" /\ seenApproved' = seenApproved /\ ~MustWait(job'.task)
      BY ReadingStep DEF ReadingKept, RejectInv
    <3>2. QED
      BY <3>1 DEF MustWait
  <2>3. ASSUME NEW t \in Tasks, derived'.task[t] = "awaiting_approval" PROVE Untouched(t)'
    <3>1. CASE derived.task[t] = "awaiting_approval"
      BY <3>1, UntouchedStep DEF RejectInv
    <3>2. CASE pc = "dispatch" /\ MustWait(t)
      <4>1. phase = "dispatch"
        BY <3>2, Typed DEF PhaseInv, DispatchPcs
      <4>2. QED
        BY <3>2, <4>1, UntouchedStep DEF RejectInv, MustWait
    <3>3. QED
      BY <2>3, <3>1, <3>2, StatusStep DEF StatusKept
  <2>4. ASSUME NEW t \in Tasks, outcome'[t] = "rejected"
        PROVE  derived'.task[t] = "failed" /\ Untouched(t)'
    <3>1. CASE outcome[t] = "rejected"
      BY <3>1, UntouchedStep, StatusStep DEF RejectInv, StatusKept
    <3>2. CASE derived.task[t] = "awaiting_approval" /\ derived'.task[t] = "failed"
      BY <3>2, UntouchedStep DEF RejectInv
    <3>3. QED
      BY <2>4, <3>1, <3>2, RejectionStep DEF RejectionKept
  <2>5. QED
    BY <2>1, <2>2, <2>3, <2>4 DEF RejectInv
<1>2. CASE UNCHANGED vars
  BY <1>2 DEF vars, storeVars, aoVars, rowVars, jobVars, loopVars, RejectInv, Untouched, MustWait
<1>3. QED
  BY <1>1, <1>2

\* Nothing waits and nothing is rejected before the first run.
LEMMA RejectInit == Init => RejectInv
  BY DEF Init, InitWith, RejectInv

\* Rejection is for tasks that never ran: no session of a rejected task was ever
\* created, in any round, and none is after it, though the gate asks by approvals
\* it has read before and AO acts on requests late.
THEOREM RejectedStayUntouched == Spec => []RejectedNeverRuns
<1>1. RejectInv => RejectedNeverRuns
  BY DEF RejectInv, Untouched, RejectedNeverRuns
<1>2. Init => Inv /\ GateInv /\ RejectInv
  BY SchedulerInit, GateInit, RejectInit
<1>3. Inv /\ GateInv /\ RejectInv /\ [Next]_vars => (Inv /\ GateInv /\ RejectInv)'
  BY SchedulerStep, GateStep, RejectStep
<1>4. QED
  BY <1>1, <1>2, <1>3, PTL DEF Spec

-----------------------------------------------------------------------------
(* Children follow merges.                                                 *)

\* The parent is done, and merged or none of this binary's: that is so of all
\* parents of a task for which AO has, or may be asked for, a session.
Sound(t, d) ==
    /\ derived.task[d] = "done"
    /\ session[d] \in inDefault \/ (outcome[d] = "none" /\ (stops > 0 \/ t \in LegacyDone))

Requested(t) ==
    \/ \E s \in SessionIds : TaskOf(s) = t /\ ao[s] # "none"
    \/ \E round \in 0..MaxVerifyRounds, state \in {"pending", "acted"} : <<t, round, state>> \in late

\* Whatever this binary has done is merged, what it remembers as merged is, and a
\* child is at work only when its parents are.  The exception is the child that is
\* about to be failed for a parent, which is recorded as dispatching.
FollowInv ==
    /\ \A d \in Tasks : derived.task[d] = "done" /\ outcome[d] # "none" => session[d] \in inDefault
    /\ pc = "finish" => job.session \in inDefault
    /\ \A d \in merged : \/ derived.task[d] = "done" /\ session[d] \in inDefault
                         \/ pc = "finish" /\ job.task = d
    /\ pc = "parents" => \A d \in Deps[job.task] \ toCheck : session[d] \in inDefault
    /\ pc = "intent" /\ job.why # "dependency_failed" =>
          \A d \in Deps[job.task] : session[d] \in inDefault
    /\ pc = "depFailed" => Founded(job.task)
    /\ \A t \in Tasks : Requested(t) => \A d \in Deps[t] : Sound(t, d)
    /\ \A t \in Tasks : /\ derived.task[t] \in Active \cup {"done"}
                        /\ ~ (pc = "depFailed" /\ job.task = t)
                        => \A d \in Deps[t] : Sound(t, d)

\* What a done task is known by.
DoneKept ==
    \A d \in Tasks : derived.task[d] = "done" =>
        derived'.task[d] = "done" /\ session'[d] = session[d] /\ outcome'[d] = outcome[d]

\* Nobody changes it.
LEMMA FinalStep ==
    ASSUME Inv, Next PROVE DoneKept
<1>c. outcome \in [Tasks -> Outcomes]
  BY DEF Inv, TypeOK
<1>s. \A d \in Tasks : derived.task[d] = "done" => derived'.task[d] = "done" /\ session'[d] = session[d]
  BY DoneStep
<1>u. UNCHANGED outcome => DoneKept
  BY <1>s DEF DoneKept
<1>j. /\ pc \in PollPcs \cup CreatePcs \cup {"depFailed"} => job.task \in Tasks
      /\ \A t \in toPoll : t \in Tasks
  BY JobTask, SessionOfFollowed
<1>f. ASSUME NEW t \in Tasks, NEW kind, FailAs(t, kind) PROVE DoneKept
  <2>1. derived.task[t] # "done"
    BY <1>f, Typed, TaskEffects DEF FailAs, Moves, Active, Followed
  <2>2. QED
    BY <1>c, <1>f, <1>s, <2>1 DEF FailAs, DoneKept
<1> USE DEF DoneKept, PollPcs, CreatePcs, Stages
<1>1. CASE CreateRefused \/ DependencyFailed \/ MarkerError \/ CommitError \/
           MergeError \/ SettleFail
  BY <1>1, <1>f, <1>j DEF CreateRefused, At, DependencyFailed, FailJob, MarkerError,
        CommitError, MergeError, SettleFail
<1>2. ASSUME NEW t \in Tasks, Cascade(t) PROVE DoneKept
  BY <1>2, <1>c, <1>s, Typed, TaskEffects DEF Cascade, Blocked, Moves
<1>3. ASSUME NEW t \in Tasks, PollLost(t) PROVE DoneKept
  BY <1>3, <1>f, <1>j, Typed DEF PollLost, Polled, First, At, LoopInv
<1>4. CASE MarkerAbsent
  BY <1>4, <1>f, <1>j, <1>u DEF MarkerAbsent, KillThen, KillFirst, Goto, GoAndTell,
        SetClock, Return, FailJob, FailAs, rowVars, At
<1>5. CASE Finish
  BY <1>5, <1>c, <1>s, Typed DEF Finish, JobInv, At, Followed
<1>6. ASSUME NEW t \in Tasks, CLIReject(t) PROVE DoneKept
  BY <1>6, <1>c, <1>s, Typed, TaskEffects DEF CLIReject, Moves
<1>7. CASE Start \/ Stop \/ Tick \/ (\E t \in Tasks : ReconcileAdopt(t)) \/
           (\E t \in Tasks : ReconcileCreate(t)) \/
           (\E t \in Tasks : ReconcileUnreachable(t)) \/
           (\E t \in Tasks : ReconcileInterrupted(t)) \/ CreateAnswered \/
           CreateUnreachable \/ Record \/ ReadState \/ ReadReady
  BY <1>7, <1>u DEF Start, Stop, Exit, Tick, ReconcileAdopt, Reconciled, First,
        SessionsNamed, Existing, ReconcileCreate, ReconcileUnreachable, AbortTick,
        ReconcileInterrupted, CreateAnswered, Fresh, At, CreateUnreachable, Created,
        Record, Return, TakeSlot, ReadState, ReadReady, rowVars, runFrame
<1>8. CASE (\E t \in Tasks : Gate(t)) \/ (\E t \in Tasks : Postpone(t)) \/
           (\E t \in Tasks : Consider(t)) \/ (\E d \in Tasks : ParentMerged(d)) \/
           (\E d \in Tasks : ParentConflict(d)) \/
           (\E d \in Tasks : ParentBlocked(d)) \/ ParentsChecked \/ Intent \/
           AllDispatched \/ PlanOver \/ PlanGoesOn
  BY <1>8, <1>u DEF Gate, Dispatched, First, MustWait, Postpone, Consider,
        ParentMerged, At, ParentConflict, ParentBlocked, Return, ParentsChecked,
        Intent, AllDispatched, PlanOver, Exit, PlanGoesOn, rowVars, runFrame,
        parentFrame
<1>9. CASE (\E t \in Tasks : PollUnreachable(t)) \/
           (\E t \in Tasks : PollNeedsHuman(t)) \/ (\E t \in Tasks : PollRunning(t)) \/
           (\E t \in Tasks : PollTimeout(t)) \/ (\E t \in Tasks : PollNoSignal(t)) \/
           (\E t \in Tasks : PollMerged(t)) \/ (\E t \in Tasks : PollEnded(t)) \/
           MarkerOK \/ MarkerFail \/ MarkerMalformed \/ MarkerUnreachable \/
           Tier0Pass
  BY <1>9, <1>u DEF PollUnreachable, Polled, AbortTick, PollNeedsHuman, PollDone,
        First, PollRunning, PollTimeout, PollGoesOn, PollNoSignal, PollMerged,
        PollEnded, MarkerOK, Goto, GoAndTell, NextStage, SetClock, MarkerFail,
        KillThen, KillFirst, MarkerMalformed, Return, MarkerUnreachable,
        JobUnreachable, Tier0Pass, AppendRow, rowVars
<1>10. CASE Tier0Empty \/ Tier0Fail \/ CommitDone \/ Tier1Pass \/ Tier1Fail \/
            Tier1LLMError \/ Tier1DiffError \/ MergeBranch \/ MergeDone \/ MergeConflict \/
            MergeBlocked \/ Bury \/ Kill
  BY <1>10, <1>u DEF Tier0Empty, RetryOrFail, KillFirst, AppendRow, GoAndTell,
        Tier0Fail, CommitDone, SetClock, Goto, Tier1Pass, Tier1Fail, Tier1LLMError,
        KillThen, Return, Tier1DiffError, MergeBranch, MergeDone, MergeConflict, MergeBlocked,
        Bury, Terminated, Kill, rowVars
<1>11. CASE KillUnreachable \/ SettleRetry
  BY <1>11, <1>u DEF KillUnreachable, Terminated, AbortTick, SettleRetry, Return,
        rowVars
<1>12. CASE CLIApprovePlan \/ (\E t \in Tasks : CLIApprove(t)) \/ LateCreate \/
            (\E s \in SessionIds : SessionEnds(s)) \/
            (\E s \in SessionIds : SessionRemoved(s)) \/ Crash \/ Interrupt
  BY <1>12, <1>u DEF CLIApprovePlan, CLIApprove, LateCreate, Fresh, SessionEnds,
        SessionRemoved, Crash, Exit, Interrupt, rowVars, runFrame
<1>13. QED
  BY <1>1, <1>2, <1>3, <1>4, <1>5, <1>6, <1>7, <1>8, <1>9, <1>10, <1>11, <1>12
     DEF Next, RunStep, PollStep, CLIStep, AOStep

\* Stops are counted, depFailed follows the intent, and nothing but a stop or the failure follows depFailed.
LeaveKept ==
    /\ stops' >= stops
    /\ pc' = "depFailed" => pc \in {"intent", "depFailed"} /\ job'.task = job.task
    /\ pc = "depFailed" => \/ pc' = "depFailed" /\ job' = job
                           \/ stops' > 0
                           \/ derived'.task[job.task] = "failed"

\* Every step does so.
LEMMA LeaveStep ==
    ASSUME Inv, Next PROVE LeaveKept
<1>c. stops \in Nat /\ derived.task \in [Tasks -> TaskStatuses] /\ phase \in {"tick", "dispatch"}
  BY Typed, Facts DEF StepTypes, Derived
<1>v. UNCHANGED <<pc, job, stops>> => LeaveKept
  BY <1>c DEF LeaveKept
<1> USE DEF LeaveKept
<1>1. CASE (\E t \in Tasks : ReconcileUnreachable(t)) \/ CreateUnreachable \/
           (\E t \in Tasks : PollUnreachable(t)) \/ MarkerUnreachable \/
           KillUnreachable
  BY <1>1, <1>c DEF ReconcileUnreachable, Reconciled, AbortTick, CreateUnreachable,
        Created, Fresh, At, PollUnreachable, Polled, MarkerUnreachable,
        JobUnreachable, KillUnreachable, Terminated, envVars
<1>2. CASE Stop \/ (\E t \in Tasks : ReconcileInterrupted(t)) \/ Crash \/ PlanOver
  BY <1>2, <1>c DEF Stop, Exit, ReconcileInterrupted, Reconciled, Crash, PlanOver,
        envVars, At
<1>3. CASE Start \/ Tick \/ CreateAnswered \/ CreateRefused \/ Record \/ ReadState \/
           ReadReady
  BY <1>3, <1>c DEF Start, Tick, CreateAnswered, Fresh, At, CreateRefused, Created,
        Return, TakeSlot, FailAs, Record, ReadState, ReadReady, jobVars, envVars,
        createFrame, jobFrame
<1>4. CASE ParentsChecked \/ Intent \/ AllDispatched \/ PlanGoesOn \/ MarkerFail \/
           MarkerMalformed \/ MarkerAbsent
  BY <1>4, <1>c DEF ParentsChecked, At, Intent, AllDispatched, PlanGoesOn,
        MarkerFail, KillThen, KillFirst, Goto, GoAndTell, MarkerMalformed, SetClock,
        Return, MarkerAbsent, FailJob, FailAs, envVars, jobFrame, parentFrame,
        jobVars
<1>5. CASE MarkerError \/ Tier0Pass \/ Tier0Empty \/ Tier0Fail \/ CommitDone \/
           CommitError \/ Tier1Pass
  BY <1>5, <1>c DEF MarkerError, FailJob, FailAs, Return, Tier0Pass, SetClock,
        AppendRow, GoAndTell, Tier0Empty, RetryOrFail, KillFirst, Tier0Fail,
        CommitDone, Goto, CommitError, Tier1Pass, envVars, jobFrame, At
<1>6. CASE Tier1Fail \/ Tier1LLMError \/ Tier1DiffError \/ MergeBranch \/ MergeDone \/
           MergeConflict \/ MergeBlocked \/ MergeError
  BY <1>6, <1>c DEF Tier1Fail, RetryOrFail, KillFirst, GoAndTell, SetClock,
        Tier1LLMError, KillThen, Goto, Return, Tier1DiffError, MergeBranch, MergeDone, AppendRow,
        MergeConflict, MergeBlocked, MergeError, FailJob, FailAs, envVars, jobFrame,
        At
<1>7. CASE Finish \/ Bury \/ Kill \/ SettleRetry \/ SettleFail \/ Interrupt
  BY <1>7, <1>c DEF Finish, Return, Bury, Terminated, Kill, SettleRetry, SettleFail,
        FailJob, FailAs, Interrupt, envVars, jobFrame, jobVars, At
<1>8. ASSUME NEW t \in Tasks, ReconcileCreate(t) \/ Consider(t) \/ PollTimeout(t) \/
                              PollNoSignal(t) \/ PollMerged(t) \/ PollEnded(t)
           PROVE  LeaveKept
  BY <1>8, <1>c DEF ReconcileCreate, Reconciled, First, Consider, Dispatched,
        MustWait, PollTimeout, Polled, PollGoesOn, PollNoSignal, PollDone,
        PollMerged, PollEnded, envVars, dispatchFrame, pollFrame, jobVars, At
<1>9. ASSUME NEW d \in Tasks, ParentConflict(d) \/ ParentBlocked(d)
           PROVE  LeaveKept
  BY <1>9, <1>c DEF ParentConflict, At, First, ParentBlocked, Return, envVars,
        jobFrame, parentFrame
<1>10. CASE DependencyFailed
  <2>1. pc = "depFailed" /\ FailTask(job.task) /\ job.task \in Tasks /\ UNCHANGED stops /\ pc' = phase
    BY <1>10, JobTask DEF DependencyFailed, At, FailJob, FailAs, Return, envVars, jobFrame
  <2>2. SetsTask(job.task, "failed")
    BY <2>1, Typed, TaskEffects DEF Moves
  <2>3. derived'.task[job.task] = "failed"
    BY <1>c, <2>1, <2>2 DEF SetsTask
  <2>4. QED
    BY <1>c, <2>1, <2>3
<1>11. CASE MarkerOK
  BY <1>11, <1>c, StageNext DEF MarkerOK, Goto, GoAndTell, envVars, jobFrame, At,
        Stages
<1>12. CASE (\E t \in Tasks : ReconcileAdopt(t)) \/ (\E t \in Tasks : Cascade(t)) \/
            (\E t \in Tasks : Gate(t)) \/ (\E t \in Tasks : Postpone(t)) \/
            (\E d \in Tasks : ParentMerged(d))
  BY <1>12, <1>v DEF ReconcileAdopt, Reconciled, First, SessionsNamed, Existing,
        Cascade, Blocked, Gate, Dispatched, MustWait, Postpone, ParentMerged, At,
        envVars, jobVars, dispatchFrame, jobFrame, parentFrame
<1>13. ASSUME NEW t \in Tasks, PollLost(t) \/ PollNeedsHuman(t) \/ PollRunning(t)
           PROVE  LeaveKept
  BY <1>13, <1>v DEF PollLost, Polled, PollDone, FailAs, First, PollNeedsHuman,
        PollRunning, envVars, jobVars, pollFrame
<1>14. CASE CLIApprovePlan \/ (\E t \in Tasks : CLIApprove(t)) \/
            (\E t \in Tasks : CLIReject(t)) \/ LateCreate \/
            (\E s \in SessionIds : SessionEnds(s)) \/
            (\E s \in SessionIds : SessionRemoved(s))
  BY <1>14, <1>v DEF CLIApprovePlan, CLIApprove, CLIReject, LateCreate, Fresh,
        SessionEnds, SessionRemoved, cliFrame, envVars, jobVars
<1>15. QED
  BY <1>1, <1>2, <1>3, <1>4, <1>5, <1>6, <1>7, <1>8, <1>9, <1>10, <1>11, <1>12,
     <1>13, <1>14
     DEF Next, RunStep, PollStep, CLIStep, AOStep

\* A merge is remembered when it is made or found.
MergedKept ==
    \A d \in merged' : \/ d \in merged /\ ~ (pc = "finish" /\ job.task = d)
                       \/ pc' = "finish" /\ job'.task = d
                       \/ pc = "finish" /\ job.task = d /\ derived'.task[d] = "done"
                       \/ d \in Tasks /\ derived.task[d] = "done" /\ session[d] \in inDefault'

\* Every step does so.
LEMMA MergedStep ==
    ASSUME Inv, FollowInv, Next PROVE MergedKept
<1>c. merged \subseteq Tasks
  BY DEF Inv, TypeOK
<1>f. pc = "parents" => \A d \in toCheck : derived.task[d] = "done" /\ d \in Tasks
  BY Typed, Facts DEF JobInv, Founded
<1>v. UNCHANGED <<merged, pc, job>> => MergedKept
  BY DEF MergedKept
<1>o. UNCHANGED merged /\ pc # "finish" => MergedKept
  BY DEF MergedKept
<1> USE DEF MergedKept
<1>1. CASE (\E t \in Tasks : ReconcileUnreachable(t)) \/ CreateUnreachable \/
           (\E t \in Tasks : PollUnreachable(t)) \/ MarkerUnreachable \/
           KillUnreachable
  BY <1>1, <1>c, <1>o DEF ReconcileUnreachable, Reconciled, AbortTick,
        CreateUnreachable, Created, Fresh, At, PollUnreachable, Polled,
        MarkerUnreachable, JobUnreachable, KillUnreachable, Terminated, memVars
<1>2. CASE Stop \/ (\E t \in Tasks : ReconcileInterrupted(t)) \/ Crash \/ PlanOver
  BY <1>2, <1>c, <1>o DEF Stop, Exit, ReconcileInterrupted, Reconciled, Crash,
        PlanOver, At
<1>3. CASE Start \/ Tick \/ CreateAnswered \/ CreateRefused \/ Record
  BY <1>3, <1>c, <1>o DEF Start, Tick, CreateAnswered, Fresh, At, CreateRefused,
        Created, Return, TakeSlot, FailAs, Record, jobVars, memVars
<1>4. CASE ReadState \/ ReadReady \/ ParentsChecked \/ Intent \/ DependencyFailed
  BY <1>4, <1>c, <1>o DEF ReadState, ReadReady, ParentsChecked, At, Intent,
        DependencyFailed, FailJob, FailAs, Return, memVars, jobVars
<1>5. CASE AllDispatched \/ PlanGoesOn \/ MarkerOK \/ MarkerFail \/ MarkerMalformed
  BY <1>5, <1>c, <1>o DEF AllDispatched, PlanGoesOn, MarkerOK, Goto, GoAndTell,
        MarkerFail, KillThen, KillFirst, MarkerMalformed, SetClock, Return, memVars,
        jobVars, At
<1>6. CASE MarkerAbsent \/ MarkerError \/ Tier0Pass \/ Tier0Empty \/ Tier0Fail
  BY <1>6, <1>c, <1>o DEF MarkerAbsent, KillThen, KillFirst, Goto, GoAndTell,
        SetClock, Return, FailJob, FailAs, MarkerError, Tier0Pass, AppendRow,
        Tier0Empty, RetryOrFail, Tier0Fail, At
<1>7. CASE CommitDone \/ CommitError \/ Tier1Pass \/ Tier1Fail \/ Tier1LLMError
  BY <1>7, <1>c, <1>o DEF CommitDone, SetClock, Goto, GoAndTell, CommitError,
        FailJob, FailAs, Return, Tier1Pass, AppendRow, Tier1Fail, RetryOrFail,
        KillFirst, Tier1LLMError, KillThen, At
<1>8. CASE Tier1DiffError \/ MergeConflict \/ MergeBlocked \/ MergeError \/ Bury
  BY <1>8, <1>c, <1>o DEF Tier1DiffError, KillThen, KillFirst, Goto, GoAndTell,
        MergeConflict, MergeBlocked, Return, MergeError, FailJob, FailAs, Bury,
        Terminated, memVars, At
<1>9. CASE Kill \/ SettleRetry \/ SettleFail
  BY <1>9, <1>c, <1>o DEF Kill, Terminated, SettleRetry, Return, SettleFail,
        FailJob, FailAs, jobVars, memVars, At
<1>10. ASSUME NEW t \in Tasks, ReconcileCreate(t) \/ Consider(t) \/ PollTimeout(t) \/
                               PollNoSignal(t) \/ PollMerged(t) PROVE MergedKept
  BY <1>10, <1>c, <1>o DEF ReconcileCreate, Reconciled, First, Consider, Dispatched,
        MustWait, PollTimeout, Polled, PollGoesOn, PollNoSignal, PollDone,
        PollMerged, memVars, dispatchFrame, pollFrame, jobVars, At
<1>11. ASSUME NEW d \in Tasks, ParentConflict(d) \/ ParentBlocked(d)
           PROVE  MergedKept
  BY <1>11, <1>c, <1>o DEF ParentConflict, At, First, ParentBlocked, Return, memVars
<1>12. ASSUME NEW d \in Tasks, ParentMerged(d) PROVE MergedKept
  BY <1>12, <1>c, <1>o, <1>f DEF ParentMerged, At, First
<1>13. ASSUME NEW t \in Tasks, PollEnded(t) PROVE MergedKept
  BY <1>13, <1>c, <1>o DEF PollEnded, Polled, PollGoesOn, First, pollFrame, At
<1>14. CASE MergeBranch
  BY <1>14, <1>o DEF MergeBranch, At, memVars
<1>14a. CASE MergeDone
  <2>1. pc # "finish" /\ merged' = merged \cup {job.task} /\ pc' = "finish" /\ job'.task = job.task
    BY <1>14a, TypeParts DEF MergeDone, At, Inv, Jobs
  <2>2. QED
    BY <2>1
<1>15. CASE Finish
  <2>1. pc = "finish" /\ FinishTask(job.task) /\ merged' = merged \cup {job.task}
    BY <1>15 DEF Finish, At
  <2>2. job.task \in Tasks /\ derived.task \in [Tasks -> TaskStatuses]
    BY <2>1, JobTask, Typed DEF Derived, PollPcs
  <2>3. SetsTask(job.task, "done")
    BY <2>1, <2>2, Typed, TaskEffects DEF Moves
  <2>4. derived'.task[job.task] = "done"
    BY <2>2, <2>3 DEF SetsTask
  <2>5. QED
    BY <2>1, <2>4
<1>16. ASSUME NEW t \in Tasks, ReconcileAdopt(t) \/ Cascade(t) \/ Gate(t) \/
                               Postpone(t) PROVE MergedKept
  BY <1>16, <1>v DEF ReconcileAdopt, Reconciled, First, SessionsNamed, Existing,
        Cascade, Blocked, Gate, Dispatched, MustWait, Postpone, jobVars, memVars,
        dispatchFrame
<1>17. ASSUME NEW t \in Tasks, PollLost(t) \/ PollNeedsHuman(t) \/ PollRunning(t)
           PROVE  MergedKept
  BY <1>17, <1>v DEF PollLost, Polled, PollDone, FailAs, First, PollNeedsHuman,
        PollRunning, jobVars, pollFrame
<1>18. CASE CLIApprovePlan \/ (\E t \in Tasks : CLIApprove(t)) \/
            (\E t \in Tasks : CLIReject(t)) \/ LateCreate \/
            (\E s \in SessionIds : SessionEnds(s)) \/
            (\E s \in SessionIds : SessionRemoved(s)) \/ Interrupt
  BY <1>18, <1>v DEF CLIApprovePlan, CLIApprove, CLIReject, LateCreate, Fresh,
        SessionEnds, SessionRemoved, Interrupt, cliFrame, jobVars, memVars
<1>19. QED
  BY <1>1, <1>2, <1>3, <1>4, <1>5, <1>6, <1>7, <1>8, <1>9, <1>10, <1>11, <1>12,
     <1>13, <1>14, <1>14a, <1>15, <1>16, <1>17, <1>18
     DEF Next, RunStep, PollStep, CLIStep, AOStep

\* What is about to be finished is merged.
FinishKept == pc' = "finish" => job'.session \in inDefault'

\* Every step sees to it.
LEMMA FinishStep ==
    ASSUME Inv, VerifiedInv, FollowInv, Next PROVE FinishKept
<1>v. UNCHANGED <<pc, job>> => FinishKept
  BY MergesStep DEF MergesKept, FollowInv, FinishKept
<1> USE DEF FinishKept
<1>1. CASE (\E t \in Tasks : ReconcileUnreachable(t)) \/ CreateUnreachable \/
           (\E t \in Tasks : PollUnreachable(t)) \/ MarkerUnreachable \/
           KillUnreachable
  BY <1>1, Typed DEF ReconcileUnreachable, Reconciled, AbortTick, CreateUnreachable,
        Created, Fresh, At, PollUnreachable, Polled, MarkerUnreachable,
        JobUnreachable, KillUnreachable, Terminated, StepTypes
<1>2. CASE Stop \/ (\E t \in Tasks : ReconcileInterrupted(t)) \/ Crash \/ PlanOver
  BY <1>2, Typed DEF Stop, Exit, ReconcileInterrupted, Reconciled, Crash, PlanOver,
        At, StepTypes
<1>3. CASE Start \/ Tick \/ CreateAnswered \/ CreateRefused \/ Record \/ ReadState \/
           ReadReady
  BY <1>3, Typed DEF Start, Tick, CreateAnswered, Fresh, At, CreateRefused, Created,
        Return, TakeSlot, FailAs, Record, ReadState, ReadReady, jobVars, StepTypes
<1>4. CASE ParentsChecked \/ Intent \/ DependencyFailed \/ AllDispatched \/
           PlanGoesOn \/ MarkerFail \/ MarkerMalformed
  BY <1>4, Typed DEF ParentsChecked, At, Intent, DependencyFailed, FailJob, FailAs,
        Return, AllDispatched, PlanGoesOn, MarkerFail, KillThen, KillFirst, Goto,
        GoAndTell, MarkerMalformed, SetClock, jobVars, StepTypes
<1>5. CASE MarkerAbsent \/ MarkerError \/ Tier0Pass \/ Tier0Empty \/ Tier0Fail \/
           CommitDone \/ CommitError
  BY <1>5, Typed DEF MarkerAbsent, KillThen, KillFirst, Goto, GoAndTell, SetClock,
        Return, FailJob, FailAs, MarkerError, Tier0Pass, AppendRow, Tier0Empty,
        RetryOrFail, Tier0Fail, CommitDone, CommitError, At, StepTypes
<1>6. CASE Tier1Pass \/ Tier1Fail \/ Tier1LLMError \/ Tier1DiffError \/
           MergeConflict \/ MergeBlocked \/ MergeError
  BY <1>6, Typed DEF Tier1Pass, AppendRow, GoAndTell, Tier1Fail, RetryOrFail,
        KillFirst, SetClock, Tier1LLMError, KillThen, Goto, Return, Tier1DiffError,
        MergeConflict, MergeBlocked, MergeError, FailJob, FailAs, At, StepTypes
<1>7. CASE Finish \/ Bury \/ Kill \/ SettleRetry \/ SettleFail
  BY <1>7, Typed DEF Finish, Return, Bury, Terminated, Kill, SettleRetry,
        SettleFail, FailJob, FailAs, jobVars, At, StepTypes
<1>8. ASSUME NEW t \in Tasks, ReconcileCreate(t) \/ Consider(t) \/ PollTimeout(t) \/
                              PollNoSignal(t) \/ PollEnded(t) PROVE FinishKept
  BY <1>8, Typed DEF ReconcileCreate, Reconciled, First, Consider, Dispatched,
        MustWait, PollTimeout, Polled, PollGoesOn, PollNoSignal, PollDone,
        PollEnded, jobVars, At, StepTypes
<1>9. ASSUME NEW d \in Tasks, ParentConflict(d) \/ ParentBlocked(d)
           PROVE  FinishKept
  BY <1>9, Typed DEF ParentConflict, At, First, ParentBlocked, Return, StepTypes
<1>10. ASSUME NEW t \in Tasks, PollMerged(t) PROVE FinishKept
  BY <1>10, Typed, TypeParts DEF PollMerged, Polled, First, At, StepTypes, Inv, Jobs
<1>11. CASE MarkerOK
  BY <1>11, StageNext DEF MarkerOK, Goto, GoAndTell, At, Stages
<1>12. CASE MergeBranch \/ MergeDone
  <2>1. CASE MergeBranch
    BY <2>1 DEF MergeBranch
  <2>2. CASE MergeDone
    <3>1. job.session \in inDefault /\ UNCHANGED inDefault
      BY <2>2 DEF MergeDone, At, VerifiedInv, HandInv
    <3>2. job'.session = job.session
      BY <2>2, TypeParts DEF MergeDone, Inv, Jobs
    <3>3. QED
      BY <3>1, <3>2
  <2>3. QED
    BY <1>12, <2>1, <2>2
<1>13. CASE (\E t \in Tasks : ReconcileAdopt(t)) \/ (\E t \in Tasks : Cascade(t)) \/
            (\E t \in Tasks : Gate(t)) \/ (\E t \in Tasks : Postpone(t)) \/
            (\E d \in Tasks : ParentMerged(d))
  BY <1>13, <1>v DEF ReconcileAdopt, Reconciled, First, SessionsNamed, Existing,
        Cascade, Blocked, Gate, Dispatched, MustWait, Postpone, ParentMerged, At,
        jobVars
<1>14. ASSUME NEW t \in Tasks, PollLost(t) \/ PollNeedsHuman(t) \/ PollRunning(t)
           PROVE  FinishKept
  BY <1>14, <1>v DEF PollLost, Polled, PollDone, FailAs, First, PollNeedsHuman,
        PollRunning, jobVars
<1>15. CASE CLIApprovePlan \/ (\E t \in Tasks : CLIApprove(t)) \/
            (\E t \in Tasks : CLIReject(t)) \/ LateCreate \/
            (\E s \in SessionIds : SessionEnds(s)) \/
            (\E s \in SessionIds : SessionRemoved(s)) \/ Interrupt
  BY <1>15, <1>v DEF CLIApprovePlan, CLIApprove, CLIReject, LateCreate, Fresh,
        SessionEnds, SessionRemoved, Interrupt, cliFrame, jobVars
<1>16. QED
  BY <1>1, <1>2, <1>3, <1>4, <1>5, <1>6, <1>7, <1>8, <1>9, <1>10, <1>11, <1>12,
     <1>13, <1>14, <1>15
     DEF Next, RunStep, PollStep, CLIStep, AOStep

\* A child's parents are checked before its intent.
CheckKept ==
    /\ pc' = "parents" => \A d \in Deps[job'.task] \ toCheck' : session[d] \in inDefault'
    /\ pc' = "intent" /\ job'.why # "dependency_failed" =>
          \A d \in Deps[job'.task] : session[d] \in inDefault'

\* Every step sees to it.
LEMMA CheckStep ==
    ASSUME Inv, FollowInv, Next PROVE CheckKept
<1>v. UNCHANGED <<pc, job, toCheck>> => CheckKept
  BY MergesStep DEF MergesKept, FollowInv, CheckKept
<1>f. /\ pc = "parents" => \A d \in Deps[job.task] \ toCheck : session[d] \in inDefault
      /\ pc = "parents" => \A d \in merged : session[d] \in inDefault
      /\ inDefault \subseteq inDefault'
  BY MergesStep DEF MergesKept, FollowInv
<1> USE DEF CheckKept
<1>1. CASE (\E t \in Tasks : ReconcileUnreachable(t)) \/ CreateUnreachable \/
           (\E t \in Tasks : PollUnreachable(t)) \/ MarkerUnreachable \/
           KillUnreachable
  BY <1>1, Typed DEF ReconcileUnreachable, Reconciled, AbortTick, CreateUnreachable,
        Created, Fresh, At, PollUnreachable, Polled, MarkerUnreachable,
        JobUnreachable, KillUnreachable, Terminated, StepTypes
<1>2. CASE Stop \/ (\E t \in Tasks : ReconcileInterrupted(t)) \/ Crash \/ PlanOver
  BY <1>2, Typed DEF Stop, Exit, ReconcileInterrupted, Reconciled, Crash, PlanOver,
        At, StepTypes
<1>3. CASE Start \/ Tick \/ CreateAnswered \/ CreateRefused \/ Record \/ ReadState \/
           ReadReady
  BY <1>3, Typed DEF Start, Tick, CreateAnswered, Fresh, At, CreateRefused, Created,
        Return, TakeSlot, FailAs, Record, ReadState, ReadReady, jobVars, StepTypes
<1>4. CASE Intent \/ DependencyFailed \/ AllDispatched \/ PlanGoesOn \/ MarkerFail \/
           MarkerMalformed \/ MarkerAbsent
  BY <1>4, Typed DEF Intent, At, DependencyFailed, FailJob, FailAs, Return,
        AllDispatched, PlanGoesOn, MarkerFail, KillThen, KillFirst, Goto, GoAndTell,
        MarkerMalformed, SetClock, MarkerAbsent, jobVars, StepTypes
<1>5. CASE MarkerError \/ Tier0Pass \/ Tier0Empty \/ Tier0Fail \/ CommitDone \/
           CommitError \/ Tier1Pass
  BY <1>5, Typed DEF MarkerError, FailJob, FailAs, Return, Tier0Pass, SetClock,
        AppendRow, GoAndTell, Tier0Empty, RetryOrFail, KillFirst, Tier0Fail,
        CommitDone, Goto, CommitError, Tier1Pass, At, StepTypes
<1>6. CASE Tier1Fail \/ Tier1LLMError \/ Tier1DiffError \/ MergeBranch \/ MergeDone \/
           MergeConflict \/ MergeBlocked \/ MergeError
  BY <1>6, Typed DEF Tier1Fail, RetryOrFail, KillFirst, GoAndTell, SetClock,
        Tier1LLMError, KillThen, Goto, Return, Tier1DiffError, MergeBranch, MergeDone, AppendRow,
        MergeConflict, MergeBlocked, MergeError, FailJob, FailAs, At, StepTypes
<1>7. CASE Finish \/ Bury \/ Kill \/ SettleRetry \/ SettleFail
  BY <1>7, Typed DEF Finish, Return, Bury, Terminated, Kill, SettleRetry,
        SettleFail, FailJob, FailAs, jobVars, At, StepTypes
<1>8. ASSUME NEW t \in Tasks, ReconcileCreate(t) \/ PollTimeout(t) \/
                              PollNoSignal(t) \/ PollMerged(t) \/ PollEnded(t)
           PROVE  CheckKept
  BY <1>8, Typed DEF ReconcileCreate, Reconciled, First, PollTimeout, Polled,
        PollGoesOn, PollNoSignal, PollDone, PollMerged, PollEnded, jobVars, At,
        StepTypes
<1>9. ASSUME NEW d \in Tasks, ParentMerged(d) \/ ParentConflict(d)
           PROVE  CheckKept
  BY <1>9, Typed, <1>f, TypeParts DEF ParentMerged, At, First, ParentConflict,
        StepTypes, Inv, Jobs
<1>10. ASSUME NEW t \in Tasks, Consider(t) PROVE CheckKept
  BY <1>10, Typed, Facts, TypeParts DEF Consider, Dispatched, First, MustWait, At,
        StepTypes, Inv, Jobs, NoJob
<1>11. ASSUME NEW d \in Tasks, ParentBlocked(d) PROVE CheckKept
  BY <1>11, Typed DEF ParentBlocked, At, First, Return, StepTypes
<1>12. CASE ParentsChecked
  BY <1>12, Typed, <1>f, TypeParts DEF ParentsChecked, At, StepTypes, Inv, Jobs
<1>13. CASE MarkerOK
  BY <1>13, StageNext DEF MarkerOK, Goto, GoAndTell, At, Stages
<1>14. ASSUME NEW t \in Tasks, ReconcileAdopt(t) \/ Cascade(t) \/ Gate(t) \/
                               Postpone(t) PROVE CheckKept
  BY <1>14, <1>v DEF ReconcileAdopt, Reconciled, First, SessionsNamed, Existing,
        Cascade, Blocked, Gate, Dispatched, MustWait, Postpone, jobVars
<1>15. ASSUME NEW t \in Tasks, PollLost(t) \/ PollNeedsHuman(t) \/ PollRunning(t)
           PROVE  CheckKept
  BY <1>15, <1>v DEF PollLost, Polled, PollDone, FailAs, First, PollNeedsHuman,
        PollRunning, jobVars
<1>16. CASE CLIApprovePlan \/ (\E t \in Tasks : CLIApprove(t)) \/
            (\E t \in Tasks : CLIReject(t)) \/ LateCreate \/
            (\E s \in SessionIds : SessionEnds(s)) \/
            (\E s \in SessionIds : SessionRemoved(s)) \/ Interrupt
  BY <1>16, <1>v DEF CLIApprovePlan, CLIApprove, CLIReject, LateCreate, Fresh,
        SessionEnds, SessionRemoved, Interrupt, cliFrame, jobVars
<1>17. QED
  BY <1>1, <1>2, <1>3, <1>4, <1>5, <1>6, <1>7, <1>8, <1>9, <1>10, <1>11, <1>12,
     <1>13, <1>14, <1>15, <1>16
     DEF Next, RunStep, PollStep, CLIStep, AOStep

\* A parent stays sound.
LEMMA SoundStep ==
    ASSUME Inv, Next, NEW t \in Tasks, NEW d \in Deps[t], Sound(t, d) PROVE Sound(t, d)'
<1>1. d \in Tasks /\ stops \in Nat /\ stops' \in Nat
  BY Facts, Typed, SchedulerStep DEF StepTypes, Inv, TypeOK
<1>2. QED
  BY <1>1, DoneStep, MergesStep, FinalStep, LeaveStep DEF Sound, DoneKept, MergesKept, LeaveKept

\* Every step keeps it.
LEMMA FollowStep == Inv /\ VerifiedInv /\ FollowInv /\ [Next]_vars => FollowInv'
<1> SUFFICES ASSUME Inv, VerifiedInv, FollowInv, [Next]_vars PROVE FollowInv'
  OBVIOUS
<1>1. CASE Next
  <2> USE <1>1
  <2>i. Inv' /\ merged' \subseteq Tasks
    BY SchedulerStep DEF Inv, TypeOK
  <2>t. job.task \in Tasks \cup {0} /\ job'.task \in Tasks \cup {0} /\ Deps \in [Tasks -> SUBSET Tasks]
    BY <2>i, Facts, TypeParts, JobTypeStep DEF Inv, Jobs
  <2>d. ASSUME NEW d \in Tasks, derived'.task[d] = "done"
        PROVE  session'[d] = session[d] /\ (derived.task[d] = "done" \/ (pc = "finish" /\ job.task = d))
    BY <2>d, DoneStep, StatusStep DEF StatusKept
  <2>m. inDefault \subseteq inDefault'
    BY MergesStep DEF MergesKept
  <2>f. /\ pc' \in {"parents", "intent"} => job'.task \in Tasks /\ \A d \in Deps[job'.task] : derived'.task[d] = "done"
        /\ pc \in {"parents", "intent"} => job.task \in Tasks /\ \A d \in Deps[job.task] : derived.task[d] = "done"
    BY <2>i DEF Inv, ControlInv, JobInv, Founded
  <2>h. pc = "finish" => session[job.task] \in inDefault
    BY DEF FollowInv, VerifiedInv, HandInv, PollPcs
  <2>1. ASSUME NEW d \in Tasks, derived'.task[d] = "done", outcome'[d] # "none" PROVE session'[d] \in inDefault'
    BY <2>1, <2>d, <2>h, <2>m, FinalStep DEF DoneKept, FollowInv
  <2>2. pc' = "finish" => job'.session \in inDefault'
    BY FinishStep DEF FinishKept
  <2>3. ASSUME NEW d \in merged'
        PROVE  (derived'.task[d] = "done" /\ session'[d] \in inDefault') \/ (pc' = "finish" /\ job'.task = d)
    BY <2>3, <2>i, <2>d, <2>h, <2>m, DoneStep, MergedStep DEF MergedKept, FollowInv
  <2>4. pc' = "parents" => \A d \in Deps[job'.task] \ toCheck' : session'[d] \in inDefault'
    BY <2>d, <2>f, <2>t, CheckStep DEF CheckKept
  <2>5. pc' = "intent" /\ job'.why # "dependency_failed" =>
           \A d \in Deps[job'.task] : session'[d] \in inDefault'
    BY <2>d, <2>f, <2>t, CheckStep DEF CheckKept
  <2>6. ASSUME pc' = "depFailed" PROVE \A d \in Deps[job'.task] : derived'.task[d] = "done"
    <3>1. pc \in {"intent", "depFailed"} /\ job'.task = job.task /\ job.task \in Tasks
      BY <2>6, LeaveStep, JobTask DEF LeaveKept
    <3>2. \A d \in Deps[job.task] : derived.task[d] = "done"
      BY <2>f, <3>1 DEF FollowInv, Founded
    <3>3. QED
      BY <2>t, <3>1, <3>2, DoneStep
  <2>7. ASSUME NEW t \in Tasks, Requested(t)', NEW d \in Deps[t] PROVE Sound(t, d)'
    <3>1. CASE Requested(t)
      BY <3>1, SoundStep DEF FollowInv
    <3>2. CASE \E round : Intended(t, round)
      BY <3>2, SoundStep DEF FollowInv, Intended, Active
    <3>3. Requested(t) \/ \E round : Intended(t, round)
      BY <2>7, SessionOrigin, Facts DEF Origin, Requested
    <3>4. QED
      BY <3>1, <3>2, <3>3
  <2>8. ASSUME NEW t \in Tasks, derived'.task[t] \in Active \cup {"done"},
               ~ (pc' = "depFailed" /\ job'.task = t), NEW d \in Deps[t]
        PROVE  Sound(t, d)'
    <3>1. CASE derived.task[t] \in Active \cup {"done"} /\ ~ (pc = "depFailed" /\ job.task = t)
      BY <3>1, SoundStep DEF FollowInv
    <3>2. CASE pc = "depFailed" /\ job.task = t
      <4>1. stops' > 0
        BY <2>8, <3>2, LeaveStep DEF LeaveKept, Active, Followed
      <4>2. derived.task[d] = "done" /\ d \in Tasks
        BY <2>t, <3>2 DEF FollowInv, Founded
      <4>3. session[d] \in inDefault \/ outcome[d] = "none"
        BY <4>2 DEF FollowInv
      <4>4. QED
        BY <2>m, <4>1, <4>2, <4>3, FinalStep DEF DoneKept, Sound
    <3>3. CASE derived.task[t] = "pending" /\ pc = "intent" /\ job.task = t /\ Told
      <4>1. job.why # "dependency_failed"
        BY <2>8, <3>3 DEF Told
      <4>2. Sound(t, d)
        BY <2>f, <3>3, <4>1 DEF FollowInv, Sound
      <4>3. QED
        BY <4>2, SoundStep
    <3>4. QED
      BY <2>8, <3>1, <3>2, <3>3, StatusStep DEF StatusKept
  <2>9. QED
    BY <2>1, <2>2, <2>3, <2>4, <2>5, <2>6, <2>7, <2>8 DEF FollowInv, Founded
<1>2. CASE UNCHANGED vars
  BY <1>2 DEF vars, storeVars, aoVars, rowVars, jobVars, loopVars, memVars, envVars, FollowInv, Requested,
              Sound, Founded
<1>3. QED
  BY <1>1, <1>2

\* It holds of what an older binary leaves.
LEMMA FollowInit == Init => FollowInv
<1>1. ASSUME NEW legacy, legacy = {} \/ legacy = LegacyDone, InitWith(legacy) PROVE FollowInv
  <2>1. /\ pc = "off" /\ merged = {} /\ late = {} /\ outcome = [t \in Tasks |-> "none"]
        /\ derived.task = [t \in Tasks |-> IF t \in legacy THEN "done" ELSE "pending"]
    BY <1>1 DEF InitWith
  <2>2. \A t \in legacy : t \in LegacyDone /\ Deps[t] \subseteq legacy
    BY <1>1, SchedulerAssumption
  <2>3. ASSUME NEW t \in Tasks, Requested(t) \/ derived.task[t] \in Active \cup {"done"} PROVE t \in legacy
    BY <1>1, <2>1, <2>3 DEF Requested, InitWith, Active, Followed
  <2>4. ASSUME NEW t \in Tasks, t \in legacy, NEW d \in Deps[t] PROVE Sound(t, d)
    BY <2>1, <2>2, <2>4, Facts DEF Sound
  <2>5. QED
    BY <2>1, <2>3, <2>4 DEF FollowInv
<1>2. QED
  BY <1>1 DEF Init

\* AO bases a session on the default branch: when a task's session is created, all
\* its parents are done and their work is there, however the crashes and the late
\* requests fall.  Of what an older binary finished, that is so until om is stopped.
THEOREM ChildrenComeAfterMerges == Spec => []ChildrenFollowMerges
<1>1. Inv /\ FollowInv => ChildrenFollowMerges
  BY Facts DEF FollowInv, Requested, Sound, ChildrenFollowMerges
<1>2. Init => Inv /\ VerifiedInv /\ FollowInv
  BY SchedulerInit, VerifiedInit, FollowInit
<1>3. Inv /\ VerifiedInv /\ FollowInv /\ [Next]_vars => (Inv /\ VerifiedInv /\ FollowInv)'
  BY SchedulerStep, VerifiedStep, FollowStep
<1>4. QED
  BY <1>1, <1>2, <1>3, PTL DEF Spec

-----------------------------------------------------------------------------
(* One session per round.                                                  *)

\* The task is beyond its intent in this round.
Past(t, round) ==
    \/ round < derived.rounds[t]
    \/ round = derived.rounds[t] /\ derived.task[t] \notin {"pending", "awaiting_approval"}

ActedLate(t, round) == <<t, round, "acted">> \in late

\* No session and no request is of a round whose intent is to come; and whoever is
\* about to create a session has seen that there is none, though AO may since have
\* acted on a request it got before.
LoneInv ==
    /\ \A s \in SessionIds : ao[s] # "none" => Past(TaskOf(s), RoundOf(s))
    /\ \A t \in Tasks, round \in 0..MaxVerifyRounds, state \in {"pending", "acted"} :
          <<t, round, state>> \in late => Past(t, round)
    /\ pc = "create" => \/ SessionsNamed(job.task, derived.rounds[job.task]) = {}
                        \/ ActedLate(job.task, derived.rounds[job.task])
    /\ \A t \in Tasks, round \in 0..MaxVerifyRounds :
          \A s, u \in SessionsNamed(t, round) : s = u \/ ActedLate(t, round)

\* What is past remains so: a task waits again only in its next round.
LEMMA PastStep ==
    ASSUME Inv, Next, NEW t \in Tasks, NEW round \in Nat, Past(t, round) PROVE Past(t, round)'
<1>1. derived \in Derived /\ derived' \in Derived
  BY Typed, StoreStep DEF StoreInv, StoreTypeOK, Derived
<1>2. /\ derived.task[t] \in TaskStatuses /\ derived'.task[t] \in TaskStatuses
      /\ derived.rounds[t] \in Nat /\ derived'.rounds[t] \in Nat
  BY <1>1 DEF Derived
<1>3. \A s \in TaskStatuses : StageOf[s] = "waiting" <=> s \in {"pending", "awaiting_approval"}
  BY DEF StageOf, Active, Followed, TaskTerminal, TaskStatuses
<1>4. /\ Stage[t] = "waiting" <=> derived.task[t] \in {"pending", "awaiting_approval"}
      /\ Stage'[t] = "waiting" <=> derived'.task[t] \in {"pending", "awaiting_approval"}
  BY <1>2, <1>3 DEF Stage
<1>5. \/ derived'.rounds[t] = derived.rounds[t] /\ (Stage'[t] = "waiting" => Stage[t] = "waiting")
      \/ derived'.rounds[t] = derived.rounds[t] + 1
  <2> DEFINE Goal == \/ derived'.rounds[t] = derived.rounds[t] /\ (Stage'[t] = "waiting" => Stage[t] = "waiting")
                     \/ derived'.rounds[t] = derived.rounds[t] + 1
  <2>0. /\ derived.rounds \in [Tasks -> Nat] /\ derived'.rounds \in [Tasks -> Nat]
        /\ Stage = [u \in Tasks |-> Stage[u]] /\ Stage' = [u \in Tasks |-> Stage'[u]]
    BY <1>1 DEF Derived, Stage
  <2> HIDE DEF Stage
  <2>1. CASE Execution!Accept \/ Execution!Begin \/ Execution!End \/ UNCHANGED Execution!execVars
    BY <2>1 DEF Execution!Accept, Execution!Begin, Execution!End, Execution!execVars, Stage
  <2>2. ASSUME NEW u \in Tasks, Execution!SendBack(u) PROVE Goal
    BY <2>0, <2>2 DEF Execution!SendBack, Execution!MoveTo, Stage
  <2>3. ASSUME NEW u \in Tasks, Execution!Approve(u) PROVE Goal
    BY <2>0, <2>3 DEF Execution!Approve, Stage
  <2>4. ASSUME NEW u \in Tasks, Execution!Work(u) \/ Execution!Succeed(u) \/ Execution!Fail(u) PROVE Goal
    BY <2>0, <2>4 DEF Execution!Work, Execution!Succeed, Execution!Fail, Execution!MoveTo, Stage
  <2>5. QED
    BY <2>1, <2>2, <2>3, <2>4, PromiseStep DEF Promised, Execution!ExecNext
<1>6. QED
  BY <1>2, <1>4, <1>5 DEF Past

\* A session is born of this process's request, and then alone, or of a late one,
\* which is marked; what AO has acted upon stays marked.
BornKept ==
    /\ \A s \in SessionIds : ao'[s] \in {"live", "terminated"} =>
          ao[s] \in {"live", "terminated"} \/ ao[s] = "none"
    /\ \A s, u \in SessionIds : ao[s] = "none" /\ ao'[s] # "none" =>
          \/ <<TaskOf(s), RoundOf(s), "acted">> \in late'
          \/ Intended(TaskOf(s), RoundOf(s)) /\ pc' # "create" /\ (ao[u] = "none" /\ ao'[u] # "none" => s = u)
    /\ \A t \in Tasks, round \in 0..MaxVerifyRounds :
          <<t, round, "acted">> \in late => <<t, round, "acted">> \in late'

\* Every step sees to it.
LEMMA BornStep ==
    ASSUME Inv, Next PROVE BornKept
<1>c. /\ ao \in [SessionIds -> {"none", "live", "terminated", "gone"}]
      /\ pc = "create" => job.task \in Tasks /\ derived.task[job.task] = "dispatching"
      /\ phase \in {"tick", "dispatch"}
  BY Typed DEF Inv, TypeOK, JobInv, CreatePcs, StepTypes
<1>u. UNCHANGED aoVars => BornKept
  BY DEF aoVars, BornKept
<1> USE DEF BornKept
<1>1. CASE Bury \/ Kill \/ KillUnreachable
  BY <1>1, <1>c DEF Bury, Return, Terminated, Kill, KillUnreachable, AbortTick, At,
        Created, Intended
<1>2. ASSUME NEW s \in SessionIds, SessionEnds(s) \/ SessionRemoved(s)
           PROVE  BornKept
  BY <1>2, <1>c DEF SessionEnds, SessionRemoved, At, Created, Intended
<1>3. CASE CreateAnswered
  BY <1>3, <1>c DEF CreateAnswered, Fresh, At, Created, Intended
<1>4. ASSUME pc = "create", pc' # "create", RequestLost PROVE BornKept
  BY <1>4, <1>c DEF RequestLost, Created, Fresh, Intended, aoVars
<1>5. CASE CreateUnreachable \/ CreateRefused \/ Crash
  BY <1>4, <1>5, <1>c, <1>u DEF CreateUnreachable, CreateRefused, Crash, AbortTick, Return,
        Exit, At
<1>6. CASE LateCreate
  BY <1>6, <1>c DEF LateCreate, Fresh, At, Created, Intended
<1>7. CASE Start \/ Stop \/ Tick \/ (\E t \in Tasks : ReconcileAdopt(t)) \/
           (\E t \in Tasks : ReconcileCreate(t)) \/
           (\E t \in Tasks : ReconcileUnreachable(t)) \/
           (\E t \in Tasks : ReconcileInterrupted(t)) \/ Record \/ ReadState \/
           ReadReady \/ (\E t \in Tasks : Cascade(t)) \/ (\E t \in Tasks : Gate(t))
  BY <1>7, <1>u DEF Start, Stop, Exit, Tick, ReconcileAdopt, Reconciled, First,
        SessionsNamed, Existing, ReconcileCreate, ReconcileUnreachable, AbortTick,
        ReconcileInterrupted, Record, Return, TakeSlot, At, ReadState, ReadReady,
        Cascade, Blocked, Gate, Dispatched, MustWait, aoVars, runFrame
<1>8. CASE (\E t \in Tasks : Postpone(t)) \/ (\E t \in Tasks : Consider(t)) \/
           (\E d \in Tasks : ParentMerged(d)) \/
           (\E d \in Tasks : ParentConflict(d)) \/
           (\E d \in Tasks : ParentBlocked(d)) \/ ParentsChecked \/ Intent \/
           DependencyFailed \/ AllDispatched \/ PlanOver \/ PlanGoesOn
  BY <1>8, <1>u DEF Postpone, Dispatched, First, Consider, MustWait, ParentMerged,
        At, ParentConflict, ParentBlocked, Return, ParentsChecked, Intent,
        DependencyFailed, FailJob, FailAs, AllDispatched, PlanOver, Exit,
        PlanGoesOn, aoVars, runFrame, parentFrame
<1>9. CASE (\E t \in Tasks : PollUnreachable(t)) \/ (\E t \in Tasks : PollLost(t)) \/
           (\E t \in Tasks : PollNeedsHuman(t)) \/ (\E t \in Tasks : PollRunning(t)) \/
           (\E t \in Tasks : PollTimeout(t)) \/ (\E t \in Tasks : PollNoSignal(t)) \/
           (\E t \in Tasks : PollMerged(t)) \/ (\E t \in Tasks : PollEnded(t)) \/
           MarkerOK \/ MarkerFail \/ MarkerMalformed \/ MarkerAbsent
  BY <1>9, <1>u DEF PollUnreachable, Polled, AbortTick, PollLost, PollDone, FailAs,
        First, PollNeedsHuman, PollRunning, PollTimeout, PollGoesOn, PollNoSignal,
        PollMerged, PollEnded, MarkerOK, Goto, GoAndTell, NextStage, SetClock,
        MarkerFail, KillThen, KillFirst, MarkerMalformed, Return, MarkerAbsent,
        FailJob, aoVars
<1>10. CASE MarkerError \/ MarkerUnreachable \/ Tier0Pass \/ Tier0Empty \/ Tier0Fail \/
            CommitDone \/ CommitError \/ Tier1Pass \/ Tier1Fail \/ Tier1LLMError \/
            Tier1DiffError \/ MergeBranch \/ MergeDone
  BY <1>10, <1>u DEF MarkerError, FailJob, FailAs, Return, MarkerUnreachable,
        JobUnreachable, AbortTick, Tier0Pass, SetClock, AppendRow, GoAndTell,
        Tier0Empty, RetryOrFail, KillFirst, Tier0Fail, CommitDone, Goto,
        CommitError, Tier1Pass, Tier1Fail, Tier1LLMError, KillThen, Tier1DiffError,
        MergeBranch, MergeDone, aoVars
<1>11. CASE MergeConflict \/ MergeBlocked \/ MergeError \/ Finish \/ SettleRetry \/
            SettleFail
  BY <1>11, <1>u DEF MergeConflict, KillThen, KillFirst, Goto, GoAndTell,
        MergeBlocked, Return, MergeError, FailJob, FailAs, Finish, SettleRetry,
        SettleFail, aoVars
<1>12. CASE CLIApprovePlan \/ (\E t \in Tasks : CLIApprove(t)) \/
            (\E t \in Tasks : CLIReject(t)) \/ Interrupt
  BY <1>12, <1>u DEF CLIApprovePlan, CLIApprove, CLIReject, Interrupt, aoVars, cliFrame,
        runFrame
<1>13. QED
  BY <1>1, <1>2, <1>3, <1>4, <1>5, <1>6, <1>7, <1>8, <1>9, <1>10, <1>11, <1>12
     DEF Next, RunStep, PollStep, CLIStep, AOStep

\* A session is created where none has been seen.
AloneKept ==
    pc' = "create" =>
        /\ KeepsRounds
        /\ \/ pc = "create" /\ job'.task = job.task
           \/ pc = "intent" /\ job'.task = job.task /\ derived.task[job.task] = "pending"
           \/ SessionsNamed(job'.task, derived.rounds[job'.task]) = {}

\* Every step sees to it.
LEMMA AloneStep ==
    ASSUME Inv, Next PROVE AloneKept
<1>k. UNCHANGED <<pc, job>> /\ KeepsRounds => AloneKept
  BY DEF AloneKept
<1>e. /\ ApprovePlan => KeepsRounds
      /\ \A t \in Tasks : ApproveTask(t) \/ RejectTask(t) => KeepsRounds
  BY Typed, PlanEffects, TaskEffects DEF Turns, Moves
<1> USE DEF AloneKept
<1>1. CASE (\E t \in Tasks : ReconcileUnreachable(t)) \/ CreateUnreachable \/
           (\E t \in Tasks : PollUnreachable(t)) \/ MarkerUnreachable \/
           KillUnreachable
  BY <1>1, Typed DEF ReconcileUnreachable, Reconciled, AbortTick, CreateUnreachable,
        Created, Fresh, At, PollUnreachable, Polled, MarkerUnreachable,
        JobUnreachable, KillUnreachable, Terminated, StepTypes
<1>2. CASE Stop \/ (\E t \in Tasks : ReconcileInterrupted(t)) \/ Crash \/ PlanOver
  BY <1>2, Typed DEF Stop, Exit, ReconcileInterrupted, Reconciled, Crash, PlanOver,
        At, StepTypes
<1>3. CASE Start \/ Tick \/ CreateAnswered \/ CreateRefused
  BY <1>3, Typed DEF Start, Tick, CreateAnswered, Fresh, At, CreateRefused, Created,
        Return, TakeSlot, FailAs, jobVars, StepTypes
<1>4. CASE Record \/ ReadState \/ ReadReady \/ ParentsChecked
  BY <1>4, Typed DEF Record, Return, TakeSlot, At, ReadState, ReadReady,
        ParentsChecked, jobVars, StepTypes
<1>5. CASE DependencyFailed \/ AllDispatched \/ PlanGoesOn \/ MarkerFail
  BY <1>5, Typed DEF DependencyFailed, At, FailJob, FailAs, Return, AllDispatched,
        PlanGoesOn, MarkerFail, KillThen, KillFirst, Goto, GoAndTell, jobVars,
        StepTypes
<1>6. CASE MarkerMalformed \/ MarkerAbsent \/ MarkerError \/ Tier0Pass
  BY <1>6, Typed DEF MarkerMalformed, KillThen, KillFirst, Goto, GoAndTell,
        SetClock, Return, MarkerAbsent, FailJob, FailAs, MarkerError, Tier0Pass,
        AppendRow, At, StepTypes
<1>7. CASE Tier0Empty \/ Tier0Fail \/ CommitDone \/ CommitError
  BY <1>7, Typed DEF Tier0Empty, RetryOrFail, KillFirst, AppendRow, GoAndTell,
        Tier0Fail, CommitDone, SetClock, Goto, CommitError, FailJob, FailAs, Return,
        At, StepTypes
<1>8. CASE Tier1Pass \/ Tier1Fail \/ Tier1LLMError \/ Tier1DiffError
  BY <1>8, Typed DEF Tier1Pass, AppendRow, GoAndTell, Tier1Fail, RetryOrFail,
        KillFirst, SetClock, Tier1LLMError, KillThen, Goto, Return, Tier1DiffError,
        At, StepTypes
<1>9. CASE MergeBranch \/ MergeDone \/ MergeConflict \/ MergeBlocked \/ MergeError
  BY <1>9, Typed DEF MergeBranch, MergeDone, AppendRow, MergeConflict, KillThen, KillFirst, Goto,
        GoAndTell, MergeBlocked, Return, MergeError, FailJob, FailAs, At, StepTypes
<1>10. CASE Finish \/ Bury \/ Kill \/ SettleRetry
  BY <1>10, Typed DEF Finish, Return, Bury, Terminated, Kill, SettleRetry, jobVars,
        At, StepTypes
<1>11. ASSUME NEW t \in Tasks, Consider(t) \/ PollTimeout(t) \/ PollNoSignal(t) \/
                               PollMerged(t) PROVE AloneKept
  BY <1>11, Typed DEF Consider, Dispatched, First, MustWait, PollTimeout, Polled,
        PollGoesOn, PollNoSignal, PollDone, PollMerged, jobVars, At, StepTypes
<1>12. ASSUME NEW d \in Tasks, ParentConflict(d) \/ ParentBlocked(d)
           PROVE  AloneKept
  BY <1>12, Typed DEF ParentConflict, At, First, ParentBlocked, Return, StepTypes
<1>13. ASSUME NEW t \in Tasks, ReconcileCreate(t) PROVE AloneKept
  BY <1>13, Typed DEF ReconcileCreate, Reconciled, First, Jobs, Inv, LoopTypes,
        NoJob, KeepsRounds, storeVars
<1>14. CASE Intent
  <2>1. pc = "intent" /\ job.task \in Tasks /\ MarkTaskDispatching(job.task) /\ UNCHANGED job
    BY <1>14, JobTask DEF Intent, At, jobVars
  <2>2. QED
    BY <2>1, Typed, TaskEffects DEF Moves
<1>15. ASSUME NEW t \in Tasks, PollEnded(t) PROVE AloneKept
  BY <1>15, Typed DEF PollEnded, Polled, PollGoesOn, First, At, StepTypes
<1>16. CASE MarkerOK
  BY <1>16, StageNext DEF MarkerOK, Goto, GoAndTell, At, Stages
<1>17. CASE SettleFail
  BY <1>17, Typed DEF SettleFail, FailJob, FailAs, Return, At, StepTypes
<1>18. CASE (\E t \in Tasks : ReconcileAdopt(t)) \/ (\E t \in Tasks : Cascade(t)) \/
            (\E t \in Tasks : Gate(t)) \/ (\E t \in Tasks : Postpone(t)) \/
            (\E d \in Tasks : ParentMerged(d))
  BY <1>18 DEF ReconcileAdopt, Reconciled, First, SessionsNamed, Existing, Cascade,
        Blocked, Gate, Dispatched, MustWait, Postpone, ParentMerged, At, jobVars
<1>19. ASSUME NEW t \in Tasks, PollLost(t) \/ PollNeedsHuman(t) \/ PollRunning(t)
           PROVE  AloneKept
  BY <1>19 DEF PollLost, Polled, PollDone, FailAs, First, PollNeedsHuman,
        PollRunning, jobVars, At
<1>20. CASE CLIApprovePlan \/ (\E t \in Tasks : CLIApprove(t)) \/
            (\E t \in Tasks : CLIReject(t)) \/ LateCreate \/
            (\E s \in SessionIds : SessionEnds(s)) \/
            (\E s \in SessionIds : SessionRemoved(s)) \/ Interrupt
  BY <1>20, <1>k, <1>e DEF CLIApprovePlan, CLIApprove, CLIReject, LateCreate, Fresh,
        SessionEnds, SessionRemoved, Interrupt, cliFrame, jobVars, KeepsRounds,
        storeVars
<1>21. QED
  BY <1>1, <1>2, <1>3, <1>4, <1>5, <1>6, <1>7, <1>8, <1>9, <1>10, <1>11, <1>12,
     <1>13, <1>14, <1>15, <1>16, <1>17, <1>18, <1>19, <1>20
     DEF Next, RunStep, PollStep, CLIStep, AOStep

\* Every step keeps it.
LEMMA LoneStep == Inv /\ LoneInv /\ [Next]_vars => LoneInv'
<1> SUFFICES ASSUME Inv, LoneInv, [Next]_vars PROVE LoneInv'
  OBVIOUS
<1>1. CASE Next
  <2> USE <1>1
  <2>i. Inv'
    BY SchedulerStep
  <2>r. 0..MaxVerifyRounds \subseteq Nat
    BY Facts
  <2>s. \A s \in SessionIds : TaskOf(s) \in Tasks /\ RoundOf(s) \in 0..MaxVerifyRounds
    BY Facts
  <2>d. \A t \in Tasks : derived.rounds[t] \in 0..MaxVerifyRounds /\ derived'.rounds[t] \in 0..MaxVerifyRounds
    <3>1. derived \in Derived /\ derived' \in Derived
      BY Typed, StoreStep DEF StoreInv, StoreTypeOK, Derived
    <3>2. TaskInv /\ TaskInv'
      BY <2>i DEF Inv, ControlInv
    <3>3. QED
      BY <3>1, <3>2, Facts DEF TaskInv, Derived
  <2>p. ASSUME NEW t \in Tasks, NEW round, Intended(t, round) PROVE Past(t, round)
    BY <2>p DEF Intended, Past
  <2>1. ASSUME NEW s \in SessionIds, ao'[s] # "none" PROVE Past(TaskOf(s), RoundOf(s))'
    <3>1. Past(TaskOf(s), RoundOf(s))
      BY <2>1, <2>p, <2>s, SessionOrigin DEF Origin, LoneInv
    <3>2. QED
      BY <2>r, <2>s, <3>1, PastStep
  <2>2. ASSUME NEW t \in Tasks, NEW round \in 0..MaxVerifyRounds, NEW state \in {"pending", "acted"},
               <<t, round, state>> \in late'
        PROVE  Past(t, round)'
    <3>1. Past(t, round)
      BY <2>2, <2>p, SessionOrigin DEF Origin, LoneInv
    <3>2. QED
      BY <2>r, <3>1, PastStep
  <2>3. ASSUME NEW t \in Tasks, NEW round \in 0..MaxVerifyRounds, NEW s \in SessionsNamed(t, round)',
               s \notin SessionsNamed(t, round)
        PROVE  /\ s \in SessionIds /\ TaskOf(s) = t /\ RoundOf(s) = round /\ ao[s] = "none" /\ ao'[s] # "none"
               /\ ActedLate(t, round)' \/ (Intended(t, round) /\ pc' # "create")
    <3>1. s \in SessionIds /\ TaskOf(s) = t /\ RoundOf(s) = round /\ ao[s] = "none" /\ ao'[s] # "none"
      BY <2>3, BornStep DEF BornKept, SessionsNamed, Existing
    <3>2. QED
      BY <3>1, BornStep DEF BornKept, ActedLate
  <2>4. ASSUME NEW t \in Tasks, NEW round \in 0..MaxVerifyRounds,
               NEW s \in SessionsNamed(t, round)', NEW u \in SessionsNamed(t, round)', s # u
        PROVE  ActedLate(t, round)'
    <3>k. ActedLate(t, round) => ActedLate(t, round)'
      BY BornStep DEF BornKept, ActedLate
    <3>1. CASE s \in SessionsNamed(t, round) /\ u \in SessionsNamed(t, round)
      BY <2>4, <3>1, <3>k DEF LoneInv
    <3>2. CASE s \notin SessionsNamed(t, round) /\ u \notin SessionsNamed(t, round)
      BY <2>3, <2>4, <3>2, BornStep DEF BornKept, ActedLate
    <3>3. ASSUME SessionsNamed(t, round) # {}, Intended(t, round) PROVE ActedLate(t, round)'
      BY <3>k, <3>3 DEF LoneInv, Intended
    <3>4. QED
      BY <2>3, <2>4, <3>1, <3>2, <3>3
  <2>5. ASSUME pc' = "create"
        PROVE  SessionsNamed(job.task, derived.rounds[job.task])' = {} \/ ActedLate(job.task, derived.rounds[job.task])'
    <3>1. PICK t \in Tasks, round \in 0..MaxVerifyRounds :
             t = job'.task /\ round = derived'.rounds[t] /\ round = derived.rounds[t]
      BY <2>5, <2>d, <2>i, AloneStep DEF Inv, ControlInv, JobInv, CreatePcs, AloneKept, KeepsRounds
    <3>2. ASSUME SessionsNamed(t, round) = {}, ~ ActedLate(t, round)' PROVE SessionsNamed(t, round)' = {}
      BY <2>3, <2>5, <3>2
    <3>3. CASE pc = "create" /\ job'.task = job.task
      <4>1. ActedLate(t, round) => ActedLate(t, round)'
        BY BornStep DEF BornKept, ActedLate
      <4>2. SessionsNamed(t, round) = {} \/ ActedLate(t, round)
        BY <3>1, <3>3 DEF LoneInv
      <4>3. SessionsNamed(t, round)' = {} \/ ActedLate(t, round)'
        BY <3>2, <4>1, <4>2
      <4>4. QED
        BY <3>1, <4>3
    <3>4. CASE pc = "intent" /\ job'.task = job.task /\ derived.task[job.task] = "pending"
      <4>1. ~ Past(t, round)
        BY <2>d, <3>1, <3>4 DEF Past
      <4>2. SessionsNamed(t, round) = {}
        BY <4>1 DEF LoneInv, SessionsNamed, Existing
      <4>3. SessionsNamed(t, round)' = {} \/ ActedLate(t, round)'
        BY <3>2, <4>2
      <4>4. QED
        BY <3>1, <4>3
    <3>5. CASE SessionsNamed(job'.task, derived.rounds[job'.task]) = {}
      <4>1. SessionsNamed(t, round)' = {} \/ ActedLate(t, round)'
        BY <3>1, <3>2, <3>5
      <4>2. QED
        BY <3>1, <4>1
    <3>6. QED
      BY <2>5, <3>3, <3>4, <3>5, AloneStep DEF AloneKept
  <2>6. QED
    BY <2>1, <2>2, <2>4, <2>5 DEF LoneInv
<1>2. CASE UNCHANGED vars
  BY <1>2 DEF vars, storeVars, aoVars, jobVars, LoneInv, Past, ActedLate, SessionsNamed, Existing
<1>3. QED
  BY <1>1, <1>2

\* An older binary left one session for each task it finished.
LEMMA LoneInit == Init => LoneInv
<1>1. ASSUME NEW legacy, InitWith(legacy) PROVE LoneInv
  <2>1. \A s \in SessionIds : ao[s] # "none" => TaskOf(s) \in legacy /\ RoundOf(s) = 0 /\ CopyOf(s) = 1
    BY <1>1 DEF InitWith
  <2>2. ASSUME NEW s \in SessionIds, ao[s] # "none" PROVE Past(TaskOf(s), RoundOf(s))
    BY <1>1, <2>1, <2>2, Facts DEF InitWith, Past
  <2>3. ASSUME NEW s \in SessionIds, NEW u \in SessionIds, ao[s] # "none", ao[u] # "none", TaskOf(s) = TaskOf(u)
        PROVE  s = u
    <3>1. s \in Tasks \X (0..MaxVerifyRounds) \X (1..Copies) /\ u \in Tasks \X (0..MaxVerifyRounds) \X (1..Copies)
      BY SchedulerAssumption
    <3>2. RoundOf(s) = RoundOf(u) /\ CopyOf(s) = CopyOf(u)
      BY <2>1, <2>3
    <3>3. QED
      BY <2>3, <3>1, <3>2 DEF TaskOf, RoundOf, CopyOf
  <2>4. late = {} /\ pc = "off"
    BY <1>1 DEF InitWith
  <2>5. QED
    BY <2>2, <2>3, <2>4 DEF LoneInv, SessionsNamed, Existing
<1>2. QED
  BY <1>1 DEF Init

\* Dispatch is idempotent (scheduler.go, reconcileDispatching): whatever crashes and
\* lost answers come in between, no two sessions AO still has work at one round of
\* one task, unless AO acted on a request of that round after the client had given
\* it up.
THEOREM DispatchIsIdempotent == Spec => []OneSessionPerRound
<1>1. ASSUME LoneInv PROVE OneSessionPerRound
  <2> SUFFICES ASSUME NEW t \in Tasks, NEW round \in 0..MaxVerifyRounds, ~ ActedLate(t, round)
               PROVE  ~ (Cardinality(SessionsNamed(t, round)) > 1)
    BY DEF OneSessionPerRound, ActedLate
  <2>1. \A s, u \in SessionsNamed(t, round) : s = u
    BY <1>1 DEF LoneInv
  <2>2. CASE SessionsNamed(t, round) = {}
    BY <2>2, FS_EmptySet
  <2>3. CASE SessionsNamed(t, round) # {}
    <3>1. PICK s : SessionsNamed(t, round) = {s}
      BY <2>1, <2>3
    <3>2. QED
      BY <3>1, FS_Singleton
  <2>4. QED
    BY <2>2, <2>3
<1>2. Init => Inv /\ LoneInv
  BY SchedulerInit, LoneInit
<1>3. Inv /\ LoneInv /\ [Next]_vars => (Inv /\ LoneInv)'
  BY SchedulerStep, LoneStep
<1>4. QED
  BY <1>1, <1>2, <1>3, PTL DEF Spec
=============================================================================
