-------------------------- MODULE SchedulerProofs --------------------------
(***************************************************************************)
(* What is proved of Scheduler, for plans of any size, any number of slots, *)
(* rounds, sessions, crashes and late requests: the inductive invariant,   *)
(* step by step; its types and the bound on parallel tasks, which are      *)
(* parts of it; and that Scheduler implements PlanExecution.               *)
(***************************************************************************)
EXTENDS Scheduler, BrainStoreProofs, FiniteSetTheorems, WellFoundedInduction

\* Tasks that take a slot, and those whose parents are done.
Working == {t \in Tasks : derived.task[t] \in Active}
Founded(t) == \A d \in Deps[t] : derived.task[d] = "done"

\* Where the process is: in a poll, before a session of a dispatching task, or in
\* the calls of dispatchReady.
PollPcs     == {"marker", "kill", "settle", "finish"} \cup Stages
CreatePcs   == {"create", "created"}
DispatchPcs == {"cascade", "dispatch", "parents", "intent", "depFailed"}

\* A process runs while its plan does; it returns to the loop it came from.
PhaseInv ==
    /\ pc # "off" => derived.plan = "running"
    /\ pc \in DispatchPcs => phase = "dispatch"
    /\ pc \notin DispatchPcs \cup CreatePcs => phase = "tick"

\* What a snapshot says still holds where it matters: nobody but this process
\* moves the tasks left in its loops.
LoopInv ==
    /\ \A t \in toReconcile : derived.task[t] = "dispatching"
    /\ \A t \in toPoll : derived.task[t] \in Followed
    /\ \A t \in toDispatch : Founded(t)
    /\ seenApproved \subseteq derived.approved
    /\ pc = "cascade" => \A t \in Tasks :
          /\ derived.task[t] \in Active => seen[t] \in Active
          /\ seen[t] = "failed" => derived.task[t] = "failed"

\* The task in hand is where the handler thinks it is.
JobInv ==
    /\ pc \in PollPcs =>
          /\ job.task \in Tasks /\ job.task \notin toPoll
          /\ derived.task[job.task] \in Followed
          /\ job.session \in SessionIds
          /\ job.why = "retry" => derived.rounds[job.task] < MaxVerifyRounds
    /\ pc = "marker" => clock[job.task].progress # "unobserved"
    /\ pc = "finish" => job.why \in {"ok", "ao_merged"}
    /\ pc = "bury" => job.session \in SessionIds
    /\ pc \in CreatePcs \cup {"depFailed"} =>
          /\ job.task \in Tasks /\ job.task \notin toReconcile
          /\ derived.task[job.task] = "dispatching"
    /\ pc = "created" => job.session \in SessionIds
    /\ pc \in {"parents", "intent"} =>
          /\ job.task \in Tasks /\ Founded(job.task)
          /\ job.task \in Gated => job.task \in derived.approved
          /\ toCheck \subseteq Deps[job.task]

\* Awaiting tasks are gated ones whose parents are done; the budget holds.
TaskInv ==
    /\ \A t \in Tasks : derived.task[t] = "awaiting_approval" =>
          t \in Gated /\ Founded(t) /\ derived.plan = "running"
    /\ \A t \in Tasks : derived.rounds[t] <= MaxVerifyRounds

\* dispatchReady never counts fewer slots than are taken.
SlotInv ==
    /\ Cardinality(Working) <= MaxParallel
    /\ pc = "dispatch" => Cardinality(Working) <= active
    /\ pc \in {"parents", "intent"} => Cardinality(Working) <= active /\ active < MaxParallel
    /\ pc \in CreatePcs \cup {"depFailed"} /\ phase = "dispatch" =>
          Cardinality(Working \ {job.task}) <= active

ControlInv == PhaseInv /\ LoopInv /\ JobInv /\ TaskInv

Inv == TypeOK /\ StoreInv /\ ControlInv /\ SlotInv

-----------------------------------------------------------------------------
(* Types.                                                                  *)

LoopTypes ==
    /\ toReconcile \subseteq Tasks /\ toPoll \subseteq Tasks
    /\ toDispatch \subseteq Tasks /\ toCheck \subseteq Tasks
    /\ seen \in [Tasks -> TaskStatuses] /\ seenApproved \subseteq Tasks
    /\ active \in Nat

Whys == KindsKept \cup {"none", "ok", "ao_merged", "first", "retry"}
Jobs == [task : Tasks \cup {0}, session : SessionIds \cup {NoSession},
         dead : BOOLEAN, why : Whys]

Clocks == [progress : {"unobserved", "fresh", "verified", "committed", "graded"},
           bad : BOOLEAN, llmErrs : 0..LLMErrBound]

StepTypes ==
    /\ pc \in Pcs /\ phase \in {"tick", "dispatch"}
    /\ interrupted \in BOOLEAN /\ stops \in 0..MaxStops

AOTypes ==
    /\ ao \in [SessionIds -> {"none", "live", "terminated", "gone"}]
    /\ late \subseteq Tasks \X (0..MaxVerifyRounds) \X {"pending", "acted"}

RecordTypes ==
    /\ inDefault \subseteq SessionIds /\ merged \subseteq Tasks
    /\ rows \in [Tasks -> SUBSET RowKinds]
    /\ outcome \in [Tasks -> Outcomes]

\* The type invariant, in the parts that are proved one by one.
LEMMA TypeParts ==
    TypeOK <=> /\ StoreTypeOK /\ LoopTypes /\ StepTypes /\ AOTypes /\ RecordTypes
               /\ job \in Jobs /\ clock \in [Tasks -> Clocks] /\ ClocksOfFollowed
  BY DEF TypeOK, LoopTypes, StepTypes, AOTypes, RecordTypes, Jobs, Whys, Clocks

\* What the assumptions say of constants and of session names.
LEMMA Facts ==
    /\ LLMErrBound \in Nat /\ MaxVerifyRounds \in Nat /\ MaxParallel \in Nat
    /\ MaxStops \in Nat /\ MaxLate \in Nat
    /\ IsFiniteSet(Tasks) /\ Deps \in [Tasks -> SUBSET Tasks]
    /\ \A s \in SessionIds : TaskOf(s) \in Tasks /\ RoundOf(s) \in 0..MaxVerifyRounds
    /\ NoSession \notin SessionIds
<1>1. ASSUME NEW s \in SessionIds PROVE TaskOf(s) \in Tasks /\ RoundOf(s) \in 0..MaxVerifyRounds
  <2>1. s \in Tasks \X (0..MaxVerifyRounds) \X (1..Copies)
    BY <1>1, SchedulerAssumption
  <2>2. QED
    BY <2>1 DEF TaskOf, RoundOf
<1>2. QED
  BY <1>1, SchedulerAssumption, StoreAssumption

\* A process that starts has clocks and a job of the right type.
LEMMA NoTypes == NoClock \in Clocks /\ NoJob \in Jobs
  BY SchedulerAssumption DEF NoClock, Clocks, NoJob, Jobs, Whys

\* Noting a reason keeps the type of the job.
LEMMA WhyType ==
    ASSUME job \in Jobs, NEW why \in Whys PROVE [job EXCEPT !.why = why] \in Jobs
  BY DEF Jobs

\* Seeing a session work, or forgetting the task, keeps the type of the clocks.
LEMMA ClockType ==
    ASSUME clock \in [Tasks -> Clocks], NEW t \in Tasks
    PROVE  /\ Observed(t) \in [Tasks -> Clocks] /\ Unobserved(t) \in [Tasks -> Clocks]
           /\ Observed(t)[t].progress # "unobserved"
<1>1. NoClock \in Clocks
  BY NoTypes
<1>2. FreshClock \in Clocks /\ FreshClock.progress # "unobserved"
  BY <1>1 DEF FreshClock, Clocks
<1>3. QED
  BY <1>1, <1>2 DEF Observed, Unobserved

\* And so does each step of a verification, while the failures are below the bound.
LEMMA ClockSet ==
    ASSUME clock \in [Tasks -> Clocks], job.task \in Tasks
    PROVE  /\ \A b \in BOOLEAN : SetClock("bad", b) => clock' \in [Tasks -> Clocks]
           /\ \A p \in {"verified", "committed", "graded"} :
                 SetClock("progress", p) => clock' \in [Tasks -> Clocks]
           /\ \A n \in 0..LLMErrBound : SetClock("llmErrs", n) => clock' \in [Tasks -> Clocks]
           /\ [clock EXCEPT ![job.task].progress = "graded", ![job.task].llmErrs = 0]
                 \in [Tasks -> Clocks]
           /\ clock[job.task].llmErrs \in 0..LLMErrBound
           /\ 0 \in 0..LLMErrBound
<1>1. \A b \in BOOLEAN : SetClock("bad", b) => clock' \in [Tasks -> Clocks]
  BY DEF Clocks, SetClock
<1>2. \A p \in {"verified", "committed", "graded"} :
         SetClock("progress", p) => clock' \in [Tasks -> Clocks]
  BY DEF Clocks, SetClock
<1>3. \A n \in 0..LLMErrBound : SetClock("llmErrs", n) => clock' \in [Tasks -> Clocks]
  BY DEF Clocks, SetClock
<1>4. 0 \in 0..LLMErrBound /\ clock[job.task].llmErrs \in 0..LLMErrBound
  BY Facts DEF Clocks
<1>5. [clock EXCEPT ![job.task].progress = "graded", ![job.task].llmErrs = 0] \in [Tasks -> Clocks]
  BY <1>4 DEF Clocks
<1>6. QED
  BY <1>1, <1>2, <1>3, <1>4, <1>5

\* A task that is followed has the session to poll.
LEMMA SessionOfFollowed ==
    ASSUME Inv, NEW t \in toPoll PROVE t \in Tasks /\ session[t] \in SessionIds
<1>1. t \in Tasks /\ derived.task[t] \in Followed
  BY DEF Inv, ControlInv, LoopInv, TypeOK
<1>2. taskCache[t] \in Followed /\ session[t] \in SessionIds \cup {NoSession}
  BY <1>1 DEF Inv, StoreInv, StoreTypeOK, CacheMatchesReplay
<1>3. QED
  BY <1>1, <1>2 DEF Inv, StoreInv, SessionMatchesStatus

\* A parent that is done has the session whose branch is merged.
LEMMA SessionOfDone ==
    ASSUME Inv, NEW t \in Tasks, derived.task[t] = "done" PROVE session[t] \in SessionIds
<1>1. taskCache[t] = "done" /\ session[t] \in SessionIds \cup {NoSession}
  BY DEF Inv, StoreInv, StoreTypeOK, CacheMatchesReplay
<1>2. QED
  BY <1>1 DEF Inv, StoreInv, SessionMatchesStatus

\* A poll hands its handler a task, a session and a reason.
LEMMA HandedOver ==
    ASSUME Inv, NEW t \in toPoll, NEW next, NEW dead \in BOOLEAN, NEW why \in Whys,
           PollGoesOn(t, next, dead, why)
    PROVE  job' \in Jobs
  BY SessionOfFollowed DEF PollGoesOn, Jobs

\* Wherever the code uses the task in hand, there is one.
LEMMA JobTask ==
    ASSUME Inv
    PROVE  /\ pc \in PollPcs \cup CreatePcs \cup {"depFailed", "parents", "intent"} => job.task \in Tasks
           /\ pc \in PollPcs => job.session \in SessionIds
           /\ pc = "finish" => job.why \in {"ok", "ao_merged"}
           /\ pc = "marker" => clock[job.task].progress # "unobserved"
           /\ pc = "parents" => \A d \in toCheck \cap Tasks : session[d] \in SessionIds
<1>1. pc = "parents" => \A d \in toCheck : derived.task[d] = "done"
  BY DEF Inv, ControlInv, JobInv, Founded
<1>2. QED
  BY <1>1, SessionOfDone DEF Inv, ControlInv, JobInv, PollPcs, CreatePcs

\* tick's and dispatchReady's snapshots keep their types.
LEMMA LoopTypesStep ==
    ASSUME LoopTypes, StoreTypeOK, Next PROVE LoopTypes'
<1> USE DEF LoopTypes
<1>1. CASE (\E t \in Tasks : ReconcileUnreachable(t)) \/ CreateUnreachable \/
           (\E t \in Tasks : PollUnreachable(t)) \/ MarkerUnreachable \/
           KillUnreachable
  BY <1>1 DEF ReconcileUnreachable, Reconciled, AbortTick, CreateUnreachable,
        Created, Fresh, At, PollUnreachable, Polled, MarkerUnreachable,
        JobUnreachable, KillUnreachable, Terminated, ForgetLoops, ForgetJob,
        TaskStatuses
<1>2. CASE Stop \/ (\E t \in Tasks : ReconcileInterrupted(t)) \/ Crash \/ PlanOver
  BY <1>2 DEF Stop, Exit, ReconcileInterrupted, Reconciled, Crash, PlanOver,
        ForgetLoops, ForgetJob, TaskStatuses
<1>3. ASSUME NEW t \in Tasks, ReconcileAdopt(t) \/ ReconcileCreate(t)
           PROVE  LoopTypes'
  BY <1>3 DEF ReconcileAdopt, Reconciled, First, SessionsNamed, Existing,
        ReconcileCreate, jobVars
<1>4. ASSUME NEW t \in Tasks, Gate(t) \/ Postpone(t) \/ Consider(t)
           PROVE  LoopTypes'
  BY <1>4, Facts DEF Gate, Dispatched, First, MustWait, Postpone, Consider,
        dispatchFrame, jobVars
<1>5. ASSUME NEW d \in Tasks, ParentMerged(d) \/ ParentConflict(d) \/
                              ParentBlocked(d) PROVE LoopTypes'
  BY <1>5 DEF ParentMerged, At, First, ParentConflict, ParentBlocked, Return,
        jobFrame, loopVars, parentFrame, ForgetJob
<1>6. ASSUME NEW t \in Tasks, PollLost(t) \/ PollNeedsHuman(t) \/ PollRunning(t)
           PROVE  LoopTypes'
  BY <1>6 DEF PollLost, Polled, PollDone, FailAs, First, PollNeedsHuman,
        PollRunning, jobVars, pollFrame
<1>7. ASSUME NEW t \in Tasks, PollTimeout(t) \/ PollNoSignal(t) \/ PollMerged(t) \/
                              PollEnded(t) PROVE LoopTypes'
  BY <1>7 DEF PollTimeout, Polled, PollGoesOn, First, PollNoSignal, PollDone,
        PollMerged, PollEnded, pollFrame, jobVars
<1>8. CASE DependencyFailed \/ MarkerError \/ CommitError \/ MergeError \/
           SettleFail
  BY <1>8 DEF DependencyFailed, At, FailJob, FailAs, Return, MarkerError,
        CommitError, MergeError, SettleFail, jobFrame, loopVars, ForgetJob
<1>9. CASE MarkerMalformed \/ MarkerAbsent \/ Tier1LLMError
  BY <1>9 DEF MarkerMalformed, KillThen, KillFirst, Goto, GoAndTell, SetClock,
        Return, MarkerAbsent, FailJob, FailAs, Tier1LLMError, jobFrame, loopVars,
        ForgetJob
<1>10. CASE MergeBlocked \/ Finish \/ Bury \/ SettleRetry
  BY <1>10 DEF MergeBlocked, Return, Finish, Bury, Terminated, SettleRetry,
        jobFrame, loopVars, jobVars, ForgetJob
<1>11. CASE Tick
  BY <1>11 DEF Tick, jobVars
<1>12. CASE CreateRefused
  BY <1>12 DEF CreateRefused, Created, Return, TakeSlot, Fresh, At, FailAs,
        ForgetJob
<1>13. CASE Record
  BY <1>13 DEF Record, Return, TakeSlot, At, ForgetJob
<1>14. CASE ReadState
  BY <1>14, StoreTypeOK DEF ReadState, StoreTypeOK
<1>15. CASE ReadReady
  BY <1>15, Facts, FS_Subset, FS_CardinalityType DEF ReadReady, jobVars, Ready,
        TaskStatuses
<1>16. ASSUME NEW t \in Tasks, Cascade(t) PROVE LoopTypes'
  BY <1>16 DEF Cascade, Blocked, jobVars, TaskStatuses
<1>17. CASE AllDispatched
  BY <1>17 DEF AllDispatched, ForgetLoops, TaskStatuses
<1>18. CASE Start \/ CreateAnswered \/ ParentsChecked \/ Intent \/ PlanGoesOn
  BY <1>18 DEF Start, CreateAnswered, Fresh, At, ParentsChecked, Intent, PlanGoesOn,
        jobVars, loopVars, createFrame, jobFrame, parentFrame
<1>19. CASE MarkerOK \/ MarkerFail \/ Tier0Pass \/ Tier0Empty \/ Tier0Fail \/
            CommitDone \/ Tier1Pass \/ Tier1Fail \/ Tier1DiffError \/ MergeBranch \/ MergeDone \/
            MergeConflict \/ Kill
  BY <1>19 DEF MarkerOK, Goto, GoAndTell, NextStage, SetClock, MarkerFail, KillThen,
        KillFirst, Tier0Pass, AppendRow, Tier0Empty, RetryOrFail, Tier0Fail,
        CommitDone, Tier1Pass, Tier1Fail, Tier1DiffError, MergeBranch, MergeDone, MergeConflict,
        Kill, Terminated, jobFrame, loopVars, jobVars
<1>20. CASE CLIApprovePlan \/ (\E t \in Tasks : CLIApprove(t)) \/
            (\E t \in Tasks : CLIReject(t)) \/ LateCreate \/
            (\E s \in SessionIds : SessionEnds(s)) \/
            (\E s \in SessionIds : SessionRemoved(s)) \/ Interrupt
  BY <1>20 DEF CLIApprovePlan, CLIApprove, CLIReject, LateCreate, Fresh,
        SessionEnds, SessionRemoved, Interrupt, cliFrame, jobVars, loopVars
<1>21. QED
  BY <1>1, <1>2, <1>3, <1>4, <1>5, <1>6, <1>7, <1>8, <1>9, <1>10, <1>11, <1>12,
     <1>13, <1>14, <1>15, <1>16, <1>17, <1>18, <1>19, <1>20
     DEF Next, RunStep, PollStep, CLIStep, AOStep

\* Control goes only where the code has a call; stops are bounded.
LEMMA StepTypesStep ==
    ASSUME Inv, StepTypes, Next PROVE StepTypes'
<1> USE DEF StepTypes, Pcs, Stages
<1>1. CASE (\E t \in Tasks : ReconcileUnreachable(t)) \/ CreateUnreachable \/
           (\E t \in Tasks : PollUnreachable(t)) \/ MarkerUnreachable \/
           KillUnreachable
  BY <1>1 DEF ReconcileUnreachable, Reconciled, AbortTick, CreateUnreachable,
        Created, Fresh, At, PollUnreachable, Polled, MarkerUnreachable,
        JobUnreachable, KillUnreachable, Terminated, envVars
<1>2. CASE Stop \/ (\E t \in Tasks : ReconcileInterrupted(t)) \/ Crash \/ PlanOver
  BY <1>2, Facts DEF Stop, Exit, ReconcileInterrupted, Reconciled, Crash, PlanOver,
        envVars
<1>3. ASSUME NEW d \in Tasks, ParentConflict(d) \/ ParentBlocked(d)
           PROVE  StepTypes'
  BY <1>3 DEF ParentConflict, At, First, ParentBlocked, Return, envVars, jobFrame,
        parentFrame
<1>4. ASSUME NEW t \in Tasks, PollTimeout(t) \/ PollNoSignal(t) \/ PollMerged(t) \/
                              PollEnded(t) PROVE StepTypes'
  BY <1>4 DEF PollTimeout, Polled, PollGoesOn, First, PollNoSignal, PollDone,
        PollMerged, PollEnded, envVars, pollFrame, jobVars
<1>5. CASE DependencyFailed \/ MarkerError \/ CommitError \/ MergeError \/
           SettleFail
  BY <1>5 DEF DependencyFailed, At, FailJob, FailAs, Return, MarkerError,
        CommitError, MergeError, SettleFail, envVars, jobFrame
<1>6. CASE MarkerMalformed \/ MarkerAbsent \/ Tier1LLMError
  BY <1>6 DEF MarkerMalformed, KillThen, KillFirst, Goto, GoAndTell, SetClock,
        Return, MarkerAbsent, FailJob, FailAs, Tier1LLMError, envVars, jobFrame
<1>7. CASE MergeBlocked \/ Finish \/ Bury \/ SettleRetry
  BY <1>7 DEF MergeBlocked, Return, Finish, Bury, Terminated, SettleRetry, envVars,
        jobFrame, jobVars
<1>8. CASE MarkerFail \/ Tier1DiffError \/ MergeConflict \/ Tier0Pass \/ Tier0Empty \/
           Tier0Fail \/ CommitDone \/ Tier1Pass \/ Tier1Fail
  BY <1>8 DEF MarkerFail, KillThen, KillFirst, Goto, GoAndTell, Tier1DiffError,
        MergeConflict, Tier0Pass, SetClock, AppendRow, Tier0Empty, RetryOrFail,
        Tier0Fail, CommitDone, Tier1Pass, Tier1Fail, envVars, jobFrame
<1>9. CASE Start
  BY <1>9 DEF Start, jobVars
<1>10. CASE Tick
  BY <1>10 DEF Tick, envVars, jobVars
<1>11. ASSUME NEW t \in Tasks, ReconcileCreate(t) PROVE StepTypes'
  BY <1>11 DEF ReconcileCreate, Reconciled, First, envVars
<1>12. CASE CreateAnswered
  BY <1>12 DEF CreateAnswered, Fresh, At, createFrame, envVars, jobFrame
<1>13. CASE CreateRefused
  BY <1>13 DEF CreateRefused, Created, Return, TakeSlot, Fresh, At, FailAs, envVars
<1>14. CASE Record
  BY <1>14 DEF Record, Return, TakeSlot, At, envVars
<1>15. CASE ReadState
  BY <1>15 DEF ReadState, envVars
<1>16. CASE ReadReady
  BY <1>16 DEF ReadReady, envVars, jobVars
<1>17. ASSUME NEW t \in Tasks, Consider(t) PROVE StepTypes'
  BY <1>17 DEF Consider, Dispatched, First, MustWait, dispatchFrame, envVars
<1>18. CASE ParentsChecked
  BY <1>18 DEF ParentsChecked, At, envVars, jobFrame, parentFrame
<1>19. CASE Intent
  BY <1>19 DEF Intent, At, envVars, jobFrame, jobVars
<1>20. CASE AllDispatched
  BY <1>20 DEF AllDispatched, envVars
<1>21. CASE PlanGoesOn
  BY <1>21 DEF PlanGoesOn, envVars, jobVars
<1>22. CASE MarkerOK
  BY <1>22, JobTask, TypeParts DEF MarkerOK, Goto, GoAndTell, NextStage, SetClock,
        envVars, jobFrame, Inv, PollPcs, Clocks, At
<1>23. CASE MergeBranch \/ MergeDone
  BY <1>23 DEF MergeBranch, MergeDone, AppendRow, envVars, jobFrame, jobVars
<1>24. CASE Kill
  BY <1>24 DEF Kill, Terminated, envVars, jobFrame, jobVars
<1>25. CASE Interrupt
  BY <1>25, Facts DEF Interrupt, jobVars
<1>26. CASE (\E t \in Tasks : ReconcileAdopt(t)) \/ (\E t \in Tasks : Cascade(t)) \/
            (\E t \in Tasks : Gate(t)) \/ (\E t \in Tasks : Postpone(t)) \/
            (\E d \in Tasks : ParentMerged(d))
  BY <1>26 DEF ReconcileAdopt, Reconciled, First, SessionsNamed, Existing, Cascade,
        Blocked, Gate, Dispatched, MustWait, Postpone, ParentMerged, At, envVars,
        jobVars, dispatchFrame, jobFrame, parentFrame
<1>27. ASSUME NEW t \in Tasks, PollLost(t) \/ PollNeedsHuman(t) \/ PollRunning(t)
           PROVE  StepTypes'
  BY <1>27 DEF PollLost, Polled, PollDone, FailAs, First, PollNeedsHuman,
        PollRunning, envVars, jobVars, pollFrame
<1>28. CASE CLIApprovePlan \/ (\E t \in Tasks : CLIApprove(t)) \/
            (\E t \in Tasks : CLIReject(t)) \/ LateCreate \/
            (\E s \in SessionIds : SessionEnds(s)) \/
            (\E s \in SessionIds : SessionRemoved(s))
  BY <1>28 DEF CLIApprovePlan, CLIApprove, CLIReject, LateCreate, Fresh,
        SessionEnds, SessionRemoved, cliFrame, envVars, jobVars
<1>29. QED
  BY <1>1, <1>2, <1>3, <1>4, <1>5, <1>6, <1>7, <1>8, <1>9, <1>10, <1>11, <1>12,
     <1>13, <1>14, <1>15, <1>16, <1>17, <1>18, <1>19, <1>20, <1>21, <1>22, <1>23,
     <1>24, <1>25, <1>26, <1>27, <1>28
     DEF Next, RunStep, PollStep, CLIStep, AOStep

\* What the handler holds keeps its type.
LEMMA JobTypeStep ==
    ASSUME Inv, job \in Jobs, Next PROVE job' \in Jobs
<1>1. CASE (\E t \in Tasks : ReconcileUnreachable(t)) \/ CreateUnreachable \/
           (\E t \in Tasks : PollUnreachable(t)) \/ MarkerUnreachable \/
           KillUnreachable
  BY <1>1, NoTypes DEF ReconcileUnreachable, Reconciled, AbortTick,
        CreateUnreachable, Created, Fresh, At, PollUnreachable, Polled,
        MarkerUnreachable, JobUnreachable, KillUnreachable, Terminated, ForgetJob
<1>2. CASE Stop \/ (\E t \in Tasks : ReconcileInterrupted(t)) \/ Crash \/ PlanOver
  BY <1>2, NoTypes DEF Stop, Exit, ReconcileInterrupted, Reconciled, Crash,
        PlanOver, ForgetJob
<1>3. ASSUME NEW t \in Tasks, PollTimeout(t) \/ PollNoSignal(t) \/ PollEnded(t)
           PROVE  job' \in Jobs
  BY <1>3, HandedOver DEF PollTimeout, Polled, First, PollNoSignal, PollDone,
        PollEnded, jobVars, Kept, KindsKept, Whys
<1>4. CASE DependencyFailed \/ MarkerError \/ CommitError \/ MergeError \/
           SettleFail
  BY <1>4, NoTypes DEF DependencyFailed, At, FailJob, FailAs, Return, MarkerError,
        CommitError, MergeError, SettleFail, ForgetJob
<1>5. CASE MergeBlocked \/ Finish \/ Bury \/ SettleRetry
  BY <1>5, NoTypes DEF MergeBlocked, Return, Finish, Bury, Terminated, SettleRetry,
        jobVars, ForgetJob
<1>6. CASE MarkerFail \/ Tier1DiffError \/ MergeConflict
  BY <1>6, WhyType DEF MarkerFail, KillThen, KillFirst, Goto, GoAndTell,
        Tier1DiffError, MergeConflict, Kept, KindsKept, Whys
<1>7. CASE Tier0Pass \/ CommitDone \/ Tier1Pass
  BY <1>7, WhyType DEF Tier0Pass, SetClock, AppendRow, GoAndTell, CommitDone, Goto,
        Tier1Pass, Whys, KindsKept
<1>8. ASSUME NEW t \in Tasks, ReconcileCreate(t) PROVE job' \in Jobs
  BY <1>8 DEF ReconcileCreate, Reconciled, First, Jobs, Whys, NoJob
<1>9. CASE CreateAnswered
  BY <1>9 DEF CreateAnswered, Fresh, At, Jobs, Whys
<1>10. CASE CreateRefused
  BY <1>10, NoTypes DEF CreateRefused, Created, Return, TakeSlot, Fresh, At, FailAs,
        ForgetJob
<1>11. CASE Record
  BY <1>11, NoTypes DEF Record, Return, TakeSlot, At, ForgetJob
<1>12. ASSUME NEW t \in Tasks, Consider(t) PROVE job' \in Jobs
  BY <1>12 DEF Consider, Dispatched, First, MustWait, Jobs, Whys, NoJob
<1>13. ASSUME NEW d \in Tasks, ParentConflict(d) PROVE job' \in Jobs
  BY <1>13, WhyType DEF ParentConflict, At, First, Whys, KindsKept
<1>14. ASSUME NEW d \in Tasks, ParentBlocked(d) PROVE job' \in Jobs
  BY <1>14, NoTypes DEF ParentBlocked, At, First, Return, ForgetJob
<1>15. ASSUME NEW t \in Tasks, PollMerged(t) PROVE job' \in Jobs
  BY <1>15, SessionOfFollowed DEF PollMerged, Polled, First, Jobs, Whys
<1>16. CASE MarkerOK
  BY <1>16, WhyType DEF MarkerOK, Goto, GoAndTell, NextStage, SetClock, Whys,
        KindsKept
<1>17. CASE MarkerMalformed
  BY <1>17, NoTypes, WhyType DEF MarkerMalformed, KillThen, KillFirst, Goto,
        GoAndTell, SetClock, Return, ForgetJob, Kept, KindsKept, Whys
<1>18. CASE MarkerAbsent
  BY <1>18, NoTypes, WhyType DEF MarkerAbsent, KillThen, KillFirst, Goto, GoAndTell,
        SetClock, Return, FailJob, FailAs, ForgetJob, Kept, KindsKept, Whys
<1>19. CASE Tier0Empty
  BY <1>19, WhyType DEF Tier0Empty, RetryOrFail, KillFirst, AppendRow, GoAndTell,
        Whys, KindsKept
<1>20. CASE Tier0Fail
  BY <1>20, WhyType DEF Tier0Fail, RetryOrFail, KillFirst, GoAndTell, Whys,
        KindsKept
<1>21. CASE Tier1Fail
  BY <1>21, WhyType DEF Tier1Fail, RetryOrFail, KillFirst, GoAndTell, SetClock,
        Whys, KindsKept
<1>22. CASE Tier1LLMError
  BY <1>22, NoTypes, WhyType DEF Tier1LLMError, KillThen, KillFirst, Goto,
        GoAndTell, SetClock, Return, ForgetJob, Kept, KindsKept, Whys
<1>23. CASE MergeBranch \/ MergeDone
  BY <1>23, WhyType DEF MergeBranch, MergeDone, AppendRow, Whys, KindsKept, jobVars
<1>24. CASE Start \/ Tick \/ (\E t \in Tasks : ReconcileAdopt(t)) \/ ReadState \/
            ReadReady \/ (\E t \in Tasks : Cascade(t)) \/ (\E t \in Tasks : Gate(t)) \/
            (\E t \in Tasks : Postpone(t)) \/ (\E d \in Tasks : ParentMerged(d)) \/
            ParentsChecked \/ Intent \/ AllDispatched
  BY <1>24 DEF Start, Tick, ReconcileAdopt, Reconciled, First, SessionsNamed,
        Existing, ReadState, ReadReady, Cascade, Blocked, Gate, Dispatched,
        MustWait, Postpone, ParentMerged, At, ParentsChecked, Intent, AllDispatched,
        jobVars
<1>25. CASE PlanGoesOn
  BY <1>25 DEF PlanGoesOn, jobVars
<1>26. CASE (\E t \in Tasks : PollLost(t)) \/ (\E t \in Tasks : PollNeedsHuman(t)) \/
            (\E t \in Tasks : PollRunning(t)) \/ Kill
  BY <1>26 DEF PollLost, Polled, PollDone, FailAs, First, PollNeedsHuman,
        PollRunning, Kill, Terminated, jobVars
<1>27. CASE CLIApprovePlan \/ (\E t \in Tasks : CLIApprove(t)) \/
            (\E t \in Tasks : CLIReject(t)) \/ LateCreate \/
            (\E s \in SessionIds : SessionEnds(s)) \/
            (\E s \in SessionIds : SessionRemoved(s)) \/ Interrupt
  BY <1>27 DEF CLIApprovePlan, CLIApprove, CLIReject, LateCreate, Fresh,
        SessionEnds, SessionRemoved, Interrupt, cliFrame, jobVars
<1>28. QED
  BY <1>1, <1>2, <1>3, <1>4, <1>5, <1>6, <1>7, <1>8, <1>9, <1>10, <1>11, <1>12,
     <1>13, <1>14, <1>15, <1>16, <1>17, <1>18, <1>19, <1>20, <1>21, <1>22, <1>23,
     <1>24, <1>25, <1>26, <1>27
     DEF Next, RunStep, PollStep, CLIStep, AOStep

\* A request nobody waits for keeps the types of AO and of the late requests.
LEMMA RequestTypes ==
    ASSUME AOTypes, job.task \in Tasks, derived.rounds[job.task] \in 0..MaxVerifyRounds,
           RequestLost
    PROVE  AOTypes'
  BY DEF RequestLost, Created, Fresh, AOTypes, aoVars

\* AO and its late requests keep their types.
LEMMA AOTypesStep ==
    ASSUME Inv, AOTypes, Next PROVE AOTypes'
<1> USE DEF AOTypes
<1>r. /\ pc = "create" => job.task \in Tasks /\ derived.rounds[job.task] \in 0..MaxVerifyRounds
  BY JobTask, Facts DEF Inv, ControlInv, TaskInv, CreatePcs, StoreInv, StoreTypeOK
<1>1. CASE CreateAnswered
  BY <1>1 DEF CreateAnswered, Fresh, At
<1>2. CASE Bury \/ Kill \/ KillUnreachable
  BY <1>2 DEF Bury, Return, Terminated, Kill, KillUnreachable, AbortTick
<1>3. CASE CreateUnreachable \/ CreateRefused \/ Crash
  <2>1. (pc = "create" /\ RequestLost) \/ UNCHANGED aoVars
    BY <1>3 DEF CreateUnreachable, CreateRefused, Crash, At
  <2>2. QED
    BY <2>1, <1>r, RequestTypes DEF aoVars
<1>4. CASE LateCreate
  BY <1>4, Facts DEF LateCreate, Fresh
<1>5. ASSUME NEW s \in SessionIds, SessionEnds(s) PROVE AOTypes'
  BY <1>5 DEF SessionEnds
<1>6. ASSUME NEW s \in SessionIds, SessionRemoved(s) PROVE AOTypes'
  BY <1>6 DEF SessionRemoved
<1>7. CASE Start \/ Stop \/ Tick \/ (\E t \in Tasks : ReconcileAdopt(t)) \/
           (\E t \in Tasks : ReconcileCreate(t)) \/
           (\E t \in Tasks : ReconcileUnreachable(t)) \/
           (\E t \in Tasks : ReconcileInterrupted(t)) \/ Record \/ ReadState \/
           ReadReady \/ (\E t \in Tasks : Cascade(t)) \/ (\E t \in Tasks : Gate(t))
  BY <1>7 DEF Start, Stop, Exit, Tick, ReconcileAdopt, Reconciled, First,
        SessionsNamed, Existing, ReconcileCreate, ReconcileUnreachable, AbortTick,
        ReconcileInterrupted, Record, Return, TakeSlot, At, ReadState, ReadReady,
        Cascade, Blocked, Gate, Dispatched, MustWait, aoVars, runFrame
<1>8. CASE (\E t \in Tasks : Postpone(t)) \/ (\E t \in Tasks : Consider(t)) \/
           (\E d \in Tasks : ParentMerged(d)) \/
           (\E d \in Tasks : ParentConflict(d)) \/
           (\E d \in Tasks : ParentBlocked(d)) \/ ParentsChecked \/ Intent \/
           DependencyFailed \/ AllDispatched \/ PlanOver \/ PlanGoesOn
  BY <1>8 DEF Postpone, Dispatched, First, Consider, MustWait, ParentMerged, At,
        ParentConflict, ParentBlocked, Return, ParentsChecked, Intent,
        DependencyFailed, FailJob, FailAs, AllDispatched, PlanOver, Exit,
        PlanGoesOn, aoVars, runFrame, parentFrame
<1>9. CASE (\E t \in Tasks : PollUnreachable(t)) \/ (\E t \in Tasks : PollLost(t)) \/
           (\E t \in Tasks : PollNeedsHuman(t)) \/ (\E t \in Tasks : PollRunning(t)) \/
           (\E t \in Tasks : PollTimeout(t)) \/ (\E t \in Tasks : PollNoSignal(t)) \/
           (\E t \in Tasks : PollMerged(t)) \/ (\E t \in Tasks : PollEnded(t)) \/
           MarkerOK \/ MarkerFail \/ MarkerMalformed \/ MarkerAbsent
  BY <1>9 DEF PollUnreachable, Polled, AbortTick, PollLost, PollDone, FailAs, First,
        PollNeedsHuman, PollRunning, PollTimeout, PollGoesOn, PollNoSignal,
        PollMerged, PollEnded, MarkerOK, Goto, GoAndTell, NextStage, SetClock,
        MarkerFail, KillThen, KillFirst, MarkerMalformed, Return, MarkerAbsent,
        FailJob, aoVars
<1>10. CASE MarkerError \/ MarkerUnreachable \/ Tier0Pass \/ Tier0Empty \/ Tier0Fail \/
            CommitDone \/ CommitError \/ Tier1Pass \/ Tier1Fail \/ Tier1LLMError \/
            Tier1DiffError \/ MergeBranch \/ MergeDone
  BY <1>10 DEF MarkerError, FailJob, FailAs, Return, MarkerUnreachable,
        JobUnreachable, AbortTick, Tier0Pass, SetClock, AppendRow, GoAndTell,
        Tier0Empty, RetryOrFail, KillFirst, Tier0Fail, CommitDone, Goto,
        CommitError, Tier1Pass, Tier1Fail, Tier1LLMError, KillThen, Tier1DiffError,
        MergeBranch, MergeDone, aoVars
<1>11. CASE MergeConflict \/ MergeBlocked \/ MergeError \/ Finish \/ SettleRetry \/
            SettleFail
  BY <1>11 DEF MergeConflict, KillThen, KillFirst, Goto, GoAndTell, MergeBlocked,
        Return, MergeError, FailJob, FailAs, Finish, SettleRetry, SettleFail, aoVars
<1>12. CASE CLIApprovePlan \/ (\E t \in Tasks : CLIApprove(t)) \/
            (\E t \in Tasks : CLIReject(t)) \/ Interrupt
  BY <1>12 DEF CLIApprovePlan, CLIApprove, CLIReject, Interrupt, aoVars, cliFrame,
        runFrame
<1>13. QED
  BY <1>1, <1>2, <1>3, <1>4, <1>5, <1>6, <1>7, <1>8, <1>9, <1>10, <1>11, <1>12
     DEF Next, RunStep, PollStep, CLIStep, AOStep

\* Branches, informational rows and outcomes keep their types.
LEMMA RecordTypesStep ==
    ASSUME Inv, RecordTypes, StepTypes, LoopTypes, Next PROVE RecordTypes'
<1> USE DEF RecordTypes, At, PollPcs, CreatePcs, Stages
<1>1. CASE Stop \/ (\E t \in Tasks : ReconcileInterrupted(t)) \/ Crash \/ PlanOver
  BY <1>1 DEF Stop, Exit, ReconcileInterrupted, Reconciled, Crash, PlanOver,
        rowVars, runFrame
<1>2. ASSUME NEW t \in Tasks, PollLost(t) PROVE RecordTypes'
  BY <1>2, JobTask DEF PollLost, Polled, PollDone, FailAs, First, pollFrame, Kept,
        KindsKept, Outcomes
<1>3. ASSUME NEW t \in Tasks, PollMerged(t) PROVE RecordTypes'
  BY <1>3, SessionOfFollowed DEF PollMerged, Polled, First, pollFrame, rowVars
<1>4. CASE DependencyFailed \/ MarkerError \/ CommitError \/ MergeError \/
           SettleFail
  BY <1>4, JobTask DEF DependencyFailed, At, FailJob, FailAs, Return, MarkerError,
        CommitError, MergeError, SettleFail, Kept, KindsKept, Outcomes
<1>5. CASE CreateRefused
  BY <1>5, JobTask DEF CreateRefused, Created, Return, TakeSlot, Fresh, At, FailAs,
        Kept, KindsKept, Outcomes
<1>6. ASSUME NEW t \in Tasks, Cascade(t) PROVE RecordTypes'
  BY <1>6 DEF Cascade, Blocked, memVars, Outcomes, KindsKept
<1>7. ASSUME NEW d \in Tasks, ParentMerged(d) PROVE RecordTypes'
  BY <1>7, JobTask DEF ParentMerged, At, First, parentFrame, rowVars
<1>8. CASE MarkerAbsent
  BY <1>8, JobTask DEF MarkerAbsent, KillThen, KillFirst, Goto, GoAndTell, SetClock,
        Return, FailJob, FailAs, rowVars, Kept, KindsKept, Outcomes
<1>9. CASE Tier0Pass
  BY <1>9, JobTask DEF Tier0Pass, SetClock, AppendRow, GoAndTell, RowKinds
<1>10. CASE Tier0Empty
  BY <1>10, JobTask DEF Tier0Empty, RetryOrFail, KillFirst, AppendRow, GoAndTell,
        RowKinds
<1>11. CASE Tier1Pass
  BY <1>11, JobTask DEF Tier1Pass, AppendRow, GoAndTell, RowKinds
<1>12. CASE MergeBranch \/ MergeDone
  BY <1>12, JobTask DEF MergeBranch, MergeDone, AppendRow, RowKinds, rowVars, memVars
<1>13. CASE Finish
  BY <1>13, JobTask DEF Finish, Return, Outcomes
<1>14. CASE SettleRetry
  BY <1>14, JobTask DEF SettleRetry, Return, RowKinds
<1>15. ASSUME NEW t \in Tasks, CLIReject(t) PROVE RecordTypes'
  BY <1>15 DEF CLIReject, cliFrame, memVars, Outcomes, KindsKept
<1>16. CASE Start \/ Tick \/ (\E t \in Tasks : ReconcileAdopt(t)) \/
            (\E t \in Tasks : ReconcileCreate(t)) \/
            (\E t \in Tasks : ReconcileUnreachable(t)) \/ CreateAnswered \/
            CreateUnreachable \/ Record \/ ReadState \/ ReadReady \/
            (\E t \in Tasks : Gate(t)) \/ (\E t \in Tasks : Postpone(t))
  BY <1>16 DEF Start, Tick, ReconcileAdopt, Reconciled, First, SessionsNamed,
        Existing, ReconcileCreate, ReconcileUnreachable, AbortTick, CreateAnswered,
        Fresh, At, CreateUnreachable, Created, Record, Return, TakeSlot, ReadState,
        ReadReady, Gate, Dispatched, MustWait, Postpone, memVars, rowVars, runFrame,
        createFrame, dispatchFrame
<1>17. CASE (\E t \in Tasks : Consider(t)) \/ (\E d \in Tasks : ParentConflict(d)) \/
            (\E d \in Tasks : ParentBlocked(d)) \/ ParentsChecked \/ Intent \/
            AllDispatched \/ PlanGoesOn
  BY <1>17 DEF Consider, Dispatched, First, MustWait, ParentConflict, At,
        ParentBlocked, Return, ParentsChecked, Intent, AllDispatched, PlanGoesOn,
        dispatchFrame, memVars, rowVars, runFrame, parentFrame
<1>18. CASE (\E t \in Tasks : PollUnreachable(t)) \/
            (\E t \in Tasks : PollNeedsHuman(t)) \/
            (\E t \in Tasks : PollRunning(t)) \/ (\E t \in Tasks : PollTimeout(t)) \/
            (\E t \in Tasks : PollNoSignal(t)) \/ (\E t \in Tasks : PollEnded(t)) \/
            MarkerOK \/ MarkerFail \/ MarkerMalformed \/ MarkerUnreachable \/
            Tier0Fail \/ CommitDone
  BY <1>18 DEF PollUnreachable, Polled, AbortTick, PollNeedsHuman, PollDone, First,
        PollRunning, PollTimeout, PollGoesOn, PollNoSignal, PollEnded, MarkerOK,
        Goto, GoAndTell, NextStage, SetClock, MarkerFail, KillThen, KillFirst,
        MarkerMalformed, Return, MarkerUnreachable, JobUnreachable, Tier0Fail,
        RetryOrFail, CommitDone, memVars, rowVars, pollFrame
<1>19. CASE Tier1Fail \/ Tier1LLMError \/ Tier1DiffError \/ MergeConflict \/
            MergeBlocked \/ Bury \/ Kill \/ KillUnreachable
  BY <1>19 DEF Tier1Fail, RetryOrFail, KillFirst, GoAndTell, SetClock,
        Tier1LLMError, KillThen, Goto, Return, Tier1DiffError, MergeConflict,
        MergeBlocked, Bury, Terminated, Kill, KillUnreachable, AbortTick, rowVars,
        memVars
<1>20. CASE CLIApprovePlan \/ (\E t \in Tasks : CLIApprove(t)) \/ LateCreate \/
            (\E s \in SessionIds : SessionEnds(s)) \/
            (\E s \in SessionIds : SessionRemoved(s)) \/ Interrupt
  BY <1>20 DEF CLIApprovePlan, CLIApprove, LateCreate, Fresh, SessionEnds,
        SessionRemoved, Interrupt, cliFrame, memVars, rowVars, runFrame
<1>21. QED
  BY <1>1, <1>2, <1>3, <1>4, <1>5, <1>6, <1>7, <1>8, <1>9, <1>10, <1>11, <1>12,
     <1>13, <1>14, <1>15, <1>16, <1>17, <1>18, <1>19, <1>20
     DEF Next, RunStep, PollStep, CLIStep, AOStep

\* The clocks keep their types.
LEMMA ClockTypeStep ==
    ASSUME Inv, clock \in [Tasks -> Clocks], Next PROVE clock' \in [Tasks -> Clocks]
<1> USE DEF At, PollPcs, CreatePcs, Stages
<1>1. CASE Stop \/ (\E t \in Tasks : ReconcileInterrupted(t)) \/ Crash \/ PlanOver
  BY <1>1, NoTypes DEF Stop, Exit, ReconcileInterrupted, Reconciled, Crash, PlanOver
<1>2. ASSUME NEW t \in Tasks, PollLost(t) \/ PollNeedsHuman(t) \/ PollRunning(t)
           PROVE  clock' \in [Tasks -> Clocks]
  BY <1>2, ClockType DEF PollLost, Polled, PollDone, FailAs, First, PollNeedsHuman,
        PollRunning
<1>3. ASSUME NEW t \in Tasks, PollTimeout(t) \/ PollNoSignal(t) \/ PollMerged(t) \/
                              PollEnded(t) PROVE clock' \in [Tasks -> Clocks]
  BY <1>3, ClockType DEF PollTimeout, Polled, PollGoesOn, First, PollNoSignal,
        PollDone, PollMerged, PollEnded
<1>4. CASE DependencyFailed \/ MarkerError \/ CommitError \/ MergeError \/
           SettleFail
  BY <1>4, JobTask, ClockType DEF DependencyFailed, At, FailJob, FailAs, Return,
        MarkerError, CommitError, MergeError, SettleFail
<1>5. CASE CreateRefused
  BY <1>5, JobTask, ClockType DEF CreateRefused, Created, Return, TakeSlot, Fresh,
        At, FailAs
<1>6. CASE MarkerOK
  BY <1>6, JobTask, ClockSet DEF MarkerOK, Goto, GoAndTell
<1>7. CASE MarkerMalformed
  BY <1>7, JobTask, ClockSet DEF MarkerMalformed, KillThen, Goto, GoAndTell, Return
<1>8. CASE MarkerAbsent
  <2>1. CASE job.dead
    BY <1>8, <2>1, JobTask, ClockType DEF MarkerAbsent, FailJob
  <2>2. CASE ~job.dead
    <3>1. SetClock("bad", FALSE) /\ job.task \in Tasks
      BY <1>8, <2>2, JobTask DEF MarkerAbsent
    <3>2. QED
      BY <3>1, ClockSet
  <2>3. QED
    BY <2>1, <2>2
<1>9. CASE Tier0Pass
  BY <1>9, JobTask, ClockSet DEF Tier0Pass, GoAndTell
<1>10. CASE CommitDone
  BY <1>10, JobTask, ClockSet DEF CommitDone, Goto, GoAndTell
<1>11. CASE Tier1Pass
  BY <1>11, JobTask, ClockSet, Facts DEF Tier1Pass, GoAndTell
<1>12. CASE Tier1Fail
  BY <1>12, JobTask, ClockSet, Facts DEF Tier1Fail, GoAndTell
<1>13. CASE Tier1LLMError
  BY <1>13, JobTask, ClockSet, Facts DEF Tier1LLMError, KillThen, Goto, GoAndTell,
        Return
<1>14. CASE Finish
  BY <1>14, JobTask, ClockType DEF Finish, Return
<1>15. CASE SettleRetry
  BY <1>15, JobTask, ClockType DEF SettleRetry, Return
<1>16. CASE Start \/ Tick \/ (\E t \in Tasks : ReconcileAdopt(t)) \/
            (\E t \in Tasks : ReconcileCreate(t)) \/
            (\E t \in Tasks : ReconcileUnreachable(t)) \/ CreateAnswered \/
            CreateUnreachable \/ Record \/ ReadState \/ ReadReady \/
            (\E t \in Tasks : Cascade(t)) \/ (\E t \in Tasks : Gate(t))
  BY <1>16 DEF Start, Tick, ReconcileAdopt, Reconciled, First, SessionsNamed,
        Existing, ReconcileCreate, ReconcileUnreachable, AbortTick, CreateAnswered,
        Fresh, At, CreateUnreachable, Created, Record, Return, TakeSlot, ReadState,
        ReadReady, Cascade, Blocked, Gate, Dispatched, MustWait, memVars,
        dispatchFrame
<1>17. CASE (\E t \in Tasks : Postpone(t)) \/ (\E t \in Tasks : Consider(t)) \/
            (\E d \in Tasks : ParentMerged(d)) \/
            (\E d \in Tasks : ParentConflict(d)) \/
            (\E d \in Tasks : ParentBlocked(d)) \/ ParentsChecked \/ Intent \/
            AllDispatched \/ PlanGoesOn
  BY <1>17 DEF Postpone, Dispatched, First, Consider, MustWait, ParentMerged, At,
        ParentConflict, ParentBlocked, Return, ParentsChecked, Intent,
        AllDispatched, PlanGoesOn, dispatchFrame, memVars, parentFrame
<1>18. CASE (\E t \in Tasks : PollUnreachable(t)) \/ MarkerFail \/ MarkerUnreachable \/
            Tier0Empty \/ Tier0Fail \/ Tier1DiffError \/ MergeBranch \/ MergeDone \/ MergeConflict \/
            MergeBlocked \/ Bury \/ Kill \/ KillUnreachable
  BY <1>18 DEF PollUnreachable, Polled, AbortTick, MarkerFail, KillThen, Goto,
        GoAndTell, MarkerUnreachable, JobUnreachable, Tier0Empty, Tier0Fail,
        Tier1DiffError, MergeBranch, MergeDone, MergeConflict, MergeBlocked, Return, Bury,
        Terminated, Kill, KillUnreachable, memVars
<1>19. CASE CLIApprovePlan \/ (\E t \in Tasks : CLIApprove(t)) \/
            (\E t \in Tasks : CLIReject(t)) \/ LateCreate \/
            (\E s \in SessionIds : SessionEnds(s)) \/
            (\E s \in SessionIds : SessionRemoved(s)) \/ Interrupt
  BY <1>19 DEF CLIApprovePlan, CLIApprove, CLIReject, LateCreate, Fresh,
        SessionEnds, SessionRemoved, Interrupt, cliFrame, memVars
<1>20. QED
  BY <1>1, <1>2, <1>3, <1>4, <1>5, <1>6, <1>7, <1>8, <1>9, <1>10, <1>11, <1>12,
     <1>13, <1>14, <1>15, <1>16, <1>17, <1>18, <1>19
     DEF Next, RunStep, PollStep, CLIStep, AOStep

(***************************************************************************)
(* Every step keeps the parts of the invariant that are no types: where    *)
(* the process is, what its snapshots and its task in hand still mean, the *)
(* gates and budgets, and the slots.  Each part needs the others before    *)
(* the step, and what the store's transactions do.                         *)
(***************************************************************************)
-----------------------------------------------------------------------------
(* What the transactions do to the replay.                                 *)

KeepsPlan == derived'.plan = derived.plan
KeepsRounds == derived'.rounds = derived.rounds
KeepsApproved == derived'.approved = derived.approved

SetsTask(t, s) == derived'.task = [derived.task EXCEPT ![t] = s]

Moves(t, from, to) ==
    /\ derived.task[t] \in from /\ SetsTask(t, to)
    /\ KeepsPlan /\ KeepsRounds /\ KeepsApproved

Turns(from, to) ==
    /\ derived.plan \in from /\ derived'.plan = to
    /\ derived'.task = derived.task /\ KeepsRounds /\ KeepsApproved

\* A transaction moves its task, or turns the plan, and nothing else but for a
\* retry and an approval.
LEMMA TaskEffects ==
    ASSUME StoreInv, NEW t \in Tasks
    PROVE  /\ MarkTaskDispatching(t) => Moves(t, {"pending"}, "dispatching")
           /\ \A s : DispatchTask(t, s) => Moves(t, {"pending", "dispatching"}, "dispatched")
           /\ StartTask(t) => Moves(t, {"dispatched"}, "running")
           /\ MarkTaskNeedsHuman(t) => Moves(t, {"dispatched", "running"}, "needs_human")
           /\ ResumeTask(t) => Moves(t, {"needs_human"}, "running")
           /\ RequestTaskApproval(t) => Moves(t, {"pending"}, "awaiting_approval")
           /\ RejectTask(t) => Moves(t, {"awaiting_approval"}, "failed")
           /\ FinishTask(t) => Moves(t, Followed, "done")
           /\ FailTask(t) => Moves(t, Active \cup {"awaiting_approval"}, "failed")
           /\ FailPendingTask(t) => Moves(t, {"pending"}, "failed")
           /\ ApproveTask(t) =>
                 /\ derived.task[t] = "awaiting_approval" /\ SetsTask(t, "pending")
                 /\ KeepsPlan /\ KeepsRounds /\ derived'.approved = derived.approved \cup {t}
           /\ RetryTask(t) =>
                 /\ derived.task[t] \in Followed /\ SetsTask(t, "pending")
                 /\ KeepsPlan /\ KeepsApproved
                 /\ derived'.rounds = [derived.rounds EXCEPT ![t] = @ + 1]
<1>t. derived \in Derived /\ taskCache = derived.task
  BY DEF StoreInv, StoreTypeOK, CacheMatchesReplay, Derived
<1> USE <1>t DEF TaskTransition, ReplayTask, Derived, TaskStatusAfter, Moves, SetsTask, KeepsPlan,
               KeepsRounds, KeepsApproved
<1>1. ASSUME MarkTaskDispatching(t) PROVE Moves(t, {"pending"}, "dispatching")
  BY <1>1 DEF MarkTaskDispatching
<1>2. ASSUME StartTask(t) PROVE Moves(t, {"dispatched"}, "running")
  BY <1>2 DEF StartTask
<1>3. ASSUME MarkTaskNeedsHuman(t) PROVE Moves(t, {"dispatched", "running"}, "needs_human")
  BY <1>3 DEF MarkTaskNeedsHuman
<1>4. ASSUME ResumeTask(t) PROVE Moves(t, {"needs_human"}, "running")
  BY <1>4 DEF ResumeTask
<1>5. ASSUME RequestTaskApproval(t) PROVE Moves(t, {"pending"}, "awaiting_approval")
  BY <1>5 DEF RequestTaskApproval
<1>6. ASSUME RejectTask(t) PROVE Moves(t, {"awaiting_approval"}, "failed")
  BY <1>6 DEF RejectTask
<1>7. ASSUME FinishTask(t) PROVE Moves(t, Followed, "done")
  BY <1>7 DEF FinishTask
<1>8. ASSUME FailTask(t) PROVE Moves(t, Active \cup {"awaiting_approval"}, "failed")
  BY <1>8 DEF FailTask
<1>9. ASSUME FailPendingTask(t) PROVE Moves(t, {"pending"}, "failed")
  BY <1>9 DEF FailPendingTask
<1>10. ASSUME NEW s, DispatchTask(t, s) PROVE Moves(t, {"pending", "dispatching"}, "dispatched")
  BY <1>10 DEF DispatchTask
<1>11. ASSUME ApproveTask(t)
      PROVE  /\ derived.task[t] = "awaiting_approval" /\ SetsTask(t, "pending")
             /\ KeepsPlan /\ KeepsRounds /\ derived'.approved = derived.approved \cup {t}
  BY <1>11 DEF ApproveTask
<1>12. ASSUME RetryTask(t)
      PROVE  /\ derived.task[t] \in Followed /\ SetsTask(t, "pending") /\ KeepsPlan /\ KeepsApproved
             /\ derived'.rounds = [derived.rounds EXCEPT ![t] = @ + 1]
  BY <1>12 DEF RetryTask
<1>13. QED
  BY <1>1, <1>2, <1>3, <1>4, <1>5, <1>6, <1>7, <1>8, <1>9, <1>10, <1>11, <1>12

\* The transactions on the plan turn it, and touch no task.
LEMMA PlanEffects ==
    ASSUME StoreInv
    PROVE  /\ ApprovePlan => Turns({"draft"}, "approved")
           /\ StartRun => Turns({"approved", "running"}, "running")
           /\ FinishPlan => Turns({"running"}, "done")
           /\ FailPlan => Turns(PlanStatuses \ PlanTerminal, "failed")
<1>1. derived \in Derived /\ planCache = derived.plan
  BY DEF StoreInv, StoreTypeOK, CacheMatchesReplay, Derived
<1>2. QED
  BY <1>1 DEF ApprovePlan, StartRun, FinishPlan, FailPlan, PlanTransition, ReplayPlan, Derived,
              PlanStatusAfter, Turns, KeepsRounds, KeepsApproved

\* The parts of the invariant the steps below need.
LEMMA Typed == Inv => StoreInv /\ derived \in Derived /\ LoopTypes /\ StepTypes /\ job \in Jobs
                      /\ PhaseInv /\ LoopInv /\ JobInv /\ TaskInv
  BY TypeParts DEF Inv, StoreTypeOK, Derived, ControlInv

\* A verified marker leads to a stage.
LEMMA StageNext ==
    ASSUME Inv, pc = "marker" PROVE NextStage(job.task) \in Stages
<1>1. job.task \in Tasks /\ clock[job.task].progress # "unobserved"
  BY JobTask DEF PollPcs
<1>2. clock[job.task] \in Clocks
  BY <1>1, TypeParts DEF Inv
<1>3. QED
  BY <1>1, <1>2 DEF Clocks, NextStage, Stages

\* Whatever the scheduler does, it uses the store as BrainStore allows: each
\* call is for a task of the plan, with a session where one is to be recorded.
LEMMA StoreClient ==
    ASSUME Inv, Next PROVE [StoreNext]_storeVars
<1>p. ASSUME PlanOperation PROVE [StoreNext]_storeVars
  BY <1>p DEF StoreNext
<1>t. ASSUME NEW t \in Tasks, TaskOperation(t) PROVE [StoreNext]_storeVars
  BY <1>t DEF StoreNext
<1>1. ASSUME NEW t \in Tasks, PollNeedsHuman(t) \/ PollRunning(t)
           PROVE  [StoreNext]_storeVars
  BY <1>1, <1>t, JobTask DEF PollNeedsHuman, Polled, PollDone, First, PollRunning,
        storeVars, TaskOperation, At, PollPcs, CreatePcs, Stages
<1>2. CASE DependencyFailed \/ MarkerError \/ CommitError \/ MergeError \/
           SettleFail \/ CreateRefused
  BY <1>2, <1>t, JobTask DEF DependencyFailed, At, FailJob, FailAs, Return,
        MarkerError, CommitError, MergeError, SettleFail, CreateRefused, Created,
        TakeSlot, Fresh, TaskOperation, PollPcs, CreatePcs, Stages
<1>3. CASE Start \/ PlanOver \/ CLIApprovePlan
  BY <1>3, <1>p DEF Start, PlanOver, Exit, CLIApprovePlan, PlanOperation
<1>4. ASSUME NEW t \in Tasks, CLIApprove(t) \/ CLIReject(t) \/ Gate(t) \/ Cascade(t)
           PROVE  [StoreNext]_storeVars
  BY <1>4, <1>t, JobTask DEF CLIApprove, CLIReject, Gate, Dispatched, First,
        MustWait, Cascade, Blocked, TaskOperation, At, PollPcs, CreatePcs, Stages
<1>5. CASE Intent \/ Finish
  BY <1>5, <1>t, JobTask DEF Intent, At, Finish, Return, TaskOperation, PollPcs,
        CreatePcs, Stages
<1>6. ASSUME NEW t \in Tasks, ReconcileAdopt(t) PROVE [StoreNext]_storeVars
  BY <1>6, <1>t, JobTask DEF ReconcileAdopt, Reconciled, First, SessionsNamed,
        Existing, TaskOperation, At, PollPcs, CreatePcs, Stages
<1>7. CASE Record
  BY <1>7, <1>t, JobTask, Typed DEF Record, Return, TakeSlot, At, TaskOperation,
        PollPcs, CreatePcs, Stages, JobInv
<1>8. ASSUME NEW t \in Tasks, PollLost(t) PROVE [StoreNext]_storeVars
  BY <1>8, <1>t, JobTask DEF PollLost, Polled, PollDone, FailAs, First,
        TaskOperation, At, PollPcs, CreatePcs, Stages
<1>9. CASE MarkerAbsent
  BY <1>9, <1>t, JobTask DEF MarkerAbsent, KillThen, KillFirst, Goto, GoAndTell,
        SetClock, Return, FailJob, FailAs, storeVars, TaskOperation, At, PollPcs,
        CreatePcs, Stages
<1>10. CASE SettleRetry
  BY <1>10, <1>t, JobTask, Typed, SchedulerAssumption DEF SettleRetry, Return,
        TaskOperation, At, PollPcs, CreatePcs, Stages, JobInv
<1>11. CASE Stop \/ Tick \/ (\E t \in Tasks : ReconcileCreate(t)) \/
            (\E t \in Tasks : ReconcileUnreachable(t)) \/
            (\E t \in Tasks : ReconcileInterrupted(t)) \/ CreateAnswered \/
            CreateUnreachable \/ ReadState \/ ReadReady \/
            (\E t \in Tasks : Postpone(t)) \/ (\E t \in Tasks : Consider(t)) \/
            (\E d \in Tasks : ParentMerged(d))
  BY <1>11 DEF Stop, Exit, Tick, ReconcileCreate, Reconciled, First,
        ReconcileUnreachable, AbortTick, ReconcileInterrupted, CreateAnswered,
        Fresh, At, CreateUnreachable, Created, ReadState, ReadReady, Postpone,
        Dispatched, Consider, MustWait, ParentMerged, storeVars, parentFrame
<1>12. CASE (\E d \in Tasks : ParentConflict(d)) \/
            (\E d \in Tasks : ParentBlocked(d)) \/ ParentsChecked \/ AllDispatched \/
            PlanGoesOn
  BY <1>12 DEF ParentConflict, At, First, ParentBlocked, Return, ParentsChecked,
        AllDispatched, PlanGoesOn, parentFrame, storeVars
<1>13. CASE (\E t \in Tasks : PollUnreachable(t)) \/
            (\E t \in Tasks : PollTimeout(t)) \/ (\E t \in Tasks : PollNoSignal(t)) \/
            (\E t \in Tasks : PollMerged(t)) \/ (\E t \in Tasks : PollEnded(t)) \/
            MarkerOK \/ MarkerFail \/ MarkerMalformed \/ MarkerUnreachable \/
            Tier0Pass \/ Tier0Empty \/ Tier0Fail
  BY <1>13 DEF PollUnreachable, Polled, AbortTick, PollTimeout, PollGoesOn, First,
        PollNoSignal, PollDone, PollMerged, PollEnded, MarkerOK, Goto, GoAndTell,
        NextStage, SetClock, MarkerFail, KillThen, KillFirst, MarkerMalformed,
        Return, MarkerUnreachable, JobUnreachable, Tier0Pass, AppendRow, Tier0Empty,
        RetryOrFail, Tier0Fail, storeVars
<1>14. CASE CommitDone \/ Tier1Pass \/ Tier1Fail \/ Tier1LLMError \/ Tier1DiffError \/
            MergeBranch \/ MergeDone \/ MergeConflict \/ MergeBlocked \/ Bury \/ Kill \/
            KillUnreachable
  BY <1>14 DEF CommitDone, SetClock, Goto, GoAndTell, Tier1Pass, AppendRow,
        Tier1Fail, RetryOrFail, KillFirst, Tier1LLMError, KillThen, Return,
        Tier1DiffError, MergeBranch, MergeDone, MergeConflict, MergeBlocked, Bury, Terminated,
        Kill, KillUnreachable, AbortTick, storeVars
<1>15. CASE LateCreate \/ (\E s \in SessionIds : SessionEnds(s)) \/
            (\E s \in SessionIds : SessionRemoved(s)) \/ Crash \/ Interrupt
  BY <1>15 DEF LateCreate, Fresh, SessionEnds, SessionRemoved, Crash, Exit,
        Interrupt, storeVars
<1>16. QED
  BY <1>1, <1>2, <1>3, <1>4, <1>5, <1>6, <1>7, <1>8, <1>9, <1>10, <1>11, <1>12,
     <1>13, <1>14, <1>15
     DEF Next, RunStep, PollStep, CLIStep, AOStep

\* Done and failed tasks stay so, and parents that are done.
LEMMA StoreStep ==
    ASSUME Inv, Next
    PROVE  /\ StoreInv'
           /\ \A t \in Tasks : derived.task[t] \in TaskTerminal => derived'.task[t] = derived.task[t]
           /\ \A t \in Tasks : Founded(t) => Founded(t)'
<1>1. [StoreNext]_storeVars /\ StoreInv
  BY StoreClient DEF Inv
<1>2. StoreInv'
  BY <1>1, StoreStepInv
<1>3. taskCache = derived.task /\ taskCache' = derived'.task
  BY <1>1, <1>2 DEF StoreInv, CacheMatchesReplay
<1>4. ASSUME NEW t \in Tasks, taskCache[t] \in TaskTerminal PROVE taskCache'[t] = taskCache[t]
  <2>1. CASE PlanOperation
    BY <1>1, <2>1, PlanOperationKeepsTasks
  <2>2. CASE \E u \in Tasks : TaskOperation(u)
    BY <1>1, <1>4, <2>2, TerminalTaskStep
  <2>3. CASE RecordInformational \/ UNCHANGED storeVars
    BY <2>3 DEF RecordInformational, storeVars
  <2>4. QED
    BY <1>1, <2>1, <2>2, <2>3 DEF StoreNext
<1>5. ASSUME NEW t \in Tasks, Founded(t) PROVE Founded(t)'
  BY <1>3, <1>4, <1>5, Facts DEF Founded, TaskTerminal
<1>6. QED
  BY <1>2, <1>3, <1>4, <1>5

\* A transaction of one task leaves the others.
LEMMA OneTask ==
    ASSUME derived \in Derived, NEW u \in Tasks, NEW s, SetsTask(u, s)
    PROVE  \A t \in Tasks : derived'.task[t] = IF t = u THEN s ELSE derived.task[t]
  BY DEF Derived, SetsTask

\* The process runs while the plan does, and knows which loop it is in.
LEMMA PhaseStep ==
    ASSUME Inv, Next PROVE PhaseInv'
<1>i. StoreInv /\ derived \in Derived /\ LoopTypes /\ StepTypes /\ job \in Jobs
  BY Typed
<1>c. PhaseInv /\ LoopInv /\ JobInv /\ TaskInv
  BY Typed
<1> USE DEF PhaseInv, PollPcs, CreatePcs, DispatchPcs, Stages
<1>1. CASE (\E t \in Tasks : ReconcileUnreachable(t)) \/ CreateUnreachable \/
           (\E t \in Tasks : PollUnreachable(t)) \/ MarkerUnreachable \/
           KillUnreachable
  BY <1>1, <1>c DEF ReconcileUnreachable, Reconciled, AbortTick, CreateUnreachable,
        Created, Fresh, At, PollUnreachable, Polled, MarkerUnreachable,
        JobUnreachable, KillUnreachable, Terminated, storeVars
<1>2. ASSUME NEW t \in Tasks, PollTimeout(t) \/ PollNoSignal(t) \/ PollEnded(t) \/
                              PollMerged(t) PROVE PhaseInv'
  BY <1>2, <1>c DEF PollTimeout, Polled, PollGoesOn, First, PollNoSignal, PollDone,
        PollEnded, PollMerged, storeVars, jobVars, At
<1>3. ASSUME NEW t \in Tasks, Gate(t) \/ CLIApprove(t) \/ CLIReject(t) \/ Cascade(t)
           PROVE  PhaseInv'
  BY <1>3, <1>i, <1>c, TaskEffects, JobTask DEF Gate, Dispatched, First, MustWait,
        CLIApprove, CLIReject, Cascade, Blocked, jobVars, cliFrame, Moves,
        KeepsPlan, At
<1>4. CASE DependencyFailed \/ MarkerError \/ CommitError \/ MergeError \/
           SettleFail
  BY <1>4, <1>i, <1>c, TaskEffects, JobTask DEF DependencyFailed, At, FailJob,
        FailAs, Return, MarkerError, CommitError, MergeError, SettleFail, Moves,
        KeepsPlan
<1>5. CASE MarkerFail \/ Tier1DiffError \/ MergeConflict
  BY <1>5, <1>c DEF MarkerFail, KillThen, KillFirst, Goto, GoAndTell,
        Tier1DiffError, MergeConflict, storeVars, At
<1>6. CASE Tier0Pass \/ CommitDone \/ Tier1Pass
  BY <1>6, <1>c DEF Tier0Pass, SetClock, AppendRow, GoAndTell, CommitDone, Goto,
        Tier1Pass, storeVars, At
<1>7. CASE Tier0Empty \/ Tier0Fail \/ Tier1Fail
  BY <1>7, <1>c DEF Tier0Empty, RetryOrFail, KillFirst, AppendRow, GoAndTell,
        Tier0Fail, Tier1Fail, SetClock, storeVars, At
<1>8. CASE Stop \/ (\E t \in Tasks : ReconcileInterrupted(t)) \/ Crash
  BY <1>8, <1>c DEF Stop, Exit, ReconcileInterrupted, Reconciled, Crash, storeVars,
        At
<1>9. CASE Start
  BY <1>9, <1>i, <1>c, PlanEffects DEF Start, jobVars, Turns
<1>10. CASE Tick
  BY <1>10, <1>c DEF Tick, jobVars, storeVars, At
<1>11. ASSUME NEW t \in Tasks, ReconcileAdopt(t) PROVE PhaseInv'
  BY <1>11, <1>i, <1>c, TaskEffects, JobTask DEF ReconcileAdopt, Reconciled, First,
        SessionsNamed, Existing, jobVars, Moves, KeepsPlan, At
<1>12. ASSUME NEW t \in Tasks, ReconcileCreate(t) PROVE PhaseInv'
  BY <1>12, <1>c DEF ReconcileCreate, Reconciled, First, storeVars, At
<1>13. CASE CreateAnswered
  BY <1>13, <1>c DEF CreateAnswered, Fresh, At, storeVars
<1>14. CASE CreateRefused
  BY <1>14, <1>i, <1>c, TaskEffects, JobTask DEF CreateRefused, Created, Return,
        TakeSlot, Fresh, At, FailAs, Moves, KeepsPlan, StepTypes
<1>15. CASE Record
  BY <1>15, <1>i, <1>c, TaskEffects, JobTask DEF Record, Return, TakeSlot, At,
        Moves, KeepsPlan, StepTypes
<1>16. CASE ReadState
  BY <1>16, <1>c DEF ReadState, storeVars, At
<1>17. CASE ReadReady
  BY <1>17, <1>c DEF ReadReady, jobVars, storeVars, At
<1>18. ASSUME NEW t \in Tasks, Consider(t) PROVE PhaseInv'
  BY <1>18, <1>c DEF Consider, Dispatched, First, MustWait, storeVars, At
<1>19. ASSUME NEW d \in Tasks, ParentConflict(d) PROVE PhaseInv'
  BY <1>19, <1>c DEF ParentConflict, At, First, parentFrame, storeVars
<1>20. ASSUME NEW d \in Tasks, ParentBlocked(d) PROVE PhaseInv'
  BY <1>20, <1>c DEF ParentBlocked, At, First, Return, storeVars
<1>21. CASE ParentsChecked
  BY <1>21, <1>c DEF ParentsChecked, At, parentFrame, storeVars
<1>22. CASE Intent
  BY <1>22, <1>i, <1>c, TaskEffects, JobTask DEF Intent, At, jobVars, Moves,
        KeepsPlan
<1>23. CASE AllDispatched
  BY <1>23, <1>c DEF AllDispatched, storeVars, At
<1>24. CASE PlanOver
  BY <1>24, <1>i, <1>c, PlanEffects DEF PlanOver, Exit, Turns
<1>25. CASE PlanGoesOn
  BY <1>25, <1>c DEF PlanGoesOn, jobVars, storeVars, At
<1>26. ASSUME NEW t \in Tasks, PollLost(t) PROVE PhaseInv'
  BY <1>26, <1>i, <1>c, TaskEffects, JobTask DEF PollLost, Polled, PollDone, FailAs,
        First, jobVars, Moves, KeepsPlan, At
<1>27. ASSUME NEW t \in Tasks, PollNeedsHuman(t) PROVE PhaseInv'
  BY <1>27, <1>i, <1>c, TaskEffects, JobTask DEF PollNeedsHuman, Polled, PollDone,
        First, jobVars, storeVars, Moves, KeepsPlan, At
<1>28. ASSUME NEW t \in Tasks, PollRunning(t) PROVE PhaseInv'
  BY <1>28, <1>i, <1>c, TaskEffects, JobTask DEF PollRunning, Polled, PollDone,
        First, jobVars, storeVars, Moves, KeepsPlan, At
<1>29. CASE MarkerOK
  BY <1>29, <1>c, StageNext DEF MarkerOK, Goto, GoAndTell, storeVars, At
<1>30. CASE MarkerMalformed
  BY <1>30, <1>c DEF MarkerMalformed, KillThen, KillFirst, Goto, GoAndTell,
        SetClock, Return, storeVars, At
<1>31. CASE MarkerAbsent
  BY <1>31, <1>i, <1>c, TaskEffects, JobTask DEF MarkerAbsent, KillThen, KillFirst,
        Goto, GoAndTell, SetClock, Return, FailJob, FailAs, storeVars, Moves,
        KeepsPlan, At
<1>32. CASE Tier1LLMError
  BY <1>32, <1>c DEF Tier1LLMError, KillThen, KillFirst, Goto, GoAndTell, SetClock,
        Return, storeVars, At
<1>33. CASE MergeBranch \/ MergeDone
  BY <1>33, <1>c DEF MergeBranch, MergeDone, AppendRow, storeVars, jobVars, At
<1>34. CASE MergeBlocked
  BY <1>34, <1>c DEF MergeBlocked, Return, storeVars, At
<1>35. CASE Finish
  BY <1>35, <1>i, <1>c, TaskEffects, JobTask DEF Finish, Return, jobVars, Moves,
        KeepsPlan, At
<1>36. CASE Bury
  BY <1>36, <1>c DEF Bury, Return, Terminated, storeVars, At
<1>37. CASE Kill
  BY <1>37, <1>c DEF Kill, Terminated, jobVars, storeVars, At
<1>38. CASE SettleRetry
  BY <1>38, <1>i, <1>c, TaskEffects, JobTask DEF SettleRetry, Return, Moves,
        KeepsPlan, At
<1>39. CASE CLIApprovePlan
  BY <1>39, <1>i, <1>c, PlanEffects DEF CLIApprovePlan, cliFrame, jobVars, Turns
<1>40. CASE (\E t \in Tasks : Postpone(t)) \/ (\E d \in Tasks : ParentMerged(d))
  BY <1>40, <1>c DEF Postpone, Dispatched, First, ParentMerged, At, jobVars,
        storeVars, parentFrame
<1>41. CASE LateCreate \/ (\E s \in SessionIds : SessionEnds(s)) \/
            (\E s \in SessionIds : SessionRemoved(s)) \/ Interrupt
  BY <1>41, <1>c DEF LateCreate, Fresh, SessionEnds, SessionRemoved, Interrupt,
        jobVars, storeVars
<1>42. QED
  BY <1>1, <1>2, <1>3, <1>4, <1>5, <1>6, <1>7, <1>8, <1>9, <1>10, <1>11, <1>12,
     <1>13, <1>14, <1>15, <1>16, <1>17, <1>18, <1>19, <1>20, <1>21, <1>22, <1>23,
     <1>24, <1>25, <1>26, <1>27, <1>28, <1>29, <1>30, <1>31, <1>32, <1>33, <1>34,
     <1>35, <1>36, <1>37, <1>38, <1>39, <1>40, <1>41
     DEF Next, RunStep, PollStep, CLIStep, AOStep

\* The task in hand is in no loop, nor is one that is not at work.
LEMMA Apart ==
    ASSUME Inv
    PROVE  /\ StoreInv
           /\ pc \in PollPcs \cup CreatePcs \cup {"depFailed", "parents", "intent"} => job.task \in Tasks
           /\ pc \in PollPcs \cup CreatePcs \cup {"depFailed"} => job.task \notin toReconcile \cup toPoll
           /\ \A t \in Tasks : derived.task[t] \notin Active => t \notin toReconcile \cup toPoll
           /\ \A t \in toReconcile : t \notin toPoll
           /\ phase # "cascade"
<1>1. pc \in PollPcs \cup CreatePcs \cup {"depFailed"} => job.task \notin toReconcile \cup toPoll
  BY Typed DEF JobInv, LoopInv, PollPcs, CreatePcs, Stages, Followed
<1>2. \A t \in Tasks : derived.task[t] \notin Active => t \notin toReconcile \cup toPoll
  BY Typed DEF LoopInv, Active
<1>3. \A t \in toReconcile : t \notin toPoll
  BY Typed DEF LoopInv, Followed
<1>4. QED
  BY <1>1, <1>2, <1>3, Typed, JobTask DEF StepTypes

\* What a step that moves a task and begins no loop is to respect.
LEMMA LoopMoved ==
    ASSUME Inv, Next,
           toReconcile' \subseteq toReconcile, toPoll' \subseteq toPoll,
           toDispatch' \subseteq toDispatch, seenApproved' \subseteq seenApproved,
           derived.approved \subseteq derived'.approved,
           NEW u \in Tasks, NEW s, SetsTask(u, s),
           u \notin toReconcile' \cup toPoll',
           pc' = "cascade" =>
              /\ pc = "cascade" /\ s \notin Active
              /\ seen'[u] = "failed" => s = "failed"
              /\ \A t \in Tasks \ {u} : seen'[t] = seen[t]
    PROVE  LoopInv'
<1>1. \A t \in Tasks : derived'.task[t] = IF t = u THEN s ELSE derived.task[t]
  BY Typed, OneTask
<1>2. \A t \in toReconcile' \cup toPoll' : t \in Tasks /\ derived'.task[t] = derived.task[t]
  BY <1>1, Typed DEF LoopTypes
<1>3. \A t \in toDispatch' : Founded(t)'
  BY Typed, StoreStep DEF LoopInv, LoopTypes
<1>4. pc' = "cascade" => \A t \in Tasks :
         /\ derived'.task[t] \in Active => seen'[t] \in Active
         /\ seen'[t] = "failed" => derived'.task[t] = "failed"
  BY <1>1, Typed DEF LoopInv
<1>5. QED
  BY <1>2, <1>3, <1>4, Typed DEF LoopInv

\* And one that moves none.
LEMMA LoopKept ==
    ASSUME Inv, Next, UNCHANGED derived, pc' # "cascade",
           toReconcile' \subseteq toReconcile, toPoll' \subseteq toPoll,
           toDispatch' \subseteq toDispatch, seenApproved' \subseteq seenApproved
    PROVE  LoopInv'
<1>1. \A t \in toDispatch' : Founded(t)'
  BY Typed, StoreStep DEF LoopInv, LoopTypes
<1>2. QED
  BY <1>1, Typed DEF LoopInv

\* No step, of this process or of another, makes the loops' snapshots wrong
\* where they are relied on.
LEMMA LoopStep ==
    ASSUME Inv, Next PROVE LoopInv'
<1>i. StoreInv /\ derived \in Derived /\ LoopTypes /\ StepTypes /\ job \in Jobs
  BY Typed
<1>c. PhaseInv /\ LoopInv /\ JobInv /\ TaskInv
  BY Typed
<1>f. \A t \in Tasks : Founded(t) => Founded(t)'
  BY StoreStep
<1> USE DEF PollPcs, CreatePcs, DispatchPcs, Stages, Active, Followed
<1>1. CASE (\E t \in Tasks : ReconcileUnreachable(t)) \/ CreateUnreachable \/
           (\E t \in Tasks : PollUnreachable(t)) \/ MarkerUnreachable \/
           KillUnreachable
  BY <1>1, <1>i, <1>c, <1>f DEF ReconcileUnreachable, Reconciled, AbortTick,
        CreateUnreachable, Created, Fresh, At, PollUnreachable, Polled,
        MarkerUnreachable, JobUnreachable, KillUnreachable, Terminated, storeVars,
        ForgetLoops, LoopInv, LoopTypes
<1>2. ASSUME NEW t \in Tasks, PollTimeout(t) \/ PollNoSignal(t) \/ PollEnded(t) \/
                              PollMerged(t) PROVE LoopInv'
  BY <1>2, <1>i, <1>c, <1>f DEF PollTimeout, Polled, PollGoesOn, First,
        PollNoSignal, PollDone, PollEnded, PollMerged, pollFrame, storeVars, At,
        LoopInv, LoopTypes
<1>3. ASSUME NEW t \in Tasks, CLIApprove(t) \/ CLIReject(t) PROVE LoopInv'
  BY <1>3, LoopMoved, Apart, TaskEffects, <1>c DEF CLIApprove, CLIReject, cliFrame,
        loopVars, At, Moves, LoopInv, KeepsApproved
<1>4. CASE DependencyFailed \/ MarkerError \/ CommitError \/ MergeError \/
           SettleFail
  BY <1>4, LoopMoved, Apart, TaskEffects DEF DependencyFailed, At, FailJob, FailAs,
        Return, MarkerError, CommitError, MergeError, SettleFail, jobFrame,
        loopVars, Moves, KeepsApproved
<1>5. CASE MarkerFail \/ Tier1DiffError \/ MergeConflict
  BY <1>5, <1>i, <1>c, <1>f DEF MarkerFail, KillThen, KillFirst, Goto, GoAndTell,
        Tier1DiffError, MergeConflict, jobFrame, loopVars, storeVars, At, LoopInv,
        LoopTypes
<1>6. CASE Tier0Pass \/ CommitDone \/ Tier1Pass
  BY <1>6, <1>i, <1>c, <1>f DEF Tier0Pass, SetClock, AppendRow, GoAndTell,
        CommitDone, Goto, Tier1Pass, jobFrame, loopVars, storeVars, At, LoopInv,
        LoopTypes
<1>7. CASE Tier0Empty \/ Tier0Fail \/ Tier1Fail
  BY <1>7, <1>i, <1>c, <1>f DEF Tier0Empty, RetryOrFail, KillFirst, AppendRow,
        GoAndTell, Tier0Fail, Tier1Fail, SetClock, jobFrame, loopVars, storeVars,
        At, LoopInv, LoopTypes
<1>8. CASE Stop \/ (\E t \in Tasks : ReconcileInterrupted(t)) \/ Crash
  BY <1>8, <1>i, <1>c, <1>f DEF Stop, Exit, ReconcileInterrupted, Reconciled, Crash,
        storeVars, At, ForgetLoops, LoopInv, LoopTypes
<1>9. CASE Start
  BY <1>9, <1>i, <1>c, PlanEffects, <1>f DEF Start, loopVars, At, Turns,
        KeepsApproved, LoopInv, LoopTypes
<1>10. CASE Tick
  BY <1>10, <1>i, <1>c, Facts, <1>f DEF Tick, storeVars, At, LoopInv, LoopTypes
<1>11. ASSUME NEW t \in Tasks, ReconcileAdopt(t) PROVE LoopInv'
  <2>1. PICK s \in SessionIds : DispatchTask(t, s)
    BY <1>11 DEF ReconcileAdopt, SessionsNamed
  <2>2. Moves(t, {"pending", "dispatching"}, "dispatched")
    BY <2>1, Typed, TaskEffects
  <2>3. QED
    BY <1>11, <2>2, LoopMoved, Apart
       DEF ReconcileAdopt, Reconciled, First, jobVars, Moves, KeepsApproved, KeepsRounds
<1>12. ASSUME NEW t \in Tasks, ReconcileCreate(t) PROVE LoopInv'
  BY <1>12, <1>i, <1>c, <1>f DEF ReconcileCreate, Reconciled, First, storeVars, At,
        LoopInv, LoopTypes
<1>13. CASE CreateAnswered
  BY <1>13, <1>i, <1>c, <1>f DEF CreateAnswered, Fresh, At, createFrame, jobFrame,
        loopVars, storeVars, LoopInv, LoopTypes
<1>14. CASE CreateRefused
  BY <1>14, LoopMoved, Apart, TaskEffects DEF CreateRefused, Created, Return,
        TakeSlot, Fresh, At, FailAs, Moves, KeepsApproved
<1>15. CASE Record
  BY <1>15, LoopMoved, Apart, TaskEffects DEF Record, Return, TakeSlot, At, Moves,
        KeepsApproved
<1>16. CASE ReadState
  BY <1>16, <1>i, <1>c, Facts, <1>f DEF ReadState, storeVars, At, LoopInv, LoopTypes
<1>17. CASE ReadReady
  BY <1>17, <1>i, <1>c, Facts, <1>f DEF ReadReady, storeVars, At, Ready, Founded,
        LoopInv, LoopTypes
<1>18. ASSUME NEW t \in Tasks, Cascade(t) PROVE LoopInv'
  BY <1>18, LoopMoved, Apart, TaskEffects, Typed DEF Cascade, Blocked, At, Moves,
        LoopTypes, KeepsApproved
<1>19. ASSUME NEW t \in Tasks, Gate(t) PROVE LoopInv'
  BY <1>19, LoopMoved, Apart, TaskEffects DEF Gate, Dispatched, First, MustWait,
        dispatchFrame, At, Moves, KeepsApproved
<1>20. ASSUME NEW t \in Tasks, Postpone(t) PROVE LoopInv'
  BY <1>20, <1>i, <1>c, <1>f DEF Postpone, Dispatched, First, dispatchFrame,
        storeVars, At, LoopInv, LoopTypes
<1>21. ASSUME NEW t \in Tasks, Consider(t) PROVE LoopInv'
  BY <1>21, <1>i, <1>c, <1>f DEF Consider, Dispatched, First, MustWait,
        dispatchFrame, storeVars, At, LoopInv, LoopTypes
<1>22. ASSUME NEW d \in Tasks, ParentConflict(d) PROVE LoopInv'
  BY <1>22, <1>i, <1>c, <1>f DEF ParentConflict, At, First, jobFrame, loopVars,
        parentFrame, storeVars, LoopInv, LoopTypes
<1>23. ASSUME NEW d \in Tasks, ParentBlocked(d) PROVE LoopInv'
  BY <1>23, <1>i, <1>c, <1>f DEF ParentBlocked, At, First, Return, jobFrame,
        loopVars, storeVars, StepTypes, LoopInv, LoopTypes
<1>24. CASE ParentsChecked
  BY <1>24, <1>i, <1>c, <1>f DEF ParentsChecked, At, jobFrame, loopVars,
        parentFrame, storeVars, LoopInv, LoopTypes
<1>25. CASE Intent
  BY <1>25, LoopMoved, Apart, TaskEffects DEF Intent, At, jobFrame, loopVars, Moves,
        KeepsApproved
<1>26. CASE AllDispatched
  BY <1>26, <1>i, <1>c, <1>f DEF AllDispatched, storeVars, At, ForgetLoops, LoopInv,
        LoopTypes
<1>27. CASE PlanOver
  BY <1>27, <1>i, <1>c, PlanEffects, <1>f DEF PlanOver, Exit, At, Turns,
        KeepsApproved, ForgetLoops, LoopInv, LoopTypes
<1>28. CASE PlanGoesOn
  BY <1>28, <1>i, <1>c, <1>f DEF PlanGoesOn, loopVars, storeVars, At, LoopInv,
        LoopTypes
<1>29. ASSUME NEW t \in Tasks, PollLost(t) PROVE LoopInv'
  BY <1>29, LoopMoved, Apart, TaskEffects DEF PollLost, Polled, PollDone, FailAs,
        First, pollFrame, At, Moves, KeepsApproved
<1>30. ASSUME NEW t \in Tasks, PollNeedsHuman(t) PROVE LoopInv'
  BY <1>30, LoopMoved, LoopKept, Apart, TaskEffects DEF PollNeedsHuman, Polled,
        PollDone, First, pollFrame, storeVars, At, Moves, KeepsApproved
<1>31. ASSUME NEW t \in Tasks, PollRunning(t) PROVE LoopInv'
  BY <1>31, LoopMoved, LoopKept, Apart, TaskEffects DEF PollRunning, Polled,
        PollDone, First, pollFrame, storeVars, At, Moves, KeepsApproved
<1>32. CASE MarkerOK
  BY <1>32, <1>i, <1>c, StageNext, <1>f DEF MarkerOK, Goto, GoAndTell, jobFrame,
        loopVars, storeVars, At, LoopInv, LoopTypes
<1>33. CASE MarkerMalformed
  BY <1>33, <1>i, <1>c, <1>f DEF MarkerMalformed, KillThen, KillFirst, Goto,
        GoAndTell, SetClock, Return, jobFrame, loopVars, storeVars, At, StepTypes,
        LoopInv, LoopTypes
<1>34. CASE MarkerAbsent
  BY <1>34, LoopMoved, LoopKept, Apart, TaskEffects DEF MarkerAbsent, KillThen,
        KillFirst, Goto, GoAndTell, SetClock, Return, FailJob, FailAs, jobFrame,
        loopVars, storeVars, At, Moves, KeepsApproved
<1>35. CASE Tier1LLMError
  BY <1>35, <1>i, <1>c, <1>f DEF Tier1LLMError, KillThen, KillFirst, Goto,
        GoAndTell, SetClock, Return, jobFrame, loopVars, storeVars, At, StepTypes,
        LoopInv, LoopTypes
<1>36. CASE MergeBranch \/ MergeDone
  BY <1>36, <1>i, <1>c, <1>f DEF MergeBranch, MergeDone, AppendRow, jobFrame, loopVars,
        storeVars, At, LoopInv, LoopTypes
<1>37. CASE MergeBlocked
  BY <1>37, <1>i, <1>c, <1>f DEF MergeBlocked, Return, jobFrame, loopVars,
        storeVars, At, StepTypes, LoopInv, LoopTypes
<1>38. CASE Finish
  BY <1>38, LoopMoved, Apart, TaskEffects DEF Finish, Return, jobFrame, loopVars,
        At, Moves, KeepsApproved
<1>39. CASE Bury
  BY <1>39, <1>i, <1>c, <1>f DEF Bury, Return, Terminated, jobFrame, loopVars,
        storeVars, At, StepTypes, LoopInv, LoopTypes
<1>40. CASE Kill
  BY <1>40, <1>i, <1>c, <1>f DEF Kill, Terminated, jobFrame, loopVars, storeVars,
        At, LoopInv, LoopTypes
<1>41. CASE SettleRetry
  BY <1>41, LoopMoved, Apart, TaskEffects DEF SettleRetry, Return, jobFrame,
        loopVars, At, Moves, KeepsApproved
<1>42. CASE CLIApprovePlan
  BY <1>42, <1>i, <1>c, PlanEffects, <1>f DEF CLIApprovePlan, cliFrame, loopVars,
        At, Turns, KeepsApproved, LoopInv, LoopTypes
<1>43. ASSUME NEW d \in Tasks, ParentMerged(d) PROVE LoopInv'
  BY <1>43, <1>i, <1>c, <1>f DEF ParentMerged, At, First, jobFrame, loopVars,
        parentFrame, storeVars, LoopInv, LoopTypes
<1>44. CASE LateCreate \/ (\E s \in SessionIds : SessionEnds(s)) \/
            (\E s \in SessionIds : SessionRemoved(s)) \/ Interrupt
  BY <1>44, <1>i, <1>c, <1>f DEF LateCreate, Fresh, SessionEnds, SessionRemoved,
        Interrupt, loopVars, storeVars, At, LoopInv, LoopTypes
<1>45. QED
  BY <1>1, <1>2, <1>3, <1>4, <1>5, <1>6, <1>7, <1>8, <1>9, <1>10, <1>11, <1>12,
     <1>13, <1>14, <1>15, <1>16, <1>17, <1>18, <1>19, <1>20, <1>21, <1>22, <1>23,
     <1>24, <1>25, <1>26, <1>27, <1>28, <1>29, <1>30, <1>31, <1>32, <1>33, <1>34,
     <1>35, <1>36, <1>37, <1>38, <1>39, <1>40, <1>41, <1>42, <1>43, <1>44
     DEF Next, RunStep, PollStep, CLIStep, AOStep

\* Between handlers there is no task in hand.
LEMMA JobIdle ==
    ASSUME pc' \in {"off", "top", "tick", "cascade", "dispatch", "complete"} PROVE JobInv'
  BY DEF JobInv, PollPcs, CreatePcs, Stages

\* What befalls another task is nothing to the one in hand.
LEMMA JobKept ==
    ASSUME Inv, Next, UNCHANGED <<pc, job, toCheck, clock>>,
           toReconcile' \subseteq toReconcile, toPoll' \subseteq toPoll,
           derived.approved \subseteq derived'.approved, KeepsRounds,
           \A t \in Tasks : derived.task[t] \in Active => derived'.task[t] = derived.task[t]
    PROVE  JobInv'
<1>1. job.task \in Tasks /\ Founded(job.task) => Founded(job.task)'
  BY StoreStep
<1>2. QED
  BY <1>1, Typed DEF JobInv, KeepsRounds, Active, Followed, PollPcs, CreatePcs, Stages

\* Nor the task in hand: nobody but its handler moves it.
LEMMA JobStep ==
    ASSUME Inv, Next PROVE JobInv'
<1>i. StoreInv /\ derived \in Derived /\ LoopTypes /\ StepTypes /\ job \in Jobs
  BY Typed
<1>c. PhaseInv /\ LoopInv /\ JobInv /\ TaskInv
  BY Typed
<1>f. \A t \in Tasks : Founded(t) => Founded(t)'
  BY StoreStep
<1> USE DEF PollPcs, CreatePcs, Stages
<1>1. CASE (\E t \in Tasks : ReconcileUnreachable(t)) \/ CreateUnreachable \/
           (\E t \in Tasks : PollUnreachable(t)) \/ MarkerUnreachable \/
           KillUnreachable
  BY <1>1, JobIdle DEF ReconcileUnreachable, Reconciled, AbortTick,
        CreateUnreachable, Created, Fresh, At, PollUnreachable, Polled,
        MarkerUnreachable, JobUnreachable, KillUnreachable, Terminated, memVars,
        storeVars
<1>2. CASE Stop \/ (\E t \in Tasks : ReconcileInterrupted(t)) \/ Crash \/ PlanOver
  BY <1>2, JobIdle DEF Stop, Exit, ReconcileInterrupted, Reconciled, Crash,
        PlanOver, storeVars, At
<1>3. ASSUME NEW t \in Tasks, Gate(t) \/ Cascade(t) \/ ReconcileAdopt(t) \/
                              PollLost(t) \/ PollNeedsHuman(t) \/ PollRunning(t)
           PROVE  JobInv'
  BY <1>3, JobIdle DEF Gate, Dispatched, First, MustWait, Cascade, Blocked,
        ReconcileAdopt, Reconciled, SessionsNamed, Existing, PollLost, Polled,
        PollDone, FailAs, PollNeedsHuman, PollRunning, dispatchFrame, jobVars,
        memVars, pollFrame, storeVars, At
<1>4. ASSUME NEW t \in Tasks, CLIApprove(t) \/ CLIReject(t) PROVE JobInv'
  BY <1>4, JobKept, Typed, TaskEffects, OneTask DEF CLIApprove, CLIReject, cliFrame,
        jobVars, loopVars, memVars, Moves, KeepsApproved, Active, Followed
<1>5. CASE DependencyFailed \/ MarkerError \/ CommitError \/ MergeError \/
           SettleFail
  BY <1>5, JobIdle, Typed DEF DependencyFailed, At, FailJob, FailAs, Return,
        MarkerError, CommitError, MergeError, SettleFail, jobFrame, loopVars,
        StepTypes
<1>6. CASE CreateRefused \/ Record \/ MergeBlocked \/ SettleRetry \/ Bury
  BY <1>6, JobIdle, Typed DEF CreateRefused, Created, Return, TakeSlot, Fresh, At,
        FailAs, Record, MergeBlocked, SettleRetry, Bury, Terminated, memVars,
        jobFrame, loopVars, storeVars, StepTypes
<1>7. CASE Tick \/ ReadState \/ ReadReady \/ AllDispatched \/ Start \/ PlanGoesOn
  BY <1>7, JobIdle DEF Tick, ReadState, ReadReady, AllDispatched, Start, PlanGoesOn,
        jobVars, memVars, storeVars, loopVars, At
<1>8. ASSUME NEW t \in Tasks, ReconcileCreate(t) PROVE JobInv'
  BY <1>8, <1>c, <1>i DEF ReconcileCreate, Reconciled, First, memVars, storeVars,
        At, JobInv, NoJob, LoopInv, LoopTypes
<1>9. CASE CreateAnswered
  BY <1>9, <1>c, <1>i DEF CreateAnswered, Fresh, At, createFrame, jobFrame,
        loopVars, memVars, storeVars, JobInv, Jobs
<1>10. ASSUME NEW t \in Tasks, Consider(t) PROVE JobInv'
  BY <1>10, <1>c, <1>i, Facts, <1>f DEF Consider, Dispatched, First, MustWait,
        dispatchFrame, memVars, storeVars, At, JobInv, NoJob, LoopInv, LoopTypes
<1>11. ASSUME NEW d \in Tasks, ParentMerged(d) PROVE JobInv'
  BY <1>11, <1>c, <1>i, <1>f DEF ParentMerged, At, First, jobFrame, loopVars,
        parentFrame, storeVars, JobInv, Jobs
<1>12. ASSUME NEW d \in Tasks, ParentConflict(d) PROVE JobInv'
  BY <1>12, <1>c, <1>i, <1>f DEF ParentConflict, At, First, jobFrame, loopVars,
        parentFrame, storeVars, JobInv, Jobs
<1>13. ASSUME NEW d \in Tasks, ParentBlocked(d) PROVE JobInv'
  BY <1>13, JobIdle, Typed DEF ParentBlocked, At, First, Return, jobFrame, loopVars,
        memVars, storeVars, StepTypes
<1>14. CASE ParentsChecked
  BY <1>14, <1>c, <1>i, <1>f DEF ParentsChecked, At, jobFrame, loopVars,
        parentFrame, storeVars, JobInv
<1>15. CASE Intent
  <2>1. job.task \in Tasks /\ Moves(job.task, {"pending"}, "dispatching")
    BY <1>15, Apart, TaskEffects DEF Intent, At
  <2>2. derived'.task[job.task] = "dispatching" /\ job.task \notin toReconcile
    BY <2>1, Typed, OneTask, Apart DEF Moves, Active, Followed
  <2>3. QED
    BY <1>15, <2>1, <2>2 DEF Intent, At, JobInv, jobFrame, jobVars, loopVars
<1>16. ASSUME NEW t \in Tasks, PollTimeout(t) PROVE JobInv'
  BY <1>16, <1>c, <1>i, SessionOfFollowed, ClockType, TypeParts DEF PollTimeout,
        Polled, PollGoesOn, First, pollFrame, storeVars, At, JobInv, Inv, LoopInv,
        LoopTypes, Kept, KindsKept
<1>17. ASSUME NEW t \in Tasks, PollNoSignal(t) PROVE JobInv'
  BY <1>17, <1>c, <1>i, SessionOfFollowed, ClockType, TypeParts DEF PollNoSignal,
        Polled, PollGoesOn, PollDone, First, jobVars, pollFrame, storeVars, At,
        JobInv, Inv, LoopInv, LoopTypes, Kept, KindsKept
<1>18. ASSUME NEW t \in Tasks, PollMerged(t) PROVE JobInv'
  BY <1>18, <1>c, <1>i, SessionOfFollowed, ClockType, TypeParts DEF PollMerged,
        Polled, First, pollFrame, storeVars, At, JobInv, Inv, LoopInv, LoopTypes,
        Kept, KindsKept
<1>19. ASSUME NEW t \in Tasks, PollEnded(t) PROVE JobInv'
  BY <1>19, <1>c, <1>i, SessionOfFollowed, ClockType, TypeParts DEF PollEnded,
        Polled, PollGoesOn, First, pollFrame, storeVars, At, JobInv, Inv, LoopInv,
        LoopTypes, Kept, KindsKept
<1>20. CASE MarkerOK
  BY <1>20, <1>c, <1>i, StageNext DEF MarkerOK, Goto, GoAndTell, jobFrame, loopVars,
        storeVars, At, JobInv, Jobs
<1>21. CASE MarkerFail
  BY <1>21, <1>c, <1>i DEF MarkerFail, KillThen, KillFirst, Goto, GoAndTell,
        jobFrame, loopVars, storeVars, At, JobInv, Kept, KindsKept, Jobs
<1>22. CASE MarkerMalformed
  BY <1>22, <1>c, <1>i, JobIdle DEF MarkerMalformed, KillThen, KillFirst, Goto,
        GoAndTell, SetClock, Return, jobFrame, loopVars, storeVars, At, JobInv,
        StepTypes, Kept, KindsKept, Jobs
<1>23. CASE MarkerAbsent
  BY <1>23, <1>c, <1>i, JobIdle DEF MarkerAbsent, KillThen, KillFirst, Goto,
        GoAndTell, SetClock, Return, FailJob, FailAs, jobFrame, loopVars, storeVars,
        At, JobInv, StepTypes, Kept, KindsKept, Jobs
<1>24. CASE Tier0Pass
  BY <1>24, <1>c, <1>i DEF Tier0Pass, SetClock, AppendRow, GoAndTell, jobFrame,
        loopVars, storeVars, At, JobInv, Jobs
<1>25. CASE Tier0Empty
  BY <1>25, <1>c, <1>i, Facts DEF Tier0Empty, RetryOrFail, KillFirst, AppendRow,
        GoAndTell, jobFrame, loopVars, storeVars, At, JobInv, Jobs, Derived
<1>26. CASE Tier0Fail
  BY <1>26, <1>c, <1>i, Facts DEF Tier0Fail, RetryOrFail, KillFirst, GoAndTell,
        jobFrame, loopVars, storeVars, At, JobInv, Jobs, Derived
<1>27. CASE CommitDone
  BY <1>27, <1>c, <1>i DEF CommitDone, SetClock, Goto, GoAndTell, jobFrame,
        loopVars, storeVars, At, JobInv, Jobs
<1>28. CASE Tier1Pass
  BY <1>28, <1>c, <1>i DEF Tier1Pass, AppendRow, GoAndTell, jobFrame, loopVars,
        storeVars, At, JobInv, Jobs
<1>29. CASE Tier1Fail
  BY <1>29, <1>c, <1>i, Facts DEF Tier1Fail, RetryOrFail, KillFirst, GoAndTell,
        SetClock, jobFrame, loopVars, storeVars, At, JobInv, Jobs, Derived
<1>30. CASE Tier1LLMError
  BY <1>30, <1>c, <1>i, JobIdle DEF Tier1LLMError, KillThen, KillFirst, Goto,
        GoAndTell, SetClock, Return, jobFrame, loopVars, storeVars, At, JobInv,
        StepTypes, Kept, KindsKept, Jobs
<1>31. CASE Tier1DiffError
  BY <1>31, <1>c, <1>i DEF Tier1DiffError, KillThen, KillFirst, Goto, GoAndTell,
        jobFrame, loopVars, storeVars, At, JobInv, Kept, KindsKept, Jobs
<1>32. CASE MergeBranch \/ MergeDone
  BY <1>32, <1>c, <1>i DEF MergeBranch, MergeDone, AppendRow, jobFrame, jobVars, memVars,
        loopVars, storeVars, At,
        JobInv, Jobs
<1>33. CASE MergeConflict
  BY <1>33, <1>c, <1>i DEF MergeConflict, KillThen, KillFirst, Goto, GoAndTell,
        jobFrame, loopVars, storeVars, At, JobInv, Kept, KindsKept, Jobs
<1>34. CASE Finish
  BY <1>34, <1>c, <1>i, JobIdle DEF Finish, Return, jobFrame, jobVars, loopVars, At,
        JobInv, StepTypes
<1>35. CASE Kill
  BY <1>35, <1>c, <1>i DEF Kill, Terminated, jobFrame, jobVars, loopVars, memVars,
        storeVars, At, JobInv
<1>36. CASE CLIApprovePlan
  BY <1>36, JobKept, Typed, PlanEffects DEF CLIApprovePlan, cliFrame, jobVars,
        loopVars, memVars, Turns, KeepsApproved
<1>37. ASSUME NEW t \in Tasks, Postpone(t) PROVE JobInv'
  BY <1>37, JobIdle DEF Postpone, Dispatched, First, dispatchFrame, jobVars,
        memVars, storeVars, At
<1>38. CASE LateCreate \/ (\E s \in SessionIds : SessionEnds(s)) \/
            (\E s \in SessionIds : SessionRemoved(s)) \/ Interrupt
  BY <1>38, JobKept, Typed DEF LateCreate, Fresh, SessionEnds, SessionRemoved,
        Interrupt, jobVars, loopVars, memVars, storeVars, KeepsRounds
<1>39. QED
  BY <1>1, <1>2, <1>3, <1>4, <1>5, <1>6, <1>7, <1>8, <1>9, <1>10, <1>11, <1>12,
     <1>13, <1>14, <1>15, <1>16, <1>17, <1>18, <1>19, <1>20, <1>21, <1>22, <1>23,
     <1>24, <1>25, <1>26, <1>27, <1>28, <1>29, <1>30, <1>31, <1>32, <1>33, <1>34,
     <1>35, <1>36, <1>37, <1>38
     DEF Next, RunStep, PollStep, CLIStep, AOStep

\* Gates and budgets, when one task moves to a status that is no gate.
LEMMA TaskMoved ==
    ASSUME Inv, Next, KeepsPlan, NEW u \in Tasks, NEW s, SetsTask(u, s), s # "awaiting_approval",
           \A t \in Tasks : derived'.rounds[t] <= MaxVerifyRounds
    PROVE  TaskInv'
<1>1. \A t \in Tasks : derived'.task[t] = IF t = u THEN s ELSE derived.task[t]
  BY Typed, OneTask
<1>2. QED
  BY <1>1, Typed, StoreStep DEF TaskInv, KeepsPlan

\* Gates wait only on founded tasks of a running plan; the budget is kept.
LEMMA TaskStep ==
    ASSUME Inv, Next PROVE TaskInv'
<1>i. StoreInv /\ derived \in Derived /\ LoopTypes /\ StepTypes /\ job \in Jobs
  BY Typed
<1>c. PhaseInv /\ LoopInv /\ JobInv /\ TaskInv
  BY Typed
<1>f. \A t \in Tasks : Founded(t) => Founded(t)'
  BY StoreStep
<1>r. \A t \in Tasks : derived.rounds[t] <= MaxVerifyRounds
  BY <1>c DEF TaskInv
<1>u. UNCHANGED derived => TaskInv'
  BY <1>c, <1>f DEF TaskInv
<1> USE DEF PollPcs, CreatePcs, Stages
<1>1. CASE DependencyFailed \/ MarkerError \/ CommitError \/ MergeError \/
           SettleFail \/ CreateRefused
  BY <1>1, <1>r, TaskMoved, Apart, TaskEffects DEF DependencyFailed, At, FailJob,
        FailAs, MarkerError, CommitError, MergeError, SettleFail, CreateRefused,
        Created, TakeSlot, Fresh, Moves, KeepsRounds
<1>2. ASSUME NEW t \in Tasks, CLIApprove(t) \/ CLIReject(t) PROVE TaskInv'
  BY <1>2, <1>r, TaskMoved, Apart, TaskEffects DEF CLIApprove, CLIReject, At, Moves,
        KeepsRounds
<1>3. CASE Start \/ CLIApprovePlan
  BY <1>3, <1>i, <1>c, <1>f, PlanEffects DEF Start, CLIApprovePlan, Turns,
        KeepsRounds, TaskInv
<1>4. CASE Record \/ Finish \/ Intent
  BY <1>4, <1>r, TaskMoved, Apart, TaskEffects DEF Record, TakeSlot, At, Finish,
        Intent, Moves, KeepsRounds
<1>5. ASSUME NEW t \in Tasks, PollLost(t) \/ Cascade(t) PROVE TaskInv'
  BY <1>5, <1>r, TaskMoved, Apart, TaskEffects DEF PollLost, Polled, PollDone,
        FailAs, First, Cascade, Blocked, At, Moves, KeepsRounds
<1>6. ASSUME NEW t \in Tasks, PollNeedsHuman(t) \/ PollRunning(t) PROVE TaskInv'
  BY <1>6, <1>r, TaskMoved, Apart, TaskEffects, <1>u DEF PollNeedsHuman, Polled,
        PollDone, First, PollRunning, storeVars, At, Moves, KeepsRounds
<1>7. ASSUME NEW t \in Tasks, ReconcileAdopt(t) PROVE TaskInv'
  <2>1. PICK s \in SessionIds : DispatchTask(t, s)
    BY <1>7 DEF ReconcileAdopt, SessionsNamed
  <2>2. Moves(t, {"pending", "dispatching"}, "dispatched")
    BY <2>1, Typed, TaskEffects
  <2>3. QED
    BY <1>7, <2>2, <1>r, TaskMoved
       DEF ReconcileAdopt, Reconciled, First, jobVars, Moves, KeepsApproved, KeepsRounds
<1>8. ASSUME NEW t \in Tasks, Gate(t) PROVE TaskInv'
  <2>1. Moves(t, {"pending"}, "awaiting_approval") /\ t \in Gated /\ Founded(t)
    BY <1>8, <1>c, Apart, TaskEffects DEF Gate, Dispatched, First, MustWait, LoopInv
  <2>2. derived.plan = "running"
    BY <1>8, <1>c DEF Gate, Dispatched, PhaseInv
  <2>3. \A u \in Tasks : derived'.task[u] = IF u = t THEN "awaiting_approval" ELSE derived.task[u]
    BY <2>1, <1>i, OneTask DEF Moves
  <2>4. QED
    BY <1>c, <1>f, <1>r, <2>1, <2>2, <2>3 DEF TaskInv, Moves, KeepsPlan, KeepsRounds
<1>9. CASE PlanOver
  <2>1. \A t \in Tasks : derived.task[t] # "awaiting_approval"
    BY <1>9 DEF PlanOver, AllDone, Stuck, AnyAwaiting
  <2>2. derived'.task = derived.task /\ derived'.rounds = derived.rounds
    BY <1>9, <1>i, PlanEffects DEF PlanOver, Turns, KeepsRounds
  <2>3. QED
    BY <1>r, <2>1, <2>2 DEF TaskInv
<1>10. CASE MarkerAbsent
  BY <1>10, <1>r, TaskMoved, Apart, TaskEffects, <1>u DEF MarkerAbsent, KillThen,
        KillFirst, Goto, GoAndTell, SetClock, Return, FailJob, FailAs, storeVars,
        At, Moves, KeepsRounds
<1>11. CASE SettleRetry
  <2>1. job.task \in Tasks /\ derived.rounds[job.task] < MaxVerifyRounds
    BY <1>11, Apart, <1>c DEF SettleRetry, At, JobInv
  <2>2. /\ SetsTask(job.task, "pending") /\ KeepsPlan
        /\ derived'.rounds = [derived.rounds EXCEPT ![job.task] = @ + 1]
    BY <1>11, <2>1, Apart, TaskEffects DEF SettleRetry
  <2>3. \A t \in Tasks : derived'.rounds[t] <= MaxVerifyRounds
    BY <1>r, <1>i, <2>1, <2>2, Facts DEF Derived
  <2>4. QED
    BY <2>1, <2>2, <2>3, TaskMoved
<1>12. CASE Stop \/ Tick \/ (\E t \in Tasks : ReconcileCreate(t)) \/
            (\E t \in Tasks : ReconcileUnreachable(t)) \/
            (\E t \in Tasks : ReconcileInterrupted(t)) \/ CreateAnswered \/
            CreateUnreachable \/ ReadState \/ ReadReady \/
            (\E t \in Tasks : Postpone(t)) \/ (\E t \in Tasks : Consider(t)) \/
            (\E d \in Tasks : ParentMerged(d))
  BY <1>12, <1>u DEF Stop, Exit, Tick, ReconcileCreate, Reconciled, First,
        ReconcileUnreachable, AbortTick, ReconcileInterrupted, CreateAnswered,
        Fresh, At, CreateUnreachable, Created, ReadState, ReadReady, Postpone,
        Dispatched, Consider, MustWait, ParentMerged, storeVars, parentFrame
<1>13. CASE (\E d \in Tasks : ParentConflict(d)) \/
            (\E d \in Tasks : ParentBlocked(d)) \/ ParentsChecked \/ AllDispatched \/
            PlanGoesOn
  BY <1>13, <1>u DEF ParentConflict, At, First, ParentBlocked, Return,
        ParentsChecked, AllDispatched, PlanGoesOn, parentFrame, storeVars
<1>14. CASE (\E t \in Tasks : PollUnreachable(t)) \/
            (\E t \in Tasks : PollTimeout(t)) \/ (\E t \in Tasks : PollNoSignal(t)) \/
            (\E t \in Tasks : PollMerged(t)) \/ (\E t \in Tasks : PollEnded(t)) \/
            MarkerOK \/ MarkerFail \/ MarkerMalformed \/ MarkerUnreachable \/
            Tier0Pass \/ Tier0Empty \/ Tier0Fail
  BY <1>14, <1>u DEF PollUnreachable, Polled, AbortTick, PollTimeout, PollGoesOn,
        First, PollNoSignal, PollDone, PollMerged, PollEnded, MarkerOK, Goto,
        GoAndTell, NextStage, SetClock, MarkerFail, KillThen, KillFirst,
        MarkerMalformed, Return, MarkerUnreachable, JobUnreachable, Tier0Pass,
        AppendRow, Tier0Empty, RetryOrFail, Tier0Fail, storeVars
<1>15. CASE CommitDone \/ Tier1Pass \/ Tier1Fail \/ Tier1LLMError \/ Tier1DiffError \/
            MergeBranch \/ MergeDone \/ MergeConflict \/ MergeBlocked \/ Bury \/ Kill \/
            KillUnreachable
  BY <1>15, <1>u DEF CommitDone, SetClock, Goto, GoAndTell, Tier1Pass, AppendRow,
        Tier1Fail, RetryOrFail, KillFirst, Tier1LLMError, KillThen, Return,
        Tier1DiffError, MergeBranch, MergeDone, MergeConflict, MergeBlocked, Bury, Terminated,
        Kill, KillUnreachable, AbortTick, storeVars
<1>16. CASE LateCreate \/ (\E s \in SessionIds : SessionEnds(s)) \/
            (\E s \in SessionIds : SessionRemoved(s)) \/ Crash \/ Interrupt
  BY <1>16, <1>u DEF LateCreate, Fresh, SessionEnds, SessionRemoved, Crash, Exit,
        Interrupt, storeVars
<1>17. QED
  BY <1>1, <1>2, <1>3, <1>4, <1>5, <1>6, <1>7, <1>8, <1>9, <1>10, <1>11, <1>12,
     <1>13, <1>14, <1>15, <1>16
     DEF Next, RunStep, PollStep, CLIStep, AOStep

\* A task that moves takes a slot, or leaves one.
LEMMA WorkingMoved ==
    ASSUME Inv, NEW u \in Tasks, NEW s, SetsTask(u, s)
    PROVE  /\ s \in Active => Working' = Working \cup {u}
           /\ s \notin Active => Working' = Working \ {u} /\ Working' \subseteq Working
  BY Typed, OneTask DEF Working

\* What the transactions that begin no work do to the slots.
LEMMA SlotEffects ==
    ASSUME Inv, NEW t \in Tasks
    PROVE  /\ FailTask(t) => Working' = Working \ {t}
           /\ \/ FailTask(t) \/ FinishTask(t) \/ RetryTask(t) \/ RejectTask(t) \/ FailPendingTask(t)
              \/ ApproveTask(t) \/ RequestTaskApproval(t)
              => Working' \subseteq Working
           /\ (StartTask(t) \/ ResumeTask(t) \/ MarkTaskNeedsHuman(t)) /\ t \in Working
              => Working' = Working
<1>1. StoreInv
  BY Typed
<1>2. {"failed", "done", "pending", "awaiting_approval"} \cap Active = {}
  BY DEF Active, Followed
<1>3. ASSUME NEW s \in {"failed", "done", "pending", "awaiting_approval"}, SetsTask(t, s)
      PROVE  Working' = Working \ {t}
  BY <1>2, <1>3, WorkingMoved
<1>4. FailTask(t) \/ RejectTask(t) \/ FailPendingTask(t) => SetsTask(t, "failed")
  BY <1>1, TaskEffects DEF Moves
<1>5. RetryTask(t) \/ ApproveTask(t) => SetsTask(t, "pending")
  BY <1>1, TaskEffects DEF Moves
<1>6. /\ FinishTask(t) => SetsTask(t, "done")
      /\ RequestTaskApproval(t) => SetsTask(t, "awaiting_approval")
  BY <1>1, TaskEffects DEF Moves
<1>7. ASSUME NEW s \in {"running", "needs_human"}, SetsTask(t, s), t \in Working PROVE Working' = Working
  <2>1. s \in Active
    BY DEF Active, Followed
  <2>2. Working' = Working \cup {t}
    BY <1>7, <2>1, WorkingMoved
  <2>3. QED
    BY <1>7, <2>2
<1>8. /\ StartTask(t) \/ ResumeTask(t) => SetsTask(t, "running")
      /\ MarkTaskNeedsHuman(t) => SetsTask(t, "needs_human")
  BY <1>1, TaskEffects DEF Moves
<1>9. QED
  BY <1>3, <1>4, <1>5, <1>6, <1>7, <1>8

\* A task more, or less, is a slot more, or less.
LEMMA WorkingCount ==
    ASSUME NEW u \in Tasks, NEW S \in SUBSET Working
    PROVE  /\ IsFiniteSet(Working) /\ Cardinality(Working) \in Nat
           /\ Cardinality(S) \in Nat /\ Cardinality(S) <= Cardinality(Working)
           /\ Cardinality(Working \ {u}) \in Nat /\ Cardinality(Working \ {u}) <= Cardinality(Working)
           /\ Cardinality(Working \cup {u}) \in Nat
           /\ Cardinality(Working \cup {u}) <= Cardinality(Working \ {u}) + 1
<1>1. IsFiniteSet(Working) /\ Cardinality(Working) \in Nat
  BY Facts, FS_Subset, FS_CardinalityType DEF Working
<1>2. /\ IsFiniteSet(S) /\ Cardinality(S) <= Cardinality(Working)
      /\ IsFiniteSet(Working \ {u}) /\ Cardinality(Working \ {u}) <= Cardinality(Working)
  BY <1>1, FS_Subset
<1>3. (Working \ {u}) \cup {u} = Working \cup {u} /\ u \notin Working \ {u}
  OBVIOUS
<1>4. /\ IsFiniteSet(Working \cup {u})
      /\ Cardinality(Working \cup {u}) = Cardinality(Working \ {u}) + 1
  BY <1>2, <1>3, FS_AddElement
<1>5. QED
  BY <1>1, <1>2, <1>4, FS_CardinalityType

\* What a step that takes no slot is to respect.
LEMMA SlotKept ==
    ASSUME Inv, Working' \subseteq Working,
           pc' = "dispatch" => active' = active /\ pc \in {"dispatch", "parents", "intent"},
           pc' \in {"parents", "intent"} => active' = active /\ pc \in {"parents", "intent"},
           pc' \in CreatePcs \cup {"depFailed"} /\ phase' = "dispatch" =>
              /\ active' = active /\ job'.task = job.task /\ phase = "dispatch"
              /\ pc \in CreatePcs \cup {"depFailed"}
    PROVE  SlotInv'
<1>1. IsFiniteSet(Working) /\ IsFiniteSet(Working')
  BY Facts, FS_Subset DEF Working
<1>2. /\ Cardinality(Working) \in Nat /\ Cardinality(Working') \in Nat
      /\ Cardinality(Working') <= Cardinality(Working)
  BY <1>1, FS_Subset, FS_CardinalityType
<1>3. /\ Cardinality(Working \ {job.task}) \in Nat /\ Cardinality(Working' \ {job.task}) \in Nat
      /\ Cardinality(Working' \ {job.task}) <= Cardinality(Working \ {job.task})
  <2>1. IsFiniteSet(Working \ {job.task}) /\ IsFiniteSet(Working' \ {job.task})
    BY <1>1, FS_Subset
  <2>2. Working' \ {job.task} \subseteq Working \ {job.task}
    OBVIOUS
  <2>3. QED
    BY <2>1, <2>2, FS_Subset, FS_CardinalityType
<1>4. active \in Nat /\ MaxParallel \in Nat
  BY Typed, Facts DEF LoopTypes
<1>5. QED
  BY <1>2, <1>3, <1>4 DEF Inv, SlotInv, CreatePcs

\* dispatchReady never counts fewer slots than are taken.
LEMMA SlotStep ==
    ASSUME Inv, Next PROVE SlotInv'
<1>w. derived'.task = derived.task => Working' = Working
  BY DEF Working
<1>p. pc \in PollPcs \cup {"tick", "bury"} => phase = "tick"
  BY Typed DEF PhaseInv, PollPcs, DispatchPcs, CreatePcs, Stages
<1>s. phase \in {"tick", "dispatch"}
  BY Typed DEF StepTypes
<1> USE DEF PollPcs, CreatePcs, Stages, Active, Followed
<1>1. CASE (\E t \in Tasks : ReconcileUnreachable(t)) \/ CreateUnreachable \/
           (\E t \in Tasks : PollUnreachable(t)) \/ MarkerUnreachable \/
           KillUnreachable
  BY <1>1, <1>w, <1>p, <1>s, SlotKept DEF ReconcileUnreachable, Reconciled,
        AbortTick, CreateUnreachable, Created, Fresh, At, PollUnreachable, Polled,
        MarkerUnreachable, JobUnreachable, KillUnreachable, Terminated, storeVars
<1>2. CASE Stop \/ (\E t \in Tasks : ReconcileInterrupted(t)) \/ Crash
  BY <1>2, <1>w, <1>p, <1>s, SlotKept DEF Stop, Exit, ReconcileInterrupted,
        Reconciled, Crash, storeVars, At
<1>3. CASE Start \/ PlanOver \/ CLIApprovePlan
  BY <1>3, <1>w, SlotKept, PlanEffects, Apart DEF Start, PlanOver, Exit,
        CLIApprovePlan, jobVars, loopVars, cliFrame, Turns, At
<1>4. CASE Tick \/ (\E t \in Tasks : ReconcileCreate(t)) \/ ReadState \/
           AllDispatched \/ PlanGoesOn
  BY <1>4, <1>w, <1>p, <1>s, SlotKept DEF Tick, ReconcileCreate, Reconciled, First,
        ReadState, AllDispatched, PlanGoesOn, jobVars, storeVars, loopVars, At
<1>5. ASSUME NEW d \in Tasks, ParentConflict(d) \/ ParentBlocked(d)
           PROVE  SlotInv'
  BY <1>5, <1>w, <1>p, <1>s, SlotKept DEF ParentConflict, At, First, ParentBlocked,
        Return, jobFrame, loopVars, parentFrame, storeVars
<1>6. CASE ParentsChecked \/ CreateAnswered \/ MergeBlocked
  BY <1>6, <1>w, <1>p, <1>s, SlotKept, Typed DEF ParentsChecked, At, CreateAnswered,
        Fresh, MergeBlocked, Return, jobFrame, loopVars, parentFrame, storeVars,
        createFrame, Jobs, StepTypes
<1>7. ASSUME NEW t \in Tasks, CLIApprove(t) \/ CLIReject(t) PROVE SlotInv'
  BY <1>7, <1>p, <1>s, SlotKept, SlotEffects, Apart DEF CLIApprove, CLIReject,
        cliFrame, jobVars, loopVars, At
<1>8. ASSUME NEW t \in Tasks, Cascade(t) \/ Gate(t) \/ PollLost(t)
           PROVE  SlotInv'
  BY <1>8, <1>p, <1>s, SlotKept, SlotEffects, Apart DEF Cascade, Blocked, Gate,
        Dispatched, First, MustWait, PollLost, Polled, PollDone, FailAs, jobVars,
        pollFrame, At
<1>9. CASE MarkerError \/ CommitError \/ MergeError \/ SettleFail
  BY <1>9, <1>p, <1>s, SlotKept, SlotEffects, Apart, Typed DEF MarkerError, FailJob,
        FailAs, Return, CommitError, MergeError, SettleFail, jobFrame, loopVars, At,
        StepTypes
<1>10. ASSUME NEW t \in Tasks, PollNeedsHuman(t) \/ PollRunning(t)
           PROVE  SlotInv'
  <2>1. t \in Working
    BY <1>10, Typed DEF PollNeedsHuman, PollRunning, Polled, First, LoopInv, Working
  <2>2. Working' = Working
    BY <1>10, <1>w, <2>1, SlotEffects DEF PollNeedsHuman, PollRunning, storeVars
  <2>3. QED
    BY <1>10, <2>2, SlotKept DEF PollNeedsHuman, PollRunning, Polled, PollDone
<1>11. ASSUME NEW t \in Tasks, PollTimeout(t) \/ PollNoSignal(t) \/ PollEnded(t) \/
                               PollMerged(t) PROVE SlotInv'
  BY <1>11, <1>w, <1>p, <1>s, SlotKept DEF PollTimeout, Polled, PollGoesOn, First,
        PollNoSignal, PollDone, PollEnded, PollMerged, pollFrame, storeVars,
        jobVars, At
<1>12. CASE MarkerFail \/ Tier1DiffError \/ MergeConflict
  BY <1>12, <1>w, <1>p, <1>s, SlotKept DEF MarkerFail, KillThen, KillFirst, Goto,
        GoAndTell, Tier1DiffError, MergeConflict, jobFrame, loopVars, storeVars, At
<1>13. CASE Tier0Pass \/ CommitDone \/ Tier1Pass \/ MergeBranch \/ MergeDone
  BY <1>13, <1>w, <1>p, <1>s, SlotKept DEF Tier0Pass, SetClock, AppendRow,
        GoAndTell, CommitDone, Goto, Tier1Pass, MergeBranch, MergeDone, jobFrame, loopVars,
        storeVars, At
<1>14. CASE Tier0Empty \/ Tier0Fail \/ Tier1Fail
  BY <1>14, <1>w, <1>p, <1>s, SlotKept DEF Tier0Empty, RetryOrFail, KillFirst,
        AppendRow, GoAndTell, Tier0Fail, Tier1Fail, SetClock, jobFrame, loopVars,
        storeVars, At
<1>15. CASE MarkerMalformed \/ Tier1LLMError
  BY <1>15, <1>w, <1>p, <1>s, SlotKept DEF MarkerMalformed, KillThen, KillFirst,
        Goto, GoAndTell, SetClock, Return, Tier1LLMError, jobFrame, loopVars,
        storeVars, At
<1>16. CASE Finish \/ SettleRetry
  BY <1>16, <1>p, <1>s, SlotKept, SlotEffects, Apart, Typed DEF Finish, Return,
        SettleRetry, jobFrame, jobVars, loopVars, At, StepTypes
<1>17. CASE Bury \/ Kill
  BY <1>17, <1>w, <1>p, <1>s, SlotKept DEF Bury, Return, Terminated, Kill, jobFrame,
        loopVars, storeVars, jobVars, At
<1>18. ASSUME NEW t \in Tasks, ReconcileAdopt(t) PROVE SlotInv'
  <2>1. PICK s \in SessionIds : DispatchTask(t, s)
    BY <1>18 DEF ReconcileAdopt, SessionsNamed
  <2>2. Moves(t, {"pending", "dispatching"}, "dispatched") /\ derived.task[t] = "dispatching"
    BY <1>18, <2>1, Typed, TaskEffects DEF ReconcileAdopt, Reconciled, First, LoopInv
  <2>3. Working' = Working
    BY <2>2, WorkingMoved DEF Moves, Working
  <2>4. QED
    BY <1>18, <2>3, SlotKept DEF ReconcileAdopt, Reconciled
<1>19. CASE CreateRefused
  <2>1. job.task \in Tasks /\ Working' = Working \ {job.task}
    BY <1>19, Apart, SlotEffects DEF CreateRefused, FailAs, At
  <2>2. /\ Cardinality(Working) \in Nat /\ Cardinality(Working \ {job.task}) \in Nat
        /\ Cardinality(Working \ {job.task}) <= Cardinality(Working)
    BY <2>1, WorkingCount
  <2>3. active \in Nat /\ MaxParallel \in Nat
    BY Typed, Facts DEF LoopTypes
  <2>4. QED
    BY <1>19, <1>s, <2>1, <2>2, <2>3 DEF CreateRefused, At, Return, TakeSlot, Inv, SlotInv
<1>20. CASE Record
  <2>1. /\ job.task \in Tasks /\ derived.task[job.task] = "dispatching" /\ StoreInv
        /\ DispatchTask(job.task, job.session)
    BY <1>20, Apart, Typed DEF Record, At, JobInv
  <2>2. Working' = Working \cup {job.task} /\ job.task \in Working
    BY <2>1, TaskEffects, WorkingMoved DEF Moves, Working
  <2>3. Working' = Working
    BY <2>2
  <2>4. /\ Cardinality(Working) \in Nat /\ Cardinality(Working \ {job.task}) \in Nat
        /\ Cardinality(Working \cup {job.task}) <= Cardinality(Working \ {job.task}) + 1
    BY <2>1, WorkingCount
  <2>5. active \in Nat /\ MaxParallel \in Nat
    BY Typed, Facts DEF LoopTypes
  <2>6. QED
    BY <1>20, <1>s, <2>2, <2>3, <2>4, <2>5 DEF Record, At, Return, TakeSlot, Inv, SlotInv
<1>21. CASE ReadReady
  <2>1. Working' = Working /\ Working \subseteq {t \in Tasks : seen[t] \in Active}
    BY <1>21, Typed, <1>w DEF ReadReady, storeVars, LoopInv, Working
  <2>2. IsFiniteSet({t \in Tasks : seen[t] \in Active})
    BY Facts, FS_Subset
  <2>3. Cardinality(Working) <= Cardinality({t \in Tasks : seen[t] \in Active})
    BY <2>1, <2>2, FS_Subset
  <2>4. QED
    BY <1>21, <2>1, <2>3 DEF ReadReady, Inv, SlotInv
<1>22. ASSUME NEW t \in Tasks, Consider(t) PROVE SlotInv'
  <2>1. Working' = Working
    BY <1>22, <1>w DEF Consider, storeVars
  <2>2. QED
    BY <1>22, <2>1 DEF Consider, Dispatched, dispatchFrame, Inv, SlotInv
<1>23. CASE Intent
  <2>1. job.task \in Tasks /\ Working' = Working \cup {job.task}
    BY <1>23, Apart, TaskEffects, WorkingMoved DEF Intent, At, Moves
  <2>2. /\ Cardinality(Working) \in Nat /\ Cardinality(Working \ {job.task}) \in Nat
        /\ Cardinality(Working \ {job.task}) <= Cardinality(Working)
        /\ Cardinality(Working \cup {job.task}) \in Nat
        /\ Cardinality(Working \cup {job.task}) <= Cardinality(Working \ {job.task}) + 1
    BY <2>1, WorkingCount
  <2>3. active \in Nat /\ MaxParallel \in Nat /\ Cardinality(Working) <= active /\ active < MaxParallel
    BY <1>23, Typed, Facts DEF Intent, At, LoopTypes, Inv, SlotInv
  <2>4. Working' \ {job.task} = Working \ {job.task}
    BY <2>1
  <2>5. QED
    BY <1>23, <2>1, <2>2, <2>3, <2>4 DEF Intent, jobFrame, jobVars, loopVars, SlotInv
<1>24. CASE DependencyFailed
  <2>1. job.task \in Tasks /\ Working' = Working \ {job.task}
    BY <1>24, Apart, SlotEffects DEF DependencyFailed, FailJob, FailAs, At
  <2>2. /\ Cardinality(Working) \in Nat /\ Cardinality(Working \ {job.task}) \in Nat
        /\ Cardinality(Working \ {job.task}) <= Cardinality(Working)
    BY <2>1, WorkingCount
  <2>3. active \in Nat /\ MaxParallel \in Nat
    BY Typed, Facts DEF LoopTypes
  <2>4. QED
    BY <1>24, <1>s, <2>1, <2>2, <2>3 DEF DependencyFailed, At, Return, FailJob, jobFrame, loopVars, Inv, SlotInv
<1>25. CASE MarkerOK
  BY <1>25, <1>w, <1>p, <1>s, SlotKept, StageNext DEF MarkerOK, Goto, GoAndTell,
        jobFrame, loopVars, storeVars, At
<1>26. CASE MarkerAbsent
  BY <1>26, <1>p, <1>s, SlotKept, SlotEffects, Apart, <1>w DEF MarkerAbsent,
        KillThen, KillFirst, Goto, GoAndTell, SetClock, Return, FailJob, FailAs,
        jobFrame, loopVars, storeVars, At
<1>27. CASE (\E t \in Tasks : Postpone(t)) \/ (\E d \in Tasks : ParentMerged(d))
  BY <1>27, <1>w, <1>p, <1>s, SlotKept DEF Postpone, Dispatched, First,
        ParentMerged, At, jobVars, storeVars, jobFrame, loopVars, parentFrame
<1>28. CASE LateCreate \/ (\E s \in SessionIds : SessionEnds(s)) \/
            (\E s \in SessionIds : SessionRemoved(s)) \/ Interrupt
  BY <1>28, <1>w, <1>p, <1>s, SlotKept DEF LateCreate, Fresh, SessionEnds,
        SessionRemoved, Interrupt, jobVars, loopVars, storeVars, At
<1>29. QED
  BY <1>1, <1>2, <1>3, <1>4, <1>5, <1>6, <1>7, <1>8, <1>9, <1>10, <1>11, <1>12,
     <1>13, <1>14, <1>15, <1>16, <1>17, <1>18, <1>19, <1>20, <1>21, <1>22, <1>23,
     <1>24, <1>25, <1>26, <1>27, <1>28
     DEF Next, RunStep, PollStep, CLIStep, AOStep

-----------------------------------------------------------------------------
(* The clocks.                                                             *)

\* What a step that moves a task is to do with its clock.
LEMMA ClocksMoved ==
    ASSUME Inv, NEW u \in Tasks, NEW s, SetsTask(u, s),
           \/ UNCHANGED clock /\ derived.task[u] \notin Followed
           \/ clock' = Unobserved(u)
           \/ clock' = Observed(u) /\ s \in Followed
    PROVE  ClocksOfFollowed'
<1>1. \A t \in Tasks : derived'.task[t] = IF t = u THEN s ELSE derived.task[t]
  BY Typed, OneTask
<1>2. clock \in [Tasks -> Clocks] /\ ClocksOfFollowed
  BY TypeParts DEF Inv
<1>3. QED
  BY <1>1, <1>2 DEF ClocksOfFollowed, Observed, Unobserved

\* And one that moves none.
LEMMA ClocksKept ==
    ASSUME Inv, derived'.task = derived.task,
           \/ UNCHANGED clock
           \/ clock' = [t \in Tasks |-> NoClock]
           \/ \E u \in Tasks : /\ derived.task[u] \in Followed
                              /\ \A t \in Tasks \ {u} : clock'[t] = clock[t]
    PROVE  ClocksOfFollowed'
<1>1. ClocksOfFollowed
  BY TypeParts DEF Inv
<1>2. QED
  BY <1>1 DEF ClocksOfFollowed

\* No task has a clock but one that is followed.
LEMMA FollowedStep ==
    ASSUME Inv, Next PROVE ClocksOfFollowed'
<1>j. pc \in PollPcs => job.task \in Tasks /\ derived.task[job.task] \in Followed
  BY Typed DEF JobInv
<1>p. \A t \in toPoll : t \in Tasks /\ derived.task[t] \in Followed
  BY Typed DEF LoopInv, LoopTypes
<1>c. clock \in [Tasks -> Clocks]
  BY TypeParts DEF Inv
<1>o. \A u \in Tasks : clock' = Observed(u) => \A t \in Tasks \ {u} : clock'[t] = clock[t]
  BY <1>c DEF Observed
<1>s. pc \in PollPcs =>
         /\ \A b : SetClock("bad", b) => \A t \in Tasks \ {job.task} : clock'[t] = clock[t]
         /\ \A p : SetClock("progress", p) => \A t \in Tasks \ {job.task} : clock'[t] = clock[t]
         /\ \A n : SetClock("llmErrs", n) => \A t \in Tasks \ {job.task} : clock'[t] = clock[t]
  BY <1>c, <1>j DEF SetClock
<1>a. \A x : x \in Followed => x \in Active /\ x \notin {"pending", "dispatching", "awaiting_approval"}
  BY DEF Followed, Active
<1> USE DEF PollPcs, CreatePcs, Stages
<1>1. CASE MarkerError \/ CommitError \/ MergeError \/ SettleFail \/ DependencyFailed
  BY <1>1, <1>j, ClocksMoved, Apart, TaskEffects DEF DependencyFailed, At, FailJob,
        FailAs, MarkerError, CommitError, MergeError, SettleFail, Moves
<1>2. CASE CreateRefused
  BY <1>2, ClocksMoved, Apart, TaskEffects DEF CreateRefused, At, FailAs, Moves
<1>3. ASSUME NEW t \in Tasks, CLIApprove(t) \/ CLIReject(t) PROVE ClocksOfFollowed'
  BY <1>3, <1>a, ClocksMoved, Apart, TaskEffects DEF CLIApprove, CLIReject, cliFrame, memVars, Moves
<1>4. CASE Record \/ Intent
  BY <1>4, <1>a, ClocksMoved, Apart, TaskEffects DEF Record, At, Intent, Moves, memVars
<1>5. CASE Finish \/ SettleRetry
  BY <1>5, ClocksMoved, Apart, TaskEffects DEF Finish, SettleRetry, At, Moves
<1>6. ASSUME NEW t \in Tasks, PollLost(t) PROVE ClocksOfFollowed'
  BY <1>6, ClocksMoved, Apart, TaskEffects DEF PollLost, FailAs, Moves
<1>7. ASSUME NEW t \in Tasks, Cascade(t) \/ Gate(t) PROVE ClocksOfFollowed'
  BY <1>7, <1>a, ClocksMoved, Apart, TaskEffects DEF Cascade, Gate, Moves, dispatchFrame, memVars
<1>8. ASSUME NEW t \in Tasks, PollNeedsHuman(t) \/ PollRunning(t) PROVE ClocksOfFollowed'
  <2>1. clock' = Observed(t) /\ derived.task[t] \in Followed
    BY <1>8, <1>p DEF PollNeedsHuman, PollRunning, Polled, First
  <2>2. CASE UNCHANGED storeVars
    BY <2>1, <2>2, <1>o, ClocksKept DEF storeVars
  <2>3. CASE MarkTaskNeedsHuman(t) \/ ResumeTask(t) \/ StartTask(t)
    BY <2>1, <2>3, ClocksMoved, Apart, TaskEffects DEF Moves, Followed
  <2>4. QED
    BY <1>8, <2>2, <2>3 DEF PollNeedsHuman, PollRunning
<1>9. ASSUME NEW t \in Tasks, PollTimeout(t) \/ PollNoSignal(t) \/ PollEnded(t) \/
                              PollMerged(t) PROVE ClocksOfFollowed'
  BY <1>9, <1>p, <1>o, ClocksKept DEF PollTimeout, Polled, PollGoesOn, First,
        PollNoSignal, PollDone, PollEnded, PollMerged, storeVars
<1>10. ASSUME NEW t \in Tasks, ReconcileAdopt(t) PROVE ClocksOfFollowed'
  <2>1. PICK s \in SessionIds : DispatchTask(t, s)
    BY <1>10 DEF ReconcileAdopt, SessionsNamed
  <2>2. Moves(t, {"pending", "dispatching"}, "dispatched")
    BY <2>1, Typed, TaskEffects
  <2>3. QED
    BY <1>10, <2>2, <1>a, ClocksMoved DEF ReconcileAdopt, Moves, memVars
<1>11. CASE Start \/ CLIApprovePlan
  BY <1>11, ClocksKept, PlanEffects, Typed DEF Start, CLIApprovePlan, Turns, cliFrame, memVars
<1>12. CASE PlanOver
  BY <1>12, ClocksKept, PlanEffects, Typed DEF PlanOver, Turns, Exit
<1>13. CASE Stop \/ (\E t \in Tasks : ReconcileInterrupted(t)) \/ Crash
  BY <1>13, ClocksKept DEF Stop, Exit, ReconcileInterrupted, Crash, storeVars
<1>14. CASE MarkerOK
  BY <1>14, <1>j, <1>s, ClocksKept DEF MarkerOK, Goto, GoAndTell, storeVars, At
<1>15. CASE MarkerMalformed
  BY <1>15, <1>j, <1>s, ClocksKept DEF MarkerMalformed, KillThen, Goto, GoAndTell,
        storeVars, At
<1>16. CASE MarkerAbsent
  <2>1. CASE job.dead
    BY <1>16, <2>1, <1>j, ClocksMoved, Apart, TaskEffects DEF MarkerAbsent, At, FailJob, FailAs, Moves
  <2>2. CASE ~job.dead
    BY <1>16, <2>2, <1>j, <1>s, ClocksKept DEF MarkerAbsent, KillThen, Goto, GoAndTell,
          storeVars, At
  <2>3. QED
    BY <2>1, <2>2
<1>17. CASE Tier0Pass \/ CommitDone
  BY <1>17, <1>j, <1>s, ClocksKept DEF Tier0Pass, CommitDone, Goto, GoAndTell, storeVars, At
<1>18. CASE Tier1Pass
  <2>1. \A t \in Tasks \ {job.task} : clock'[t] = clock[t]
    BY <1>18, <1>c, <1>j DEF Tier1Pass, At
  <2>2. QED
    BY <1>18, <2>1, <1>j, ClocksKept DEF Tier1Pass, GoAndTell, storeVars, At
<1>19. CASE Tier1Fail
  BY <1>19, <1>j, <1>s, ClocksKept DEF Tier1Fail, RetryOrFail, GoAndTell, storeVars, At
<1>20. CASE Tier1LLMError
  BY <1>20, <1>j, <1>s, ClocksKept DEF Tier1LLMError, KillThen, Goto, GoAndTell, storeVars, At
<1>21. CASE Tick \/ (\E t \in Tasks : ReconcileCreate(t)) \/
            (\E t \in Tasks : ReconcileUnreachable(t)) \/ CreateAnswered \/
            CreateUnreachable \/ ReadState \/ ReadReady \/
            (\E t \in Tasks : Postpone(t)) \/ (\E t \in Tasks : Consider(t)) \/
            (\E d \in Tasks : ParentMerged(d)) \/ (\E d \in Tasks : ParentConflict(d)) \/
            (\E d \in Tasks : ParentBlocked(d)) \/ ParentsChecked \/ AllDispatched \/
            PlanGoesOn
  BY <1>21, ClocksKept DEF Tick, ReconcileCreate, ReconcileUnreachable, AbortTick,
        CreateAnswered, CreateUnreachable, ReadState, ReadReady, Postpone, Consider,
        ParentMerged, ParentConflict, ParentBlocked, ParentsChecked, AllDispatched,
        PlanGoesOn, storeVars, memVars, parentFrame, dispatchFrame
<1>22. CASE (\E t \in Tasks : PollUnreachable(t)) \/ MarkerFail \/ MarkerUnreachable \/
            Tier0Empty \/ Tier0Fail \/ Tier1DiffError \/ MergeBranch \/ MergeDone \/
            MergeConflict \/ MergeBlocked \/ Bury \/ Kill \/ KillUnreachable
  BY <1>22, ClocksKept DEF PollUnreachable, AbortTick, MarkerFail, KillThen, Goto,
        GoAndTell, MarkerUnreachable, JobUnreachable, Tier0Empty, RetryOrFail, Tier0Fail,
        Tier1DiffError, MergeBranch, MergeDone, MergeConflict, MergeBlocked, Bury, Kill,
        KillUnreachable, storeVars, memVars
<1>23. CASE LateCreate \/ (\E s \in SessionIds : SessionEnds(s)) \/
            (\E s \in SessionIds : SessionRemoved(s)) \/ Interrupt
  BY <1>23, ClocksKept DEF LateCreate, SessionEnds, SessionRemoved, Interrupt, storeVars,
        memVars
<1>24. QED
  BY <1>1, <1>2, <1>3, <1>4, <1>5, <1>6, <1>7, <1>8, <1>9, <1>10, <1>11, <1>12,
     <1>13, <1>14, <1>15, <1>16, <1>17, <1>18, <1>19, <1>20, <1>21, <1>22, <1>23
     DEF Next, RunStep, PollStep, CLIStep, AOStep

-----------------------------------------------------------------------------
(* The invariant.                                                          *)

\* Every step keeps it.
LEMMA SchedulerStep == Inv /\ [Next]_vars => Inv'
<1> SUFFICES ASSUME Inv, [Next]_vars PROVE Inv'
  OBVIOUS
<1>1. CASE Next
  <2>1. StoreInv' /\ StoreTypeOK'
    BY <1>1, StoreStep DEF StoreInv
  <2>2. LoopTypes' /\ StepTypes' /\ job' \in Jobs
    BY <1>1, TypeParts, LoopTypesStep, StepTypesStep, JobTypeStep DEF Inv
  <2>3. AOTypes' /\ RecordTypes' /\ clock' \in [Tasks -> Clocks] /\ ClocksOfFollowed'
    BY <1>1, TypeParts, AOTypesStep, RecordTypesStep, ClockTypeStep, FollowedStep DEF Inv
  <2>4. ControlInv' /\ SlotInv'
    BY <1>1, PhaseStep, LoopStep, JobStep, TaskStep, SlotStep DEF ControlInv
  <2>5. TypeOK'
    BY <2>1, <2>2, <2>3 DEF TypeOK, LoopTypes, StepTypes, AOTypes, RecordTypes, Jobs, Whys, Clocks
  <2>6. QED
    BY <2>1, <2>4, <2>5 DEF Inv
<1>2. CASE UNCHANGED vars
  <2> USE <1>2 DEF vars, storeVars, aoVars, rowVars, jobVars, loopVars, memVars, envVars
  <2>1. StoreInv' /\ StoreTypeOK'
    BY DEF Inv, StoreInv, StoreTypeOK, CacheMatchesReplay, SessionMatchesStatus
  <2>2. TypeOK'
    BY <2>1 DEF Inv, TypeOK, ClocksOfFollowed
  <2>3. PhaseInv' /\ LoopInv'
    BY DEF Inv, ControlInv, PhaseInv, LoopInv, Founded
  <2>4. JobInv' /\ TaskInv'
    BY DEF Inv, ControlInv, JobInv, TaskInv, Founded
  <2>5. SlotInv'
    BY DEF Inv, SlotInv, Working
  <2>6. QED
    BY <2>1, <2>2, <2>3, <2>4, <2>5 DEF Inv, ControlInv
<1>3. QED
  BY <1>1, <1>2

\* A draft satisfies it, and a running plan an older binary left.
LEMMA InitFamily ==
    ASSUME NEW legacy, legacy \subseteq Tasks, \A t \in legacy : Deps[t] \subseteq legacy,
           InitWith(legacy)
    PROVE  Inv
<1> USE DEF InitWith
<1>1. 1 \in 1..Copies /\ 0 \in 0..MaxVerifyRounds /\ 0 \in 0..LLMErrBound /\ 0 \in 0..MaxStops
  BY SchedulerAssumption
<1>2. \A t \in Tasks : <<t, 0, 1>> \in SessionIds
  BY <1>1, SchedulerAssumption
<1>3. /\ planCache \in PlanStatuses /\ taskCache \in [Tasks -> TaskStatuses]
      /\ session \in [Tasks -> SessionIds \cup {NoSession}] /\ derived \in Derived
  BY <1>2 DEF PlanStatuses, TaskStatuses, Derived
<1>4. \A t \in Tasks : derived.task[t] = IF t \in legacy THEN "done" ELSE "pending"
  OBVIOUS
<1>5. StoreTypeOK
  BY <1>3 DEF StoreTypeOK, Derived
<1>6. StoreInv
  BY <1>2, <1>5, Facts DEF StoreInv, CacheMatchesReplay, SessionMatchesStatus, Followed
<1>7. TypeOK
  <2>1. LoopTypes /\ StepTypes /\ AOTypes
    BY <1>1 DEF LoopTypes, StepTypes, AOTypes, Pcs, TaskStatuses
  <2>2. RecordTypes /\ job \in Jobs /\ clock \in [Tasks -> Clocks] /\ ClocksOfFollowed
    BY NoTypes DEF RecordTypes, Outcomes, ClocksOfFollowed
  <2>3. QED
    BY <1>5, <2>1, <2>2, TypeParts
<1>8. ControlInv
  <2>1. PhaseInv /\ LoopInv
    BY DEF PhaseInv, LoopInv, DispatchPcs, CreatePcs
  <2>2. JobInv /\ TaskInv
    BY <1>4, Facts DEF JobInv, TaskInv, PollPcs, CreatePcs, Stages
  <2>3. QED
    BY <2>1, <2>2 DEF ControlInv
<1>9. SlotInv
  <2>1. Working = {}
    BY <1>4 DEF Working, Active, Followed
  <2>2. Cardinality(Working) = 0
    BY <2>1, FS_EmptySet
  <2>3. QED
    BY <2>2, Facts DEF SlotInv, CreatePcs
<1>10. QED
  BY <1>6, <1>7, <1>8, <1>9 DEF Inv

\* The initial states satisfy it.
LEMMA SchedulerInit == Init => Inv
  BY SchedulerAssumption, InitFamily DEF Init

\* Inv is an invariant of Scheduler.
LEMMA SchedulerInvariance == Spec => []Inv
  BY SchedulerInit, SchedulerStep, PTL DEF Spec

\* Whatever the process, the command line, AO and crashes do, the state keeps
\* its types: in particular a call into AO or the store has a task and a session
\* to name, and no clock survives the end of its task's round.
THEOREM SchedulerTypeCorrect == Spec => []TypeOK
<1>1. Inv => TypeOK
  BY DEF Inv
<1>2. QED
  BY <1>1, SchedulerInvariance, PTL

\* Never more than MaxParallel tasks hold a session or are getting one
\* (dispatchReady), though each tick counts once and dispatches many, retries and
\* approvals come in between, and a resume finds tasks half dispatched.
THEOREM SlotsBounded == Spec => []ParallelBound
<1>1. Inv => ParallelBound
  BY DEF Inv, SlotInv, Working, ParallelBound
<1>2. QED
  BY <1>1, SchedulerInvariance, PTL

-----------------------------------------------------------------------------
(* The refinement.                                                         *)

Stage == [t \in Tasks |-> StageOf[derived.task[t]]]

\* A step of PlanExecution, or none.
Promised == [Execution!ExecNext]_(Execution!execVars)

\* Stages and statuses.
LEMMA StageType ==
    ASSUME derived \in Derived
    PROVE  /\ \A t \in Tasks : Stage[t] = "working" <=> derived.task[t] \in Active
           /\ \A t \in Tasks : Stage[t] = "done" <=> derived.task[t] = "done"
           /\ \A t \in Tasks : Stage[t] = "failed" <=> derived.task[t] = "failed"
           /\ \A t \in Tasks : Stage[t] = "waiting" <=> derived.task[t] \in {"pending", "awaiting_approval"}
  BY DEF Derived, Stage, StageOf, Active, Followed, TaskTerminal, TaskStatuses

\* A transaction on a task moves its stage.
LEMMA StageMoved ==
    ASSUME derived \in Derived, NEW t \in Tasks, NEW s \in TaskStatuses, SetsTask(t, s)
    PROVE  Stage' = [Stage EXCEPT ![t] = StageOf[s]]
<1>1. \A u \in Tasks : derived'.task[u] = IF u = t THEN s ELSE derived.task[u]
  BY OneTask
<1>2. QED
  BY <1>1 DEF Stage

\* The same operator, as this module and as PlanExecution name it.
LEMMA SameCardinality == \A S : Execution!Cardinality(S) = Cardinality(S)
  BY Zenon DEF Execution!Cardinality, Cardinality

\* The stage each status belongs to.
LEMMA StageNames ==
    /\ \A s \in Active : StageOf[s] = "working" /\ s \in TaskStatuses
    /\ \A s \in {"done", "failed"} : StageOf[s] = s /\ s \in TaskStatuses
    /\ \A s \in {"pending", "awaiting_approval"} : StageOf[s] = "waiting" /\ s \in TaskStatuses
  BY DEF StageOf, Active, Followed, TaskTerminal, TaskStatuses

\* Tasks by stage, and whose parents are done.
LEMMA InStage ==
    ASSUME derived \in Derived
    PROVE  /\ Execution!In("working") = Working
           /\ Execution!In("done") = {t \in Tasks : derived.task[t] = "done"}
           /\ Execution!In("failed") = {t \in Tasks : derived.task[t] = "failed"}
           /\ Execution!In("waiting") = {t \in Tasks : derived.task[t] \in {"pending", "awaiting_approval"}}
           /\ \A t \in Tasks : Execution!ParentsDone(t) <=> Founded(t)
<1>1. \A t \in Tasks : Stage[t] = StageOf[derived.task[t]]
  BY DEF Stage
<1>2. \A t \in Tasks : Deps[t] \subseteq Tasks
  BY Facts
<1>3. QED
  BY <1>1, <1>2, StageType DEF Execution!In, Execution!ParentsDone, Working, Founded, Stage

\* A transaction that leaves its task in its stage is no step of PlanExecution.
LEMMA SameStage ==
    ASSUME derived \in Derived, NEW t \in Tasks, NEW from, NEW s \in TaskStatuses,
           Moves(t, from, s), StageOf[s] = Stage[t]
    PROVE  UNCHANGED Execution!execVars
<1>1. Stage' = Stage
  <2>1. Stage' = [Stage EXCEPT ![t] = Stage[t]]
    BY StageMoved DEF Moves
  <2>2. QED
    BY <2>1 DEF Stage
<1>2. QED
  BY <1>1 DEF Moves, KeepsPlan, KeepsRounds, KeepsApproved, Execution!execVars, Stage

\* What the transactions on a task are to PlanExecution.
LEMMA TaskPromise ==
    ASSUME Inv, NEW t \in Tasks, derived.plan = "running"
    PROVE  /\ FailTask(t) => Execution!Fail(t)
           /\ FailPendingTask(t) /\ (\E d \in Deps[t] : derived.task[d] = "failed") => Execution!Fail(t)
           /\ FinishTask(t) => Execution!Succeed(t)
           /\ RetryTask(t) /\ derived.rounds[t] < MaxVerifyRounds => Execution!SendBack(t)
           /\ /\ MarkTaskDispatching(t) /\ Founded(t) /\ (t \in Gated => t \in derived.approved)
              /\ Cardinality(Working) < MaxParallel
              => Execution!Work(t)
           /\ StartTask(t) \/ ResumeTask(t) \/ MarkTaskNeedsHuman(t) \/ RequestTaskApproval(t)
              => UNCHANGED Execution!execVars
           /\ \A s : DispatchTask(t, s) /\ derived.task[t] = "dispatching" => UNCHANGED Execution!execVars
<1>1. StoreInv /\ derived \in Derived /\ TaskInv
  BY Typed
<1>2. Stage[t] = StageOf[derived.task[t]]
  BY DEF Stage
<1>3. /\ "failed" \in TaskStatuses /\ "done" \in TaskStatuses /\ "pending" \in TaskStatuses
      /\ "awaiting_approval" \in TaskStatuses /\ Active \subseteq TaskStatuses
      /\ StageOf["failed"] = "failed" /\ StageOf["done"] = "done"
      /\ \A s \in {"pending", "awaiting_approval"} : StageOf[s] = "waiting"
      /\ \A s \in Active : StageOf[s] = "working"
  BY StageNames
<1>4. Founded(t) <=> Execution!ParentsDone(t)
  BY <1>1, InStage
<1>5. ASSUME NEW from, Moves(t, from, "failed"),
             \/ derived.task[t] \in Active \cup {"awaiting_approval"}
             \/ derived.task[t] = "pending" /\ \E d \in Deps[t] : derived.task[d] = "failed"
      PROVE  Execution!Fail(t)
  <2>1. Stage' = [Stage EXCEPT ![t] = "failed"]
    BY <1>1, <1>3, <1>5, StageMoved DEF Moves
  <2>2. \/ Stage[t] = "working"
        \/ Stage[t] = "waiting" /\ t \in Gated /\ Execution!ParentsDone(t)
        \/ Stage[t] = "waiting" /\ \E d \in Deps[t] : Stage[d] = "failed"
    <3>1. CASE derived.task[t] \in Active
      BY <1>2, <1>3, <3>1
    <3>2. CASE derived.task[t] = "awaiting_approval"
      BY <1>1, <1>2, <1>3, <1>4, <3>2 DEF TaskInv
    <3>3. CASE derived.task[t] = "pending" /\ \E d \in Deps[t] : derived.task[d] = "failed"
      BY <1>1, <1>2, <1>3, <3>3, StageType, Facts
    <3>4. QED
      BY <1>5, <3>1, <3>2, <3>3
  <2>3. QED
    BY <1>5, <2>1, <2>2 DEF Execution!Fail, Execution!MoveTo, Moves, KeepsPlan, KeepsRounds,
                            KeepsApproved, Stage
<1>6. FailTask(t) => Execution!Fail(t)
  BY <1>1, <1>5, TaskEffects DEF Moves
<1>7. FailPendingTask(t) /\ (\E d \in Deps[t] : derived.task[d] = "failed") => Execution!Fail(t)
  BY <1>1, <1>5, TaskEffects DEF Moves
<1>8. ASSUME FinishTask(t) PROVE Execution!Succeed(t)
  <2>1. Moves(t, Followed, "done") /\ derived.task[t] \in Active
    BY <1>1, <1>8, TaskEffects DEF Moves, Active
  <2>2. Stage' = [Stage EXCEPT ![t] = "done"] /\ Stage[t] = "working"
    BY <1>1, <1>2, <1>3, <2>1, StageMoved DEF Moves
  <2>3. QED
    BY <2>1, <2>2 DEF Execution!Succeed, Execution!MoveTo, Moves, KeepsPlan, KeepsRounds,
                      KeepsApproved, Stage
<1>9. ASSUME RetryTask(t), derived.rounds[t] < MaxVerifyRounds PROVE Execution!SendBack(t)
  <2>1. /\ derived.task[t] \in Active /\ SetsTask(t, "pending") /\ KeepsPlan /\ KeepsApproved
        /\ derived'.rounds = [derived.rounds EXCEPT ![t] = @ + 1]
    BY <1>1, <1>9, TaskEffects DEF Active
  <2>2. Stage' = [Stage EXCEPT ![t] = "waiting"] /\ Stage[t] = "working"
    BY <1>1, <1>2, <1>3, <2>1, StageMoved
  <2>3. QED
    BY <1>9, <2>1, <2>2 DEF Execution!SendBack, Execution!MoveTo, KeepsPlan, KeepsApproved, Stage
<1>10. ASSUME MarkTaskDispatching(t), Founded(t), t \in Gated => t \in derived.approved,
              Cardinality(Working) < MaxParallel
       PROVE  Execution!Work(t)
  <2>1. Moves(t, {"pending"}, "dispatching") /\ derived.task[t] = "pending" /\ "dispatching" \in Active
    BY <1>1, <1>10, TaskEffects DEF Moves, Active
  <2>2. Stage' = [Stage EXCEPT ![t] = "working"] /\ Stage[t] = "waiting"
    BY <1>1, <1>2, <1>3, <2>1, StageMoved DEF Moves
  <2>3. Execution!In("working") = Working
    BY <1>1, InStage
  <2>4. Execution!Cardinality(Execution!In("working")) < MaxParallel
    BY <1>10, <2>3, SameCardinality
  <2>5. QED
    BY <1>4, <1>10, <2>1, <2>2, <2>4
       DEF Execution!Work, Execution!MoveTo, Moves, KeepsPlan, KeepsRounds, KeepsApproved, Stage
<1>11. StartTask(t) \/ ResumeTask(t) \/ MarkTaskNeedsHuman(t) \/ RequestTaskApproval(t)
       => UNCHANGED Execution!execVars
  <2>1. {"dispatched", "running", "needs_human"} \subseteq Active
    BY DEF Active, Followed
  <2>2. \A s \in {"dispatched", "running", "needs_human"} : StageOf[s] = "working" /\ s \in TaskStatuses
    BY <1>3, <2>1
  <2>3. StartTask(t) => UNCHANGED Execution!execVars
    BY <1>1, <1>2, <2>2, TaskEffects, SameStage DEF Moves
  <2>4. ResumeTask(t) => UNCHANGED Execution!execVars
    BY <1>1, <1>2, <2>2, TaskEffects, SameStage DEF Moves
  <2>5. MarkTaskNeedsHuman(t) => UNCHANGED Execution!execVars
    BY <1>1, <1>2, <2>2, TaskEffects, SameStage DEF Moves
  <2>6. RequestTaskApproval(t) => UNCHANGED Execution!execVars
    BY <1>1, <1>2, <1>3, TaskEffects, SameStage DEF Moves
  <2>7. QED
    BY <2>3, <2>4, <2>5, <2>6
<1>12. ASSUME NEW s, DispatchTask(t, s), derived.task[t] = "dispatching"
       PROVE  UNCHANGED Execution!execVars
  <2>1. Moves(t, {"pending", "dispatching"}, "dispatched")
    BY <1>1, <1>12, TaskEffects
  <2>2. "dispatching" \in Active /\ "dispatched" \in Active
    BY DEF Active, Followed
  <2>3. QED
    BY <1>1, <1>2, <1>3, <1>12, <2>1, <2>2, SameStage
<1>13. QED
  BY <1>6, <1>7, <1>8, <1>9, <1>10, <1>11, <1>12

\* What the command line's transactions are to PlanExecution: a gate waits only
\* while the plan runs.
LEMMA CLIPromise ==
    ASSUME Inv
    PROVE  /\ ApprovePlan => Execution!Accept
           /\ \A t \in Tasks : ApproveTask(t) => Execution!Approve(t)
           /\ \A t \in Tasks : RejectTask(t) => Execution!Fail(t)
<1>1. StoreInv /\ derived \in Derived /\ TaskInv
  BY Typed
<1>2. ApprovePlan => Execution!Accept
  BY <1>1, PlanEffects DEF Turns, KeepsRounds, KeepsApproved, Execution!Accept
<1>3. ASSUME NEW t \in Tasks, ApproveTask(t) PROVE Execution!Approve(t)
  <2>1. /\ derived.task[t] = "awaiting_approval" /\ SetsTask(t, "pending")
        /\ KeepsPlan /\ KeepsRounds /\ derived'.approved = derived.approved \cup {t}
    BY <1>1, <1>3, TaskEffects
  <2>2. t \in Gated /\ derived.plan = "running" /\ Execution!ParentsDone(t)
    BY <1>1, <2>1, InStage DEF TaskInv
  <2>3. Stage[t] = "waiting"
    BY <2>1, StageNames DEF Stage
  <2>4. Stage' = Stage
    <3>1. Stage' = [Stage EXCEPT ![t] = "waiting"]
      BY <1>1, <2>1, StageMoved, StageNames
    <3>2. QED
      BY <2>3, <3>1 DEF Stage
  <2>5. QED
    BY <2>1, <2>2, <2>3, <2>4 DEF Execution!Approve, KeepsPlan, KeepsRounds, Stage
<1>4. ASSUME NEW t \in Tasks, RejectTask(t) PROVE Execution!Fail(t)
  <2>1. Moves(t, {"awaiting_approval"}, "failed") /\ derived.task[t] = "awaiting_approval"
    BY <1>1, <1>4, TaskEffects DEF Moves
  <2>2. t \in Gated /\ derived.plan = "running" /\ Execution!ParentsDone(t)
    BY <1>1, <2>1, InStage DEF TaskInv
  <2>3. Stage[t] = "waiting" /\ Stage' = [Stage EXCEPT ![t] = "failed"]
    BY <1>1, <2>1, StageMoved, StageNames DEF Stage, Moves
  <2>4. QED
    BY <2>1, <2>2, <2>3 DEF Execution!Fail, Execution!MoveTo, Moves, KeepsPlan, KeepsRounds,
                            KeepsApproved, Stage
<1>5. QED
  BY <1>2, <1>3, <1>4

\* A plan that is stuck has a failed task: were there none, an unfinished task of
\* least rank would be ready.
LEMMA StuckHasFailed ==
    ASSUME derived \in Derived, Stuck
    PROVE  \E t \in Tasks : derived.task[t] = "failed"
<1> SUFFICES ASSUME \A t \in Tasks : derived.task[t] # "failed" PROVE FALSE
  OBVIOUS
<1>1. \A t \in Tasks : derived.task[t] \in {"done", "pending"}
  BY DEF Derived, Stuck, AnyActive, AnyAwaiting, Active, Followed, TaskStatuses
<1>2. PICK rank \in [Tasks -> Tasks] : \A t \in Tasks : \A d \in Deps[t] : rank[d] < rank[t]
  BY SchedulerAssumption
<1> DEFINE Ranks == {rank[t] : t \in {u \in Tasks : derived.task[u] # "done"}}
<1>3. Ranks # {} /\ Ranks \subseteq Nat
  <2>1. PICK u \in Tasks : derived.task[u] # "done"
    BY DEF Stuck, AllDone
  <2>2. rank[u] \in Ranks
    BY <2>1
  <2>3. \A t \in Tasks : rank[t] \in Nat
    BY <1>2, SchedulerAssumption
  <2>4. QED
    BY <2>2, <2>3
<1>4. PICK least \in Ranks : \A r \in Ranks : ~(r < least)
  <2>1. PICK x \in Ranks : \A y \in Ranks : <<y, x>> \notin OpToRel(<, Nat)
    BY <1>3, NatLessThanWellFounded, WFMin
  <2>2. \A y \in Ranks : <<y, x>> \in Nat \X Nat /\ <<y, x>>[1] = y /\ <<y, x>>[2] = x
    BY <1>3
  <2>3. \A y \in Ranks : ~(y < x)
    BY <2>1, <2>2 DEF OpToRel
  <2>4. QED
    BY <2>3
<1>5. PICK t \in Tasks : derived.task[t] # "done" /\ rank[t] = least
  OBVIOUS
<1>6. \A d \in Deps[t] : d \in Tasks /\ derived.task[d] = "done"
  BY <1>2, <1>4, <1>5, Facts
<1>7. t \in Ready
  BY <1>1, <1>5, <1>6 DEF Ready
<1>8. QED
  BY <1>7 DEF Stuck

\* checkCompletion ends the plan as PlanExecution does.
LEMMA PlanOverPromise == ASSUME Inv, PlanOver PROVE Execution!End
<1>1. derived.plan = "running" /\ derived \in Derived /\ StoreInv
  BY Typed DEF PlanOver, PhaseInv
<1>2. CASE AllDone /\ FinishPlan
  <2>1. Execution!In("working") = {} /\ Execution!In("done") = Tasks
    BY <1>1, <1>2, InStage DEF AllDone, Working, Active, Followed
  <2>2. QED
    BY <1>1, <1>2, <2>1, PlanEffects DEF Execution!End, Turns, KeepsRounds, KeepsApproved
<1>3. CASE Stuck /\ FailPlan
  <2>1. Execution!In("working") = {}
    BY <1>1, <1>3, InStage DEF Stuck, AnyActive, Working
  <2>2. Execution!In("failed") # {}
    BY <1>1, <1>3, InStage, StuckHasFailed
  <2>3. \A t \in Execution!In("waiting") : ~Execution!ParentsDone(t)
    BY <1>1, <1>3, InStage DEF Stuck, AnyAwaiting, Ready, Founded
  <2>4. QED
    BY <1>1, <1>3, <2>1, <2>2, <2>3, PlanEffects DEF Execution!End, Turns, KeepsRounds, KeepsApproved
<1>4. QED
  BY <1>2, <1>3 DEF PlanOver

\* Every step is one of PlanExecution, or none.
LEMMA PromiseStep ==
    ASSUME Inv, Next PROVE Promised
<1>u. UNCHANGED derived => Promised
  BY DEF Promised, Execution!execVars
<1>n. /\ Execution!Accept \/ Execution!Begin \/ Execution!End => Promised
      /\ \A t \in Tasks : \/ Execution!Approve(t) \/ Execution!Work(t) \/ Execution!SendBack(t)
                          \/ Execution!Succeed(t) \/ Execution!Fail(t)
                          => Promised
      /\ UNCHANGED Execution!execVars => Promised
  BY DEF Promised, Execution!ExecNext
<1>r. /\ pc # "off" => derived.plan = "running"
      /\ pc \in PollPcs \cup CreatePcs \cup {"depFailed", "parents", "intent"} => job.task \in Tasks
  BY Typed, JobTask DEF PhaseInv
<1>t. ASSUME NEW t \in Tasks, derived.plan = "running"
      PROVE  /\ FailTask(t) \/ FinishTask(t) \/ StartTask(t) \/ ResumeTask(t) \/ MarkTaskNeedsHuman(t)
                \/ RequestTaskApproval(t) => Promised
             /\ FailPendingTask(t) /\ (\E d \in Deps[t] : derived.task[d] = "failed") => Promised
             /\ RetryTask(t) /\ derived.rounds[t] < MaxVerifyRounds => Promised
             /\ /\ MarkTaskDispatching(t) /\ Founded(t) /\ (t \in Gated => t \in derived.approved)
                /\ Cardinality(Working) < MaxParallel
                => Promised
             /\ \A s : DispatchTask(t, s) /\ derived.task[t] = "dispatching" => Promised
  BY <1>t, <1>n, TaskPromise
<1> USE DEF PollPcs, CreatePcs, Stages
<1>1. CASE Start
  <2>1. Execution!Begin \/ UNCHANGED Execution!execVars
    BY <1>1, Typed, PlanEffects DEF Start, Turns, KeepsRounds, KeepsApproved, Execution!Begin, Execution!execVars
  <2>2. QED
    BY <1>n, <2>1
<1>2. CASE PlanOver
  BY <1>2, <1>n, PlanOverPromise
<1>3. CASE CLIApprovePlan
  BY <1>3, <1>n, CLIPromise DEF CLIApprovePlan
<1>4. ASSUME NEW t \in Tasks, CLIApprove(t) \/ CLIReject(t) PROVE Promised
  BY <1>4, <1>n, CLIPromise DEF CLIApprove, CLIReject
<1>5. ASSUME NEW t \in Tasks, Gate(t) \/ PollLost(t) PROVE Promised
  BY <1>5, <1>r, <1>t, <1>n DEF Gate, Dispatched, First, MustWait, PollLost, Polled,
        PollDone, FailAs, At
<1>6. ASSUME NEW t \in Tasks, PollNeedsHuman(t) \/ PollRunning(t) PROVE Promised
  BY <1>6, <1>r, <1>t, <1>n, <1>u DEF PollNeedsHuman, Polled, PollDone, First,
        PollRunning, storeVars, At
<1>7. CASE DependencyFailed \/ MarkerError \/ CommitError \/ MergeError \/
           SettleFail \/ CreateRefused
  BY <1>7, <1>r, <1>t, <1>n DEF DependencyFailed, At, FailJob, FailAs, MarkerError,
        CommitError, MergeError, SettleFail, CreateRefused, Created, TakeSlot, Fresh
<1>8. CASE Finish
  BY <1>8, <1>r, <1>t, <1>n DEF Finish, At
<1>9. ASSUME NEW t \in Tasks, ReconcileAdopt(t) PROVE Promised
  <2>1. derived.task[t] = "dispatching" /\ derived.plan = "running"
    BY <1>9, Typed DEF ReconcileAdopt, Reconciled, First, LoopInv, PhaseInv
  <2>2. QED
    BY <1>9, <1>t, <2>1 DEF ReconcileAdopt
<1>10. CASE Record
  <2>1. job.task \in Tasks /\ derived.task[job.task] = "dispatching" /\ derived.plan = "running"
    BY <1>10, Typed DEF Record, At, JobInv, PhaseInv
  <2>2. QED
    BY <1>10, <1>t, <2>1 DEF Record
<1>11. ASSUME NEW t \in Tasks, Cascade(t) PROVE Promised
  <2>1. derived.plan = "running" /\ FailPendingTask(t)
    BY <1>11, <1>r DEF Cascade
  <2>2. \E d \in Deps[t] : derived.task[d] = "failed"
    BY <1>11, Typed, Facts DEF Cascade, Blocked, LoopInv
  <2>3. QED
    BY <1>t, <2>1, <2>2
<1>12. CASE Intent
  <2>1. /\ job.task \in Tasks /\ Founded(job.task) /\ derived.plan = "running"
        /\ job.task \in Gated => job.task \in derived.approved
    BY <1>12, Typed DEF Intent, At, JobInv, PhaseInv
  <2>2. Cardinality(Working) < MaxParallel
    <3>1. Cardinality(Working) \in Nat /\ active \in Nat /\ MaxParallel \in Nat
      BY <2>1, WorkingCount, Typed, Facts DEF LoopTypes
    <3>2. QED
      BY <1>12, <3>1 DEF Intent, At, Inv, SlotInv
  <2>3. QED
    BY <1>12, <1>t, <2>1, <2>2 DEF Intent
<1>13. CASE MarkerAbsent
  BY <1>13, <1>r, <1>t, <1>n, <1>u DEF MarkerAbsent, KillThen, KillFirst, Goto,
        GoAndTell, SetClock, Return, FailJob, FailAs, storeVars, At
<1>14. CASE SettleRetry
  <2>1. /\ job.task \in Tasks /\ derived.plan = "running"
        /\ derived.rounds[job.task] < MaxVerifyRounds
    BY <1>14, Typed DEF SettleRetry, At, JobInv, PhaseInv
  <2>2. QED
    BY <1>14, <1>t, <2>1 DEF SettleRetry
<1>15. CASE Stop \/ Tick \/ (\E t \in Tasks : ReconcileCreate(t)) \/
            (\E t \in Tasks : ReconcileUnreachable(t)) \/
            (\E t \in Tasks : ReconcileInterrupted(t)) \/ CreateAnswered \/
            CreateUnreachable \/ ReadState \/ ReadReady \/
            (\E t \in Tasks : Postpone(t)) \/ (\E t \in Tasks : Consider(t)) \/
            (\E d \in Tasks : ParentMerged(d))
  BY <1>15, <1>u DEF Stop, Exit, Tick, ReconcileCreate, Reconciled, First,
        ReconcileUnreachable, AbortTick, ReconcileInterrupted, CreateAnswered,
        Fresh, At, CreateUnreachable, Created, ReadState, ReadReady, Postpone,
        Dispatched, Consider, MustWait, ParentMerged, storeVars, parentFrame
<1>16. CASE (\E d \in Tasks : ParentConflict(d)) \/
            (\E d \in Tasks : ParentBlocked(d)) \/ ParentsChecked \/ AllDispatched \/
            PlanGoesOn
  BY <1>16, <1>u DEF ParentConflict, At, First, ParentBlocked, Return,
        ParentsChecked, AllDispatched, PlanGoesOn, parentFrame, storeVars
<1>17. CASE (\E t \in Tasks : PollUnreachable(t)) \/
            (\E t \in Tasks : PollTimeout(t)) \/ (\E t \in Tasks : PollNoSignal(t)) \/
            (\E t \in Tasks : PollMerged(t)) \/ (\E t \in Tasks : PollEnded(t)) \/
            MarkerOK \/ MarkerFail \/ MarkerMalformed \/ MarkerUnreachable \/
            Tier0Pass \/ Tier0Empty \/ Tier0Fail
  BY <1>17, <1>u DEF PollUnreachable, Polled, AbortTick, PollTimeout, PollGoesOn,
        First, PollNoSignal, PollDone, PollMerged, PollEnded, MarkerOK, Goto,
        GoAndTell, NextStage, SetClock, MarkerFail, KillThen, KillFirst,
        MarkerMalformed, Return, MarkerUnreachable, JobUnreachable, Tier0Pass,
        AppendRow, Tier0Empty, RetryOrFail, Tier0Fail, storeVars
<1>18. CASE CommitDone \/ Tier1Pass \/ Tier1Fail \/ Tier1LLMError \/ Tier1DiffError \/
            MergeBranch \/ MergeDone \/ MergeConflict \/ MergeBlocked \/ Bury \/ Kill \/
            KillUnreachable
  BY <1>18, <1>u DEF CommitDone, SetClock, Goto, GoAndTell, Tier1Pass, AppendRow,
        Tier1Fail, RetryOrFail, KillFirst, Tier1LLMError, KillThen, Return,
        Tier1DiffError, MergeBranch, MergeDone, MergeConflict, MergeBlocked, Bury, Terminated,
        Kill, KillUnreachable, AbortTick, storeVars
<1>19. CASE LateCreate \/ (\E s \in SessionIds : SessionEnds(s)) \/
            (\E s \in SessionIds : SessionRemoved(s)) \/ Crash \/ Interrupt
  BY <1>19, <1>u DEF LateCreate, Fresh, SessionEnds, SessionRemoved, Crash, Exit,
        Interrupt, storeVars
<1>20. QED
  BY <1>1, <1>2, <1>3, <1>4, <1>5, <1>6, <1>7, <1>8, <1>9, <1>10, <1>11, <1>12,
     <1>13, <1>14, <1>15, <1>16, <1>17, <1>18, <1>19
     DEF Next, RunStep, PollStep, CLIStep, AOStep

\* The refinement at the start.
LEMMA PromiseInit == Init => Execution!ExecInit
<1>1. ASSUME NEW legacy, legacy \subseteq Tasks, \A t \in legacy : Deps[t] \subseteq legacy,
             InitWith(legacy)
      PROVE  Execution!ExecInit
  <2>1. Inv /\ derived \in Derived
    BY <1>1, InitFamily, Typed
  <2>2. \A t \in Tasks : derived.task[t] = IF t \in legacy THEN "done" ELSE "pending"
    BY <1>1 DEF InitWith
  <2>3. Stage \in [Tasks -> {"waiting", "done"}]
    BY <2>2, StageNames DEF Stage
  <2>4. Execution!In("done") = legacy
    BY <1>1, <2>1, <2>2, InStage
  <2>5. \A t \in Execution!In("done") : Execution!ParentsDone(t)
    BY <1>1, <2>1, <2>2, <2>4, InStage, Facts DEF Founded
  <2>6. QED
    BY <1>1, <2>3, <2>4, <2>5 DEF InitWith, Execution!ExecInit, Stage
<1>2. QED
  BY <1>1, SchedulerAssumption DEF Init

\* `om run` does what PlanExecution promises, with any number of tasks, slots,
\* retries, crashes, interrupts and late requests: a task is worked on only with
\* its gate open, its parents done and a slot free, as they are at that moment and
\* not as the tick read them, and a plan ends only when nothing can be done.
THEOREM RunImplementsExecution == Spec => ImplementsExecution
<1>1. ASSUME Inv, [Next]_vars PROVE [Execution!ExecNext]_(Execution!execVars)
  <2>1. CASE Next
    BY <1>1, <2>1, PromiseStep DEF Promised
  <2>2. CASE UNCHANGED vars
    BY <2>2 DEF vars, storeVars, Execution!execVars
  <2>3. QED
    BY <1>1, <2>1, <2>2
<1>2. QED
  BY <1>1, PromiseInit, SchedulerInvariance, PTL DEF Spec, ImplementsExecution, Execution!ExecSpec
=============================================================================
