----------------------------- MODULE Scheduler -----------------------------
(***************************************************************************)
(* `om run` on one plan (run.go, tick.go), with `om approve`,               *)
(* `om approve-task` and `om reject-task` beside it, AO and its sessions    *)
(* around it, and crashes and Ctrl-C at any step.                          *)
(***************************************************************************)
EXTENDS Polling

\* A draft, or a plan whose tasks in `legacy` an older binary finished.
InitWith(legacy) ==
    /\ planCache = IF legacy = {} THEN "draft" ELSE "running"
    /\ taskCache = [t \in Tasks |-> IF t \in legacy THEN "done" ELSE "pending"]
    /\ session = [t \in Tasks |-> IF t \in legacy THEN <<t, 0, 1>> ELSE NoSession]
    /\ derived = [plan |-> planCache, task |-> taskCache,
                  rounds |-> [t \in Tasks |-> 0], approved |-> legacy \cap Gated]
    /\ ao = [s \in SessionIds |->
                IF TaskOf(s) \in legacy /\ RoundOf(s) = 0 /\ CopyOf(s) = 1
                THEN "terminated" ELSE "none"]
    /\ late = {} /\ inDefault = {}
    /\ rows = [t \in Tasks |-> {}]
    /\ outcome = [t \in Tasks |-> "none"]
    /\ pc = "off" /\ phase = "tick" /\ job = NoJob /\ toCheck = {}
    /\ toReconcile = {} /\ toPoll = {} /\ toDispatch = {}
    /\ seen = [t \in Tasks |-> "pending"] /\ seenApproved = {} /\ active = 0
    /\ merged = {} /\ clock = [t \in Tasks |-> NoClock]
    /\ interrupted = FALSE /\ stops = 0

Init == InitWith({}) \/ InitWith(LegacyDone)

-----------------------------------------------------------------------------
(* run.go: Run and loop.                                                   *)

runFrame == <<aoVars, inDefault, rowVars>>

\* Run: an approved or interrupted running plan.  The lock is taken and the
\* repository found in between; a failure there changes nothing.
Start ==
    /\ pc = "off" /\ derived.plan \in {"approved", "running"}
    /\ StartRun
    /\ pc' = "top"
    /\ interrupted' = FALSE
    /\ UNCHANGED <<runFrame, jobVars, loopVars, memVars, stops>>

\* The loop sees the cancelled context and Run returns.
Stop ==
    /\ pc = "top" /\ interrupted
    /\ Exit
    /\ UNCHANGED <<storeVars, runFrame, envVars>>

\* tick reads the tasks and their derived statuses.
Tick ==
    /\ pc = "top" /\ ~interrupted
    /\ pc' = "tick"
    /\ toReconcile' = {t \in Tasks : derived.task[t] = "dispatching"}
    /\ toPoll' = {t \in Tasks : derived.task[t] \in Followed}
    /\ UNCHANGED <<storeVars, runFrame, jobVars, toDispatch, seen, seenApproved,
                   active, memVars, envVars>>

-----------------------------------------------------------------------------
(* tick.go: reconcileDispatching.                                          *)

Reconciled(t) == pc = "tick" /\ First(t, toReconcile)

\* The session to adopt: a live one before a terminated one, then the newest.
Better(s, u) ==
    \/ ao[s] = "live" /\ ao[u] = "terminated"
    \/ ao[s] = ao[u] /\ CopyOf(s) >= CopyOf(u)

\* Mutant: any session of the task will do.
ReconcileAdopt_AnyRound(t) ==
    /\ Reconciled(t) /\ ~interrupted
    /\ \E s \in SessionIds : TaskOf(s) = t /\ Existing(s) /\ DispatchTask(t, s)
    /\ toReconcile' = toReconcile \ {t}
    /\ UNCHANGED <<pc, runFrame, jobVars, toPoll, toDispatch, seen, seenApproved,
                   active, memVars, envVars>>

\* ListSessions shows a session of the round: adopt it.
ReconcileAdopt(t) ==
    /\ Reconciled(t) /\ ~interrupted
    /\ \E s \in SessionsNamed(t, derived.rounds[t]) :
          /\ \A u \in SessionsNamed(t, derived.rounds[t]) : Better(s, u)
          /\ DispatchTask(t, s)
    /\ toReconcile' = toReconcile \ {t}
    /\ UNCHANGED <<pc, runFrame, jobVars, toPoll, toDispatch, seen, seenApproved,
                   active, memVars, envVars>>

\* Mutant: resume creates without asking whether the session exists.
ReconcileCreate_Blindly(t) ==
    /\ Reconciled(t) /\ ~interrupted
    /\ pc' = "create" /\ job' = [NoJob EXCEPT !.task = t]
    /\ toReconcile' = toReconcile \ {t}
    /\ UNCHANGED <<storeVars, runFrame, phase, toCheck, toPoll, toDispatch, seen,
                   seenApproved, active, memVars, envVars>>

\* It shows none: create it.
ReconcileCreate(t) ==
    /\ Reconciled(t) /\ ~interrupted
    /\ SessionsNamed(t, derived.rounds[t]) = {}
    /\ pc' = "create" /\ job' = [NoJob EXCEPT !.task = t]
    /\ toReconcile' = toReconcile \ {t}
    /\ UNCHANGED <<storeVars, runFrame, phase, toCheck, toPoll, toDispatch, seen,
                   seenApproved, active, memVars, envVars>>

\* ListSessions finds no daemon.
ReconcileUnreachable(t) ==
    /\ Reconciled(t) /\ ~interrupted
    /\ AbortTick
    /\ UNCHANGED <<storeVars, runFrame, envVars>>

\* ListSessions fails under a cancelled context: tick returns the error, and
\* it is not a transport error, so that the run ends.
ReconcileInterrupted(t) ==
    /\ Reconciled(t) /\ interrupted
    /\ Exit
    /\ UNCHANGED <<storeVars, runFrame, envVars>>

-----------------------------------------------------------------------------
(* tick.go: createAndDispatch.                                             *)

createFrame == <<inDefault, jobFrame>>

\* AO acts on the request, whether or not its answer is understood.
Created ==
    \E s \in SessionIds :
        /\ TaskOf(s) = job.task /\ RoundOf(s) = derived.rounds[job.task]
        /\ Fresh(s)
        /\ ao' = [ao EXCEPT ![s] = "live"]

\* CreateSession answers with the new session.
CreateAnswered ==
    /\ At("create") /\ ~interrupted
    /\ \E s \in SessionIds :
          /\ TaskOf(s) = job.task /\ RoundOf(s) = derived.rounds[job.task]
          /\ Fresh(s)
          /\ ao' = [ao EXCEPT ![s] = "live"]
          /\ job' = [job EXCEPT !.session = s]
    /\ pc' = "created"
    /\ UNCHANGED <<storeVars, late, rowVars, phase, toCheck, memVars, createFrame>>

\* Nobody waits for the answer: the request never left, was acted upon, or is
\* still to be.
RequestLost ==
    \/ UNCHANGED aoVars
    \/ Created /\ UNCHANGED late
    \/ /\ Cardinality(late) < MaxLate
       /\ late' = late \cup {<<job.task, derived.rounds[job.task], "pending">>}
       /\ UNCHANGED ao

\* No answer, or none in time.
CreateUnreachable ==
    /\ At("create") /\ ~interrupted
    /\ RequestLost
    /\ AbortTick
    /\ UNCHANGED <<storeVars, inDefault, rowVars, envVars>>

\* dispatchReady counts the slot, whatever became of the session.
TakeSlot ==
    /\ active' = IF phase = "dispatch" THEN active + 1 ELSE active
    /\ UNCHANGED <<toReconcile, toPoll, toDispatch, seen, seenApproved>>

\* Any other error: AO refuses, the answer is not understood, or the context
\* has ended; in the last two AO may have acted, in the last it may be still to.
CreateRefused ==
    /\ At("create")
    /\ RequestLost /\ (late' # late => interrupted)
    /\ FailAs(job.task, "create_failed")
    /\ clock' = Unobserved(job.task)
    /\ Return /\ TakeSlot
    /\ UNCHANGED <<inDefault, merged, envVars>>

\* The answer is recorded.
Record ==
    /\ At("created")
    /\ DispatchTask(job.task, job.session)
    /\ Return /\ TakeSlot
    /\ UNCHANGED <<aoVars, inDefault, rowVars, memVars, envVars>>

-----------------------------------------------------------------------------
(* tick.go: dispatchReady.                                                 *)

\* After the two loops of tick, the state is read afresh.
ReadState ==
    /\ pc = "tick" /\ toReconcile = {} /\ toPoll = {}
    /\ pc' = "cascade" /\ phase' = "dispatch"
    /\ seen' = derived.task /\ seenApproved' = derived.approved
    /\ UNCHANGED <<storeVars, runFrame, job, toCheck, toReconcile, toPoll,
                   toDispatch, active, memVars, envVars>>

Blocked(t) == seen[t] = "pending" /\ \E d \in Deps[t] : seen[d] = "failed"

\* failBlockedDependents: one store write per task, to a fixed point; the
\* order within it is left open.
Cascade(t) ==
    /\ pc = "cascade" /\ Blocked(t)
    /\ FailPendingTask(t)
    /\ outcome' = [outcome EXCEPT ![t] = "dependency_failed"]
    /\ seen' = [seen EXCEPT ![t] = "failed"]
    /\ UNCHANGED <<pc, aoVars, inDefault, rows, jobVars, toReconcile, toPoll,
                   toDispatch, seenApproved, active, memVars, envVars>>

\* Store.GetReadyTasks, on the state as it is now.
Ready == {t \in Tasks : /\ derived.task[t] = "pending"
                        /\ \A d \in Deps[t] : derived.task[d] = "done"}

ReadReady ==
    /\ pc = "cascade" /\ ~ \E t \in Tasks : Blocked(t)
    /\ pc' = "dispatch"
    /\ toDispatch' = Ready
    /\ active' = Cardinality({t \in Tasks : seen[t] \in Active})
    /\ seen' = [t \in Tasks |-> "pending"]
    /\ UNCHANGED <<storeVars, runFrame, jobVars, toReconcile, toPoll, seenApproved,
                   memVars, envVars>>

dispatchFrame == <<toReconcile, toPoll, seen, seenApproved, memVars, envVars>>

Dispatched(t) == pc = "dispatch" /\ First(t, toDispatch)

\* Mutant: one approval opens the gate for every task of the plan.
MustWait_OneForAll(t) == t \in Gated /\ seenApproved = {}

MustWait(t) == t \in Gated /\ t \notin seenApproved

\* The approval gate.
Gate(t) ==
    /\ Dispatched(t) /\ MustWait(t)
    /\ RequestTaskApproval(t)
    /\ toDispatch' = toDispatch \ {t}
    /\ UNCHANGED <<pc, runFrame, jobVars, active, dispatchFrame>>

\* No free slot.
Postpone(t) ==
    /\ Dispatched(t) /\ ~MustWait(t) /\ active >= MaxParallel
    /\ toDispatch' = toDispatch \ {t}
    /\ UNCHANGED <<storeVars, pc, runFrame, jobVars, active, dispatchFrame>>

\* Mutant: one task more than there are slots.
Consider_OffByOne(t) ==
    /\ Dispatched(t) /\ ~MustWait(t) /\ active <= MaxParallel
    /\ pc' = "parents"
    /\ job' = [NoJob EXCEPT !.task = t] /\ toCheck' = Deps[t]
    /\ toDispatch' = toDispatch \ {t}
    /\ UNCHANGED <<storeVars, runFrame, phase, active, dispatchFrame>>

Consider(t) ==
    /\ Dispatched(t) /\ ~MustWait(t) /\ active < MaxParallel
    /\ pc' = "parents"
    /\ job' = [NoJob EXCEPT !.task = t] /\ toCheck' = Deps[t]
    /\ toDispatch' = toDispatch \ {t}
    /\ UNCHANGED <<storeVars, runFrame, phase, active, dispatchFrame>>

\* ensureParentsMerged, one parent at a time.  A done parent always has a
\* session (SessionMatchesStatus).
parentFrame == <<storeVars, aoVars, rowVars, phase, clock, jobFrame>>

ParentMerged(d) ==
    /\ At("parents") /\ First(d, toCheck)
    /\ \/ d \in merged /\ UNCHANGED inDefault
       \/ /\ d \notin merged /\ ~interrupted        \* an ancestor, or merged now
          /\ inDefault' = inDefault \cup {session[d]}
    /\ merged' = merged \cup {d}
    /\ toCheck' = toCheck \ {d}
    /\ UNCHANGED <<pc, job, parentFrame>>

\* A conflict, or an error of git: the child is to fail.
ParentConflict(d) ==
    /\ At("parents") /\ First(d, toCheck) /\ d \notin merged
    /\ pc' = "intent"
    /\ job' = [job EXCEPT !.why = "dependency_failed"] /\ toCheck' = {}
    /\ UNCHANGED <<inDefault, merged, parentFrame>>

\* The merge is blocked for now: skip the child this tick.
ParentBlocked(d) ==
    /\ At("parents") /\ First(d, toCheck) /\ d \notin merged
    /\ session[d] \notin inDefault /\ ~interrupted
    /\ Return
    /\ UNCHANGED <<storeVars, runFrame, memVars, jobFrame>>

\* Mutant: the session is created first and the intent never recorded.
ParentsChecked_NoIntent ==
    /\ At("parents") /\ toCheck = {}
    /\ pc' = "create"
    /\ UNCHANGED <<job, toCheck, inDefault, merged, parentFrame>>

ParentsChecked ==
    /\ At("parents") /\ toCheck = {}
    /\ pc' = "intent"
    /\ UNCHANGED <<job, toCheck, inDefault, merged, parentFrame>>

\* The intent is recorded before AO is called; a child that must fail is
\* recorded as dispatching too.
Intent ==
    /\ At("intent")
    /\ MarkTaskDispatching(job.task)
    /\ pc' = IF job.why = "dependency_failed" THEN "depFailed" ELSE "create"
    /\ UNCHANGED <<runFrame, jobVars, memVars, jobFrame>>

DependencyFailed ==
    /\ At("depFailed")
    /\ FailJob("dependency_failed") /\ UNCHANGED inDefault

AllDispatched ==
    /\ pc = "dispatch" /\ toDispatch = {}
    /\ pc' = "complete" /\ phase' = "tick"
    /\ ForgetLoops
    /\ UNCHANGED <<storeVars, runFrame, job, toCheck, memVars, envVars>>

-----------------------------------------------------------------------------
(* run.go: checkCompletion.                                                *)

AllDone == \A t \in Tasks : derived.task[t] = "done"
AnyActive == \E t \in Tasks : derived.task[t] \in Active
AnyAwaiting == \E t \in Tasks : derived.task[t] = "awaiting_approval"

\* Mutant: a task that awaits approval does not keep the plan alive.
Stuck_IgnoresAwaiting == ~AllDone /\ ~AnyActive /\ Ready = {}

Stuck == ~AllDone /\ ~AnyActive /\ ~AnyAwaiting /\ Ready = {}

PlanOver ==
    /\ pc = "complete"
    /\ \/ AllDone /\ FinishPlan
       \/ Stuck /\ FailPlan
    /\ Exit
    /\ UNCHANGED <<runFrame, envVars>>

\* Sleep, then the next heartbeat.
PlanGoesOn ==
    /\ pc = "complete" /\ ~AllDone /\ ~Stuck
    /\ pc' = "top"
    /\ UNCHANGED <<storeVars, runFrame, jobVars, loopVars, memVars, envVars>>

-----------------------------------------------------------------------------
(* The other processes, and what befalls this one.                         *)

cliFrame == <<aoVars, inDefault, pc, jobVars, loopVars, memVars, envVars>>

\* om approve
CLIApprovePlan == ApprovePlan /\ UNCHANGED <<rowVars, cliFrame>>

\* om approve-task, with a task or --all (one transaction per task)
CLIApprove(t) == ApproveTask(t) /\ UNCHANGED <<rowVars, cliFrame>>

\* om reject-task
CLIReject(t) ==
    /\ RejectTask(t)
    /\ outcome' = [outcome EXCEPT ![t] = "rejected"]
    /\ UNCHANGED <<rows, cliFrame>>

\* A request on its way to AO outlives the process that made it.
Crash ==
    /\ pc # "off" /\ stops < MaxStops
    /\ stops' = stops + 1
    /\ IF pc = "create" THEN RequestLost ELSE UNCHANGED aoVars
    /\ Exit
    /\ UNCHANGED <<storeVars, inDefault, rowVars, interrupted>>

Interrupt ==
    /\ Interrupts /\ pc # "off" /\ ~interrupted /\ stops < MaxStops
    /\ interrupted' = TRUE /\ stops' = stops + 1
    /\ UNCHANGED <<storeVars, runFrame, pc, jobVars, loopVars, memVars>>

-----------------------------------------------------------------------------

RunStep ==
    \/ Start \/ Stop \/ Tick
    \/ \E t \in Tasks :
          \/ ReconcileAdopt(t) \/ ReconcileCreate(t)
          \/ ReconcileUnreachable(t) \/ ReconcileInterrupted(t)
    \/ CreateAnswered \/ CreateUnreachable \/ CreateRefused \/ Record
    \/ ReadState \/ ReadReady
    \/ \E t \in Tasks : Cascade(t) \/ Gate(t) \/ Postpone(t) \/ Consider(t)
    \/ \E d \in Tasks : ParentMerged(d) \/ ParentConflict(d) \/ ParentBlocked(d)
    \/ ParentsChecked \/ Intent \/ DependencyFailed
    \/ AllDispatched \/ PlanOver \/ PlanGoesOn

CLIStep ==
    \/ CLIApprovePlan
    \/ \E t \in Tasks : CLIApprove(t) \/ CLIReject(t)

Next == RunStep \/ PollStep \/ CLIStep \/ AOStep \/ Crash \/ Interrupt

Spec == Init /\ [][Next]_vars

\* What is needed for a plan to end.  The process goes on, and `om run` is
\* called again after it has ended; a session that works ends, or is ended; a
\* gate is answered.  And from some time on AO answers, nothing blocks git, and
\* nobody stops the process.
Fault ==
    \/ \E t \in Tasks : ReconcileUnreachable(t) \/ PollUnreachable(t)
    \/ \E d \in Tasks : ParentBlocked(d)
    \/ CreateUnreachable \/ MarkerUnreachable \/ KillUnreachable
    \/ MergeBlocked \/ Crash \/ Interrupt

Fairness ==
    /\ WF_vars(RunStep \/ PollStep)
    /\ WF_vars(\E s \in SessionIds : SessionEnds(s))
    /\ WF_vars(\E t \in Tasks : CLIApprove(t) \/ CLIReject(t))
    /\ <>[][~Fault]_vars

FairSpec == Spec /\ Fairness

-----------------------------------------------------------------------------
(* Properties.                                                             *)

\* A clock is of a task that is followed: one that ended or was sent back leaves
\* neither the time, nor the stages, nor the LLM failures of its round behind
\* (finishTask, failTaskKind and retryOrFail forget it), however the handlers of
\* other tasks, late kills and aborted ticks come in between.
ClocksOfFollowed == \A t \in Tasks : clock[t] # NoClock => derived.task[t] \in Followed

\* Type invariant of the runner, AO and the repository, with the clocks of
\* followed tasks only.
TypeOK ==
    /\ StoreTypeOK
    /\ ao \in [SessionIds -> {"none", "live", "terminated", "gone"}]
    /\ late \subseteq Tasks \X (0..MaxVerifyRounds) \X {"pending", "acted"}
    /\ inDefault \subseteq SessionIds
    /\ rows \in [Tasks -> SUBSET RowKinds]
    /\ outcome \in [Tasks -> Outcomes]
    /\ pc \in Pcs /\ phase \in {"tick", "dispatch"}
    /\ job \in [task : Tasks \cup {0}, session : SessionIds \cup {NoSession},
                dead : BOOLEAN, why : KindsKept \cup {"none", "ok", "ao_merged", "first", "retry"}]
    /\ toReconcile \subseteq Tasks /\ toPoll \subseteq Tasks
    /\ toDispatch \subseteq Tasks /\ toCheck \subseteq Tasks
    /\ seen \in [Tasks -> TaskStatuses] /\ seenApproved \subseteq Tasks
    /\ active \in Nat
    /\ merged \subseteq Tasks
    /\ clock \in [Tasks -> [progress : {"unobserved", "fresh", "verified",
                                        "committed", "graded"},
                            bad : BOOLEAN, llmErrs : 0..LLMErrBound]]
    /\ ClocksOfFollowed
    /\ interrupted \in BOOLEAN /\ stops \in 0..MaxStops

\* The session recorded for a task is one AO created for this task and for its
\* current verify round ("a retry dispatch must only ever adopt the current
\* round's session", tick.go), whatever crashes and retries came in between.
SessionOfCurrentRound ==
    \A t \in Tasks :
        session[t] # NoSession =>
            /\ TaskOf(session[t]) = t /\ RoundOf(session[t]) = derived.rounds[t]
            /\ ao[session[t]] # "none"

\* Dispatch is idempotent: no two sessions AO still has work at one round of
\* one task (scheduler.go, reconcileDispatching), unless AO acted on a request
\* of that round after the client had given it up.
OneSessionPerRound ==
    \A t \in Tasks, round \in 0..MaxVerifyRounds :
        Cardinality(SessionsNamed(t, round)) > 1 => <<t, round, "acted">> \in late

\* A session comes into being only for a task whose intent, in that round, is
\* in the log ("task_dispatching is recorded BEFORE the CreateSession call"):
\* resume would not look for a session it has no intent of.
\* Only a request the client gave up on may come to a task that is no longer
\* dispatching.
IntentBeforeSession ==
    [][\A s \in SessionIds :
          /\ ao[s] = "none" /\ ao'[s] # "none"
          /\ <<TaskOf(s), RoundOf(s), "pending">> \notin late
          => /\ derived.task[TaskOf(s)] = "dispatching"
             /\ derived.rounds[TaskOf(s)] = RoundOf(s)]_vars

\* Never more than MaxParallel tasks hold a session or are getting one, after a
\* resume and in the middle of a tick too.
ParallelBound ==
    Cardinality({t \in Tasks : derived.task[t] \in Active}) <= MaxParallel

\* A task that requires approval has no session, and nothing of it is
\* dispatched, in the log or in AO, before a human approved it.
GateHolds ==
    \A t \in Gated \ derived.approved :
        /\ derived.task[t] \notin Active \cup {"done"}
        /\ \A s \in SessionIds : TaskOf(s) = t => ao[s] = "none"

\* Rejection is for tasks that never ran: no session of a rejected task was
\* ever created, in any round, and none is after it.
RejectedNeverRuns ==
    \A t \in Tasks : outcome[t] = "rejected" =>
        /\ derived.task[t] = "failed"
        /\ \A s \in SessionIds : TaskOf(s) = t => ao[s] = "none"

\* Crashes neither refund nor lose retry rounds: a task never has more than
\* MaxVerifyRounds retries, and is failed for an exhausted budget only after
\* exactly that many.
RetryBudget ==
    \A t \in Tasks :
        /\ derived.rounds[t] <= MaxVerifyRounds
        /\ outcome[t] = "verify_budget_exhausted" => derived.rounds[t] = MaxVerifyRounds

\* A task done on its marker has, for the round and the session that did the
\* work, a tier-0 pass, a tier-1 pass if it asked for one, and its branch in
\* the default branch.
DoneIsVerifiedAndMerged ==
    \A t \in Tasks : outcome[t] = "ok" =>
        /\ "pass0" \in rows[t] /\ (t \in Graded => "pass1" \in rows[t])
        /\ session[t] \in inDefault

\* AO bases a session on the default branch: when a task's session is created,
\* all its parents are done and their work is there.  Of what an older binary
\* finished, that is so until om is stopped; its own sessions are left aside.
ChildrenFollowMerges ==
    \A s \in SessionIds : ao[s] # "none" =>
        \A d \in Deps[TaskOf(s)] :
            /\ derived.task[d] = "done"
            /\ \/ session[d] \in inDefault
               \/ outcome[d] = "none" /\ (stops > 0 \/ TaskOf(s) \in LegacyDone)

\* A plan that was approved ends: no gate, crash, interrupt, retry or failure
\* of a dependency leaves it running with nothing to wait for ("execute a plan
\* until it is done or failed", run.go).
PlanEnds == derived.plan \in {"approved", "running"} ~> derived.plan \in PlanTerminal

-----------------------------------------------------------------------------
(* The abstract specification.                                             *)

\* What a task's status is to the plan: a session or the request for one is
\* work, and a gate is waiting.
StageOf ==
    [status \in TaskStatuses |->
        CASE status \in Active -> "working"
          [] status \in TaskTerminal -> status
          [] OTHER -> "waiting"]

Execution == INSTANCE PlanExecution WITH
    plan <- derived.plan,
    stage <- [t \in Tasks |-> StageOf[derived.task[t]]],
    approved <- derived.approved,
    retries <- derived.rounds,
    MaxRetries <- MaxVerifyRounds

\* `om run` does what PlanExecution promises: every step of the process, of the
\* command line, of AO and of a crash is one of its steps or none.  A task is
\* worked on only with its gate open, all its parents done and a slot free, as
\* they are then, not as the tick read them; it is sent back at most
\* MaxVerifyRounds times over all runs; and the plan is over only when no task
\* is at work and none can be.
ImplementsExecution == Execution!ExecSpec

-----------------------------------------------------------------------------
(* What the repository says of the program, and the code does not do.       *)

\* "Approval is permanent" (tick.go:89), asked for once (docs/OVERMIND.md:81):
\* an approved task does not await approval again.
ApprovalIsNotAskedAgain ==
    \A t \in derived.approved : derived.task[t] # "awaiting_approval"

\* "Crash between merge and FinishTask: redo the (idempotent) merge"
\* (tick.go:273): work the log says is merged is not found to be empty, and
\* made to be done again, by the verification after the crash.
MergedIsNotEmpty ==
    [][\A t \in Tasks : "merged" \in rows[t] /\ "empty" \notin rows[t]
          => "empty" \notin rows'[t]]_vars

\* "Merge conflicts do not self-heal: fail THIS child deterministically"
\* (tick.go:140): no session is created for a task whose parent's work is not
\* in the default branch.
ParentsMergedFirst ==
    \A s \in SessionIds : ao[s] # "none" =>
        \A d \in Deps[TaskOf(s)] : session[d] \in inDefault

\* "Ctrl-C stops cleanly; re-running resumes" (cmd/om/run.go:34): no task is
\* failed as lost, its session being there, because the run was interrupted.
InterruptLosesNoSession ==
    [][\A t \in Tasks :
          interrupted /\ outcome[t] = "none" /\ session[t] # NoSession
             /\ Existing(session[t])
          => outcome'[t] # "session_lost"]_vars
=============================================================================
