------------------------------ MODULE Polling ------------------------------
(***************************************************************************)
(* One poll of a followed task (poll.go, verify.go, outcome.go): GetSession, *)
(* the marker, the tier-0 check, the system commit, the tier-1 grade, the   *)
(* merge, and the ways a task is finished, failed or retried.              *)
(*                                                                         *)
(* AO statuses are one of each class of status.go, the four terminal ones   *)
(* and draft apart.  Time is left out: a timeout may expire at any poll but *)
(* the first of a session by this process, which starts the clock.  The    *)
(* informational rows are left out but for RowKinds.                       *)
(*                                                                         *)
(* A cancelled context makes every later call of AO, git and the LLM fail   *)
(* with an error that is not a transport error (aoclient.do).              *)
(***************************************************************************)
EXTENDS RunnerState

pollFrame == <<toReconcile, toDispatch, seen, seenApproved, active, merged, envVars>>

\* tick's second loop: dispatching tasks are behind, t is the next one it
\* polls.  Only this process moves a followed task, so that the status in the
\* store is still the one of the snapshot.
Polled(t) == pc = "tick" /\ toReconcile = {} /\ First(t, toPoll)

\* pollTask returns nil.
PollDone(t) ==
    /\ toPoll' = toPoll \ {t}
    /\ UNCHANGED <<pc, jobVars, pollFrame, aoVars, inDefault>>

\* pollTask goes on to its next call.
PollGoesOn(t, next, dead, why) ==
    /\ toPoll' = toPoll \ {t}
    /\ pc' = next
    /\ job' = [task |-> t, session |-> session[t], dead |-> dead, why |-> why]
    /\ clock' = Observed(t)
    /\ UNCHANGED <<storeVars, aoVars, inDefault, rowVars, phase, toCheck, pollFrame>>

\* GetSession finds no daemon.
PollUnreachable(t) ==
    /\ Polled(t) /\ ~interrupted
    /\ AbortTick
    /\ UNCHANGED <<storeVars, aoVars, inDefault, rowVars, envVars>>

\* GetSession fails otherwise: the session is gone, or AO answers another
\* error, or the context has ended.
PollLost(t) ==
    /\ Polled(t)
    /\ FailAs(t, "session_lost")
    /\ clock' = Unobserved(t)
    /\ PollDone(t)

\* NEEDS_HUMAN: escalate once, stop the clock.
PollNeedsHuman(t) ==
    /\ Polled(t) /\ ~interrupted /\ ao[session[t]] = "live"
    /\ IF taskCache[t] = "needs_human" THEN UNCHANGED storeVars
                                       ELSE MarkTaskNeedsHuman(t)
    /\ clock' = Observed(t)
    /\ PollDone(t) /\ UNCHANGED rowVars

\* RUNNING: resumed, started, or nothing new (draft starts nothing).
PollRunning(t) ==
    /\ Polled(t) /\ ~interrupted /\ ao[session[t]] = "live"
    /\ \/ ResumeTask(t)
       \/ StartTask(t)
       \/ taskCache[t] # "needs_human" /\ UNCHANGED storeVars
    /\ clock' = Observed(t)
    /\ PollDone(t) /\ UNCHANGED rowVars

\* RUNNING with the same status for longer than TaskTimeout.
PollTimeout(t) ==
    /\ Polled(t) /\ ~interrupted /\ ao[session[t]] = "live"
    /\ taskCache[t] \in {"dispatched", "running"}
    /\ clock[t] # NoClock
    /\ PollGoesOn(t, "kill", FALSE, Kept("timeout"))

\* no_signal, for less or for more than NoSignalTimeout.
PollNoSignal(t) ==
    /\ Polled(t) /\ ~interrupted /\ ao[session[t]] = "live"
    /\ \/ clock' = Observed(t) /\ PollDone(t) /\ UNCHANGED <<storeVars, rowVars>>
       \/ clock[t] # NoClock /\ PollGoesOn(t, "kill", FALSE, Kept("no_signal"))

\* AO reports the session merged: its work is in the default branch
\* (poll.go: "the work already reached the base branch").
PollMerged(t) ==
    /\ Polled(t) /\ ~interrupted /\ ao[session[t]] = "live"
    /\ toPoll' = toPoll \ {t}
    /\ pc' = "finish"
    /\ job' = [task |-> t, session |-> session[t], dead |-> FALSE, why |-> "ao_merged"]
    /\ clock' = Observed(t)
    /\ inDefault' = inDefault \cup {session[t]}
    /\ UNCHANGED <<storeVars, aoVars, rowVars, phase, toCheck, pollFrame>>

\* idle or terminated: the marker decides.  The first poll starts the clock.
PollEnded(t) ==
    /\ Polled(t) /\ ~interrupted /\ Existing(session[t])
    /\ PollGoesOn(t, "marker", ao[session[t]] = "terminated",
                  IF clock[t] = NoClock THEN "first" ELSE "none")

-----------------------------------------------------------------------------
(* Handlers of the polled session: job.task, job.session.                  *)

jobFrame == <<loopVars, envVars>>

At(label) == pc = label

\* A call of AO finds no daemon: the error goes up to the loop.
JobUnreachable ==
    /\ ~interrupted
    /\ AbortTick
    /\ UNCHANGED <<storeVars, aoVars, inDefault, rowVars, envVars>>

AppendRow(kind) == rows' = [rows EXCEPT ![job.task] = @ \cup {kind}]

GoAndTell(next, why) ==
    /\ pc' = next
    /\ job' = [job EXCEPT !.why = why]
    /\ UNCHANGED <<storeVars, aoVars, inDefault, outcome, phase, toCheck, merged, jobFrame>>

Goto(next, why) == GoAndTell(next, why) /\ UNCHANGED rows

\* killAndFailKind and retryOrFail kill a session first unless it was seen
\* terminated.
KillFirst == IF job.dead THEN "settle" ELSE "kill"
KillThen(kind) == Goto(KillFirst, Kept(kind))

\* Mutant: the clock of a failed task is not forgotten.
FailJob_KeepsClock(kind) ==
    /\ FailAs(job.task, kind)
    /\ Return
    /\ UNCHANGED <<aoVars, memVars, jobFrame>>

\* failTaskKind, without a kill.
FailJob(kind) ==
    /\ FailAs(job.task, kind)
    /\ clock' = Unobserved(job.task)
    /\ Return
    /\ UNCHANGED <<aoVars, merged, jobFrame>>

SetClock(field, value) == clock' = [clock EXCEPT ![job.task][field] = value]

\* Where the pipeline resumes: the flags of the task's clock.
NextStage(t) ==
    CASE clock[t].progress = "fresh"     -> "tier0"
      [] clock[t].progress = "verified"  -> "commit"
      [] clock[t].progress = "committed" -> IF t \in Graded THEN "tier1" ELSE "merge"
      [] clock[t].progress = "graded"    -> "merge"

\* resolveTerminal: PreviewFile and the 5-way verdict.
MarkerOK ==
    /\ At("marker") /\ ~interrupted
    /\ SetClock("bad", FALSE)
    /\ Goto(NextStage(job.task), "none")

MarkerFail ==
    /\ At("marker") /\ ~interrupted
    /\ KillThen("marker_fail") /\ UNCHANGED clock

\* Mutant: the poll of grace is granted again and again.
MarkerMalformed_Forgets ==
    /\ At("marker") /\ ~interrupted
    /\ SetClock("bad", FALSE)
    /\ Return
    /\ UNCHANGED <<storeVars, aoVars, inDefault, rowVars, merged, jobFrame>>

\* Malformed: one poll of grace, since the worker may be writing it.
MarkerMalformed ==
    /\ At("marker") /\ ~interrupted
    /\ IF clock[job.task].bad
       THEN KillThen("marker_malformed") /\ UNCHANGED clock
       ELSE /\ SetClock("bad", TRUE)
            /\ Return
            /\ UNCHANGED <<storeVars, aoVars, inDefault, rowVars, merged, jobFrame>>

\* Absent or empty: fail a terminated session, wait for an idle one until
\* IdleNoMarkerTimeout.
MarkerAbsent ==
    /\ At("marker") /\ ~interrupted
    /\ \/ job.dead /\ FailJob("marker_missing") /\ UNCHANGED inDefault
       \/ /\ ~job.dead
          /\ SetClock("bad", FALSE)
          /\ \/ job.why # "first" /\ KillThen("marker_missing")
             \/ /\ Return
                /\ UNCHANGED <<storeVars, aoVars, inDefault, rowVars, merged, jobFrame>>

\* PreviewFile fails, or an ok marker comes from a session without a branch.
MarkerError ==
    /\ At("marker")
    /\ \/ FailJob("marker_check_failed")
       \/ ~interrupted /\ FailJob("merge_failed")
    /\ UNCHANGED inDefault

MarkerUnreachable == At("marker") /\ JobUnreachable

\* Mutant: one round too many.
RetryOrFail_OffByOne ==
    GoAndTell(KillFirst, IF derived.rounds[job.task] > MaxVerifyRounds
                         THEN "verify_budget_exhausted" ELSE "retry")

\* retryOrFail: the budget is read from the replay, never from memory.
RetryOrFail ==
    GoAndTell(KillFirst, IF derived.rounds[job.task] >= MaxVerifyRounds
                         THEN "verify_budget_exhausted" ELSE "retry")

\* verifyTier0: diff and check command; an error of git is a failed check.
Tier0Pass ==
    /\ At("tier0") /\ ~interrupted
    /\ SetClock("progress", "verified")
    /\ AppendRow("pass0") /\ GoAndTell("commit", "none")

\* Nothing on the branch that the default branch lacks, nothing uncommitted:
\* the worker did nothing, or its branch has been merged.
Tier0Empty ==
    /\ At("tier0") /\ ~interrupted
    /\ AppendRow("empty") /\ RetryOrFail /\ UNCHANGED clock

Tier0Fail ==
    /\ At("tier0")
    /\ RetryOrFail /\ UNCHANGED <<rows, clock>>

\* systemCommit
CommitDone ==
    /\ At("commit") /\ ~interrupted
    /\ SetClock("progress", "committed")
    /\ Goto(IF job.task \in Graded THEN "tier1" ELSE "merge", "none")

CommitError == At("commit") /\ FailJob("system_commit_failed") /\ UNCHANGED inDefault

\* verifyTier1
Tier1Pass ==
    /\ At("tier1") /\ ~interrupted
    /\ clock' = [clock EXCEPT ![job.task].progress = "graded", ![job.task].llmErrs = 0]
    /\ AppendRow("pass1") /\ GoAndTell("merge", "none")

Tier1Fail ==
    /\ At("tier1") /\ ~interrupted
    /\ RetryOrFail /\ UNCHANGED rows
    /\ SetClock("llmErrs", 0)

\* The LLM fails: tolerated MaxLLMErrs - 1 times in a row.  The count goes on
\* past MaxLLMErrs when the kill gets no answer, and the clock is kept.
Tier1LLMError ==
    /\ At("tier1") /\ clock[job.task].llmErrs < LLMErrBound
    /\ SetClock("llmErrs", clock[job.task].llmErrs + 1)
    /\ IF clock[job.task].llmErrs + 1 >= MaxLLMErrs
       THEN KillThen("verify_error")
       ELSE Return /\ UNCHANGED <<storeVars, aoVars, inDefault, rowVars, merged, jobFrame>>

Tier1DiffError == At("tier1") /\ KillThen("verify_error") /\ UNCHANGED clock

\* mergeTaskBranch: git has merged the branch, and the row is to be written; or
\* it is an ancestor already; conflict, blocked, error.
MergeBranch ==
    /\ At("merge") /\ ~interrupted /\ job.session \notin inDefault
    /\ inDefault' = inDefault \cup {job.session}
    /\ pc' = "record"
    /\ UNCHANGED <<storeVars, aoVars, rowVars, jobVars, memVars, jobFrame>>

MergeDone ==
    /\ \/ At("record") /\ AppendRow("merged")
       \/ At("merge") /\ ~interrupted /\ job.session \in inDefault /\ UNCHANGED rows
    /\ merged' = merged \cup {job.task}
    /\ pc' = "finish" /\ job' = [job EXCEPT !.why = "ok"]
    /\ UNCHANGED <<storeVars, aoVars, inDefault, outcome, phase, toCheck, clock, jobFrame>>

MergeConflict == At("merge") /\ ~interrupted /\ KillThen("merge_conflict") /\ UNCHANGED clock

\* Mutant: a merge that is blocked for now is taken for one that is done.
MergeBlocked_Finishes ==
    /\ At("merge") /\ ~interrupted
    /\ pc' = "finish" /\ job' = [job EXCEPT !.why = "ok"]
    /\ UNCHANGED <<storeVars, aoVars, inDefault, rowVars, phase, toCheck, memVars, jobFrame>>

MergeBlocked ==
    /\ At("merge") /\ ~interrupted
    /\ Return
    /\ UNCHANGED <<storeVars, aoVars, inDefault, rowVars, memVars, jobFrame>>

\* git fails, before or after it has moved the default branch.
MergeError ==
    /\ At("merge")
    /\ FailJob("merge_failed")
    /\ inDefault' \in {inDefault, inDefault \cup {job.session}}

\* finishTask: the store first, then a best-effort kill.
Finish ==
    /\ At("finish")
    /\ FinishTask(job.task)
    /\ outcome' = [outcome EXCEPT ![job.task] = job.why]
    /\ clock' = Unobserved(job.task)
    /\ merged' = merged \cup {job.task}
    /\ IF job.dead THEN Return ELSE pc' = "bury" /\ UNCHANGED jobVars
    /\ UNCHANGED <<aoVars, inDefault, rows, jobFrame>>

Terminated(s) == [ao EXCEPT ![s] = IF @ = "live" THEN "terminated" ELSE @]

Bury ==
    /\ At("bury")
    /\ ao' \in {ao, Terminated(job.session)}
    /\ ao' # ao => ~interrupted
    /\ Return
    /\ UNCHANGED <<storeVars, late, inDefault, rowVars, memVars, jobFrame>>

\* KillSession: done, or refused by AO and ignored.
Kill ==
    /\ At("kill")
    /\ ao' \in {ao, Terminated(job.session)}
    /\ ao' # ao => ~interrupted
    /\ pc' = "settle"
    /\ UNCHANGED <<storeVars, late, inDefault, rowVars, jobVars, memVars, jobFrame>>

\* KillSession gets no answer: it may have been acted upon.
KillUnreachable ==
    /\ At("kill") /\ ~interrupted
    /\ ao' \in {ao, Terminated(job.session)}
    /\ AbortTick
    /\ UNCHANGED <<storeVars, late, inDefault, rowVars, envVars>>

\* Mutant: the clock, and with it the stage reached, survives the retry.
SettleRetry_KeepsClock ==
    /\ At("settle") /\ job.why = "retry"
    /\ RetryTask(job.task)
    /\ rows' = [rows EXCEPT ![job.task] = {}]
    /\ Return
    /\ UNCHANGED <<aoVars, inDefault, outcome, memVars, jobFrame>>

\* RetryTask: the next round starts with no verdict of its own.
SettleRetry ==
    /\ At("settle") /\ job.why = "retry"
    /\ RetryTask(job.task)
    /\ rows' = [rows EXCEPT ![job.task] = {}]
    /\ clock' = Unobserved(job.task)
    /\ Return
    /\ UNCHANGED <<aoVars, inDefault, outcome, merged, jobFrame>>

SettleFail ==
    /\ At("settle") /\ job.why # "retry"
    /\ FailJob(job.why) /\ UNCHANGED inDefault

PollStep ==
    \/ \E t \in Tasks :
          \/ PollUnreachable(t) \/ PollLost(t) \/ PollNeedsHuman(t)
          \/ PollRunning(t) \/ PollTimeout(t) \/ PollNoSignal(t)
          \/ PollMerged(t) \/ PollEnded(t)
    \/ MarkerOK \/ MarkerFail \/ MarkerMalformed \/ MarkerAbsent
    \/ MarkerError \/ MarkerUnreachable
    \/ Tier0Pass \/ Tier0Empty \/ Tier0Fail \/ CommitDone \/ CommitError
    \/ Tier1Pass \/ Tier1Fail \/ Tier1LLMError \/ Tier1DiffError
    \/ MergeBranch \/ MergeDone \/ MergeConflict \/ MergeBlocked \/ MergeError
    \/ Finish \/ Bury \/ Kill \/ KillUnreachable \/ SettleRetry \/ SettleFail
=============================================================================
