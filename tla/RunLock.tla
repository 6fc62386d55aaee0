------------------------------ MODULE RunLock ------------------------------
(***************************************************************************)
(* The advisory lock of a plan (store/runlock.go) as `om run` uses it       *)
(* (scheduler/run.go): run_lock_pid, the age of run_lock_heartbeat_at, and  *)
(* the processes that take, refresh, steal and release it.                 *)
(*                                                                         *)
(* Each SQL statement is a step.  A process that waits (it prepares the     *)
(* run, ticks, sleeps) does so for a bounded time; the statements between   *)
(* two waits take none.  A process id is not used again.                   *)
(***************************************************************************)
EXTENDS Integers

CONSTANTS
    Procs,          \* `om run` processes on the plan
    Killable,       \* those that may be killed
    Nobody,         \* the NULL of run_lock_pid
    StaleAfter,     \* Config.LockStaleAfter
    MaxSetup,       \* longest time from the lock to the first heartbeat
    MaxTick,        \* longest tick
    PollInterval    \* Config.PollInterval

ASSUME RunLockAssumption ==
    /\ Nobody \notin Procs /\ Killable \subseteq Procs
    /\ StaleAfter \in Nat \ {0}
    /\ MaxSetup \in Nat /\ MaxTick \in Nat /\ PollInterval \in Nat

VARIABLES
    holder,     \* plans.run_lock_pid
    age,        \* time since plans.run_lock_heartbeat_at, up to StaleAfter + 1
    pc,         \* where each process is
    busy,       \* AcquireRunLock's holder, as GetPlan returned it
    left,       \* time a waiting process may still wait
    overrun     \* has a running holder ever let its heartbeat become stale?

vars == <<holder, age, pc, busy, left, overrun>>

Waiting == {"setup", "tick", "sleep", "backoff"}
Running == Waiting \cup {"top", "beat"}
Pcs == Running \cup {"idle", "look", "steal", "release", "dead"}

\* sleepHeartbeat's step
Chunk == StaleAfter \div 3

Stale == age > StaleAfter

Init ==
    /\ holder = Nobody /\ age = 0
    /\ pc = [p \in Procs |-> "idle"]
    /\ busy = [p \in Procs |-> Nobody]
    /\ left = [p \in Procs |-> 0]
    /\ overrun = FALSE

Wait(p, label, time) ==
    /\ pc' = [pc EXCEPT ![p] = label]
    /\ left' = [left EXCEPT ![p] = time]
    /\ UNCHANGED overrun

Goto(p, label) == Wait(p, label, 0)

Take(p) == holder' = p /\ age' = 0 /\ busy' = [busy EXCEPT ![p] = Nobody]

-----------------------------------------------------------------------------
(* AcquireRunLock                                                          *)

\* The lock is free, its own or stale.
Acquire(p) ==
    /\ pc[p] = "idle"
    /\ holder \in {Nobody, p} \/ Stale
    /\ Take(p) /\ Wait(p, "setup", MaxSetup)

\* It is not: no row updated.
Busy(p) ==
    /\ pc[p] = "idle"
    /\ holder \notin {Nobody, p} /\ ~Stale
    /\ Goto(p, "look")
    /\ UNCHANGED <<holder, age, busy>>

\* GetPlan: whose lock is it now?
Look(p) ==
    /\ pc[p] = "look"
    /\ busy' = [busy EXCEPT ![p] = holder]
    /\ Goto(p, "steal")
    /\ UNCHANGED <<holder, age>>

Dead(q) == q \in Procs /\ pc[q] = "dead"

\* Mutant: the lock of a dead process is taken whoever holds it by now.
Steal_NoCAS(p) ==
    /\ pc[p] = "steal" /\ Dead(busy[p])
    /\ Take(p) /\ Wait(p, "setup", MaxSetup)

\* Mutant: the update compares with the wrong process id.
Steal_WrongId(p) ==
    /\ pc[p] = "steal" /\ Dead(busy[p]) /\ holder = p
    /\ Take(p) /\ Wait(p, "setup", MaxSetup)

\* pidAlive says that it is dead's: compare and swap on its id.
Steal(p) ==
    /\ pc[p] = "steal" /\ Dead(busy[p]) /\ holder = busy[p]
    /\ Take(p) /\ Wait(p, "setup", MaxSetup)

\* "plan is locked by another om run"
GiveUp(p) ==
    /\ pc[p] = "steal"
    /\ ~Dead(busy[p]) \/ holder # busy[p]
    /\ Goto(p, "idle") /\ busy' = [busy EXCEPT ![p] = Nobody]
    /\ UNCHANGED <<holder, age>>

-----------------------------------------------------------------------------
(* Run and loop                                                            *)

\* Mutant: the release is deferred only after the set-up, so that an error of
\* it returns without.
SetUp_KeepsLock(p) ==
    /\ pc[p] = "setup"
    /\ Goto(p, "top") \/ Goto(p, "idle")
    /\ UNCHANGED <<holder, age, busy>>

\* resolveRepo, EnsureExcluded, StartRun; or an error of one of them.
SetUp(p) ==
    /\ pc[p] = "setup"
    /\ Goto(p, "top") \/ Goto(p, "release")
    /\ UNCHANGED <<holder, age, busy>>

\* Mutant: the loop does not look at the result of its heartbeat.
Heartbeat_Unchecked(p) ==
    /\ pc[p] \in {"top", "beat"}
    /\ age' = IF holder = p THEN 0 ELSE age
    /\ \/ pc[p] = "top" /\ Wait(p, "tick", MaxTick)
       \/ pc[p] = "beat" /\ Wait(p, "backoff", Chunk)
    /\ UNCHANGED <<holder, busy>>

\* HeartbeatRunLock, at the top of the loop and between the chunks of a
\* backoff.
Heartbeat(p) ==
    /\ pc[p] \in {"top", "beat"} /\ holder = p
    /\ age' = 0
    /\ \/ pc[p] = "top" /\ Wait(p, "tick", MaxTick)
       \/ pc[p] = "beat" /\ Wait(p, "backoff", Chunk)
    /\ UNCHANGED <<holder, busy>>

\* The lock was stolen: stop.
HeartbeatLost(p) ==
    /\ pc[p] \in {"top", "beat"} /\ holder # p
    /\ Goto(p, "release")
    /\ UNCHANGED <<holder, age, busy>>

\* The tick ends: the plan goes on, AO is unreachable, or the run is over.
TickDone(p) ==
    /\ pc[p] = "tick"
    /\ \/ Wait(p, "sleep", PollInterval)
       \/ Wait(p, "backoff", Chunk)
       \/ Goto(p, "release")
    /\ UNCHANGED <<holder, age, busy>>

\* A sleep ends; the last chunk of a backoff has no heartbeat of its own.
Slept(p) ==
    /\ \/ pc[p] \in {"sleep", "backoff"} /\ Goto(p, "top")
       \/ pc[p] = "backoff" /\ Goto(p, "beat")
       \/ pc[p] \in {"sleep", "backoff"} /\ Goto(p, "release")    \* Ctrl-C
    /\ UNCHANGED <<holder, age, busy>>

ReleaseRunLock(p) ==
    /\ pc[p] = "release"
    /\ holder' = IF holder = p THEN Nobody ELSE holder
    /\ Goto(p, "idle")
    /\ UNCHANGED <<age, busy>>

\* kill -9
Kill(p) ==
    /\ p \in Killable /\ pc[p] \notin {"idle", "dead"}
    /\ Goto(p, "dead") /\ busy' = [busy EXCEPT ![p] = Nobody]
    /\ UNCHANGED <<holder, age>>

Runners == {p \in Procs : pc[p] \in Running}

Elapse ==
    /\ \A p \in Procs : /\ pc[p] \in Waiting => left[p] > 0
                        /\ pc[p] \notin {"top", "beat"}
    /\ left' = [p \in Procs |-> IF pc[p] \in Waiting THEN left[p] - 1 ELSE left[p]]
    /\ age' = IF Stale THEN age ELSE age + 1
    /\ overrun' = (overrun \/ (age = StaleAfter /\ holder \in Runners))
    /\ UNCHANGED <<holder, pc, busy>>

Step(p) ==
    \/ Acquire(p) \/ Busy(p) \/ Look(p) \/ Steal(p) \/ GiveUp(p)
    \/ SetUp(p) \/ Heartbeat(p) \/ HeartbeatLost(p)
    \/ TickDone(p) \/ Slept(p) \/ ReleaseRunLock(p)

Next == Elapse \/ \E p \in Procs : Step(p) \/ Kill(p)

\* A process executes its next statement; a run that was refused is tried
\* again.  Nothing is asked of time.
Fairness == \A p \in Procs : WF_vars(Step(p))

Spec == Init /\ [][Next]_vars
FairSpec == Spec /\ Fairness

-----------------------------------------------------------------------------
(* Properties.                                                             *)

\* The process that holds the lock is past AcquireRunLock and has not left Run.
HeldInRun == \A p \in Procs : holder = p => pc[p] \notin {"idle", "look", "steal"}

\* Type invariant of the lock.  However Run ends, short of a kill, a process
\* that has left it does not hold the lock any more: a live holder's lock is
\* never left behind for the others to wait on until it is stale.
RunLockTypeOK ==
    /\ holder \in Procs \cup {Nobody}
    /\ age \in 0..StaleAfter + 1
    /\ pc \in [Procs -> Pcs]
    /\ busy \in [Procs -> Procs \cup {Nobody}]
    /\ left \in [Procs -> Nat]
    /\ overrun \in BOOLEAN
    /\ HeldInRun

AtMostOne == \A p, q \in Runners : p = q

\* Unless a runner let its own heartbeat become stale, two processes never run
\* the plan at once: not when two of them find the same dead holder, not when
\* the lock changes hands between the statements of AcquireRunLock, and not
\* when one is stopped as another starts.
OneRunner == ~overrun => AtMostOne

\* A process whose lock was taken from it stops running.
DispossessedStops ==
    \A p \in Procs : (pc[p] \in Running /\ holder # p) ~> (pc[p] \notin Running)

\* A dead process does not keep the lock, not even for the time its heartbeat
\* takes to become stale ("without the liveness check a dead holder blocks
\* resume for the whole staleAfter window", runlock.go).
DeadHolderReplaced ==
    \A p \in Procs : (holder = p /\ pc[p] = "dead") ~> (holder # p)
=============================================================================
