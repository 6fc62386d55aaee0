--------------------------- MODULE RunLockProofs ---------------------------
(***************************************************************************)
(* The run lock excludes as long as no runner lets its heartbeat become     *)
(* stale: whoever runs the plan holds the lock, and the lock is not stale.  *)
(***************************************************************************)
EXTENDS RunLock, TLAPS

RunnerHolds == ~overrun => \A p \in Runners : holder = p /\ ~Stale

LockInv == RunLockTypeOK /\ RunnerHolds

\* StaleAfter / 3 is a number of time units, at most StaleAfter.
LEMMA ChunkNat == Chunk \in Nat /\ Chunk <= StaleAfter
BY RunLockAssumption DEF Chunk

\* No process runs, and nobody holds the lock, at first.
LEMMA LockInit == Init => LockInv
<1>1. ASSUME Init PROVE RunLockTypeOK
  <2>1. overrun \in BOOLEAN
    BY <1>1, Zenon DEF Init
  <2> QED
    BY <1>1, <2>1, RunLockAssumption DEF Init, RunLockTypeOK, HeldInRun, Pcs
<1>2. Init => Runners = {}
  BY DEF Init, Runners, Running, Waiting
<1> QED
  BY <1>1, <1>2 DEF LockInv, RunnerHolds

\* Taking the lock: only when, short of an overrun, no other process runs.
LEMMA TakeInv == ASSUME LockInv, NEW p \in Procs,
                        ~overrun => \A q \in Procs : q # p => pc[q] \notin Running,
                        Take(p), Wait(p, "setup", MaxSetup)
                 PROVE  LockInv'
BY RunLockAssumption
DEF LockInv, RunLockTypeOK, HeldInRun, RunnerHolds, Runners, Stale, Take, Wait, Running, Waiting, Pcs

\* Time passes: a heartbeat that becomes stale under its runner is an overrun.
LEMMA ElapseInv == ASSUME LockInv, Elapse
                   PROVE  LockInv'
<1>1. RunLockTypeOK'
  <2>1. left' \in [Procs -> Nat]
    BY DEF LockInv, RunLockTypeOK, Elapse
  <2>2. overrun' \in BOOLEAN
    BY Zenon DEF Elapse
  <2>3. age' \in 0..StaleAfter + 1
    BY RunLockAssumption DEF LockInv, RunLockTypeOK, Elapse, Stale
  <2> QED
    BY <2>1, <2>2, <2>3 DEF LockInv, RunLockTypeOK, HeldInRun, Elapse
<1>2. Runners' = Runners /\ holder' = holder
  BY DEF Elapse, Runners
<1>3. ~overrun' => ~overrun /\ ~(age = StaleAfter /\ holder \in Runners)
  BY DEF Elapse
<1>4. ASSUME ~overrun', NEW p \in Runners
      PROVE  holder = p /\ age' <= StaleAfter
  BY <1>3, <1>4, RunLockAssumption
  DEF LockInv, RunLockTypeOK, RunnerHolds, Elapse, Stale
<1> QED
  BY <1>1, <1>2, <1>4, RunLockAssumption
  DEF LockInv, RunLockTypeOK, RunnerHolds, Stale

\* A step of one process.
LEMMA ProcessInv == ASSUME LockInv, NEW p \in Procs, Step(p) \/ Kill(p)
                    PROVE  LockInv'
<1>1. CASE Acquire(p)
  <2>1. ~overrun => \A q \in Procs : q # p => pc[q] \notin Running
    BY <1>1, RunLockAssumption DEF Acquire, LockInv, RunnerHolds, Runners
  <2> QED
    BY <1>1, <2>1, TakeInv DEF Acquire
<1>2. CASE Steal(p)
  <2>1. ~overrun => \A q \in Procs : q # p => pc[q] \notin Running
    BY <1>2 DEF Steal, Dead, LockInv, RunnerHolds, Runners, Running, Waiting
  <2> QED
    BY <1>2, <2>1, TakeInv DEF Steal
<1>3. CASE Heartbeat(p) \/ TickDone(p) \/ SetUp(p) \/ Slept(p)
  BY <1>3, RunLockAssumption, ChunkNat
  DEF Heartbeat, TickDone, SetUp, Slept, Goto, Wait, LockInv, RunLockTypeOK, HeldInRun,
      RunnerHolds, Runners, Stale, Running, Waiting, Pcs
<1>4. CASE Busy(p) \/ Look(p) \/ GiveUp(p) \/ HeartbeatLost(p) \/ Kill(p)
  BY <1>4, RunLockAssumption
  DEF Busy, Look, GiveUp, HeartbeatLost, Kill, Goto, Wait, LockInv, RunLockTypeOK,
      HeldInRun, RunnerHolds, Runners, Stale, Running, Waiting, Pcs
<1>5. CASE ReleaseRunLock(p)
  BY <1>5, RunLockAssumption
  DEF ReleaseRunLock, Goto, Wait, LockInv, RunLockTypeOK, HeldInRun, RunnerHolds, Runners,
      Stale, Running, Waiting, Pcs
<1> QED
  BY <1>1, <1>2, <1>3, <1>4, <1>5 DEF Step

\* The invariant is inductive.
LEMMA LockStep == ASSUME LockInv, [Next]_vars
                  PROVE  LockInv'
<1>1. CASE Elapse
  BY <1>1, ElapseInv
<1>2. CASE \E p \in Procs : Step(p) \/ Kill(p)
  BY <1>2, ProcessInv
<1>3. CASE UNCHANGED vars
  BY <1>3 DEF vars, LockInv, RunLockTypeOK, HeldInRun, RunnerHolds, Runners, Stale
<1> QED
  BY <1>1, <1>2, <1>3 DEF Next

\* The types of the lock's variables, for any number of processes and times, and no
\* holder that has left Run.
THEOREM LockTypeCorrect == Spec => []RunLockTypeOK
<1>1. LockInv => RunLockTypeOK
  BY DEF LockInv
<1> QED
  BY LockInit, LockStep, <1>1, PTL DEF Spec

\* For any number of processes, kills and waits: at most one process runs the
\* plan as long as no runner's heartbeat became stale, although dead and stale
\* locks are stolen.
THEOREM OneRunnerUnlessOverrun == Spec => []OneRunner
<1>1. LockInv => OneRunner
  BY DEF LockInv, RunnerHolds, OneRunner, AtMostOne
<1> QED
  BY LockInit, LockStep, <1>1, PTL DEF Spec
=============================================================================
