---------------------------- MODULE DriverProofs -----------------------------
(***************************************************************************)
(* Proofs about the driver's threads, first without time, then with it.    *)
(*                                                                         *)
(*   DriverThreads  ethercat_stop gets the bus for itself, leaves the      *)
(*                  driver down, and runs down to its end in steps that    *)
(*                  can be counted, in spite of a lock that excludes       *)
(*                  nobody.                                                *)
(*   DriverTiming   inherits all of that; for every frequency of the       *)
(*                  counter, length of the cycle and sequence of delays    *)
(*                  its deadlines keep their grid, its lateness stays      *)
(*                  accounted for, and the worst delay is recorded.        *)
(***************************************************************************)
EXTENDS DriverTiming, TLAPS

LEMMA InvInit == Init => IInv
BY DEF Init, IInv, TypeOK, Thread, Places, MainPlaces, Section, After, Ended,
       StoppedStaysDown

\* A step of a thread: it must have been created, and it has not ended.
LEMMA ThreadStepKeepsInv ==
  ASSUME IInv, NEW t \in Thread,
         UNCHANGED <<main, created, running>>,
         pc[t] \notin Ended,
         NEW q \in Places, pc' = [pc EXCEPT ![t] = q],
         soem_lock' \in {0, 1}, in_op' \in {0, 1},
         in_op' = in_op \/ t = Wd
  PROVE  IInv'
<1>1. TypeOK'
  BY DEF IInv, TypeOK
<1>2. t \in created
  BY DEF IInv, Ended
<1>3. \A u \in Thread : u \notin created' => pc'[u] = "none"
  BY <1>2 DEF IInv, TypeOK
<1>4. /\ main' \in {"start", "create_rt"} => created' = {}
      /\ main' = "create_wd" => Wd \notin created'
  BY DEF IInv
<1>5. /\ main' \in {"join_wd", "mark", "safeop", "stopped"} => pc'[Rt] \in Ended
      /\ main' \in {"mark", "safeop", "stopped"} => pc'[Wd] \in Ended
  BY DEF IInv, TypeOK, Thread
<1>6. StoppedStaysDown'
  <2> SUFFICES ASSUME main \in {"safeop", "stopped"} PROVE in_op' = 0
    BY DEF StoppedStaysDown
  <2>1. t # Wd
    BY DEF IInv
  <2>2. QED
    BY <2>1 DEF IInv, StoppedStaysDown
<1>7. QED
  BY <1>1, <1>3, <1>4, <1>5, <1>6 DEF IInv

\* No thread at work is where a thread that has not begun or has ended is.
LEMMA AtWork ==
  /\ \A x \in DOMAIN Section : x \notin Ended /\ Section[x] \in Places
  /\ \A x \in DOMAIN After : x \notin Ended /\ After[x] \in Places
  /\ {"loop", "inputs", "evaluate", "decide", "ended"} \subseteq Places
  /\ {"loop", "inputs", "evaluate", "decide"} \cap Ended = {}
  /\ {"lock_exchange", "lock_readstate", "lock_recovery"} \subseteq Places
BY DEF Section, After, Ended, Places

LEMMA RunKeepsInv ==
  ASSUME IInv, NEW t \in Thread, Run(t)
  PROVE  IInv'
<1>0. pc \in [Thread -> Places] /\ soem_lock \in {0, 1} /\ in_op \in {0, 1}
  BY DEF IInv, TypeOK
<1>1. CASE Spin(t)
  <2>1. CASE soem_lock # 0
    <3>1. pc' = [pc EXCEPT ![t] = Section[pc[t]]] /\ Section[pc[t]] \in Places
      BY <1>1, <2>1, AtWork DEF Spin
    <3>2. QED
      BY <1>0, <1>1, <2>1, <3>1, AtWork, ThreadStepKeepsInv DEF Spin
  <2>2. CASE soem_lock = 0
    BY <1>1, <2>2 DEF Spin, IInv, TypeOK, StoppedStaysDown
  <2>3. QED
    BY <2>1, <2>2
<1>2. CASE Unlock(t)
  <2>1. pc' = [pc EXCEPT ![t] = After[pc[t]]] /\ After[pc[t]] \in Places
    BY <1>2, AtWork DEF Unlock
  <2>2. QED
    BY <1>0, <1>2, <2>1, AtWork, ThreadStepKeepsInv DEF Unlock
<1>3. CASE LoopTest(t)
  <2> DEFINE q == IF running = 0 THEN "ended"
                  ELSE IF t = Rt THEN "lock_exchange" ELSE "lock_readstate"
  <2>1. q \in Places /\ pc' = [pc EXCEPT ![t] = q]
    BY <1>3, AtWork DEF LoopTest
  <2> HIDE DEF q
  <2>2. QED
    BY <1>0, <1>3, <2>1, AtWork, ThreadStepKeepsInv DEF LoopTest
<1>4. QED
  BY <1>1, <1>2, <1>3 DEF Run

\* The steps only one of the two threads has.
LEMMA LoopBodyKeepsInv ==
  ASSUME IInv, RtEndCycle \/ WdEvaluate \/ WdDecide
  PROVE  IInv'
<1>0. /\ pc \in [Thread -> Places] /\ soem_lock \in {0, 1} /\ in_op \in {0, 1}
      /\ Rt \in Thread /\ Wd \in Thread
  BY DEF IInv, TypeOK, Thread
<1>1. CASE RtEndCycle
  BY <1>0, <1>1, AtWork, ThreadStepKeepsInv DEF RtEndCycle, Go
<1>2. CASE WdEvaluate
  BY <1>0, <1>2, AtWork, ThreadStepKeepsInv DEF WdEvaluate, Go
<1>3. CASE WdDecide
  BY <1>0, <1>3, AtWork, ThreadStepKeepsInv DEF WdDecide, Go
<1>4. QED
  BY <1>1, <1>2, <1>3

\* The main thread: it creates each thread at most once, and marks the driver
\* as stopped after both joins.
LEMMA MainKeepsInv ==
  ASSUME IInv, Main \/ StopThreads
  PROVE  IInv'
<1> USE ThreadAssumption
    DEF IInv, TypeOK, Thread, MainPlaces, StoppedStaysDown, Stopping
<1>1. CASE StartFails
  BY <1>1 DEF StartFails
<1>2. CASE StartOp
  BY <1>2 DEF StartOp
<1>3. CASE CreateRt
  BY <1>3, AtWork DEF CreateRt, Create, Go
<1>4. CASE CreateWd
  BY <1>4, AtWork DEF CreateWd, Create, Go
<1>5. CASE StopThreads
  BY <1>5 DEF StopThreads
<1>6. CASE JoinRt
  BY <1>6 DEF JoinRt, Join, Ended
<1>7. CASE JoinWd
  BY <1>7 DEF JoinWd, Join, Ended
<1>8. CASE StopMark
  BY <1>8 DEF StopMark
<1>9. CASE StopSafeOp
  BY <1>9 DEF StopSafeOp
<1>10. QED
  BY <1>1, <1>2, <1>3, <1>4, <1>5, <1>6, <1>7, <1>8, <1>9 DEF Main

LEMMA InvStep == IInv /\ [Next]_vars => IInv'
<1> SUFFICES ASSUME IInv, [Next]_vars PROVE IInv'
  OBVIOUS
<1>1. CASE Main \/ StopThreads
  BY <1>1, MainKeepsInv
<1>2. CASE \E t \in Thread : Run(t)
  BY <1>2, RunKeepsInv
<1>3. CASE RtEndCycle \/ WdEvaluate \/ WdDecide
  BY <1>3, LoopBodyKeepsInv
<1>4. CASE UNCHANGED vars
  BY <1>4 DEF vars, IInv, TypeOK, StoppedStaysDown
<1>5. QED
  BY <1>1, <1>2, <1>3, <1>4 DEF Next

\* Every variable keeps its type, with the facts that make it inductive.
THEOREM Invariance == Spec => []IInv
BY InvInit, InvStep, PTL DEF Spec

\* The lock word, the flags and the places of the threads keep their types
\* under every interleaving (soem_lock, soem_unlock).
THEOREM TypeCorrect == Spec => []TypeOK
<1>1. IInv => TypeOK
  BY DEF IInv
<1>2. QED
  BY <1>1, Invariance, PTL

\* When the main thread drives the slaves without the lock, in ethercat_start
\* and after the joins of ethercat_stop, no other thread is alive to touch
\* SOEM's context.
THEOREM MainIsAlone == Spec => []MainHasTheBusAlone
<1>1. IInv => MainHasTheBusAlone
  BY DEF IInv, MainHasTheBusAlone, Thread, Ended
<1>2. QED
  BY <1>1, Invariance, PTL

\* A reset the watchdog accepts while ethercat_stop is under way cannot bring
\* in_op back after the stop marked the driver.
THEOREM StopIsFinal == Spec => []StoppedStaysDown
<1>1. IInv => StoppedStaysDown
  BY DEF IInv
<1>2. QED
  BY <1>1, Invariance, PTL

-----------------------------------------------------------------------------
\* The distance of a place is a number, and each step of a thread makes it less.
LEMMA Nearer ==
  /\ Distance \in [Places -> Nat]
  /\ \A x \in DOMAIN Section : Distance[Section[x]] < Distance[x]
  /\ \A x \in DOMAIN After : Distance[After[x]] < Distance[x]
  /\ Distance["ended"] < Distance["loop"]
  /\ Distance["loop"] < Distance["inputs"]
  /\ Distance["loop"] < Distance["decide"]
  /\ Distance["lock_recovery"] < Distance["evaluate"]
  /\ Distance["decide"] < Distance["evaluate"]
<1>1. DOMAIN Distance = Places
  BY DEF Distance, Places, Section, After, Ended
<1>2. \A x \in Places : Distance[x] \in Nat
  BY DEF Distance, Places, Section, After, Ended
<1>3. Distance \in [Places -> Nat]
  <2>1. Distance = [x \in Places |-> Distance[x]]
    BY <1>1 DEF Distance
  <2>2. QED
    BY <1>2, <2>1
<1>4. QED
  BY <1>3 DEF Distance, Section, After

\* Two steps for each place and one for the lock word.
LEMMA StepsAreCounted ==
  ASSUME TypeOK
  PROVE  /\ StepsLeft \in Nat
         /\ StepsLeft = 0 => pc[Rt] \in Ended /\ pc[Wd] \in Ended
<1>1. pc[Rt] \in Places /\ pc[Wd] \in Places /\ soem_lock \in {0, 1}
  BY DEF TypeOK, Thread
<1>2. \A x \in Places : Distance[x] \in Nat /\ (Distance[x] = 0 => x \in Ended)
  BY DEF Distance, Places, Section, After, Ended
<1>3. ASSUME NEW a \in Nat, NEW b \in Nat, NEW l \in {0, 1}
      PROVE  LET left == 2 * a + 2 * b + 1 - l
             IN  left \in Nat /\ (left = 0 => a = 0 /\ b = 0)
  OBVIOUS
<1>4. QED
  BY <1>1, <1>2, <1>3 DEF StepsLeft

\* A step that moves one thread nearer to its end, whatever it does to the
\* lock word.
LEMMA MoveCounts ==
  ASSUME TypeOK, NEW t \in Thread,
         NEW q \in Places, Distance[q] < Distance[pc[t]],
         pc' = [pc EXCEPT ![t] = q], soem_lock' \in {0, 1}
  PROVE  StepsLeft' < StepsLeft
<1>1. /\ Distance[q] \in Nat /\ Distance[pc[Rt]] \in Nat /\ Distance[pc[Wd]] \in Nat
      /\ pc \in [Thread -> Places] /\ soem_lock \in {0, 1}
  BY Nearer DEF TypeOK, Thread
<1>2. CASE t = Rt
  <2>1. pc'[Rt] = q /\ pc'[Wd] = pc[Wd]
    BY <1>1, <1>2, ThreadAssumption DEF Thread
  <2>2. QED
    BY <1>1, <1>2, <2>1 DEF StepsLeft
<1>3. CASE t = Wd
  <2>1. pc'[Wd] = q /\ pc'[Rt] = pc[Rt]
    BY <1>1, <1>3, ThreadAssumption DEF Thread
  <2>2. QED
    BY <1>1, <1>3, <2>1 DEF StepsLeft
<1>4. QED
  BY <1>2, <1>3 DEF Thread

LEMMA StopStep ==
  ASSUME IInv, [Next]_vars, main \in Stopping
  PROVE  StepsLeft' < StepsLeft \/ UNCHANGED <<pc, soem_lock>>
<1>0. /\ TypeOK /\ running = 0 /\ soem_lock \in {0, 1}
      /\ Rt \in Thread /\ Wd \in Thread
  BY DEF IInv, TypeOK, Thread
<1>1. ASSUME NEW t \in Thread, Spin(t) PROVE StepsLeft' < StepsLeft
  <2>1. CASE soem_lock = 0
    <3>1. soem_lock' = 1 /\ pc' = pc
      BY <1>1, <2>1 DEF Spin
    <3>2. Distance[pc[Rt]] \in Nat /\ Distance[pc[Wd]] \in Nat
      BY Nearer DEF TypeOK, Thread, IInv
    <3>3. QED
      BY <2>1, <3>1, <3>2 DEF StepsLeft
  <2>2. CASE soem_lock # 0
    <3>1. pc' = [pc EXCEPT ![t] = Section[pc[t]]] /\ Section[pc[t]] \in Places
          /\ Distance[Section[pc[t]]] < Distance[pc[t]]
      BY <1>1, <2>2, AtWork, Nearer DEF Spin
    <3>2. soem_lock' \in {0, 1}
      BY <1>0, <1>1, <2>2 DEF Spin
    <3>3. QED
      BY <1>0, <3>1, <3>2, MoveCounts
  <2>3. QED
    BY <2>1, <2>2
<1>2. ASSUME NEW t \in Thread, Unlock(t) PROVE StepsLeft' < StepsLeft
  <2>1. pc' = [pc EXCEPT ![t] = After[pc[t]]] /\ After[pc[t]] \in Places
        /\ Distance[After[pc[t]]] < Distance[pc[t]] /\ soem_lock' = 0
    BY <1>2, AtWork, Nearer DEF Unlock
  <2>2. QED
    BY <1>0, <2>1, MoveCounts
<1>3. ASSUME NEW t \in Thread, LoopTest(t) PROVE StepsLeft' < StepsLeft
  <2>1. pc' = [pc EXCEPT ![t] = "ended"] /\ "ended" \in Places
        /\ Distance["ended"] < Distance[pc[t]] /\ soem_lock' = soem_lock
    BY <1>0, <1>3, AtWork, Nearer DEF LoopTest
  <2>2. QED
    BY <1>0, <2>1, MoveCounts
<1>4. ASSUME RtEndCycle PROVE StepsLeft' < StepsLeft
  BY <1>0, <1>4, AtWork, Nearer, MoveCounts DEF RtEndCycle, Go
<1>5. ASSUME WdEvaluate PROVE StepsLeft' < StepsLeft
  BY <1>0, <1>5, AtWork, Nearer, MoveCounts DEF WdEvaluate, Go
<1>6. ASSUME WdDecide PROVE StepsLeft' < StepsLeft
  BY <1>0, <1>6, AtWork, Nearer, MoveCounts DEF WdDecide, Go
<1>7. ASSUME Main \/ StopThreads PROVE UNCHANGED <<pc, soem_lock>>
  BY <1>7 DEF Main, StartFails, StartOp, CreateRt, CreateWd, Create, JoinRt, JoinWd,
              Join, StopMark, StopSafeOp, StopThreads, Stopping
<1>8. QED
  BY <1>1, <1>2, <1>3, <1>4, <1>5, <1>6, <1>7 DEF Next, Run, vars

\* However the threads are interleaved, and whatever the lock lets happen, a
\* stop takes them StepsLeft steps at most (ethercat_stop): with the fairness
\* of the scheduling this is why StopCompletes holds.
THEOREM StopTerminates == Spec => StopRunsDown
<1>1. IInv /\ [Next]_vars
      => [(main \in Stopping)
             => StepsLeft' < StepsLeft \/ UNCHANGED <<pc, soem_lock>>]_vars
  BY StopStep
<1>2. QED
  BY <1>1, Invariance, PTL DEF Spec, StopRunsDown

-----------------------------------------------------------------------------
\* With time.

LEMMA StepIsUntimed ==
  ASSUME [TimedNext]_timedVars
  PROVE  [Next]_vars
BY DEF TimedNext, TimedMain, TimedStop, TimedRun, TimedLoopTest, TimedLock,
       RtMeasure, TimedEvaluate, WdSleep, Wait, Elapse, Next, Run, timedVars

\* Time changes nothing about who is alive where, so what is proved about
\* DriverThreads holds with it.
THEOREM TimedInvariance == TimedSpec => []IInv
<1>1. TimedInit => IInv
  BY InvInit DEF TimedInit
<1>2. IInv /\ [TimedNext]_timedVars => IInv'
  BY StepIsUntimed, InvStep
<1>3. QED
  BY <1>1, <1>2, PTL DEF TimedSpec

\* Every behaviour with time is one of the threads without: it starts as they
\* start, and each of its steps is one of theirs or changes nothing of them.
THEOREM TimedImplementsThreads == TimedSpec => Init /\ [][Next]_vars
<1>1. TimedInit => Init
  BY DEF TimedInit
<1>2. [TimedNext]_timedVars => [Next]_vars
  BY StepIsUntimed
<1>3. QED
  BY <1>1, <1>2, PTL DEF TimedSpec

\* So the stop has the bus for itself, leaves the driver down and runs down to
\* its end also in real time, with the threads suspended anywhere.
THEOREM TimedStopIsSafe ==
  TimedSpec => [](TypeOK /\ MainHasTheBusAlone /\ StoppedStaysDown) /\ StopRunsDown
<1>1. IInv => TypeOK /\ MainHasTheBusAlone /\ StoppedStaysDown
  BY DEF IInv, MainHasTheBusAlone, Thread, Ended
<1>2. IInv /\ [TimedNext]_timedVars
      => [(main \in Stopping)
             => StepsLeft' < StepsLeft \/ UNCHANGED <<pc, soem_lock>>]_vars
  BY StepIsUntimed, StopStep
<1>3. QED
  BY <1>1, <1>2, TimedInvariance, PTL DEF TimedSpec, StopRunsDown

-----------------------------------------------------------------------------
LEMMA CycleIsPositive == cycle_ticks \in Nat \ {0}
<1>1. cycle_ticks \in Int /\ MaxWork \in Nat /\ MaxWork < cycle_ticks
  <2>1. thread_cycle_us * FREQ \in Nat /\ MICRO \in Nat \ {0}
    BY TimingAssumption
  <2>2. QED
    BY <2>1, TimingAssumption DEF cycle_ticks
<1>2. QED
  BY <1>1

\* One cycle more or less leaves a point of the grid on the grid.
LEMMA OnTheGrid ==
  ASSUME NEW s \in Int, NEW n \in Nat \ {0}, s % n = 0
  PROVE  (s + n) % n = 0 /\ (s - n) % n = 0
<1>1. PICK q \in Int : s = n * q
  <2>1. s = n * (s \div n)
    BY SMT
  <2>2. s \div n \in Int
    BY SMT
  <2>3. QED
    BY <2>1, <2>2
<1>2. ASSUME NEW t \in Int, NEW k \in Int, t = n * k PROVE t % n = 0
  BY <1>2, SMT
<1>3. s + n = n * (q + 1) /\ s - n = n * (q - 1)
  BY <1>1, SMT
<1>4. QED
  BY <1>2, <1>3

\* The phase counts a tick, or starts again.
LEMMA NextPhase ==
  ASSUME NEW p \in Nat, NEW n \in Nat \ {0}, p < n
  PROVE  (p + 1) % n = (IF p + 1 = n THEN 0 ELSE p + 1)
OBVIOUS

\* A distance that is less than a microsecond stays so as time passes.
LEMMA LessThanMicro ==
  ASSUME NEW r \in Int, r * MICRO < FREQ
  PROVE  (r - 1) * MICRO < FREQ
<1>1. (r - 1) * MICRO = r * MICRO - MICRO
  BY TimingAssumption
<1>2. r * MICRO \in Int
  BY TimingAssumption
<1>3. QED
  BY <1>1, <1>2, TimingAssumption

\* What wait_until_qpc_2 takes for no time left is less than a microsecond.
LEMMA NoTimeLeft ==
  ASSUME NEW r \in Int, QpcToUs(r) <= 0 \/ r <= 0
  PROVE  r * MICRO < FREQ
<1>1. CASE r <= 0
  <2>1. r * MICRO <= 0
    BY <1>1, TimingAssumption
  <2>2. r * MICRO \in Int
    BY TimingAssumption
  <2>3. QED
    BY <2>1, <2>2, TimingAssumption
<1>2. CASE r > 0
  <2>1. r * MICRO \in Nat
    BY <1>2, TimingAssumption
  <2>2. (r * MICRO) \div FREQ <= 0
    BY <1>2 DEF QpcToUs
  <2>3. QED
    BY <2>1, <2>2, TimingAssumption
<1>3. QED
  BY <1>1, <1>2

\* The thread is outside its wait when it goes through its loop; then less
\* than a microsecond is left, and it has been so since it began.
TimedInv ==
    /\ remaining \in Int /\ phase \in Nat /\ phase < cycle_ticks
    /\ pc[Rt] = "none" => remaining = 0 /\ phase = 0
    /\ wait # "no" => pc[Rt] = "loop"
    /\ wait = "no" => remaining * MICRO < FREQ
    /\ (phase + remaining) % cycle_ticks = 0

LEMMA TimedInvInit == TimedInit => TimedInv
<1> SUFFICES ASSUME TimedInit PROVE TimedInv
  OBVIOUS
<1>1. remaining = 0 /\ phase = 0 /\ wait = "no"
  BY DEF TimedInit
<1>2. (phase + remaining) % cycle_ticks = 0 /\ phase < cycle_ticks
  BY <1>1, CycleIsPositive
<1>3. remaining * MICRO < FREQ
  BY <1>1, TimingAssumption
<1>4. QED
  BY <1>1, <1>2, <1>3 DEF TimedInv

\* The steps of DriverThreads do not touch the clock, and no thread is back
\* where it was before it was created.
LEMMA UntimedKeepsInv ==
  ASSUME IInv, TimedInv,
         \/ TimedMain \/ TimedStop \/ TimedEvaluate \/ WdSleep
         \/ \E t \in Thread : TimedRun(t)
  PROVE  TimedInv'
<1>1. UNCHANGED <<remaining, phase, wait>>
  BY DEF TimedMain, TimedStop, TimedRun, TimedLoopTest, TimedLock, TimedEvaluate,
         WdSleep, timing, waitVars, clockVars
<1>2. pc'[Rt] = "none" => pc[Rt] = "none"
  BY DEF TimedMain, TimedStop, TimedRun, TimedLoopTest, TimedLock, TimedEvaluate,
         WdSleep, Main, StartFails, StartOp, CreateRt, CreateWd, Create, JoinRt,
         JoinWd, Join, StopMark, StopSafeOp, StopThreads, Spin, Unlock, LoopTest,
         WdEvaluate, WdDecide, Go, IInv, TypeOK, Thread, Section, After
<1>3. wait # "no" => pc'[Rt] = "loop"
  <2> SUFFICES ASSUME wait # "no", pc[Rt] = "loop" PROVE pc'[Rt] = "loop"
    BY DEF TimedInv
  <2>1. QED
    BY ThreadAssumption
       DEF TimedMain, TimedStop, TimedRun, TimedLoopTest, TimedLock, TimedEvaluate,
           WdSleep, Main, StartFails, StartOp, CreateRt, CreateWd, Create, JoinRt,
           JoinWd, Join, StopMark, StopSafeOp, StopThreads, Spin, Unlock, LoopTest,
           WdEvaluate, WdDecide, Go, IInv, TypeOK, Thread, Section, After
<1>4. QED
  BY <1>1, <1>2, <1>3 DEF TimedInv

\* The next deadline is a cycle after the last.
LEMMA MeasureKeepsInv ==
  ASSUME IInv, TimedInv, RtMeasure
  PROVE  TimedInv'
<1>1. remaining' = remaining + cycle_ticks /\ phase' = phase /\ wait' = "test"
  BY DEF RtMeasure, NextDeadline
<1>2. pc'[Rt] = "loop"
  BY DEF RtMeasure, RtEndCycle, Go, IInv, TypeOK, Thread
<1>3. (phase' + remaining') % cycle_ticks = 0
  <2>1. phase + remaining \in Int /\ (phase + remaining) % cycle_ticks = 0
    BY DEF TimedInv
  <2>2. ((phase + remaining) + cycle_ticks) % cycle_ticks = 0
    BY <2>1, CycleIsPositive, OnTheGrid
  <2>3. phase' + remaining' = (phase + remaining) + cycle_ticks
    BY <1>1, CycleIsPositive DEF TimedInv
  <2>4. QED
    BY <2>2, <2>3
<1>4. remaining' \in Int /\ phase' \in Nat /\ phase' < cycle_ticks
  BY <1>1, CycleIsPositive DEF TimedInv
<1>5. QED
  BY <1>1, <1>2, <1>3, <1>4 DEF TimedInv

\* The wait ends with less than a microsecond left.
LEMMA WaitKeepsInv ==
  ASSUME TimedInv, Wait
  PROVE  TimedInv'
<1>1. UNCHANGED <<remaining, phase, pc>> /\ wait # "no"
  BY DEF Wait, WaitTest, WakeUp, SpinEnd, clockVars, vars
<1>2. wait' = "no" => remaining * MICRO < FREQ
  <2> SUFFICES ASSUME wait' = "no" PROVE QpcToUs(remaining) <= 0 \/ remaining <= 0
    BY NoTimeLeft DEF TimedInv
  <2>1. CASE WaitTest
    <3>1. QpcToUs(remaining) \in Int
      BY TimingAssumption DEF QpcToUs, TimedInv
    <3>2. QED
      BY <2>1, <3>1, TimingAssumption DEF WaitTest
  <2>2. CASE WakeUp
    BY <2>2 DEF WakeUp
  <2>3. CASE SpinEnd
    BY <2>3 DEF SpinEnd
  <2>4. QED
    BY <2>1, <2>2, <2>3 DEF Wait
<1>3. QED
  BY <1>1, <1>2 DEF TimedInv

\* A tick brings the deadline nearer as it moves the phase on.
LEMMA ElapseKeepsInv ==
  ASSUME TimedInv, Elapse
  PROVE  TimedInv'
<1>1. UNCHANGED <<pc, wait>>
  BY DEF Elapse, vars, waitVars
<1>2. CASE pc[Rt] \in Ended
  BY <1>1, <1>2 DEF Elapse, clockVars, TimedInv
<1>3. CASE pc[Rt] \notin Ended
  <2>1. remaining' = remaining - 1 /\ phase' = (phase + 1) % cycle_ticks
    BY <1>3 DEF Elapse
  <2>2. remaining \in Int /\ phase \in Nat /\ phase < cycle_ticks
    BY DEF TimedInv
  <2>3. phase' = (IF phase + 1 = cycle_ticks THEN 0 ELSE phase + 1)
    BY <2>1, <2>2, CycleIsPositive, NextPhase
  <2>4. phase' \in Nat /\ phase' < cycle_ticks /\ remaining' \in Int
    BY <2>1, <2>2, <2>3, CycleIsPositive
  <2>5. \/ phase' + remaining' = phase + remaining
        \/ phase' + remaining' = (phase + remaining) - cycle_ticks
    BY <2>1, <2>2, <2>3, CycleIsPositive
  <2>6. (phase' + remaining') % cycle_ticks = 0
    <3>1. phase + remaining \in Int /\ (phase + remaining) % cycle_ticks = 0
      BY DEF TimedInv
    <3>2. QED
      BY <2>5, <3>1, CycleIsPositive, OnTheGrid
  <2>7. wait' = "no" => remaining' * MICRO < FREQ
    BY <1>1, <2>1, <2>2, LessThanMicro DEF TimedInv
  <2>8. pc'[Rt] # "none"
    BY <1>1, <1>3 DEF Ended
  <2>9. QED
    BY <1>1, <2>4, <2>6, <2>7, <2>8 DEF TimedInv
<1>4. QED
  BY <1>2, <1>3

LEMMA TimedInvStep ==
  ASSUME IInv, TimedInv, [TimedNext]_timedVars
  PROVE  TimedInv'
<1>1. CASE UNCHANGED timedVars
  BY <1>1 DEF timedVars, vars, timing, waitVars, clockVars, TimedInv
<1>2. QED
  BY <1>1, UntimedKeepsInv, MeasureKeepsInv, WaitKeepsInv, ElapseKeepsInv
     DEF TimedNext

\* However long cycles take and the thread is suspended, its deadlines stay on
\* the grid of the first one, and it begins no cycle a microsecond or more
\* before its deadline (ethercat_thread, wait_until_qpc_2).
THEOREM RhythmHolds == TimedSpec => []RhythmIsKept
<1>1. TimedInv => RhythmIsKept
  BY DEF TimedInv, RhythmIsKept
<1>2. QED
  BY <1>1, TimedInvariance, TimedInvInit, TimedInvStep, PTL DEF TimedSpec

-----------------------------------------------------------------------------
\* A delay that fits is not changed by the conversion.
LEMMA DelayFits ==
  ASSUME NEW x \in Int, Abs(x) < INT32_RANGE \div 2
  PROVE  ToInt32(x) = x
<1> DEFINE half == INT32_RANGE \div 2
<1>1. half \in Nat /\ INT32_RANGE = 2 * half
  BY TimingAssumption
<1>2. x + half \in 0 .. INT32_RANGE - 1
  BY <1>1 DEF Abs
<1>3. (x + half) % INT32_RANGE = x + half
  BY <1>1, <1>2, TimingAssumption
<1>4. QED
  BY <1>1, <1>3 DEF ToInt32

\* More ticks are no fewer microseconds.
LEMMA QpcToUsGrows ==
  ASSUME NEW a \in Nat, NEW b \in Nat, a <= b
  PROVE  /\ QpcToUs(a) \in Nat /\ QpcToUs(b) \in Nat
         /\ QpcToUs(a) <= QpcToUs(b)
<1> DEFINE m == a * MICRO
           n == b * MICRO
<1>1. m \in Nat /\ n \in Nat /\ m <= n /\ FREQ \in Nat /\ FREQ > 0
  <2>1. b = a + (b - a) /\ b - a \in Nat
    OBVIOUS
  <2>2. b * MICRO = a * MICRO + (b - a) * MICRO /\ (b - a) * MICRO \in Nat
    BY <2>1, TimingAssumption
  <2>3. QED
    BY <2>2, TimingAssumption
<1>2. QpcToUs(a) = m \div FREQ /\ QpcToUs(b) = n \div FREQ
  BY DEF QpcToUs
<1> HIDE DEF m, n
<1>3. m \div FREQ \in Nat /\ n \div FREQ \in Nat /\ m \div FREQ <= n \div FREQ
  BY <1>1
<1>4. QED
  BY <1>2, <1>3

\* The statistics never show more than the worst lateness, and show it once its
\* deadline is past.
JitterInv ==
    /\ late \in Nat /\ late >= -remaining
    /\ max_jitter_us \in Int
    /\ DelaysAreRecorded

\* What one measurement adds: the lateness at that moment, and nothing when the
\* deadline is still ahead.
LEMMA JitterIsLateness ==
  ASSUME TimedInv, JitterInv, wait = "no", QpcToUs(late) < INT32_RANGE \div 2
  PROVE  /\ Jitter \in Nat /\ Jitter <= QpcToUs(late)
         /\ remaining <= 0 => Jitter = QpcToUs(-remaining)
<1>0. /\ remaining \in Int /\ late \in Nat /\ late >= -remaining
      /\ remaining * MICRO < FREQ /\ INT32_RANGE \div 2 \in Int
      /\ QpcToUs(late) \in Nat
  BY QpcToUsGrows, TimingAssumption DEF TimedInv, JitterInv
<1>1. CASE remaining <= 0
  <2>1. -remaining \in Nat
    BY <1>0, <1>1
  <2>2. QpcToUs(-remaining) \in Nat /\ QpcToUs(-remaining) <= QpcToUs(late)
    BY <1>0, <2>1, QpcToUsGrows
  <2>3. ToInt32(QpcToUs(-remaining)) = QpcToUs(-remaining)
    BY <1>0, <2>2, DelayFits DEF Abs
  <2>4. Jitter = QpcToUs(-remaining)
    BY <2>2, <2>3 DEF Jitter, Abs
  <2>5. QED
    BY <2>2, <2>4
<1>2. CASE remaining > 0
  <2>1. QpcToUs(-remaining) = 0
    <3>1. remaining * MICRO \in Nat /\ FREQ \in Nat /\ FREQ > 0
      BY <1>0, <1>2, TimingAssumption
    <3>2. (remaining * MICRO) \div FREQ = 0
      BY <1>0, <3>1
    <3>3. QpcToUs(-remaining) = -((remaining * MICRO) \div FREQ)
      BY <1>0, <1>2 DEF QpcToUs
    <3>4. QED
      BY <3>2, <3>3
  <2>2. ToInt32(0) = 0
    BY <1>0, DelayFits DEF Abs
  <2>3. Jitter = 0
    BY <2>1, <2>2 DEF Jitter, Abs
  <2>4. QED
    BY <1>0, <1>2, <2>3
<1>3. QED
  BY <1>0, <1>1, <1>2

LEMMA JitterStep ==
  ASSUME TimedInv, JitterInv, [TimedNext]_timedVars
  PROVE  JitterInv'
<1>0. /\ remaining \in Int /\ late \in Nat /\ late >= -remaining
      /\ max_jitter_us \in Int /\ cycle_ticks \in Nat /\ cycle_ticks > 0
      /\ QpcToUs(late) \in Nat
  BY CycleIsPositive, QpcToUsGrows DEF TimedInv, JitterInv
<1>1. CASE RtMeasure
  <2>1. /\ late' = late /\ remaining' = remaining + cycle_ticks
        /\ max_jitter_us' = Larger(max_jitter_us, Jitter)
        /\ wait = "no"
    BY <1>1 DEF RtMeasure, NextDeadline, RtEndCycle, Go, TimedInv
  <2>2. Jitter \in Int
    BY TimingAssumption DEF Jitter, ToInt32, QpcToUs, Abs, TimedInv
  <2>3. ASSUME QpcToUs(late) < INT32_RANGE \div 2
        PROVE  max_jitter_us' = QpcToUs(late)
    <3>1. /\ Jitter \in Nat /\ Jitter <= QpcToUs(late)
          /\ remaining <= 0 => Jitter = QpcToUs(-remaining)
      BY <2>1, <2>3, JitterIsLateness
    <3>2. /\ max_jitter_us <= QpcToUs(late)
          /\ late > -remaining => max_jitter_us = QpcToUs(late)
      BY <2>3 DEF JitterInv, DelaysAreRecorded
    <3>3. CASE late > -remaining
      BY <1>0, <2>1, <3>1, <3>2, <3>3 DEF Larger
    <3>4. CASE late = -remaining
      <4>1. Jitter = QpcToUs(late)
        <5>1. remaining <= 0
          BY <1>0, <3>4
        <5>2. QED
          BY <3>1, <3>4, <5>1
      <4>2. QED
        BY <1>0, <2>1, <3>2, <4>1 DEF Larger
    <3>5. QED
      BY <1>0, <3>3, <3>4
  <2>4. DelaysAreRecorded'
    <3>1. QpcToUs(late)' = QpcToUs(late)
      BY <2>1 DEF QpcToUs
    <3>2. QED
      BY <1>0, <2>1, <2>3, <3>1 DEF DelaysAreRecorded
  <2>5. QED
    BY <1>0, <2>1, <2>2, <2>4 DEF JitterInv, Larger
<1>2. CASE Elapse /\ pc[Rt] \notin Ended
  <2>1. /\ remaining' = remaining - 1 /\ late' = Larger(late, -remaining')
        /\ max_jitter_us' = max_jitter_us
    BY <1>2 DEF Elapse, waitVars
  <2>2. late' \in Nat /\ late' >= late /\ late' >= -remaining'
    BY <1>0, <2>1 DEF Larger
  <2>3. QpcToUs(late') \in Nat /\ QpcToUs(late) <= QpcToUs(late')
    BY <1>0, <2>2, QpcToUsGrows
  <2>4. late' > -remaining' => late' = late /\ late > -remaining
    BY <1>0, <2>1 DEF Larger
  <2>5. DelaysAreRecorded'
    <3>1. QpcToUs(late)' = QpcToUs(late')
      BY DEF QpcToUs
    <3>2. INT32_RANGE \div 2 \in Int
      BY TimingAssumption
    <3>3. QED
      BY <1>0, <2>1, <2>3, <2>4, <3>1, <3>2 DEF JitterInv, DelaysAreRecorded
  <2>6. QED
    BY <1>0, <2>1, <2>2, <2>5 DEF JitterInv
<1>3. CASE ~RtMeasure /\ ~(Elapse /\ pc[Rt] \notin Ended)
  <2>1. UNCHANGED <<max_jitter_us, late, remaining>>
    BY <1>3 DEF TimedNext, TimedMain, TimedStop, TimedRun, TimedLoopTest,
                TimedLock, TimedEvaluate, WdSleep, Wait, Elapse, timing,
                waitVars, clockVars, timedVars
  <2>2. QED
    BY <2>1 DEF JitterInv, DelaysAreRecorded, QpcToUs
<1>4. QED
  BY <1>1, <1>2, <1>3

\* The statistics hold the worst lateness there was, wherever it arose, once its
\* deadline is past, as long as none exceeded the range of jitter_us
\* (ethercat_thread).
THEOREM DelaysHold == TimedSpec => []DelaysAreRecorded
<1>1. TimedInit => JitterInv
  <2> SUFFICES ASSUME TimedInit PROVE JitterInv
    OBVIOUS
  <2>1. late = 0 /\ remaining = 0 /\ max_jitter_us = 0
    BY DEF TimedInit
  <2>2. QpcToUs(0) \in Nat
    BY QpcToUsGrows
  <2>3. QED
    BY <2>1, <2>2 DEF JitterInv, DelaysAreRecorded
<1>2. JitterInv => DelaysAreRecorded
  BY DEF JitterInv
<1>3. QED
  BY <1>1, <1>2, JitterStep, TimedInvariance, TimedInvInit, TimedInvStep, PTL
     DEF TimedSpec

-----------------------------------------------------------------------------
\* Lateness is paid back: what is left to the deadline, not counting this
\* cycle's work and the suspensions, stays as it is until the cycle has been
\* measured, and then grows, as long as the thread is behind.
Credit == remaining + work + delays

LatenessIsPaidBack ==
    [][remaining <= 0 =>
          IF wait = "no" /\ wait' = "test" THEN Credit' > Credit
                                          ELSE Credit' = Credit]_timedVars

\* What the thread spent is within its bounds, and accounts for its lateness.
LatenessInv ==
    /\ work \in 0 .. MaxWork
    /\ delays \in 0 .. MaxDelays
    /\ LatenessIsBounded

\* What a step does to the account: the time of a tick that brings the thread
\* behind is written down, and a new deadline strikes off one cycle's work.
LEMMA LatenessStep ==
  ASSUME TimedInv, LatenessInv, [TimedNext]_timedVars
  PROVE  /\ LatenessInv'
         /\ remaining <= 0 => IF wait = "no" /\ wait' = "test"
                              THEN Credit' > Credit
                              ELSE Credit' = Credit
<1>0. /\ remaining \in Int /\ work \in Nat /\ delays \in Nat
      /\ MaxWork \in Nat /\ MaxDelays \in Nat
      /\ cycle_ticks \in Nat /\ MaxWork < cycle_ticks
  BY CycleIsPositive, TimingAssumption DEF TimedInv, LatenessInv
<1>1. CASE RtMeasure
  <2>1. pc[Rt] = "inputs" /\ wait = "no" /\ wait' = "test"
    BY <1>1 DEF RtMeasure, RtEndCycle, Go, TimedInv
  <2>2. remaining' = remaining + cycle_ticks /\ work' = 0 /\ delays' = delays
    BY <1>1 DEF RtMeasure, NextDeadline
  <2>3. QED
    BY <1>0, <2>1, <2>2 DEF LatenessInv, LatenessIsBounded, Credit
<1>2. CASE Elapse
  <2>1. wait' = wait
    BY <1>2 DEF Elapse, waitVars
  <2>2. CASE UNCHANGED <<remaining, work, delays>>
    BY <2>1, <2>2 DEF LatenessInv, LatenessIsBounded, Credit
  <2>3. CASE remaining' = remaining - 1 /\ remaining > 0 /\ UNCHANGED <<work, delays>>
    BY <1>0, <2>3 DEF LatenessInv, LatenessIsBounded
  <2>4. CASE /\ remaining' = remaining - 1
             /\ \/ work < MaxWork /\ work' = work + 1 /\ delays' = delays
                \/ delays < MaxDelays /\ delays' = delays + 1 /\ work' = work
    BY <1>0, <2>1, <2>4 DEF LatenessInv, LatenessIsBounded, Credit
  <2>5. QED
    BY <1>2, <2>2, <2>3, <2>4 DEF Elapse, clockVars
<1>3. CASE ~RtMeasure /\ ~Elapse
  <2>1. UNCHANGED <<remaining, work, delays>>
    BY <1>3 DEF TimedNext, TimedMain, TimedStop, TimedRun, TimedLoopTest, TimedLock,
                TimedEvaluate, WdSleep, Wait, timing, clockVars, timedVars
  <2>2. ~(wait = "no" /\ wait' = "test")
    BY <1>3 DEF TimedNext, TimedMain, TimedStop, TimedRun, TimedLoopTest, TimedLock,
                TimedEvaluate, WdSleep, Wait, WaitTest, WakeUp, SpinEnd, timing,
                waitVars, timedVars
  <2>3. QED
    BY <2>1, <2>2 DEF LatenessInv, LatenessIsBounded, Credit
<1>4. QED
  BY <1>1, <1>2, <1>3

LEMMA LatenessInvInit == TimedInit => LatenessInv
BY TimingAssumption DEF TimedInit, LatenessInv, LatenessIsBounded

LEMMA LatenessInvariance == TimedSpec => [](IInv /\ TimedInv /\ LatenessInv)
BY TimedInvariance, TimedInvInit, TimedInvStep, LatenessInvInit, LatenessStep, PTL
   DEF TimedSpec

\* For any work and any suspensions, the thread is behind by no more than they
\* account for: missed cycles do not add up (ethercat_thread).
THEOREM LatenessHolds == TimedSpec => []LatenessIsBounded
<1>1. LatenessInv => LatenessIsBounded
  BY DEF LatenessInv
<1>2. QED
  BY <1>1, LatenessInvariance, PTL

\* Behind, the thread gains with each cycle and loses nothing in between.
THEOREM LatenessFalls == TimedSpec => LatenessIsPaidBack
<1>1. /\ IInv /\ TimedInv /\ LatenessInv
      /\ [TimedNext]_timedVars
      => [remaining <= 0 => IF wait = "no" /\ wait' = "test"
                            THEN Credit' > Credit
                            ELSE Credit' = Credit]_timedVars
  BY LatenessStep
<1>2. QED
  BY <1>1, LatenessInvariance, PTL DEF TimedSpec, LatenessIsPaidBack

\* What is left to pay back, in ticks; and the bound on the lag, when it is as
\* large as work and suspensions together, stops no tick.
BurstIsShort == remaining <= 0 => Credit \in 0 .. MaxWork + MaxDelays

LagBoundIsIdle ==
    MaxLag >= MaxWork + MaxDelays
        => (work < MaxWork \/ delays < MaxDelays => remaining > -MaxLag)

\* With LatenessFalls: a burst of late cycles has at most one cycle for each
\* tick of work and suspension, and one more.
THEOREM BurstsAreShort == TimedSpec => [](BurstIsShort /\ LagBoundIsIdle)
<1>1. TimedInv /\ LatenessInv => BurstIsShort /\ LagBoundIsIdle
  <2> SUFFICES ASSUME TimedInv, LatenessInv PROVE BurstIsShort /\ LagBoundIsIdle
    OBVIOUS
  <2>1. /\ remaining \in Int /\ work \in 0 .. MaxWork /\ delays \in 0 .. MaxDelays
        /\ remaining >= -(work + delays)
        /\ MaxWork \in Nat /\ MaxDelays \in Nat /\ MaxLag \in Nat
    BY TimingAssumption DEF TimedInv, LatenessInv, LatenessIsBounded
  <2>2. QED
    BY <2>1 DEF BurstIsShort, LagBoundIsIdle, Credit
<1>2. QED
  BY <1>1, LatenessInvariance, PTL
=============================================================================
