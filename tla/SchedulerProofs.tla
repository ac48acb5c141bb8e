-------------------------- MODULE SchedulerProofs ---------------------------
(***************************************************************************)
(* Proofs about Scheduler, for any table of tasks and any delays.          *)
(***************************************************************************)
EXTENDS Scheduler, TLAPS

\* A slot in use holds an entry of the configuration.
LEMMA SlotsHoldEntries ==
  ASSUME TypeOK, task_count <= added, NEW k \in 1 .. task_count
  PROVE  k \in Slot /\ k \in Config /\ k \in Nat
         /\ Period[k] \in Nat /\ Period[k] >= Tick /\ Offset[k] \in Nat
BY SchedulerAssumption DEF TypeOK, Slot, Config

LEMMA InvInit == Init => IInv
BY SchedulerAssumption
   DEF Init, IInv, TypeOK, Slot, DeadlineCountsRuns, DeadlineKeepsUp

LEMMA MainKeepsInv ==
  ASSUME IInv, AddTask \/ Start \/ Stop \/ Join
  PROVE  IInv'
<1> USE SchedulerAssumption
<1>1. CASE AddTask
  <2>1. TypeOK'
    BY <1>1 DEF AddTask, IInv, TypeOK, threadVars
  <2>2. \A k \in 1 .. task_count' : k \in Slot
    BY <2>1 DEF TypeOK, Slot
  <2>3. \A k \in 1 .. task_count' : ~init[k] /\ runs[k] = 0
    BY <1>1, <2>2 DEF AddTask, IInv, TypeOK, DeadlineCountsRuns, DeadlineKeepsUp
  <2>4. \A k \in 1 .. task_count' : (DeadlineCountsRuns(k) /\ DeadlineKeepsUp(k))'
    BY <1>1, <2>3
       DEF AddTask, IInv, DeadlineCountsRuns, DeadlineKeepsUp, threadVars
  <2>5. QED
    BY <1>1, <2>1, <2>4 DEF AddTask, IInv, TypeOK, Slot, threadVars
<1>2. CASE Start
  BY <1>2 DEF Start, IInv, TypeOK, tableVars, DeadlineCountsRuns, DeadlineKeepsUp
<1>3. CASE Stop
  BY <1>3 DEF Stop, IInv, TypeOK, tableVars, threadVars, DeadlineCountsRuns,
              DeadlineKeepsUp
<1>4. CASE Join
  BY <1>4 DEF Join, IInv, TypeOK, tableVars, threadVars, DeadlineCountsRuns,
              DeadlineKeepsUp
<1>5. QED
  BY <1>1, <1>2, <1>3, <1>4

\* The product in DeadlineCountsRuns grows by one period per run.
LEMMA OneMoreRun ==
  ASSUME NEW n \in Nat, NEW p \in Nat
  PROVE  (n + 1) * p = n * p + p
OBVIOUS

\* One task of the loop over the table.
LEMMA RunTaskKeepsInv ==
  ASSUME IInv, RunTask
  PROVE  IInv'
<1> USE SchedulerAssumption
<1>1. i \in 1 .. task_count
  BY DEF IInv, TypeOK, RunTask
<1>2. /\ i \in Slot /\ i \in Nat
      /\ Period[i] \in Nat /\ Period[i] >= Tick /\ Offset[i] \in Nat
  BY <1>1, SlotsHoldEntries DEF IInv
<1>3. Deadline(i) \in Nat /\ DeadlineAfter(i) \in Nat
  BY <1>2 DEF Deadline, DeadlineAfter, IInv, TypeOK
<1>4. TypeOK'
  BY <1>1, <1>2, <1>3 DEF RunTask, IInv, TypeOK
\* Looked at for the first time, the deadline is not before this tick.
<1>5. Deadline(i) + Tick > next
  BY <1>1, <1>2 DEF IInv, TypeOK, RunTask, Deadline, DeadlineKeepsUp
\* Run or not yet due, it is after this tick.
<1>6. DeadlineAfter(i) > next
  <2>1. CASE Runs(i)
    BY <1>2, <1>3, <1>5, <2>1 DEF DeadlineAfter, IInv, TypeOK
  <2>2. CASE ~Runs(i)
    BY <1>3, <2>2 DEF DeadlineAfter, Runs, Allowed, health_level,
                      PLC_HEALTH_FAULT, IInv, TypeOK, RunTask
  <2>3. QED
    BY <2>1, <2>2
\* The task looked at, under a name that the step does not change.
<1>7. PICK j \in 1 .. task_count : j = i
  BY <1>1
<1>8. /\ j \in Slot /\ j \in Nat
      /\ Period[j] \in Nat /\ Period[j] >= Tick /\ Offset[j] \in Nat
      /\ Deadline(j) \in Nat /\ DeadlineAfter(j) \in Nat
      /\ DeadlineAfter(j) > next
  BY <1>2, <1>3, <1>6, <1>7
<1>9. /\ init'[j] = TRUE
      /\ next_deadline'[j] = DeadlineAfter(j)
      /\ first'[j] = (IF init[j] THEN first[j] ELSE Deadline(j))
      /\ runs'[j] = (IF Runs(j) THEN runs[j] + 1 ELSE runs[j])
      /\ now' = now /\ next' = next /\ pc' = "tasks" /\ i' = j + 1
  BY <1>7, <1>8 DEF RunTask, IInv, TypeOK
<1>10. DeadlineKeepsUp(j)'
  BY <1>8, <1>9 DEF DeadlineKeepsUp
<1>11. DeadlineCountsRuns(j)'
  <2>1. /\ Deadline(j) = first'[j] + runs[j] * Period[j]
        /\ runs[j] > 0 => Deadline(j) <= now + Period[j]
    BY <1>8, <1>9 DEF IInv, TypeOK, DeadlineCountsRuns, Deadline
  <2>2. CASE Runs(j)
    <3>1. Deadline(j) <= now /\ now \in Nat
      BY <2>2, <1>8 DEF Runs, IInv, TypeOK
    <3>2. runs[j] * Period[j] \in Nat /\ first'[j] \in Nat /\ runs[j] \in Nat
      BY <1>4, <1>8 DEF TypeOK, IInv
    <3>3. (runs[j] + 1) * Period[j] = runs[j] * Period[j] + Period[j]
      BY <1>8, <3>2, OneMoreRun
    <3>4. next_deadline'[j] = Deadline(j) + Period[j] /\ runs'[j] = runs[j] + 1
      BY <1>9, <2>2 DEF DeadlineAfter
    <3>5. next_deadline'[j] = first'[j] + runs'[j] * Period[j]
      BY <1>8, <2>1, <3>2, <3>3, <3>4
    <3>6. next_deadline'[j] <= now' + Period[j]
      BY <1>8, <1>9, <3>1, <3>4
    <3>7. QED
      BY <1>9, <3>5, <3>6 DEF DeadlineCountsRuns
  <2>3. CASE ~Runs(j)
    <3>1. next_deadline'[j] = Deadline(j) /\ runs'[j] = runs[j]
      BY <1>9, <2>3 DEF DeadlineAfter
    <3>2. QED
      BY <1>9, <2>1, <3>1 DEF DeadlineCountsRuns
  <2>4. QED
    BY <2>2, <2>3
<1>12. ASSUME NEW k \in 1 .. task_count, k # j
       PROVE  (DeadlineCountsRuns(k) /\ DeadlineKeepsUp(k))'
  <2>1. k \in Slot /\ k \in Nat
    BY SlotsHoldEntries DEF IInv
  <2>2. /\ init'[k] = init[k] /\ next_deadline'[k] = next_deadline[k]
        /\ first'[k] = first[k] /\ runs'[k] = runs[k]
    BY <1>7, <1>8, <1>12, <2>1 DEF RunTask, IInv, TypeOK
  <2>3. DeadlineCountsRuns(k)'
    BY <1>9, <2>2 DEF DeadlineCountsRuns, IInv
  <2>4. DeadlineKeepsUp(k)'
    BY <1>7, <1>8, <1>9, <1>12, <2>1, <2>2 DEF RunTask, DeadlineKeepsUp, IInv, TypeOK
  <2>5. QED
    BY <2>3, <2>4
<1>13. \A k \in 1 .. task_count' : (DeadlineCountsRuns(k) /\ DeadlineKeepsUp(k))'
  BY <1>10, <1>11, <1>12 DEF RunTask
<1>14. \A k \in Slot : k > task_count' => ~init'[k] /\ runs'[k] = 0
  BY <1>1 DEF RunTask, IInv, TypeOK, Slot
<1>15. QED
  BY <1>1, <1>4, <1>13, <1>14 DEF RunTask, IInv, TypeOK

\* The rest of the scheduler thread, and the environment.
LEMMA LoopKeepsInv ==
  ASSUME IInv, Begin \/ LoopTest \/ Wake \/ Sync
  PROVE  IInv'
<1> USE SchedulerAssumption
<1>1. CASE Begin
  BY <1>1 DEF Begin, IInv, TypeOK, tableVars, DeadlineCountsRuns, DeadlineKeepsUp
<1>2. CASE LoopTest
  <2>1. TypeOK'
    BY <1>2 DEF LoopTest, IInv, TypeOK, tableVars
  <2>2. ASSUME NEW k \in 1 .. task_count
        PROVE  (DeadlineCountsRuns(k) /\ DeadlineKeepsUp(k))'
    <3>1. k \in Slot
      BY SlotsHoldEntries DEF IInv
    <3>2. DeadlineCountsRuns(k)'
      BY <1>2 DEF LoopTest, IInv, tableVars, DeadlineCountsRuns
    <3>3. DeadlineKeepsUp(k)'
      BY <1>2, <3>1 DEF LoopTest, IInv, TypeOK, tableVars, DeadlineKeepsUp
    <3>4. QED
      BY <3>2, <3>3
  <2>3. QED
    BY <1>2, <2>1, <2>2 DEF LoopTest, IInv, tableVars
<1>3. CASE Wake
  <2>1. TypeOK'
    BY <1>3 DEF Wake, IInv, TypeOK, tableVars
  <2>2. ASSUME NEW k \in 1 .. task_count
        PROVE  (DeadlineCountsRuns(k) /\ DeadlineKeepsUp(k))'
    <3>1. k \in Slot /\ k \in Nat /\ Period[k] \in Nat /\ k >= 1
      BY SlotsHoldEntries DEF IInv
    <3>2. DeadlineCountsRuns(k)'
      BY <1>3, <3>1 DEF Wake, IInv, TypeOK, tableVars, DeadlineCountsRuns
    <3>3. DeadlineKeepsUp(k)'
      BY <1>3, <3>1 DEF Wake, IInv, TypeOK, tableVars, DeadlineKeepsUp
    <3>4. QED
      BY <3>2, <3>3
  <2>3. QED
    BY <1>3, <2>1, <2>2 DEF Wake, IInv, TypeOK, tableVars
<1>4. CASE Sync
  <2>1. TypeOK'
    BY <1>4 DEF Sync, IInv, TypeOK, tableVars
  <2>2. ASSUME NEW k \in 1 .. task_count
        PROVE  (DeadlineCountsRuns(k) /\ DeadlineKeepsUp(k))'
    <3>1. k \in Nat /\ k < i
      BY <1>4 DEF Sync, IInv, TypeOK
    <3>2. QED
      BY <1>4, <3>1 DEF Sync, IInv, tableVars, DeadlineCountsRuns, DeadlineKeepsUp
  <2>3. QED
    BY <1>4, <2>1, <2>2 DEF Sync, IInv, tableVars
<1>5. QED
  BY <1>1, <1>2, <1>3, <1>4

LEMMA InvStep == IInv /\ [Next]_vars => IInv'
<1> SUFFICES ASSUME IInv, [Next]_vars PROVE IInv'
  OBVIOUS
<1>1. CASE AddTask \/ Start \/ Stop \/ Join
  BY <1>1, MainKeepsInv
<1>2. CASE Thread
  BY <1>2, LoopKeepsInv, RunTaskKeepsInv DEF Thread
<1>3. CASE Elapse
  BY <1>3 DEF Elapse, IInv, TypeOK, tableVars, threadVars, DeadlineCountsRuns,
              DeadlineKeepsUp
<1>4. CASE LatchOrReset
  BY <1>4 DEF LatchOrReset, IInv, TypeOK, tableVars, threadVars,
              DeadlineCountsRuns, DeadlineKeepsUp
<1>5. CASE UNCHANGED vars
  BY <1>5 DEF vars, IInv, TypeOK, tableVars, threadVars, DeadlineCountsRuns,
              DeadlineKeepsUp
<1>6. QED
  BY <1>1, <1>2, <1>3, <1>4, <1>5 DEF Next

\* Every deadline counts the runs of its task and keeps up with the ticks.
THEOREM Invariance == Spec => []IInv
BY InvInit, InvStep, PTL DEF Spec

\* The table never holds more tasks than it has room for, and every deadline,
\* index and flag keeps its type (scheduler_add_task_from_config,
\* scheduler_thread).
THEOREM TypeCorrect == Spec => []TypeOK
<1>1. IInv => TypeOK
  BY DEF IInv
<1>2. QED
  BY <1>1, Invariance, PTL

\* However long tasks take and whenever the thread is preempted, no period of
\* a task is lost, doubled or run ahead of time (scheduler_thread).
THEOREM RhythmIsKept == Spec => []RunsMatchTime
<1>1. ASSUME IInv PROVE RunsMatchTime
  <2> SUFFICES ASSUME pc \in {"loop", "sleep"}, NEW k \in 1 .. task_count, init[k]
               PROVE  /\ first[k] + runs[k] * Period[k]
                             > (IF pc = "loop" THEN next ELSE next - Tick)
                      /\ runs[k] > 0
                             => first[k] + (runs[k] - 1) * Period[k] <= now
    BY DEF RunsMatchTime
  <2>1. k \in Slot /\ Period[k] \in Nat
    BY <1>1, SlotsHoldEntries DEF IInv
  <2>2. /\ first[k] \in Nat /\ runs[k] \in Nat /\ next_deadline[k] \in Nat
        /\ next \in Nat /\ now \in Nat
    BY <1>1, <2>1 DEF IInv, TypeOK
  <2>3. /\ next_deadline[k] = first[k] + runs[k] * Period[k]
        /\ runs[k] > 0 => next_deadline[k] <= now + Period[k]
        /\ pc = "loop" => next_deadline[k] > next
        /\ pc = "sleep" => next_deadline[k] + Tick > next
    BY <1>1 DEF IInv, DeadlineCountsRuns, DeadlineKeepsUp
  <2>4. first[k] + runs[k] * Period[k]
            > (IF pc = "loop" THEN next ELSE next - Tick)
    BY <2>2, <2>3, SchedulerAssumption
  <2>5. ASSUME runs[k] > 0
        PROVE  first[k] + (runs[k] - 1) * Period[k] <= now
    <3>1. runs[k] * Period[k] = (runs[k] - 1) * Period[k] + Period[k]
      BY <2>1, <2>2, <2>5, OneMoreRun
    <3>2. (runs[k] - 1) * Period[k] \in Nat
      BY <2>1, <2>2, <2>5
    <3>3. QED
      BY <2>1, <2>2, <2>3, <2>5, <3>1, <3>2
  <2>6. QED
    BY <2>4, <2>5
<1>2. QED
  BY <1>1, Invariance, PTL

-----------------------------------------------------------------------------
\* What each place of the thread counts for.
LEMMA StepsAre ==
  /\ pc \in {"none", "ended"} => StepsLeft = 0
  /\ pc = "loop" => StepsLeft = 1
  /\ pc = "begin" => StepsLeft = 2
  /\ pc = "tasks" => StepsLeft = task_count + 3 - i
  /\ pc = "sleep" => StepsLeft = task_count + 3
BY DEF StepsLeft

LEMMA StepsWillBe ==
  /\ pc' \in {"none", "ended"} => StepsLeft' = 0
  /\ pc' = "loop" => StepsLeft' = 1
  /\ pc' = "begin" => StepsLeft' = 2
  /\ pc' = "tasks" => StepsLeft' = task_count' + 3 - i'
  /\ pc' = "sleep" => StepsLeft' = task_count' + 3
BY DEF StepsLeft

\* No place is further from the end than one round over the whole table.
LEMMA StepsAreFew ==
  ASSUME IInv
  PROVE  StepsLeft \in 0 .. MaxTasks + 3
<1>1. /\ pc \in {"none", "begin", "loop", "sleep", "tasks", "ended"}
      /\ task_count \in 0 .. MaxTasks /\ i \in 1 .. MaxTasks + 1
      /\ pc = "tasks" => i <= task_count + 1
      /\ MaxTasks \in Nat
  BY SchedulerAssumption DEF IInv, TypeOK
<1>2. QED
  BY <1>1, StepsAre

LEMMA StopStep ==
  ASSUME IInv, [Next]_vars, main \in {"join", "stopped"}
  PROVE  StepsLeft' < StepsLeft \/ UNCHANGED <<pc, i>>
<1>1. /\ running = 0 /\ task_count \in Nat /\ i \in Nat
      /\ pc = "tasks" => i <= task_count + 1
  BY DEF IInv, TypeOK
<1>2. CASE Begin
  BY <1>2, StepsAre, StepsWillBe DEF Begin
<1>3. CASE LoopTest
  BY <1>1, <1>3, StepsAre, StepsWillBe DEF LoopTest
<1>4. CASE Wake
  BY <1>1, <1>4, StepsAre, StepsWillBe DEF Wake, tableVars
<1>5. CASE RunTask
  BY <1>1, <1>5, StepsAre, StepsWillBe DEF RunTask
<1>6. CASE Sync
  BY <1>1, <1>6, StepsAre, StepsWillBe DEF Sync, tableVars
<1>7. CASE AddTask \/ Start \/ Stop \/ Join \/ Elapse \/ LatchOrReset \/ UNCHANGED vars
  BY <1>7 DEF AddTask, Start, Stop, Join, Elapse, LatchOrReset, threadVars, vars
<1>8. QED
  BY <1>2, <1>3, <1>4, <1>5, <1>6, <1>7 DEF Next, Thread

\* However many ticks the thread is behind when it is told to end, it takes no
\* more than one round over its tasks until it has (scheduler_stop_thread).
THEOREM StopTerminates == Spec => StopIsNear
<1>1. IInv /\ [Next]_vars
      => [(main \in {"join", "stopped"})
             => StepsLeft' < StepsLeft \/ UNCHANGED <<pc, i>>]_vars
  BY StopStep
<1>2. QED
  BY <1>1, Invariance, PTL DEF Spec, StopIsNear

\* The number of steps, for the variant to mean something.
THEOREM StepsAreBounded == Spec => [](StepsLeft \in 0 .. MaxTasks + 3)
BY StepsAreFew, Invariance, PTL
=============================================================================
