------------------------------ MODULE Scheduler -----------------------------
(***************************************************************************)
(* The PLC scheduler: a thread that wakes up every tick, runs the tasks    *)
(* whose deadline has come and then lets the backends publish the outputs. *)
(* Ticks and deadlines advance in fixed steps, so that time lost to a slow *)
(* task or to other threads is made up for later.                          *)
(*                                                                         *)
(* Time is counted in units finer than a tick.  Any amount of it may pass  *)
(* between two steps of the thread: that stands for the time tasks take    *)
(* and for the thread being preempted.                                     *)
(***************************************************************************)
EXTENDS Naturals

CONSTANTS
    Tick,           \* tick_period_ns, in units of the clock
    ConfigCount,    \* plc_task_count of the configuration
    MaxTasks,       \* PLC_MAX_TASKS
    Period,         \* period_ns of each configured task, in units; from a
                    \* period_ms that is not 0, so never below a tick
    Offset,         \* offset_ns
    Policy,         \* PLC_TASK_ALWAYS_RUN, ...
    MaxClock        \* bound: while the scheduler runs the clock stops there

Config == 1 .. ConfigCount

Slot == 1 .. MaxTasks

ASSUME SchedulerAssumption ==
    /\ Tick \in Nat \ {0}
    /\ ConfigCount \in Nat
    /\ MaxTasks \in Nat
    /\ Period \in [Config -> Nat] /\ \A c \in Config : Period[c] >= Tick
    /\ Offset \in [Config -> Nat]
    /\ Policy \in [Config -> {"ALWAYS_RUN", "SKIP_ON_FAULT", "CONTROL_ONLY"}]
    /\ MaxClock \in Nat

VARIABLES
    main,           \* main thread: "init", "run", "join", "stopped"
    added,          \* entries of the configuration handled so far
    task_count,     \* slot k of the table holds entry k
    init,           \* tasks[k].init
    next_deadline,  \* tasks[k].next_deadline
    running,        \* 0/1
    pc,             \* scheduler thread
    clock,          \* osal_get_monotonic_time
    next, now, i,   \* locals of scheduler_thread
    fault_latched,  \* the EtherCAT driver's, set and cleared by its watchdog
    \* History, read by no action of the program:
    first,          \* first deadline of each task
    runs            \* runs of each task

tableVars == <<added, task_count, init, next_deadline, first, runs>>
threadVars == <<pc, next, now, i>>
vars == <<main, tableVars, running, threadVars, clock, fault_latched>>

\* Nothing in the program writes health_level: it is what CALLOC left.
PLC_HEALTH_FAULT == 2
health_level == 0

Init ==
    /\ main = "init"
    /\ added = 0
    /\ task_count = 0
    /\ init = [k \in Slot |-> FALSE]
    /\ next_deadline = [k \in Slot |-> 0]
    /\ running = 0
    /\ pc = "none"
    /\ clock = 0
    /\ next = 0 /\ now = 0 /\ i = 1
    /\ fault_latched = 0
    /\ first = [k \in Slot |-> 0]
    /\ runs = [k \in Slot |-> 0]

-----------------------------------------------------------------------------
\* The main thread: runtime_init, runtime_start, runtime_stop.

\* Slip: one task too many.
AddOneTooMany ==
    /\ main = "init"
    /\ added < ConfigCount
    /\ added' = added + 1
    /\ task_count' = IF task_count <= MaxTasks THEN task_count + 1 ELSE task_count
    /\ UNCHANGED <<main, init, next_deadline, first, runs, running, threadVars,
                   clock, fault_latched>>

\* scheduler_add_task_from_config: what does not fit is dropped.
AddTask ==
    /\ main = "init"
    /\ added < ConfigCount
    /\ added' = added + 1
    /\ task_count' = IF task_count < MaxTasks THEN task_count + 1 ELSE task_count
    /\ UNCHANGED <<main, init, next_deadline, first, runs, running, threadVars,
                   clock, fault_latched>>

\* scheduler_start_thread; nobody looks whether the thread was created.
Start ==
    /\ main = "init"
    /\ added = ConfigCount
    /\ running' = 1
    /\ pc' \in {"begin", "none"}
    /\ main' = "run"
    /\ UNCHANGED <<tableVars, next, now, i, clock, fault_latched>>

\* Slip: the thread is waited for but never told.
JoinUntold ==
    /\ main = "run"
    /\ main' = "join"
    /\ UNCHANGED <<tableVars, running, threadVars, clock, fault_latched>>

\* scheduler_stop_thread: the flag, then the join.
Stop ==
    /\ main = "run"
    /\ running' = 0
    /\ main' = "join"
    /\ UNCHANGED <<tableVars, threadVars, clock, fault_latched>>

Join ==
    /\ main = "join"
    /\ pc \in {"none", "ended"}
    /\ main' = "stopped"
    /\ UNCHANGED <<tableVars, running, threadVars, clock, fault_latched>>

-----------------------------------------------------------------------------
\* The scheduler thread.

Begin ==
    /\ pc = "begin"
    /\ next' = clock
    /\ pc' = "loop"
    /\ UNCHANGED <<main, tableVars, running, now, i, clock, fault_latched>>

\* The next tick is one step after the last, however late that was handled.
LoopTest ==
    /\ pc = "loop"
    /\ IF running = 0 THEN pc' = "ended" /\ UNCHANGED next
                      ELSE pc' = "sleep" /\ next' = next + Tick
    /\ UNCHANGED <<main, tableVars, running, now, i, clock, fault_latched>>

\* osal_monotonic_sleep returns when the tick has come, at once if it has
\* passed; the time is then read once for all tasks.
Wake ==
    /\ pc = "sleep"
    /\ clock >= next
    /\ now' = clock
    /\ i' = 1
    /\ pc' = "tasks"
    /\ UNCHANGED <<main, tableVars, running, next, clock, fault_latched>>

Allowed(k) == health_level >= PLC_HEALTH_FAULT => Policy[k] = "ALWAYS_RUN"

\* The deadline of slot k, set when the task is first looked at.
Deadline(k) == IF init[k] THEN next_deadline[k] ELSE now + Offset[k]

Runs(k) == now >= Deadline(k) /\ Allowed(k)

\* Slip: the next deadline is counted from the time of the run.
DeadlineFromNow(k) == IF Runs(k) THEN now + Period[k] ELSE Deadline(k)

DeadlineAfter(k) == IF Runs(k) THEN Deadline(k) + Period[k] ELSE Deadline(k)

RunTask ==
    /\ pc = "tasks"
    /\ i <= task_count
    /\ init' = [init EXCEPT ![i] = TRUE]
    /\ next_deadline' = [next_deadline EXCEPT ![i] = DeadlineAfter(i)]
    /\ first' = [first EXCEPT ![i] = IF init[i] THEN @ ELSE Deadline(i)]
    /\ runs' = [runs EXCEPT ![i] = IF Runs(i) THEN @ + 1 ELSE @]
    /\ i' = i + 1
    /\ UNCHANGED <<main, added, task_count, running, pc, next, now, clock,
                   fault_latched>>

\* runtime_sync_backends.
Sync ==
    /\ pc = "tasks"
    /\ i > task_count
    /\ pc' = "loop"
    /\ UNCHANGED <<main, tableVars, running, next, now, i, clock, fault_latched>>

-----------------------------------------------------------------------------
\* Time, and the watchdog.

\* Beyond the bound only until a thread that was told to end wakes up.
Elapse ==
    /\ clock < MaxClock \/ (running = 0 /\ clock < next)
    /\ clock' = clock + 1
    /\ UNCHANGED <<main, tableVars, running, threadVars, fault_latched>>

LatchOrReset ==
    /\ fault_latched' = 1 - fault_latched
    /\ UNCHANGED <<main, tableVars, running, threadVars, clock>>

Thread ==
    \/ Begin
    \/ LoopTest
    \/ Wake
    \/ RunTask
    \/ Sync

Next ==
    \/ AddTask
    \/ Start
    \/ Stop
    \/ Join
    \/ Thread
    \/ Elapse
    \/ LatchOrReset

\* Time passes and Windows schedules each runnable thread again and again.
Fairness ==
    /\ WF_vars(Thread)
    /\ WF_vars(Elapse)
    /\ WF_vars(Join)

Spec == Init /\ [][Next]_vars /\ Fairness

-----------------------------------------------------------------------------
TypeOK ==
    /\ main \in {"init", "run", "join", "stopped"}
    /\ added \in 0 .. ConfigCount
    /\ task_count \in 0 .. MaxTasks
    /\ init \in [Slot -> BOOLEAN]
    /\ next_deadline \in [Slot -> Nat]
    /\ running \in {0, 1}
    /\ pc \in {"none", "begin", "loop", "sleep", "tasks", "ended"}
    /\ clock \in Nat
    /\ next \in Nat
    /\ now \in Nat
    /\ i \in 1 .. MaxTasks + 1
    /\ fault_latched \in {0, 1}
    /\ first \in [Slot -> Nat]
    /\ runs \in [Slot -> Nat]

\* Between two ticks every task has run once for each of its deadlines up to
\* the last tick, and never ahead of time: whatever delayed the thread, no
\* run is lost, none is doubled and the rhythm does not drift ("evite la
\* derive").
RunsMatchTime ==
    pc \in {"loop", "sleep"}
        => \A k \in 1 .. task_count :
              init[k] =>
                /\ first[k] + runs[k] * Period[k]
                       > (IF pc = "loop" THEN next ELSE next - Tick)
                /\ runs[k] > 0 => first[k] + (runs[k] - 1) * Period[k] <= now

\* Why it holds.  A deadline is the first one plus a period for each run, and
\* the thread never lets one fall more than a tick behind the tick it handles:
\* a late task is run once at each tick, which moves its deadline at least as
\* far as the tick moves.
DeadlineCountsRuns(k) ==
    IF init[k]
    THEN /\ next_deadline[k] = first[k] + runs[k] * Period[k]
         /\ runs[k] > 0 => next_deadline[k] <= now + Period[k]
    ELSE runs[k] = 0

DeadlineKeepsUp(k) ==
    /\ pc \in {"none", "begin"} => ~init[k]
    /\ pc = "loop" /\ init[k] => next_deadline[k] > next
    /\ pc = "sleep" /\ init[k] => next_deadline[k] + Tick > next
    /\ pc = "tasks" /\ k >= i /\ init[k] => next_deadline[k] + Tick > next
    /\ pc = "tasks" /\ k < i => init[k] /\ next_deadline[k] > next

IInv ==
    /\ TypeOK
    /\ main = "init" => pc = "none"
    /\ task_count <= added
    /\ now <= clock
    /\ main \in {"join", "stopped"} => running = 0
    /\ pc = "tasks" => next <= now /\ i <= task_count + 1
    /\ \A k \in 1 .. task_count : DeadlineCountsRuns(k) /\ DeadlineKeepsUp(k)
    /\ \A k \in Slot : k > task_count => ~init[k] /\ runs[k] = 0

\* What the thread has still to do once it was told to end.
StepsLeft ==
    CASE pc \in {"none", "ended"} -> 0
      [] pc = "loop" -> 1
      [] pc = "begin" -> 2
      [] pc = "tasks" -> task_count + 3 - i
      [] pc = "sleep" -> task_count + 3

\* The stop is near: from scheduler_stop on every step of the thread brings it
\* nearer to its end, through one more round over the tasks at most, however
\* many ticks it is behind.
StopIsNear ==
    [][(main \in {"join", "stopped"})
          => StepsLeft' < StepsLeft \/ UNCHANGED <<pc, i>>]_vars

\* scheduler_stop returns, however far behind its ticks the thread is.
StopCompletes == (main = "join") ~> (main = "stopped")

\* task.h says of PLC_TASK_CONTROL_ONLY "commande machine -> stop si fault":
\* no such task runs while the driver has a fault latched.
ControlStopsOnFault ==
    [][\A k \in Slot \cap Config :
          Policy[k] = "CONTROL_ONLY" /\ runs'[k] > runs[k]
              => fault_latched = 0]_vars
=============================================================================
