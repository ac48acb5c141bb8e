# A TLA+ model of EthercatMaster

EthercatMaster is a small soft-PLC for Windows: a scheduler thread runs PLC
tasks every millisecond on a process image, and an EtherCAT driver built on
SOEM exchanges that image with the slaves every 10 ms. The repository has no
documentation beyond its comments and no tests, and its difficult part is what
no unit test would reach: four threads that share buffers, flags and SOEM's
context through a few atomic words. This directory models that part.

Paths below are relative to `src/EthercatMaster/src/`.

## 1. The system

| Component | State it keeps | Operations | Correct when |
|---|---|---|---|
| Output image (`backend/ethercat/ethercat.c`, `ethercat_thread.c`, `core/tags/tags.c`) | two `out_buffers` per slave, `active_out_buffer_idx`, `rt_out_buffer_idx`, `soem_outputs` | `plc_tag_write`, `ethercat_sync_buffers`, output copy of the real-time thread | tasks find their outputs again after each swap; a frame carries nothing older than the last commit |
| Input image (same files) | two `in_buffers`, `active_in_buffer_idx`, `soem_inputs` | exchange, input copy and publication, `plc_tag_read`, the watchdog's `memset` | a read returns published bytes, never older ones |
| Driver threads (`ethercat_thread.c`, `ethercat.c`, `core/plateform/win32`) | `running`, `soem_lock`, `in_op`, thread handles | start, stop, both loops, the spin lock | SOEM's context has one user at a time; stop ends and is final |
| Watchdog (`ethercat_thread.c`) | `fault_latched`, `in_op`, `ethercat_state`, `reset_req`, `dowkccheck`, `docheckstate`, each slave's `state`, `islost`, `mbxhandlerstate`, two counters | sample, verdict, recovery, latch, manual reset | a lasting fault is latched, a lost slave is retried until found, re-arming is earned |
| Scheduler (`core/scheduler`) | up to 32 tasks with deadlines and policies, `running`, `health_level` | add task, tick, start, stop | tasks run once per period, policies are obeyed, overruns are caught up |
| Runtime and main (`core/runtime/runtime.c`, `main.c`) | backends, devices, tag table, `system_is_running` | create, init, start, process, stop, cleanup, console handler | a failed init leaves nothing half made; a stop request is not lost; nobody uses freed memory |
| Driver set-up (`ethercat.c`, `core/backend`) | IO map, `slaves`, `slave_count`, expected working counter | create, init, bind, finalize, transitions, destroy | only bound slaves are exchanged, buffers exist before threads |
| Tags (`core/tags`) | the tag table | lookup, typed access | reads and writes stay within the image |
| Allocation tracker (`core/system/memalloc.c`) | 256 entries and a counter | malloc, calloc, free, report | the report tells whether anything is left, also with a full table |
| Time (`core/plateform/win32/sleep.h`, end of the loop of `ethercat_thread.c`) | `next_deadline`, cycle statistics | wait until, measure, next deadline | cycles stay on the grid of the start, late ones are caught up, the worst delay is recorded |
| Configuration (`app/system_config.c`, `config`, `devices/L230`) | constant tables, packed process data | resolving names, addresses and positions | tables fit the arrays, tags the images |
| PLC application (`app/plc_task1.c`) | a counter, a value | `plc_task1_run` | the output blinks with the time |
| Devices (`core/device`, `devices/L230`) | one object per device | constructors, destructors | |

How they interact: `main` builds the runtime, starts the driver (which creates
the real-time and the watchdog thread) and the scheduler thread, and sleeps in
its loop until the console handler, a thread of Windows, clears
`system_is_running`. Each tick the scheduler runs the due tasks, which read and
write tags in the active buffers, and then calls `sync` of every backend. The
real-time thread copies the committed outputs, exchanges a frame, copies and
publishes the inputs, and leaves its verdict on the working counter in
`dowkccheck`. The watchdog reads that verdict and the slaves' states, repairs,
latches and re-arms. Stop goes the other way round, scheduler first.

What is hard: byte-wise copies that overlap a swap of the buffers, a lock that
does not lock, flags written by three threads, recovery over many rounds with
slaves that come and go, and start and stop against all of it. The list of
hazards in `PROJECT.json` names each at its line.

## 2. Modules

| Module | Models | State and actions against the code |
|---|---|---|
| `ImageChannel` | abstract: what one direction of the process image promises | a writer's image, its last commit, a reader that fetches byte by byte; each byte at least as recent as the commit the reader started from, nothing about two bytes together |
| `OutputBuffers` | output image, implements `ImageChannel` | one action per step of `ethercat_sync_buffers` (`SyncCommit`, `SyncCopy`, `SyncPublish`) and of the output half of `ethercat_thread` (`RtLoad`, `RtCopy`, `RtSend`), and `PlcWrite` |
| `InputBuffers` | input image, implements `ImageChannel` | `RtExchange`, `RtCopy`, `RtPublish`, the watchdog's `WdSlaveLost`, `WdClear`, and a tag read in three steps |
| `DriverThreads` | lock, loops, start, stop | `Spin` and `Unlock` are `soem_lock`/`soem_unlock`; `main` walks through `ethercat_start` and `ethercat_stop`; `WdDecide` is the watchdog's latch and reset seen from outside (any value of `in_op`) |
| `Watchdog` | `ecat_watchdog_thread` and its end at a stop | `WdSample`, `WdReadState`, `WdRecoverBegin`, `WdRecoverSlave` (one slave of the loop), `WdClamp`; then one action per store: `WdLatch`, `WdCut`, `WdReport` latch a fault, `WdReset` decides on a request, `WdRearm`, `WdArm`, `WdOnline`, `WdConsume`, `WdForget` honour it; `WdEnd`, `StopMark`, `StopReport` are a stop; `RtCycle` is the real-time thread's verdict; the bus and the operator are the environment |
| `Scheduler` | the scheduler thread, its task table, start and stop | `AddTask`, `Start`, `Stop`, `Join` are the main thread; `Begin`, `LoopTest`, `Wake`, `RunTask` (one task of the loop), `Sync` are `scheduler_thread`; `Elapse` lets time pass between any two steps |
| `Lifecycle` | `main`, `runtime_init` to `runtime_cleanup`, the console handler | `main` walks through the phases, `n` is the index of the loop it is in; one action per entry of each loop, with its failures; the threads are only alive or not; `heap` is what is allocated |
| `DriverTiming` | time in `ethercat_thread` and `wait_until_qpc_2`, extends `DriverThreads` | each step of `DriverThreads` with its time; `RtMeasure` ends a cycle (statistics, next deadline), `WaitTest`, `WakeUp`, `SpinEnd` are the wait, `WdSleep` the watchdog's; `Elapse` is a tick of the clock |
| `AllocationTracker` | `core/system/memalloc.c`, extends `Lifecycle` | `Track` applies `ec_calloc` and `ec_free` to what each step of main allocates and frees |
| `Tags` | layout and access of tags (no state) | `plc_tag_read` gives the set of results a read may have, `plc_tag_write` the images after a write |
| `Configuration` | the shipped tables, the L230's process data (no state) | tables under their names in the source; `OffsetOf` is `offsetof` in a packed structure; `ethercat_bind_device` and `ethercat_finalize_mapping` are the checks that accept a bus |
| `PlcApplication` | `plc_task1_run` on the scheduler, extends `Scheduler` and `Configuration` | the scheduler's `RunTask` in the slot `Blinker` also runs the task; all its other steps as they are |
| `FaultLatch` | abstract: what the watchdog promises an operator, implemented by `Watchdog` | a latch, displays that follow it one at a time (`Follow`), a request, how many looks in a row found the bus well or unwell, whether the driver was stopped; `Latch` in time, `Rearm` only for a request and after the good looks, nothing after `Stop` but displays that go out |
| `OutputBuffersProofs`, `InputBuffersProofs`, `DriverProofs` (both driver modules), `WatchdogProofs`, `SchedulerProofs`, `TagsProofs`, `PlcApplicationProofs`, `LifecycleProofs` | theorems | |
| `MCOutputBuffers`, `MCInputBuffers`, `MCScheduler` | images and task tables for TLC | |
| `MCPlcApplication` | facts about the configuration and the tag operators, as assumptions that TLC evaluates | |

Abstractions. A byte of an image holds the number of the cycle that wrote it, so
its value is its age; what it means to the machine is left out. A `memcpy` or
`memset` is one step per byte: slaves in the order of the loop, bytes of a
slave in any order, since C promises none. A BOOL tag is written by
read-modify-write of its byte; only the scheduler thread writes the active
buffer, so that is one write. Adjacent accesses are one step when one of them
touches only what no other thread writes (the comments name these places).
Interlocked operations and the plain volatile loads are sequentially
consistent, as on the x86 target. In `Watchdog` the locked sections are single
steps per slave although the lock excludes nobody: the real-time thread's
section touches none of the variables modelled there. The atomic stores of flags
that other threads read are steps of their own, in the order of the code, so that
a reader may meet them half done. `frame_wrong` and `wrong_seen` (the last frame,
as it is and as this round's sample of `dowkccheck` found it), `up`, `down` and
`asked` are history there, like `late` in `DriverTiming` (the most the thread ever was
behind a deadline) and `cleared` in `InputBuffers` (the bytes the watchdog cleared
since the last exchange). In `Scheduler` time is
counted in half ticks; what a task does to the outputs is `OutputBuffers`, here
it only takes time. `first` and `runs` are history. `health_level` is a
constant, since no line of the program writes it; the EtherCAT driver's
`fault_latched` changes freely, and no action reads it. In `Lifecycle` the
configuration is part of the initial state: any backend, or an unknown name, for
each device, any device, or an unknown address, for each I/O tag. A driver with
its SOEM context is one object, so are the four buffers of a device; an
allocation that fails is one of the failures of the step that makes it. Of the
state of the slaves it keeps what the master last asked for (`asked`): a
transition with its retries is one request, and its outcome the choice between
success and failure of the step. What a group of actions leaves alone is said
once, where `Build`, `Turn`, `StartStop` and `Cleanup` put the group together.
When the console window is closed Windows ends the process after the handler has
returned (`Kill`), wherever main is. `misused` is history.

In `DriverTiming` the clock and `next_deadline` appear only as their distance
`remaining`, which is all the code uses, so the clock needs no bound. A tick may
pass at any step of the thread: as part of the cycle's work (`MaxWork`, less
than a cycle, or it could never keep up), as part of a suspension (`MaxDelays`
in all), or freely while it waits. `Sleep(1)` may return at any time, early
included, since the code tests the clock again. The least values and the last
ones of the statistics are left out. Divisions truncate, and `jitter_us` wraps
at 32 bits, as in C. `AllocationTracker` is
a build with EC_MEM_DEBUG, which the project file does not define; nothing calls
`ec_mem_report`, so `ReportIsRight` says what it would report. It counts the objects of `Lifecycle`, so
four buffers of a device are one entry. In `PlcApplication` the image is the one
a task finds through `get_output_data`; that the two buffers behind it keep it
so is `Remanence`. In `Configuration` the name of a backend is its text before
the number, and the number.

Definitions whose comment begins with "Slip:" are not part of any
specification. Each is a plausible mistake in the definition that follows it,
and shows that the properties notice it (`PROJECT.json`, "mutants").

### SOEM and the bus

SOEM is not in the repository. `Watchdog` takes from it what the code relies
on: `ecx_readstate` stores the state each slave is in, NONE for a silent one;
`ecx_writestate` asks a slave for `slave->state`; `ecx_reconfig_slave` brings a
slave that answers to SAFE_OP and returns how far it got; `ecx_statecheck`
reads one slave; `ecx_recover_slave` finds a slave that answers. EC_STATE_ERROR
and EC_STATE_ACK are the same bit, so an acknowledged slave reads as SAFE_OP +
ERROR until the next `ecx_readstate`. A slave may leave its state, fall silent
and come back (in any state, OPERATIONAL included, as after a cable fault
shorter than its own watchdog) at any moment.

## 3. Runs

| Run | Instance | Shows |
|---|---|---|
| `output_buffers` | slave 0 with two output bytes, slave 1 with one; 3 syncs | `Remanence`, `FrameIsFresh`, `QuietFrameIsTheCommit`, refinement of `ImageChannel` |
| `output_coherence` | the same | finding 1 (violated) |
| `input_buffers` | slave 0 with a two-byte tag, slave 1 with no inputs; 4 cycles | `ReadIsFresh`, `ShortReadIsCoherent`, `LateClearCostsOneImage`, refinement of `ImageChannel` |
| `driver_threads` (`DriverTiming`) | the two threads, a cycle of 4 ticks, seven ticks of suspension | `MainHasTheBusAlone`, `StoppedStaysDown`, `StopCompletes`, `StopRunsDown`, `LockMakesProgress`; `RhythmIsKept`, `DelaysAreRecorded`, `LatenessIsBounded`, `CatchUpEnds` |
| `lock_exclusion` | the two threads | finding 2 (violated) |
| `watchdog` | two slaves, the second with inputs only; 2 faults, a stop after any round | `LostIsTended`, `StatusIsConsistent`, `PersistentFaultIsLatched`, `RearmIsEarned`, refinement of `FaultLatch` |
| `recovery_liveness` | one slave, 2 faults | `RecoveryCompletes`, `ResetIsHonoured` |
| `stale_reset` | one slave, 2 faults | finding 3 (violated) |
| `scheduler` (`MCPlcApplication`) | 3 configured tasks, table of 2, 8 ticks; the first task blinks every two runs | `RunsMatchTime`, `BlinkFollowsTime`, `StopCompletes`, `StopIsNear`; and the evaluated facts below |
| `task_policy` | the same, 6 ticks | finding 4 (violated) |
| `lifecycle` (`AllocationTracker`) | 2 backends, 2 devices, a tag, every configuration of them; 2 stop requests; a tracker of 4 entries | `MemoryOutlivesThreads`, `SchedulerEndsFirst`, `StartedIsFinalized`, `MisuseIsKnown`, `CleanupIsComplete`, `SlavesAreReleased`, `ReportIsRight`, `StopCompletes` |
| `lost_request` | one of each | finding 5 (violated) |

Bounds and why they are enough.
- `MaxCommit` = 3: a real-time copy that starts on one commit can see the
  following sync return to its own buffer, and a third one start; `MaxCycle` = 4
  is the same for a read that is overtaken twice. Two bytes in one slave and one
  in another let a frame be torn inside and between slaves. `OutputBuffers` is
  also proved for every instance.
- `WD_GOOD_TO_ARM` is 3 instead of 20 in `watchdog` and 2 in
  `recovery_liveness`, `WD_BAD_TO_LATCH_FAULT` 3 as in the code (2 for the
  liveness run): the counters are compared with these limits only, so they are
  stopped there. The clamp of `dowkccheck` starts above 3 or 4 instead of
  1000000 and `MaxWkc` lies above it, so that the clamp, the threshold 2 and
  their races all happen: a clamp that cleared the count would hide frames that
  fail for ever (`ClampToZero`), which `PersistentFaultIsLatched` notices.
- `MaxFaults` = 2 counts slaves that fail, lost frames and recoveries that get
  stuck: one fault during the recovery from another. The liveness run has one
  slave, since the slave loop treats each slave on its own; two slaves are
  needed only for `docheckstate`, which `watchdog` covers.
- In `scheduler` the clock stops at 16 half ticks while the scheduler runs, so
  the thread may be late by up to eight ticks and catch up again, with tasks of
  one and of two ticks; the table holds 2 instead of 32 tasks, one fewer than
  are configured. `BlinkAfter` is 1 instead of 10, so that the output turns over
  and back within the clock. After a stop the clock goes on until the thread has woken up.
  That a period is at least a tick (a `period_ms` of 0 would run the task at
  each tick) is an assumption on the configuration. `RunsMatchTime` is proved
  for every table and without the bound's help.

- `lifecycle`: with two backends one can be created and the other not, devices
  can be on either or on none, bound or refused, and the finalize loop can be
  longer than the array of backends. Two requests let one be lost and one be
  honoured, or come late. The whole program allocates up to ten objects, so a
  tracker of four entries fills up, also with entries that are freed before
  those it had no room for.
- `driver_threads`: the counter has 4 ticks in 3 microseconds, so truncation
  shows; a cycle has 4 ticks. `SLEEP_US` = 2 and `YIELD_US` = 1 let a wait go
  through all its branches. One tick of work in a cycle and seven of suspension,
  `MaxLag` = 8, put the thread two cycles behind, so that two more run back to
  back, and make a delay that `INT32_RANGE` = 10 cannot hold. `MaxLag` is no less than work
  and suspensions together, so it stops nothing (`BurstsAreShort` proves it). The
  theorems hold for all values of these constants.

Facts evaluated. `MCPlcApplication` states what must hold of the constant part
of the program as named assumptions: the shipped tables keep the limits of the
arrays they go to (those of `LifecycleAssumption` too), every reference resolves,
tags lie inside their images and outputs share no bit, an L230 in the right place
is accepted and another bus is not, the bit arithmetic of BOOL tags is that of
sets of bits for every byte, writes to different tags commute, the index 2 in
`plc_task1_run` is X15_1.

Deadlock is checked except in the runs of `DriverThreads`, `Scheduler` and
`Lifecycle`, where the driver, the scheduler and the program really stop.

### Fairness

`DriverThreads`: weak fairness of every thread and of the main thread, because
Windows schedules each runnable thread again and again and all loops sleep or
yield; none for `StopThreads`, since nothing forces a stop. `Watchdog`: weak
fairness of the watchdog round, of a real-time cycle whose frame returns, of
each slave that carries out a request or comes back, and of the rest of a stop once
the watchdog has ended; none for `WdEnd`, since nothing forces a stop. The slaves and
the frames are the plant, so the liveness properties say what the program does once the plant
behaves: faults are bounded, and without them the recovery must succeed by
itself, unless the driver is stopped first. `DriverTiming`: the same as `DriverThreads`, and time passes; a thread is
suspended for a bounded time only, which the bounded `MaxDelays` says.
`Scheduler`: weak fairness of its thread, of time passing and of the
join; none for `Stop`. `Lifecycle`: weak fairness of the main thread, of the end
of a thread that was told, and of the handler once it runs, and of Windows ending the process after a
closed window; none for a request.

## 4. Findings

1. **A frame can mix two commits** (`output_coherence`). The comment on `sync`
   in `core/backend/backend.h:29-32` promises temporal coherence. With two
   buffers the copy that prepares the next PLC cycle writes the buffer the
   real-time thread was told to send one tick earlier.
2. **`soem_lock` excludes nobody** (`lock_exclusion`). `atomic_cas_i32` returns
   the old value, so `while (!cas(0, 1))` goes on after it took the lock and
   ends when the word is already 1. It still never blocks everybody
   (`LockMakesProgress`), which is why it goes unnoticed. That main is alone
   with the bus during start and stop does not depend on the lock and is
   proved.
3. **A stale reset re-arms the driver** (`stale_reset`). The comments at
   `ethercat_thread.c:229` and `371` say in_op comes back only by a manual
   reset; a request made before the fault is kept and used.
4. **Policies never apply** (`task_policy`). `core/scheduler/task.h:11` says a
   CONTROL_ONLY task stops on a fault. The scheduler reads `health_level`, which
   nothing writes, and the driver's fault does not reach it.
5. **A stop request during the start is lost** (`lost_request`). The handler
   prints "Arrêt demandé" (`main.c:20`) and clears `system_is_running`, which
   `main` sets before `runtime_init` and `runtime_start` sets again at its end.

Seen while modelling, without a run of their own: the comment at
`ethercat_thread.c:226` says the recovery runs only while no fault is latched,
which the code does not test, and rightly: with that test a reset could never
be honoured (it is the slip `RecoveryUnlessLatched`). Between two stores the flags
may disagree: a reader can find `fault_latched` = 1 with `in_op` = 1, or `in_op` = 1
with `ethercat_state` SAFE_OP; `StatusIsConsistent` says where, and that at rest they
agree. A stop leaves `fault_latched` as it was, so a driver that is down need not have
a fault. A reset request made while an earlier one is being honoured, before line 350,
is used up with it, and a frame that fails between the verdict of line 208 and line 353
is forgotten; the next wrong frame is counted again. A memset of a lost slave's inputs
(line 287) may come after the slave has answered again and hide its inputs for one
image (`LateClearCostsOneImage`). A slave with inputs only
that falls to SAFE_OP keeps the working counter right, so nothing starts the
recovery (`RecoveryCompletes` is therefore stated with every slave in
`OutputSlaves`). When a tag addresses an unknown device,
`runtime_create_plc_tag` frees the table, keeps the pointer and reports success:
tasks use it and cleanup frees it again. The console handler may write to the
runtime after it was freed, since `p_runtime` is never cleared. `MisuseIsKnown`
says that these two are the only ones. `CleanupIsComplete` speaks of a program whose
initialisation lets it reach `runtime_cleanup`: when `runtime_init` fails main exits at
once and leaves what was built to the end of the process. A window that is closed while the slaves
are OPERATIONAL may leave them so: the handler returns at once and Windows ends
the process, so `SlavesAreReleased` speaks of a program that ends by itself.
`runtime_stop` resets also those slaves whose start failed, since it stops every
backend, and this is needed: a failed start leaves slaves asked for OPERATIONAL
while `ethercat_state` says SAFE_OP. `plc_tag_read` of an output tag reads the
*input* buffer at the output's offset, and of an HMI or PV tag ends without a
return value. `get_tag_by_index` returns NULL exactly when there are tags. A BOOL
tag with a bit above 7 is accepted, and writes to it do nothing. A backend
configured under a name that is not "ec" and a number is registered as
"ec<number>", and its devices do not find it. `ethercat_bind_device` compares the
slave's manufacturer with `product_code` and its product with `vendor_id`; the
descriptor of the L230 has them filled in that way. The cycle time runs from one
measurement to the next, while the jitter is the distance from the deadline at
which the cycle began, so it contains the duration of the cycle. With fewer devices than backends some
backends are never finalized, hence the condition of `StartedIsFinalized`.

## 5. Proofs

`OutputBuffersProofs` (any number of slaves, any images, no bound used).
`Remanence` and the others are not inductive: they say nothing about the state
in the middle of a sync or a copy. `IInv` adds
- `Ages`: nothing is newer than what the PLC wrote, no floor newer than the
  last commit;
- `TasksHoldImage`: while tasks run, the active buffer is the PLC's image and,
  after the first commit, the other one is that commit;
- `SyncHoldsCommit`: during the sync the active buffer is the commit, and the
  other agrees with it as far as the copy has come;
- `CopyIsFresh`: the buffer being sent may be overwritten, but never falls
  behind the commit the copy started from;
- `QuietCopyFollowsCommit`: while nothing is committed, the copied bytes are
  the commit's.

One lemma per action shows that it keeps `IInv`. `RemanenceHolds`,
`FramesAreFresh` and `QuietFramesAreCommits` follow; `BuffersImplementChannel`
maps each action to one of `ImageChannel` or to a stutter.

`InputBuffersProofs` (any number of slaves, images and tags) has the same shape.
The properties only speak of the end of a read; `IInv` adds `Ages` (nothing in a
buffer is newer than the IO map), `CopyIsAhead` (the published buffer is the last
published image, the bytes already copied are not older), `ReadIsAhead` (the
buffer a read holds, overwritten or not, never falls behind the image the read
started from) `ReadIsUndisturbed` (until a second exchange begins, nobody
writes that buffer) and `CopyFollowsBus` (the bytes copied so far are those the
exchange brought, unless cleared since). `ReadsAreFresh`, `ShortReadsAreCoherent`,
`LateClearsCostOneImage` and `BuffersImplementChannel` follow.

`DriverProofs` proves from `IInv` of `DriverThreads` (a thread that was
never created does not run, each join leaves its thread ended, an ended thread
stays so) that `MainHasTheBusAlone` and `StoppedStaysDown` hold. The only
assumption is that the two threads are different.

`StopTerminates` is the part of `StopCompletes` that is safety. `StepsLeft`
counts, from `ethercat_stop` on, the steps both threads still have to take to
their end along the longer branch; as the lock lets a thread in that finds it
taken, a look at a free lock only sets it, and the lock counts as well.
`StopRunsDown` says that no step of a thread leaves the count as it is and none
makes it larger. `StepsAreCounted` shows that it is a number, so the threads
take finitely many steps; that they do take them is fairness, and stays with TLC.
It needs one conjunct of `IInv` that the safety properties do not: `running` is 0
during a stop.

`SchedulerProofs` proves `RunsMatchTime` for any table of tasks and any delays.
It only speaks about the moments between two ticks; `IInv` adds
- `DeadlineCountsRuns`: a deadline is the first one plus a period per run, and
  a task is never run before it;
- `DeadlineKeepsUp`: a task not yet looked at in this tick is at most one tick
  behind, one already looked at is ahead. Running a late task moves its deadline
  by a period, which is at least the tick the thread moved.

The catch-up needs no bound: however late the thread is, it handles its ticks
one by one. The argument rests on `SchedulerAssumption` (no period below a tick)
and on `health_level` being 0; were the level ever set, a skipped task would
fall behind. `StopTerminates` does for the scheduler what it does for the driver:
after `scheduler_stop` the thread has at most one step for each entry of the table
and three more (`StepsAreBounded`), although it may be behind by any number of
ticks, since the loop tests `running` at every one of them.

`TagsProofs` holds for any images and any tags placed inside them. The bit
arithmetic of BOOL tags is proved bit by bit: `PowerOfTwo` names the eight
weights, and lemmas about a byte of eight bits say what setting one does to
itself and the others. From them follow what a program takes for granted: a tag
reads as it was written (`ReadsWhatWasWritten`), no other tag that shares no bit
with it notices (`OtherTagsAreKept`, `WriteIsSeenThereAlone`), and the order of
writes matters only between tags that do share one (`LastWriteStays`,
`WritesCommute`). `NameFindsFirst` is about the lookup by name.

`PlcApplicationProofs` first shows that the application implements `Scheduler`
(its other variables only stutter), so the scheduler's theorems hold for it. Its
own invariant `CountInv` relates the counter, the blinks, the value and the image
to `runs`: a run that blinks counts itself, hence `runs = blinks * (BlinkAfter +
1) + counter`. Together with `DeadlineCountsRuns` and `RunsMatchTime` it gives
`LampKeepsTime`, which `BlinkFollowsTime` states without the history variables of
either. That a second write to the lamp replaces the first, and that no other output
of the device ever changes (`OtherOutputsAreKept`), come from `TagsProofs`. The one
fact about data left is `X15IsInImage`: the offset of the tag, a fold over the packed
structure, lies inside the image. It has no open constant, and TLC evaluates it in
the run. `ScheduleIsKept` states what the application inherits from the scheduler.

Time is in the second half of `DriverProofs`. `TimedImplementsThreads` shows that
each timed step is one of `DriverThreads` or changes nothing of it, so that
`TimedStopIsSafe` has its safety properties for the specification the run checks.
Three more invariants follow, for every frequency, cycle time and limit that
`TimingAssumption` admits: `TimedInv` (the next deadline lies on the grid of the
start, and a thread that is not waiting has less than a microsecond to go to its
deadline), `JitterInv` and
`LatenessInv`, which does the accounts of a thread that is behind. Each tick it
loses is one of this cycle's work or one of a suspension, so it is late by no more
than `work + delays` (`LatenessHolds`). `DelaysHold` relates two accounts that no step keeps together: `late` grows
tick by tick, anywhere in a cycle, a suspension or a wait, the statistics only at the
measurement. `JitterInv` bounds the one by the other; each measurement adds the
lateness of that moment (`JitterIsLateness`), conversion to microseconds keeps its order
(`QpcToUsGrows`), and a thread that was later than it is now has measured that
deadline. `Credit`, the time left to the deadline
without these two, stays as it is within a cycle and grows from one to the next
(`LatenessFalls`), because a cycle has less work than it lasts; as it lies between 0
and `MaxWork + MaxDelays` when the thread is behind (`BurstsAreShort`), a burst
has at most one cycle more than that. `CatchUpEnds`, that it comes to this, is checked with TLC.

`WatchdogProofs` holds for any number of slaves, any thresholds and any faults.
`IInv` has `LoopInv` (the slave loop indexes a slave), `LostInv` (what
`LostIsTended` says, also in the middle of the loop, which has cleared
`docheckstate` and sets it again when it comes to the slave), `WkcInv` (the count is
not 0 while the last frame was wrong, although the clamp and a re-arming store over
it), `CountInv` (the driver's `bad_count` includes every round that found a slave down
or the last frame wrong, its `good_count` only rounds that found neither, and one of
the two is 0), `LatchInv` (past the latch, a full `bad_count` means a latched fault;
re-arming follows full good rounds) and `FlagInv` (what the flags are between two
stores). The last part of `CountInv` is needed where the driver is re-armed: a count
left over would contradict the latch that was just opened. `StoreKeepsInv` says what
the stores have in common, and each has a lemma of its own.

`WatchdogImplementsLatch` shows the whole as `FaultLatch`, which has no slaves, no
working counter and no recovery. `fault_latched` is the latch, and `in_op` and
`ethercat_state` are its displays: `WdLatch` is `Latch`, `WdRearm` is `Rearm`, and each of
the other stores is `Follow` or changes nothing that shows (`InOpFollows`,
`StateFollows`). A round's look at the slaves is `Look`, whose guard is `LatchInv` and
that the displays agree with the latch then (`AgreedAtRest`). The end of the thread is
`Stop`. A request counts as used up when the latch opens, although `reset_req` is
cleared three stores later; until then another request changes nothing.

`LifecycleProofs` holds for any number of backends, devices, tags and requests;
`LifecycleAssumption` asks only for room in the two fixed arrays. Main is one
thread, so the invariant says what is true at each point of it: `BuildInv` (which
backends are registered and which devices are bound, by the index of the loop main
is in), `AliveInv` (which threads can be alive), `AskedInv` (whose slaves may be
asked to be OPERATIONAL), `MappedInv` (which backends have their slaves mapped),
`HeapHas` (what is allocated at least) and `HeapBound` (at most).
`MemoryOutlivesThreads` and `StartedIsFinalized` rest on the lower bound,
`CleanupIsComplete` on the upper one. `OnlyKnownMisuse` takes a second invariant
`MisuseInv` on top of `IInv`: every step that touches or frees a block does so
while `HeapHas` holds it. The run `lifecycle` checks the properties under
`TrackedSpec` of `AllocationTracker`; `TrackerObserves` proves that this implements
`Spec`, so the theorems hold for it. `ReportsAreRight` adds `TrackInv`: the count
is the number of entries, every entry is allocated except a tag table that was
given up, and the runtime, entered first, stays entered until it is freed last. The
size of the table is any positive number (`TrackerAssumption`), and `TrackedIsSafe`
states the other safety properties under `TrackedSpec`. `EndIsReachable` is the
safety part of the life cycle's `StopCompletes`: once main has left its loop, each
of its steps brings it nearer to the end, of which it is at most `DeviceCount +
3 * BackendCount + 8` steps away; it waits in two of them, for threads it has told
to end. `EndLoopInv`, the range of the index in the loops of the cleanup, is what
it needs beyond `IInv`.

`TypeCorrect` is proved for every component but `PlcApplication` and the time of the
driver; the lemmas for it are in the same modules. The inductive invariants, and
the types of the two image modules, are proved rather than listed with the runs;
TLC found them to hold on the instances above before.

Only model-checked:
- the liveness properties `StopCompletes` (of the driver, the scheduler and the life
  cycle), `LockMakesProgress`, `CatchUpEnds`, `RecoveryCompletes` and
  `ResetIsHonoured`: they rest on fairness, which needs ENABLED. For the three stops
  and the catch-up, the quantity that falls is proved to fall and to be bounded;
  `LockMakesProgress` and the two of the watchdog have no such theorem, the
  latter because a recovery may start again as long as faults are left.
- the facts about the shipped tables in `MCPlcApplication`: sizes and offsets are
  folds over the packed structures, which the prover cannot compute, and they have no
  open constant, so TLC's evaluation settles them.

## 6. Plan

Done, in this order: output image and its abstract channel, input image, driver
threads, watchdog, scheduler, life cycle; proofs of the output image, the driver
threads and the scheduler; time, tags, configuration, application, allocation
tracker, the end of the process; proofs of time, application, life cycle, tracker,
input image and watchdog; tags, the lateness of the driver, the bounds of the three
stops, the abstract latch and its refinement.

To prove next: what the lookups and checks of `Configuration` return for any
tables; that a round of the recovery never takes a slave further from OPERATIONAL
when no fault comes in between; types of the timed driver.

To model: the frames and retries of the two transitions in `ethercat.c`, with the
state of the slaves, in front of `Watchdog`.

Not modelled and not planned: logging; `wait_until_qpc`, `qpc_to_us`,
`ec_malloc`, `buffered_device.c` and `device_lookup.c`, which nobody calls;
`config_hook` of the L230 and the distributed clock, which only set registers of
SOEM and the slave; thread priorities and affinities, since the models let every
thread run at any time; SOEM, Npcap and Windows themselves, of which the models
have what this code relies on.
