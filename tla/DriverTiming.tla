---------------------------- MODULE DriverTiming ----------------------------
(***************************************************************************)
(* The rhythm of the real-time thread around DriverThreads: its deadlines  *)
(* advance by a fixed step, it measures how late each cycle ends and waits *)
(* for the next deadline in three ways, and the thread, like the watchdog, *)
(* may be suspended anywhere.                                              *)
(*                                                                         *)
(* Time is counted in ticks of QueryPerformanceCounter.  Of the clock and  *)
(* next_deadline only their distance matters, so no bound on the clock is  *)
(* needed; of the statistics the worst jitter is kept.                     *)
(***************************************************************************)
EXTENDS DriverThreads, Integers

CONSTANTS
    FREQ,               \* qpc_freq: ticks in a second
    MICRO,              \* microseconds in a second
    thread_cycle_us,
    SLEEP_US, YIELD_US, \* limits of wait_until_qpc_2 (1000, 100)
    INT32_RANGE,        \* 2^32
    MaxWork,            \* ticks an undisturbed cycle takes at most
    MaxLag,             \* bound: ticks the thread may be behind a deadline
    MaxDelays           \* bound: ticks of suspension, over all cycles

\* Truncating, as in C: the number of ticks in a cycle.
cycle_ticks == (thread_cycle_us * FREQ) \div MICRO

ASSUME TimingAssumption ==
    /\ FREQ \in Nat \ {0} /\ MICRO \in Nat \ {0}
    /\ thread_cycle_us \in Nat
    /\ SLEEP_US \in Nat /\ YIELD_US \in Nat /\ YIELD_US <= SLEEP_US
    /\ INT32_RANGE \in Nat \ {0} /\ INT32_RANGE % 2 = 0
    /\ MaxLag \in Nat /\ MaxDelays \in Nat
    /\ MaxWork \in Nat /\ MaxWork < cycle_ticks

VARIABLES
    remaining,      \* next_deadline - now
    wait,           \* where the thread is in wait_until_qpc_2; "no": outside
    asleep,         \* the watchdog is in its sleep_ms
    max_jitter_us,
    work, delays,   \* ticks spent in this cycle; ticks of suspension
    \* History, read by no action of the program:
    phase,          \* ticks since the start, modulo cycle_ticks
    late            \* most ticks the thread ever was behind a deadline

waitVars == <<wait, max_jitter_us>>
clockVars == <<remaining, work, delays, phase, late>>
timing == <<waitVars, clockVars, asleep>>
timedVars == <<vars, timing>>

\* Division in C truncates towards zero.
QpcToUs(t) ==
    IF t >= 0 THEN (t * MICRO) \div FREQ ELSE -(((-t) * MICRO) \div FREQ)

ToInt32(x) == ((x + INT32_RANGE \div 2) % INT32_RANGE) - INT32_RANGE \div 2

Abs(x) == IF x < 0 THEN -x ELSE x

Larger(x, y) == IF x > y THEN x ELSE y

TimedInit ==
    /\ Init
    /\ remaining = 0 /\ work = 0 /\ delays = 0
    /\ wait = "no" /\ asleep = FALSE
    /\ max_jitter_us = 0
    /\ phase = 0 /\ late = 0

-----------------------------------------------------------------------------
\* The steps of DriverThreads.

\* The thread takes its first deadline from the clock when it starts, and
\* goes through its loop once it has waited; the watchdog, once it has slept.
TimedLoopTest(t) ==
    /\ LoopTest(t)
    /\ IF t = Rt THEN wait = "no" ELSE ~asleep
    /\ UNCHANGED timing

TimedLock(t) == (Spin(t) \/ Unlock(t)) /\ UNCHANGED timing

TimedRun(t) == TimedLoopTest(t) \/ TimedLock(t)

TimedMain == Main /\ UNCHANGED timing

TimedStop == StopThreads /\ UNCHANGED timing

TimedEvaluate == WdEvaluate /\ UNCHANGED timing

WdSleep == WdDecide /\ asleep' = TRUE /\ UNCHANGED <<waitVars, clockVars>>

\* Slip: the next deadline counts from now.
NextFromNow == cycle_ticks

\* Slip: a missed deadline is not given up.
NextUnlessLate == IF remaining < 0 THEN remaining ELSE remaining + cycle_ticks

NextDeadline == remaining + cycle_ticks

\* Slip: the jitter is measured against the next deadline.
JitterOfNext == Abs(ToInt32(QpcToUs(-(remaining + cycle_ticks))))

\* Too large a delay does not fit into jitter_us.
Jitter == Abs(ToInt32(QpcToUs(-remaining)))

\* Measures, statistics, next deadline.
RtMeasure ==
    /\ RtEndCycle
    /\ max_jitter_us' = Larger(max_jitter_us, Jitter)
    /\ remaining' = NextDeadline
    /\ wait' = "test"
    /\ work' = 0
    /\ UNCHANGED <<delays, phase, late, asleep>>

-----------------------------------------------------------------------------
\* wait_until_qpc_2.

\* What one look at the clock leads to: on with the next cycle, which may be
\* less than a microsecond early, or to a wait; Sleep(0) looks again at once.
WaitTest ==
    /\ wait = "test"
    /\ LET us == QpcToUs(remaining)
       IN  wait' = CASE us <= 0 -> "no"
                     [] us > SLEEP_US -> "sleep"
                     [] us > YIELD_US /\ us <= SLEEP_US -> "test"
                     [] us > 0 /\ us <= YIELD_US -> "spin"

\* Sleep(1) returns: no promise when.
WakeUp == wait = "sleep" /\ wait' = "test"

\* The final spin ends.
SpinEnd == wait = "spin" /\ remaining <= 0 /\ wait' = "no"

Wait ==
    /\ WaitTest \/ WakeUp \/ SpinEnd
    /\ UNCHANGED <<vars, clockVars, asleep, max_jitter_us>>

-----------------------------------------------------------------------------
\* A tick passes.  While the thread has something to do it is part of the
\* work of the cycle, or of a suspension.
Elapse ==
    /\ asleep' = FALSE
    /\ IF pc[Rt] \in Ended
       THEN UNCHANGED clockVars
       ELSE /\ remaining > -MaxLag
            /\ remaining' = remaining - 1
            /\ phase' = (phase + 1) % cycle_ticks
            /\ late' = Larger(late, -remaining')
            /\ \/ wait # "no" /\ remaining > 0 /\ UNCHANGED <<work, delays>>
               \/ work < MaxWork /\ work' = work + 1 /\ UNCHANGED delays
               \/ delays < MaxDelays /\ delays' = delays + 1 /\ UNCHANGED work
    /\ UNCHANGED <<vars, waitVars>>

TimedNext ==
    \/ TimedMain
    \/ TimedStop
    \/ \E t \in Thread : TimedRun(t)
    \/ RtMeasure
    \/ TimedEvaluate
    \/ WdSleep
    \/ Wait
    \/ Elapse

\* That of DriverThreads, and time passes.
TimedFairness ==
    /\ WF_timedVars(TimedMain)
    /\ \A t \in Thread : WF_timedVars(TimedRun(t))
    /\ WF_timedVars(RtMeasure) /\ WF_timedVars(TimedEvaluate)
    /\ WF_timedVars(WdSleep) /\ WF_timedVars(Wait) /\ WF_timedVars(Elapse)

TimedSpec == TimedInit /\ [][TimedNext]_timedVars /\ TimedFairness

-----------------------------------------------------------------------------
\* The cycles keep the rhythm of the start, however long each of them took
\* and however long the thread was suspended: deadlines stay on the grid, and
\* no cycle begins a microsecond or more before its deadline.
RhythmIsKept ==
    /\ pc[Rt] \notin Ended => (phase + remaining) % cycle_ticks = 0
    /\ pc[Rt] = "lock_exchange" => remaining * MICRO < FREQ

\* The worst the thread ever was behind a deadline, wherever in its cycle or
\* its wait it fell behind, is in the statistics once that deadline is past,
\* and they never show more, as long as no delay exceeded the range of
\* jitter_us.
DelaysAreRecorded ==
    QpcToUs(late) < INT32_RANGE \div 2
        => /\ max_jitter_us <= QpcToUs(late)
           /\ late > -remaining => max_jitter_us = QpcToUs(late)

\* The thread is never later than what its work of this cycle and all
\* suspensions so far account for: no other delay builds up.
LatenessIsBounded == remaining >= -(work + delays)

\* A thread behind its deadlines runs its cycles back to back; once it is no
\* longer suspended the burst ends, and it waits again.
CatchUpEnds ==
    (wait = "test" /\ remaining <= 0)
        ~> (wait # "no" /\ remaining > 0) \/ pc[Rt] = "ended"
=============================================================================
