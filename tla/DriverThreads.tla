--------------------------- MODULE DriverThreads ----------------------------
(***************************************************************************)
(* The threads of the EtherCAT driver and what coordinates them: the main  *)
(* thread starts and stops the driver, the real-time thread exchanges      *)
(* frames, the watchdog thread supervises the slaves.  They share SOEM's   *)
(* context, which soem_lock is there to protect, the running flag and the  *)
(* in_op flag.                                                             *)
(*                                                                         *)
(* soem_lock is the spin lock of ethercat_thread.c, step by step.  Its     *)
(* atomic_cas_i32 returns the value the word HAD (InterlockedCompare-      *)
(* Exchange), and the loop ends when that value is not 0.                  *)
(***************************************************************************)
EXTENDS Naturals

CONSTANTS Rt, Wd        \* the two threads

ASSUME ThreadAssumption == Rt # Wd

Thread == {Rt, Wd}

VARIABLES
    main,           \* main thread: where it is in start, run and stop
    created,        \* threads osal_thread_create made
    pc,             \* where each thread is in its loop
    soem_lock,      \* 0/1
    running,        \* 0/1
    in_op           \* 0/1

vars == <<main, created, pc, soem_lock, running, in_op>>

\* Where a thread is inside a critical section of soem_lock.
Locked(t) == pc[t] \in {"exchange", "readstate", "recovery"}

\* Where a thread waits for soem_lock, and the section it is about to enter.
Section == [lock_exchange |-> "exchange", lock_readstate |-> "readstate",
            lock_recovery |-> "recovery"]

\* What a thread does after each section.
After == [exchange |-> "inputs", readstate |-> "evaluate",
          recovery |-> "decide"]

Ended == {"none", "ended"}

Init ==
    /\ main = "start"
    /\ created = {}
    /\ pc = [t \in Thread |-> "none"]
    /\ soem_lock = 0
    /\ running = 0
    /\ in_op = 0

Go(t, from, to) ==
    /\ pc[t] = from
    /\ pc' = [pc EXCEPT ![t] = to]

-----------------------------------------------------------------------------
\* soem_lock and soem_unlock.

\* Slip: expected and desired value of the CAS swapped.
SpinSwapped(t) ==
    /\ pc[t] \in DOMAIN Section
    /\ soem_lock' = 0
    /\ pc' = IF soem_lock # 0 THEN [pc EXCEPT ![t] = Section[pc[t]]] ELSE pc
    /\ UNCHANGED <<main, created, running, in_op>>

\* while (!atomic_cas_i32(&d->soem_lock, 0, 1)) Sleep(0): the CAS stores 1
\* over 0; the loop is left only if the word was not 0.
Spin(t) ==
    /\ pc[t] \in DOMAIN Section
    /\ soem_lock' = IF soem_lock = 0 THEN 1 ELSE soem_lock
    /\ pc' = IF soem_lock # 0 THEN [pc EXCEPT ![t] = Section[pc[t]]] ELSE pc
    /\ UNCHANGED <<main, created, running, in_op>>

\* Slip: the word is decremented, not cleared.
UnlockByDecrement(t) ==
    /\ pc[t] \in DOMAIN After
    /\ soem_lock' = soem_lock - 1
    /\ pc' = [pc EXCEPT ![t] = After[pc[t]]]
    /\ UNCHANGED <<main, created, running, in_op>>

\* The work under the lock, and soem_unlock.
Unlock(t) ==
    /\ pc[t] \in DOMAIN After
    /\ soem_lock' = 0
    /\ pc' = [pc EXCEPT ![t] = After[pc[t]]]
    /\ UNCHANGED <<main, created, running, in_op>>

-----------------------------------------------------------------------------
\* ethercat_thread and ecat_watchdog_thread around their sections.

\* Slip: the old value of the CAS(1, 1) is taken for its success.
LoopForever(t) ==
    /\ pc[t] = "loop"
    /\ pc' = [pc EXCEPT ![t] =
                 IF t = Rt THEN "lock_exchange" ELSE "lock_readstate"]
    /\ UNCHANGED <<main, created, soem_lock, running, in_op>>

\* while (atomic_cas_i32(&d->running, 1, 1)): the old value ends the loop.
\* The real-time thread then copies its outputs, the watchdog samples the
\* symptoms, and both go for the lock.
LoopTest(t) ==
    /\ pc[t] = "loop"
    /\ pc' = [pc EXCEPT ![t] =
                 IF running = 0 THEN "ended"
                 ELSE IF t = Rt THEN "lock_exchange" ELSE "lock_readstate"]
    /\ UNCHANGED <<main, created, soem_lock, running, in_op>>

\* Inputs copied and published, statistics, wait for the next deadline.
RtEndCycle ==
    /\ Go(Rt, "inputs", "loop")
    /\ UNCHANGED <<main, created, soem_lock, running, in_op>>

\* The hysteresis; whether the round runs the recovery depends on the bus.
WdEvaluate ==
    /\ \E next \in {"lock_recovery", "decide"} : Go(Wd, "evaluate", next)
    /\ UNCHANGED <<main, created, soem_lock, running, in_op>>

\* Latch a fault (in_op 0), accept a reset (in_op 1) or neither, then sleep.
WdDecide ==
    /\ Go(Wd, "decide", "loop")
    /\ in_op' \in {0, 1}
    /\ UNCHANGED <<main, created, soem_lock, running>>

-----------------------------------------------------------------------------
\* ethercat_start and ethercat_stop, called by runtime_start and runtime_stop.

\* ethercat_transition_op fails: no thread is started and runtime_start goes
\* on, the result of ops->start being ignored.
StartFails ==
    /\ main = "start"
    /\ main' = "run"
    /\ in_op' = 0
    /\ UNCHANGED <<created, pc, soem_lock, running>>

\* The slaves are OPERATIONAL: in_op is set, then running.
StartOp ==
    /\ main = "start"
    /\ in_op' = 1
    /\ running' = 1
    /\ main' = "create_rt"
    /\ UNCHANGED <<created, pc, soem_lock>>

\* osal_thread_create_rt and osal_thread_create may fail; nobody looks.
Create(t, at, next) ==
    /\ main = at
    /\ main' = next
    /\ \/ /\ created' = created \cup {t}
          /\ Go(t, "none", "loop")
       \/ UNCHANGED <<created, pc>>
    /\ UNCHANGED <<soem_lock, running, in_op>>

CreateRt == Create(Rt, "create_rt", "create_wd")

CreateWd == Create(Wd, "create_wd", "run")

\* Slip: the threads are told to end but not waited for.
StopWithoutJoin ==
    /\ main = "run"
    /\ running' = 0
    /\ main' = "mark"
    /\ UNCHANGED <<created, pc, soem_lock, in_op>>

\* "1) Stopper les threads d'abord".
StopThreads ==
    /\ main = "run"
    /\ running' = 0
    /\ main' = "join_rt"
    /\ UNCHANGED <<created, pc, soem_lock, in_op>>

\* os_thread_join: WaitForSingleObject returns when the thread has ended, and
\* at once, with an error nobody looks at, if there never was a handle.
Join(t, at, next) ==
    /\ main = at
    /\ t \in created => pc[t] = "ended"
    /\ main' = next
    /\ UNCHANGED <<created, pc, soem_lock, running, in_op>>

JoinRt == Join(Rt, "join_rt", "join_wd")

JoinWd == Join(Wd, "join_wd", "mark")

\* "2) Marquer l'etat runtime".
StopMark ==
    /\ main = "mark"
    /\ in_op' = 0
    /\ main' = "safeop"
    /\ UNCHANGED <<created, pc, soem_lock, running>>

\* "3) Demander SAFEOP au master": writestate and statecheck, no lock.
StopSafeOp ==
    /\ main = "safeop"
    /\ main' = "stopped"
    /\ UNCHANGED <<created, pc, soem_lock, running, in_op>>

-----------------------------------------------------------------------------
\* main stays in its loop until somebody asks it to stop.
Main ==
    \/ StartFails
    \/ StartOp
    \/ CreateRt
    \/ CreateWd
    \/ JoinRt
    \/ JoinWd
    \/ StopMark
    \/ StopSafeOp

Run(t) ==
    \/ Spin(t)
    \/ Unlock(t)
    \/ LoopTest(t)

Next ==
    \/ Main
    \/ StopThreads
    \/ \E t \in Thread : Run(t)
    \/ RtEndCycle
    \/ WdEvaluate
    \/ WdDecide

\* Windows schedules every runnable thread again and again; nothing makes
\* the program stop.
Fairness ==
    /\ WF_vars(Main)
    /\ \A t \in Thread : WF_vars(Run(t))
    /\ WF_vars(RtEndCycle)
    /\ WF_vars(WdEvaluate)
    /\ WF_vars(WdDecide)

Spec == Init /\ [][Next]_vars /\ Fairness

-----------------------------------------------------------------------------
Places == DOMAIN Section \cup DOMAIN After \cup Ended
              \cup {"loop", "inputs", "evaluate", "decide"}

MainPlaces == {"start", "create_rt", "create_wd", "run", "join_rt", "join_wd",
               "mark", "safeop", "stopped"}

TypeOK ==
    /\ main \in MainPlaces
    /\ created \subseteq Thread
    /\ pc \in [Thread -> Places]
    /\ soem_lock \in {0, 1}
    /\ running \in {0, 1}
    /\ in_op \in {0, 1}

\* The main thread touches SOEM's context without the lock when it brings
\* the slaves to OPERATIONAL and back to SAFE_OP ("evite acces concurrent
\* ctx"): no thread that touches it exists then.
MainHasTheBusAlone ==
    main \in {"start", "mark", "safeop", "stopped"}
        => \A t \in Thread : pc[t] \in Ended

\* Once ethercat_stop has marked the driver as stopped, a watchdog round
\* that was accepting a reset cannot declare it operational again.
StoppedStaysDown == main \in {"safeop", "stopped"} => in_op = 0

\* From ethercat_stop on, and how far a thread is from its end then: the steps
\* it has still to take, along the longer branch.
Stopping == {"join_rt", "join_wd", "mark", "safeop", "stopped"}

Distance ==
    [none |-> 0, ended |-> 0, loop |-> 1, inputs |-> 2, decide |-> 2,
     exchange |-> 3, recovery |-> 3, lock_exchange |-> 4, lock_recovery |-> 4,
     evaluate |-> 5, readstate |-> 6, lock_readstate |-> 7]

StepsLeft == 2 * Distance[pc[Rt]] + 2 * Distance[pc[Wd]] + 1 - soem_lock

\* The stop runs down: whatever the threads were doing, each of their steps
\* brings them nearer to their end.  A look at the lock that only sets it is
\* one, too, and no thread takes the lock back from under another for ever.
StopRunsDown ==
    [][(main \in Stopping)
          => StepsLeft' < StepsLeft \/ UNCHANGED <<pc, soem_lock>>]_vars

\* Why they hold: a thread that is not created does not run, and each join
\* leaves its thread ended; an ended thread stays so.
IInv ==
    /\ TypeOK
    /\ \A t \in Thread : t \notin created => pc[t] = "none"
    /\ main \in {"start", "create_rt"} => created = {}
    /\ main = "create_wd" => Wd \notin created
    /\ main \in {"join_wd", "mark", "safeop", "stopped"} => pc[Rt] \in Ended
    /\ main \in {"mark", "safeop", "stopped"} => pc[Wd] \in Ended
    /\ main \in Stopping => running = 0
    /\ StoppedStaysDown

\* A stop that was asked for ends, whatever the threads were doing and
\* whichever of them was never created.
StopCompletes == (main = "join_rt") ~> (main = "stopped")

\* The lock never shuts everybody out: when a thread waits for it, some
\* thread gets to work under it.
LockMakesProgress ==
    (\E t \in Thread : pc[t] \in DOMAIN Section)
        ~> (\E t \in Thread : Locked(t))

\* The comment in the recovery says the slave states are read again "sous
\* lock pour etre coherent": the two threads are never both under the lock.
LockExcludes == ~ (Locked(Rt) /\ Locked(Wd))
=============================================================================
