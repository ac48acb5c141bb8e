------------------------------ MODULE Watchdog ------------------------------
(***************************************************************************)
(* The EtherCAT watchdog: a thread that every 10 ms compares the slaves'   *)
(* states and the working counter verdict of the real-time thread with a   *)
(* healthy bus, brings slaves back, latches a fault that lasts and re-arms *)
(* the driver when the operator asks for it and the bus has been healthy   *)
(* for long enough.                                                        *)
(*                                                                         *)
(* The bus is the environment: slaves drop out of OPERATIONAL, vanish and  *)
(* come back, and carry out the state requests of the master later, if at  *)
(* all.  SOEM's functions are modelled by how this code uses them.         *)
(*                                                                         *)
(* The sections under soem_lock are single steps here although that lock   *)
(* excludes nobody (see DriverThreads): the real-time thread touches none  *)
(* of the variables below in its section.  The flags other threads read    *)
(* are stored one at a time.  A stop may find the thread at the end of any *)
(* round.                                                                  *)
(***************************************************************************)
EXTENDS Naturals

CONSTANTS
    SlaveCount,         \* ctx.slavecount
    OutputSlaves,       \* slaves whose outputs count in expected_wkc
    WD_BAD_TO_LATCH_FAULT,
    WD_GOOD_TO_ARM,
    WkcTolerated,       \* dowkccheck above this starts the recovery (2)
    WkcClampAbove,      \* dowkccheck above this is clamped (1000000)
    WkcClampTo,         \* to this (100)
    MaxWkc,             \* bound: dowkccheck saturates here
    MaxFaults           \* bound: faults of the bus

Slave == 1 .. SlaveCount

ASSUME WatchdogAssumption ==
    /\ SlaveCount \in Nat
    /\ OutputSlaves \subseteq Slave
    /\ WD_BAD_TO_LATCH_FAULT \in Nat \ {0}
    /\ WD_GOOD_TO_ARM \in Nat \ {0}
    /\ WkcTolerated \in Nat
    /\ WkcClampAbove \in Nat /\ WkcClampTo \in Nat
    /\ WkcTolerated < WkcClampTo /\ WkcClampTo <= WkcClampAbove
    /\ MaxWkc \in Nat /\ WkcClampAbove < MaxWkc
    /\ MaxFaults \in Nat

\* SOEM's numbering of the states of a slave: EC_STATE_ERROR and EC_STATE_ACK
\* are the same bit.
EC_STATE_NONE == 0
EC_STATE_INIT == 1
EC_STATE_PRE_OP == 2
EC_STATE_SAFE_OP == 4
EC_STATE_OPERATIONAL == 8
EC_STATE_ERROR == 16
EC_STATE_ACK == 16

ECState == {EC_STATE_NONE, EC_STATE_INIT, EC_STATE_PRE_OP, EC_STATE_SAFE_OP,
            EC_STATE_OPERATIONAL, EC_STATE_SAFE_OP + EC_STATE_ERROR}

VARIABLES
    \* The bus
    bus,            \* the state each slave is in; NONE: it does not answer
    request,        \* state the master asked the slave for; NONE: nothing
    faults,         \* faults so far
    \* SOEM's context
    state,          \* ctx.slavelist[s].state
    islost,         \* ctx.slavelist[s].islost
    mbxhandlerstate,    \* ctx.slavelist[s].mbxhandlerstate
    docheckstate,   \* ctx.grouplist[0].docheckstate
    \* The driver
    in_op, fault_latched, ethercat_state, reset_req, dowkccheck,
    \* Locals of the watchdog thread
    pc, slaveix, wkc_seen, all_op, bad_count, good_count,
    \* History, read by no action of the driver:
    asked,          \* the operator asked for a reset since the fault latched
    frame_wrong,    \* the last frame since the re-arming came back wrong
    wrong_seen,     \* and had done so when this round sampled dowkccheck
    up,             \* rounds in a row that found every slave OPERATIONAL and
                    \* the last frame right
    down            \* rounds in a row that found one of them otherwise

rounds == <<wrong_seen, up, down>>
historyVars == <<asked, frame_wrong, rounds>>

busVars == <<bus, request, faults>>
soemVars == <<state, islost, mbxhandlerstate, docheckstate>>
flagVars == <<in_op, fault_latched, ethercat_state>>
verdict == <<slaveix, wkc_seen, all_op, bad_count, good_count>>
localVars == <<pc, verdict>>
vars == <<busVars, soemVars, flagVars, reset_req, dowkccheck, localVars,
          historyVars>>

\* As ethercat_start leaves the driver before it creates the threads: every
\* slave is OPERATIONAL, nothing is lost.
Init ==
    /\ bus = [s \in Slave |-> EC_STATE_OPERATIONAL]
    /\ request = [s \in Slave |-> EC_STATE_NONE]
    /\ faults = 0
    /\ state = [s \in Slave |-> EC_STATE_OPERATIONAL]
    /\ islost = [s \in Slave |-> FALSE]
    /\ mbxhandlerstate = [s \in Slave |-> "none"]
    /\ docheckstate = FALSE
    /\ in_op = 1
    /\ fault_latched = 0
    /\ ethercat_state = EC_STATE_OPERATIONAL
    /\ reset_req = 0
    /\ dowkccheck = 0
    /\ pc = "sample"
    /\ slaveix = 1
    /\ wkc_seen = 0
    /\ all_op = TRUE
    /\ bad_count = 0
    /\ good_count = 0
    /\ asked = FALSE
    /\ frame_wrong = FALSE /\ wrong_seen = FALSE
    /\ up = 0 /\ down = 0

\* A counter that stops at a limit.
CountUp(n, limit) == IF n < limit THEN n + 1 ELSE limit

-----------------------------------------------------------------------------
\* The bus.

\* A slave leaves its state by itself: an error, a restart, a cut cable.
SlaveFails(s) ==
    /\ faults < MaxFaults
    /\ bus[s] # EC_STATE_NONE
    /\ \E st \in ECState \ {bus[s], EC_STATE_OPERATIONAL} :
          bus' = [bus EXCEPT ![s] = st]
    /\ request' = [request EXCEPT ![s] = EC_STATE_NONE]
    /\ faults' = faults + 1
    /\ UNCHANGED <<soemVars, flagVars, reset_req, dowkccheck, localVars,
                   historyVars>>

\* A slave that did not answer is reachable again: it was switched off and
\* starts from INIT, or it kept its state or dropped to an error.
SlaveReturns(s) ==
    /\ bus[s] = EC_STATE_NONE
    /\ \E st \in ECState \ {EC_STATE_NONE} : bus' = [bus EXCEPT ![s] = st]
    /\ UNCHANGED <<request, faults, soemVars, flagVars, reset_req, dowkccheck,
                   localVars, historyVars>>

\* A slave carries out the last state request: OPERATIONAL only from SAFE_OP
\* without error, the acknowledgement only clears the error.
SlaveObeys(s) ==
    /\ request[s] # EC_STATE_NONE
    /\ request' = [request EXCEPT ![s] = EC_STATE_NONE]
    /\ bus' = [bus EXCEPT ![s] =
                  CASE request[s] = EC_STATE_OPERATIONAL /\ @ = EC_STATE_SAFE_OP
                           -> EC_STATE_OPERATIONAL
                    [] request[s] = EC_STATE_SAFE_OP + EC_STATE_ACK
                           /\ @ = EC_STATE_SAFE_OP + EC_STATE_ERROR
                           -> EC_STATE_SAFE_OP
                    [] OTHER -> @]
    /\ UNCHANGED <<faults, soemVars, flagVars, reset_req, dowkccheck, localVars,
                   historyVars>>

-----------------------------------------------------------------------------
\* The real-time thread: one exchange and its verdict.

\* A slave's outputs count only in OPERATIONAL, its inputs from SAFE_OP on.
Counts(s) ==
    \/ bus[s] = EC_STATE_OPERATIONAL
    \/ s \notin OutputSlaves
           /\ bus[s] \in {EC_STATE_SAFE_OP, EC_STATE_SAFE_OP + EC_STATE_ERROR}

\* The frame comes back with the working counter the bus gives it, or is
\* lost, which is a fault.  The thread ends before ethercat_stop goes on.
RtCycle(lost) ==
    /\ pc \notin {"marked", "stopped"}
    /\ lost => faults < MaxFaults
    /\ faults' = IF lost THEN faults + 1 ELSE faults
    /\ frame_wrong' = (lost \/ \E s \in Slave : ~Counts(s))
    /\ dowkccheck' = IF frame_wrong' THEN CountUp(dowkccheck, MaxWkc) ELSE 0
    /\ UNCHANGED <<bus, request, soemVars, flagVars, reset_req, localVars,
                   asked, rounds>>

-----------------------------------------------------------------------------
\* The operator (HMI or PLC): ethercat.h has reset_req set by them.

RequestReset ==
    /\ reset_req' = 1
    /\ asked' = (fault_latched = 1)
    /\ UNCHANGED <<busVars, soemVars, flagVars, dowkccheck, localVars,
                   frame_wrong, rounds>>

-----------------------------------------------------------------------------
\* The watchdog thread, one round.

WdSample ==
    /\ pc = "sample"
    /\ wkc_seen' = dowkccheck
    /\ wrong_seen' = frame_wrong
    /\ pc' = "readstate"
    /\ UNCHANGED <<busVars, soemVars, flagVars, reset_req, dowkccheck, slaveix,
                   all_op, bad_count, good_count, asked, frame_wrong, up, down>>

\* Slip: only the slaves are looked at.
BusOkByState(op) == op

BusOk(op) == wkc_seen = 0 /\ op

\* Slip: no recovery any more once the fault is latched.
RecoveryUnlessLatched ==
    /\ SlaveCount > 0 /\ fault_latched = 0
    /\ wkc_seen > WkcTolerated \/ docheckstate

\* inOP_cmd && (dowkccheck > 2 || docheck); docheckstate is only changed by
\* this thread, so it can be read here.
NeedsRecovery == SlaveCount > 0 /\ (wkc_seen > WkcTolerated \/ docheckstate)

\* ecx_readstate, the verdict on the slaves and the hysteresis.  The counters
\* are only compared with the two limits: they stop there.
WdReadState ==
    /\ pc = "readstate"
    /\ state' = bus
    /\ all_op' = \A s \in Slave : ~islost[s] /\ bus[s] = EC_STATE_OPERATIONAL
    /\ IF BusOk(all_op')
       THEN bad_count' = 0 /\ good_count' = CountUp(good_count, WD_GOOD_TO_ARM)
       ELSE /\ bad_count' = CountUp(bad_count, WD_BAD_TO_LATCH_FAULT)
            /\ good_count' = 0
    /\ IF ~wrong_seen /\ \A s \in Slave : bus[s] = EC_STATE_OPERATIONAL
       THEN up' = CountUp(up, WD_GOOD_TO_ARM) /\ down' = 0
       ELSE up' = 0 /\ down' = CountUp(down, WD_BAD_TO_LATCH_FAULT)
    /\ pc' = IF NeedsRecovery THEN "recover" ELSE "latch"
    /\ UNCHANGED <<busVars, islost, mbxhandlerstate, docheckstate, flagVars,
                   reset_req, dowkccheck, slaveix, wkc_seen, asked,
                   frame_wrong, wrong_seen>>

\* The recovery starts by forgetting docheckstate and reading the states.
WdRecoverBegin ==
    /\ pc = "recover"
    /\ docheckstate' = FALSE
    /\ state' = bus
    /\ slaveix' = 1
    /\ pc' = "slaves"
    /\ UNCHANGED <<busVars, islost, mbxhandlerstate, flagVars, reset_req,
                   dowkccheck, wkc_seen, all_op, bad_count, good_count,
                   historyVars>>

\* What one pass of the slave loop makes of slave s, as a record: the driver's
\* slave->state (st), islost and mbxhandlerstate (mbx), the state asked of the
\* slave (req) and the state it is in (al).
Untouched(s) ==
    [st |-> state[s], islost |-> islost[s], mbx |-> mbxhandlerstate[s],
     req |-> request[s], al |-> bus[s]]

\* Slip: the error bit is left in place next to the acknowledgement.
AcknowledgeAndError(s) ==
    [Untouched(s) EXCEPT !.st = @ + EC_STATE_ACK,
                         !.req = state[s] + EC_STATE_ACK]

\* 1) SAFE_OP + ERROR: acknowledge.
Acknowledge(s) ==
    [Untouched(s) EXCEPT !.st = EC_STATE_SAFE_OP + EC_STATE_ACK,
                         !.req = EC_STATE_SAFE_OP + EC_STATE_ACK]

\* Slip: the new state is never written to the slave.
AskNobody(s) == [Untouched(s) EXCEPT !.st = EC_STATE_OPERATIONAL]

\* 2) SAFE_OP: ask for OPERATIONAL, and let the mailbox handler poll again.
AskOperational(s) ==
    [Untouched(s) EXCEPT !.st = EC_STATE_OPERATIONAL,
                         !.req = EC_STATE_OPERATIONAL,
                         !.mbx = IF @ = "lost" THEN "cyclic" ELSE @]

\* 3) ecx_reconfig_slave got the slave, if it answers, to the state reached.
Reconfigure(s, reached) ==
    LET got == IF bus[s] = EC_STATE_NONE THEN EC_STATE_NONE ELSE reached
    IN  [Untouched(s) EXCEPT !.st = got, !.al = got, !.req = EC_STATE_NONE,
                             !.islost = @ /\ got < EC_STATE_PRE_OP]

\* 4) ecx_statecheck on a slave that did not answer; still silent, it is lost.
CheckSilent(s) ==
    LET silent == bus[s] = EC_STATE_NONE
    IN  [Untouched(s) EXCEPT !.st = bus[s], !.islost = silent,
                             !.mbx = IF silent THEN "lost" ELSE @]

\* The first half of the loop body.
Handled(s, reached) ==
    CASE state[s] = EC_STATE_OPERATIONAL -> Untouched(s)
      [] state[s] = EC_STATE_SAFE_OP + EC_STATE_ERROR -> Acknowledge(s)
      [] state[s] = EC_STATE_SAFE_OP -> AskOperational(s)
      [] state[s] \in {EC_STATE_INIT, EC_STATE_PRE_OP} ->
             Reconfigure(s, reached)
      [] state[s] = EC_STATE_NONE /\ islost[s] -> Untouched(s)
      [] state[s] = EC_STATE_NONE /\ ~islost[s] -> CheckSilent(s)

\* The second half, for a lost slave: above INIT it counts as found, else
\* ecx_recover_slave has to find it on the bus.
StillLost(h, reached) ==
    /\ h.islost
    /\ h.st <= EC_STATE_INIT
    /\ h.al = EC_STATE_NONE \/ reached # EC_STATE_SAFE_OP

\* Slip: the last slave of the loop decides.
RecheckForLastSlave(s) == state[s] # EC_STATE_OPERATIONAL

\* docheckstate after the pass over slave s.
Recheck(s) == docheckstate \/ state[s] # EC_STATE_OPERATIONAL

\* SOEM brings a slave that answers to SAFE_OP, and finds it; to get less far
\* is a fault of the bus.
WdRecoverSlave ==
    /\ pc = "slaves"
    /\ \E reached \in {EC_STATE_INIT, EC_STATE_PRE_OP, EC_STATE_SAFE_OP} :
          /\ reached # EC_STATE_SAFE_OP
                 => /\ faults < MaxFaults
                    /\ state[slaveix] \in {EC_STATE_INIT, EC_STATE_PRE_OP}
                           \/ islost[slaveix]
          /\ faults' = IF reached # EC_STATE_SAFE_OP THEN faults + 1 ELSE faults
          /\ LET h == Handled(slaveix, reached)
             IN  /\ state' = [state EXCEPT ![slaveix] = h.st]
                 /\ islost' = [islost EXCEPT ![slaveix] = StillLost(h, reached)]
                 /\ mbxhandlerstate' =
                        [mbxhandlerstate EXCEPT ![slaveix] = h.mbx]
                 /\ request' = [request EXCEPT ![slaveix] = h.req]
                 /\ bus' = [bus EXCEPT ![slaveix] = h.al]
    /\ docheckstate' = Recheck(slaveix)
    /\ slaveix' = IF slaveix < SlaveCount THEN slaveix + 1 ELSE 1
    /\ pc' = IF slaveix < SlaveCount THEN "slaves" ELSE "clamp"
    /\ UNCHANGED <<flagVars, reset_req, dowkccheck, wkc_seen, all_op, bad_count,
                   good_count, historyVars>>

\* Slip: too large a count is cleared.
ClampToZero ==
    /\ pc = "clamp"
    /\ dowkccheck' = IF wkc_seen > WkcClampAbove THEN 0 ELSE dowkccheck
    /\ pc' = "latch"
    /\ UNCHANGED <<busVars, soemVars, flagVars, reset_req, verdict,
                   historyVars>>

\* The store does not look at what the real-time thread has counted, or
\* cleared, since the sample.
WdClamp ==
    /\ pc = "clamp"
    /\ dowkccheck' = IF wkc_seen > WkcClampAbove THEN WkcClampTo ELSE dowkccheck
    /\ pc' = "latch"
    /\ UNCHANGED <<busVars, soemVars, flagVars, reset_req, verdict,
                   historyVars>>

\* From one store to the next: the rest of the round's state stays.
Store(here, next) ==
    /\ pc = here /\ pc' = next
    /\ UNCHANGED <<busVars, soemVars, verdict, rounds>>

\* A fault that lasts is latched, and then the driver is no longer operational.
WdLatch ==
    /\ Store("latch",
             IF bad_count >= WD_BAD_TO_LATCH_FAULT THEN "cut" ELSE "reset")
    /\ fault_latched' =
           IF bad_count >= WD_BAD_TO_LATCH_FAULT THEN 1 ELSE fault_latched
    /\ asked' = (asked /\ fault_latched' = fault_latched)
    /\ UNCHANGED <<in_op, ethercat_state, reset_req, dowkccheck, frame_wrong>>

\* Slip: in_op is left to the stop.
CutNothing ==
    /\ Store("cut", "reset")
    /\ UNCHANGED <<flagVars, reset_req, dowkccheck, asked, frame_wrong>>

WdCut ==
    /\ Store("cut", IF in_op # 0 THEN "report" ELSE "reset")
    /\ in_op' = 0
    /\ UNCHANGED <<fault_latched, ethercat_state, reset_req, dowkccheck, asked,
                   frame_wrong>>

WdReport ==
    /\ Store("report", "reset")
    /\ ethercat_state' = EC_STATE_SAFE_OP
    /\ UNCHANGED <<fault_latched, in_op, reset_req, dowkccheck, asked,
                   frame_wrong>>

\* A reset is only accepted on a bus that is healthy and has been for long
\* enough.
AcceptReset ==
    /\ fault_latched # 0 /\ reset_req # 0
    /\ BusOk(all_op) /\ good_count >= WD_GOOD_TO_ARM

\* Otherwise the request stays, and the watchdog sleeps.
WdReset ==
    /\ Store("reset", IF AcceptReset THEN "rearm" ELSE "sample")
    /\ UNCHANGED <<flagVars, reset_req, dowkccheck, asked, frame_wrong>>

\* "RESET accepte": the latch is opened,
WdRearm ==
    /\ Store("rearm", "arm")
    /\ fault_latched' = 0
    /\ asked' = FALSE
    /\ UNCHANGED <<in_op, ethercat_state, reset_req, dowkccheck, frame_wrong>>

\* the driver operational again,
WdArm ==
    /\ Store("arm", "online")
    /\ in_op' = 1
    /\ UNCHANGED <<fault_latched, ethercat_state, reset_req, dowkccheck, asked,
                   frame_wrong>>

\* Slip: the state the driver reports is forgotten.
OnlineUnreported ==
    /\ Store("online", "consume")
    /\ UNCHANGED <<flagVars, reset_req, dowkccheck, asked, frame_wrong>>

WdOnline ==
    /\ Store("online", "consume")
    /\ ethercat_state' = EC_STATE_OPERATIONAL
    /\ UNCHANGED <<fault_latched, in_op, reset_req, dowkccheck, asked,
                   frame_wrong>>

\* the request consumed, and with it one made since the latch was opened,
WdConsume ==
    /\ Store("consume", "forget")
    /\ reset_req' = 0
    /\ UNCHANGED <<flagVars, dowkccheck, asked, frame_wrong>>

\* and the count cleared, with what the real-time thread counted since the
\* sample: frame_wrong starts again.
WdForget ==
    /\ Store("forget", "sample")
    /\ dowkccheck' = 0
    /\ frame_wrong' = FALSE
    /\ UNCHANGED <<flagVars, reset_req, asked>>

-----------------------------------------------------------------------------
\* ethercat_stop clears running, which the loop finds before a round, joins
\* both threads and marks the driver; what it asks of the slaves then is in
\* Lifecycle.  From the end of the thread on, pc says how far it is.

WdEnd ==
    /\ Store("sample", "ended")
    /\ UNCHANGED <<flagVars, reset_req, dowkccheck, asked, frame_wrong>>

StopMark ==
    /\ Store("ended", "marked")
    /\ in_op' = 0
    /\ UNCHANGED <<fault_latched, ethercat_state, reset_req, dowkccheck, asked,
                   frame_wrong>>

StopReport ==
    /\ Store("marked", "stopped")
    /\ ethercat_state' = EC_STATE_SAFE_OP
    /\ UNCHANGED <<fault_latched, in_op, reset_req, dowkccheck, asked,
                   frame_wrong>>

Stop == StopMark \/ StopReport

-----------------------------------------------------------------------------
WdRound ==
    \/ WdSample
    \/ WdReadState
    \/ WdRecoverBegin
    \/ WdRecoverSlave
    \/ WdClamp
    \/ WdLatch
    \/ WdCut
    \/ WdReport
    \/ WdReset
    \/ WdRearm
    \/ WdArm
    \/ WdOnline
    \/ WdConsume
    \/ WdForget

Next ==
    \/ \E s \in Slave : SlaveFails(s) \/ SlaveReturns(s) \/ SlaveObeys(s)
    \/ \E lost \in BOOLEAN : RtCycle(lost)
    \/ RequestReset
    \/ WdRound
    \/ WdEnd
    \/ Stop

\* The two threads run until the driver is stopped, which nothing forces, and a
\* stop goes on once the watchdog has ended.  A slave carries out requests and
\* does not stay silent for ever.  Faults are bounded: a property under this
\* fairness says what happens once they stop.
Fairness ==
    /\ WF_vars(WdRound)
    /\ WF_vars(RtCycle(FALSE))
    /\ WF_vars(Stop)
    /\ \A s \in Slave : WF_vars(SlaveReturns(s)) /\ WF_vars(SlaveObeys(s))

Spec == Init /\ [][Next]_vars /\ Fairness

-----------------------------------------------------------------------------
Pc == {"sample", "readstate", "recover", "slaves", "clamp",
       "latch", "cut", "report", "reset", "rearm", "arm", "online", "consume",
       "forget", "ended", "marked", "stopped"}

TypeOK ==
    /\ bus \in [Slave -> ECState]
    /\ request \in [Slave -> {EC_STATE_NONE, EC_STATE_OPERATIONAL,
                              EC_STATE_SAFE_OP + EC_STATE_ACK}]
    /\ faults \in 0 .. MaxFaults
    /\ state \in [Slave -> ECState]
    /\ islost \in [Slave -> BOOLEAN]
    /\ mbxhandlerstate \in [Slave -> {"none", "cyclic", "lost"}]
    /\ docheckstate \in BOOLEAN
    /\ in_op \in {0, 1}
    /\ fault_latched \in {0, 1}
    /\ ethercat_state \in {EC_STATE_SAFE_OP, EC_STATE_OPERATIONAL}
    /\ reset_req \in {0, 1}
    /\ dowkccheck \in 0 .. MaxWkc
    /\ pc \in Pc
    /\ slaveix \in Slave \cup {1}
    /\ wkc_seen \in 0 .. MaxWkc
    /\ all_op \in BOOLEAN
    /\ bad_count \in 0 .. WD_BAD_TO_LATCH_FAULT
    /\ good_count \in 0 .. WD_GOOD_TO_ARM
    /\ asked \in BOOLEAN /\ frame_wrong \in BOOLEAN /\ wrong_seen \in BOOLEAN
    /\ up \in 0 .. WD_GOOD_TO_ARM
    /\ down \in 0 .. WD_BAD_TO_LATCH_FAULT

\* A lost slave is not forgotten: until it is found again the next round runs
\* the recovery, whatever the working counter says, and SOEM's mailbox
\* handler leaves the slave alone.
LostIsTended ==
    pc \notin {"recover", "slaves"}
        => \A s \in Slave :
               islost[s] => docheckstate /\ mbxhandlerstate[s] = "lost"

\* in_op, ethercat_state and the latch, each stored by itself, agree whenever
\* nobody is between two of these stores: no fault, recovery, reset or stop
\* leaves them telling two stories, and after a stop the driver is reported
\* down, latched or not.  A reader who finds the driver operational although a
\* fault is latched has met the watchdog between its first two stores.
StatusIsConsistent ==
    /\ pc \notin {"cut", "report", "arm", "online", "marked", "stopped"}
           => /\ in_op = 1 <=> fault_latched = 0
              /\ in_op = 1 <=> ethercat_state = EC_STATE_OPERATIONAL
    /\ pc = "stopped" => in_op = 0 /\ ethercat_state = EC_STATE_SAFE_OP
    /\ in_op = 1 /\ fault_latched = 1 => pc = "cut"

\* The driver is re-armed only when the last WD_GOOD_TO_ARM rounds, the
\* current one included, all found every slave OPERATIONAL and the last frame
\* right.
RearmIsEarned ==
    [][fault_latched = 1 /\ fault_latched' = 0 => up >= WD_GOOD_TO_ARM]_vars

\* A fault that lasts is latched in time and takes the driver out of operation,
\* also one that only the working counter shows, or only the slaves: after
\* WD_BAD_TO_LATCH_FAULT rounds in a row that found some slave not OPERATIONAL
\* or the last frame wrong, whatever the recovery did in between and whatever
\* the clamp stored over the count.
PersistentFaultIsLatched ==
    pc \notin {"recover", "slaves", "clamp", "latch", "cut", "report"}
        => (down >= WD_BAD_TO_LATCH_FAULT
                => /\ fault_latched = 1 /\ in_op = 0
                   /\ ethercat_state = EC_STATE_SAFE_OP)

\* fault_latched is the latch; in_op and ethercat_state are displays that
\* follow it.  A request made while an earlier one is being honoured is used
\* up with it.
Latch == INSTANCE FaultLatch
             WITH Bad <- WD_BAD_TO_LATCH_FAULT, Good <- WD_GOOD_TO_ARM,
                  Displays <- {"in_op", "ethercat_state"},
                  latched <- (fault_latched = 1),
                  stopped <- (pc \in {"ended", "marked", "stopped"}),
                  shown <- [d \in {"in_op", "ethercat_state"} |->
                               IF d = "in_op" THEN in_op = 1
                               ELSE ethercat_state = EC_STATE_OPERATIONAL],
                  wanted <- (reset_req = 1
                                 /\ pc \notin {"arm", "online", "consume"})

\* Whatever slaves, working counter, recovery and a stop do, an operator sees a
\* latch that obeys FaultLatch, store by store.
ImplementsLatch == Latch!Spec

\* Once the faults stop, the recovery brings every slave back, without any
\* reset by the operator, unless the driver is stopped.
RecoveryCompletes ==
    <>[](\/ \A s \in Slave : bus[s] = EC_STATE_OPERATIONAL /\ ~islost[s]
         \/ pc = "stopped")

\* Once the faults stop, a reset request, early or late, is honoured, unless
\* the driver is stopped.
ResetIsHonoured ==
    (fault_latched = 1 /\ reset_req = 1)
        ~> (fault_latched = 0 \/ pc = "stopped")

\* "on laisse inOP revenir UNIQUEMENT par reset manuel": the driver comes back
\* only after the operator, seeing the fault, asked for it.
RearmNeedsFreshRequest ==
    [][fault_latched = 1 /\ fault_latched' = 0 => asked]_vars
=============================================================================
