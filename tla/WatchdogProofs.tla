--------------------------- MODULE WatchdogProofs ---------------------------
(***************************************************************************)
(* Proofs about Watchdog, for any number of slaves, any thresholds and any *)
(* faults: TypeOK, the inductive invariant IInv, the three safety          *)
(* properties it implies, the one about re-arming, and that the watchdog   *)
(* implements FaultLatch.                                                  *)
(***************************************************************************)
EXTENDS Watchdog, TLAPS

\* The slave loop works on an index of slavelist.
LoopInv ==
    /\ pc = "recover" => SlaveCount > 0
    /\ pc = "slaves" => slaveix \in Slave

\* A lost slave keeps the mailbox handler away and docheckstate set, but in the
\* loop that has cleared docheckstate and not come to the slave yet.
LostInv ==
    \A s \in Slave :
        islost[s] => /\ mbxhandlerstate[s] = "lost"
                     /\ docheckstate \/ (pc = "slaves" /\ slaveix <= s)

\* The count is not zero while the last frame was wrong: neither the clamp nor
\* a re-arming hides a frame that was.  A round that samples the count knows.
WkcInv ==
    /\ frame_wrong => dowkccheck > 0
    /\ wrong_seen => wkc_seen > 0

\* The driver's counters against those of what the bus was found to be: a
\* bad count includes every round that found a slave down or the last frame
\* wrong, a good count only rounds that found neither.
CountInv ==
    /\ down <= bad_count
    /\ good_count <= up
    /\ good_count = 0 \/ bad_count = 0

\* The stores that re-arm the driver, in their order.
Rearming == {"rearm", "arm", "online", "consume", "forget"}

\* The latch follows bad_count once a round has come past it, and nothing is
\* re-armed without the good rounds.
LatchInv ==
    /\ pc \notin {"recover", "slaves", "clamp", "latch"}
           => (bad_count >= WD_BAD_TO_LATCH_FAULT => fault_latched = 1)
    /\ pc \in {"cut", "report"} => bad_count >= WD_BAD_TO_LATCH_FAULT
    /\ pc \in Rearming => good_count >= WD_GOOD_TO_ARM

\* What the flags are between two stores.
FlagInv ==
    /\ pc = "cut" => (in_op = 1 <=> ethercat_state = EC_STATE_OPERATIONAL)
    /\ pc = "report" => in_op = 0
    /\ pc = "rearm" => fault_latched = 1 /\ reset_req = 1
    /\ pc = "arm" => /\ in_op = 0 /\ fault_latched = 0
                     /\ ethercat_state = EC_STATE_SAFE_OP
    /\ pc = "online" => /\ in_op = 1 /\ fault_latched = 0
                        /\ ethercat_state = EC_STATE_SAFE_OP
    /\ pc = "marked" => /\ in_op = 0
                        /\ fault_latched = 1
                               => ethercat_state = EC_STATE_SAFE_OP

IInv ==
    /\ TypeOK
    /\ LoopInv
    /\ LostInv
    /\ WkcInv
    /\ CountInv
    /\ LatchInv
    /\ FlagInv
    /\ StatusIsConsistent

\* What a step of the bus, the operator or the real-time thread leaves alone.
watchdogVars == <<state, islost, mbxhandlerstate, docheckstate, flagVars,
                  localVars, rounds>>

-----------------------------------------------------------------------------
\* One pass of the slave loop yields states SOEM knows, and requests the
\* driver makes.
LEMMA HandledType ==
  ASSUME TypeOK, NEW s \in Slave,
         NEW reached \in {EC_STATE_INIT, EC_STATE_PRE_OP, EC_STATE_SAFE_OP}
  PROVE  /\ Handled(s, reached).st \in ECState
         /\ Handled(s, reached).al \in ECState
         /\ Handled(s, reached).mbx \in {"none", "cyclic", "lost"}
         /\ Handled(s, reached).req \in
                {EC_STATE_NONE, EC_STATE_OPERATIONAL,
                 EC_STATE_SAFE_OP + EC_STATE_ACK}
<1> USE DEF TypeOK, ECState, EC_STATE_NONE, EC_STATE_INIT, EC_STATE_PRE_OP,
            EC_STATE_SAFE_OP, EC_STATE_OPERATIONAL, EC_STATE_ERROR,
            EC_STATE_ACK
<1>1. CASE state[s] = EC_STATE_OPERATIONAL
  BY <1>1 DEF Handled, Untouched
<1>2. CASE state[s] = EC_STATE_SAFE_OP + EC_STATE_ERROR
  <2>1. Handled(s, reached) = Acknowledge(s)
    BY <1>2 DEF Handled
  <2>2. QED
    BY <2>1 DEF Acknowledge, Untouched
<1>3. CASE state[s] = EC_STATE_SAFE_OP
  <2>1. Handled(s, reached) = AskOperational(s)
    BY <1>3 DEF Handled
  <2>2. QED
    BY <2>1 DEF AskOperational, Untouched
<1>4. CASE state[s] \in {EC_STATE_INIT, EC_STATE_PRE_OP}
  <2>1. Handled(s, reached) = Reconfigure(s, reached)
    BY <1>4 DEF Handled
  <2>2. QED
    BY <2>1 DEF Reconfigure, Untouched
<1>5. CASE state[s] = EC_STATE_NONE /\ islost[s]
  <2>1. Handled(s, reached) = Untouched(s)
    BY <1>5 DEF Handled
  <2>2. QED
    BY <2>1 DEF Untouched
<1>6. CASE state[s] = EC_STATE_NONE /\ ~islost[s]
  <2>1. Handled(s, reached) = CheckSilent(s)
    BY <1>6 DEF Handled
  <2>2. QED
    BY <2>1 DEF CheckSilent, Untouched
<1>7. QED
  BY <1>1, <1>2, <1>3, <1>4, <1>5, <1>6

\* A slave the pass leaves lost was not found OPERATIONAL by it, and has its
\* mailbox closed.
LEMMA StillLostIsMarked ==
  ASSUME TypeOK, LostInv, NEW s \in Slave,
         NEW reached \in {EC_STATE_INIT, EC_STATE_PRE_OP, EC_STATE_SAFE_OP},
         StillLost(Handled(s, reached), reached)
  PROVE  /\ state[s] # EC_STATE_OPERATIONAL
         /\ Handled(s, reached).mbx = "lost"
<1> USE DEF TypeOK, ECState, EC_STATE_NONE, EC_STATE_INIT, EC_STATE_PRE_OP,
            EC_STATE_SAFE_OP, EC_STATE_OPERATIONAL, EC_STATE_ERROR,
            EC_STATE_ACK, StillLost, LostInv
<1>1. CASE state[s] = EC_STATE_OPERATIONAL
  BY <1>1 DEF Handled, Untouched
<1>2. CASE state[s] = EC_STATE_SAFE_OP + EC_STATE_ERROR
  <2>1. Handled(s, reached) = Acknowledge(s)
    BY <1>2 DEF Handled
  <2>2. Handled(s, reached).st = EC_STATE_SAFE_OP + EC_STATE_ACK
    BY <2>1 DEF Acknowledge, Untouched
  <2>3. QED
    BY <2>2
<1>3. CASE state[s] = EC_STATE_SAFE_OP
  <2>1. Handled(s, reached) = AskOperational(s)
    BY <1>3 DEF Handled
  <2>2. Handled(s, reached).st = EC_STATE_OPERATIONAL
    BY <2>1 DEF AskOperational, Untouched
  <2>3. QED
    BY <2>2
<1>4. CASE state[s] \in {EC_STATE_INIT, EC_STATE_PRE_OP}
  <2>1. Handled(s, reached) = Reconfigure(s, reached)
    BY <1>4 DEF Handled
  <2>2. Handled(s, reached).islost => islost[s]
    BY <2>1 DEF Reconfigure, Untouched
  <2>3. Handled(s, reached).mbx = mbxhandlerstate[s]
    BY <2>1 DEF Reconfigure, Untouched
  <2>4. QED
    BY <1>4, <2>2, <2>3
<1>5. CASE state[s] = EC_STATE_NONE /\ islost[s]
  <2>1. Handled(s, reached) = Untouched(s)
    BY <1>5 DEF Handled
  <2>2. QED
    BY <1>5, <2>1 DEF Untouched
<1>6. CASE state[s] = EC_STATE_NONE /\ ~islost[s]
  <2>1. Handled(s, reached) = CheckSilent(s)
    BY <1>6 DEF Handled
  <2>2. Handled(s, reached).islost => bus[s] = EC_STATE_NONE
    BY <2>1 DEF CheckSilent, Untouched
  <2>3. bus[s] = EC_STATE_NONE => Handled(s, reached).mbx = "lost"
    BY <2>1 DEF CheckSilent, Untouched
  <2>4. QED
    BY <1>6, <2>2, <2>3
<1>7. QED
  BY <1>1, <1>2, <1>3, <1>4, <1>5, <1>6

-----------------------------------------------------------------------------
LEMMA InvInit == Init => IInv
<1> SUFFICES ASSUME Init PROVE IInv
  OBVIOUS
<1>1. TypeOK
  <2>1. /\ MaxFaults \in Nat /\ MaxWkc \in Nat
        /\ WD_BAD_TO_LATCH_FAULT \in Nat /\ WD_GOOD_TO_ARM \in Nat
    BY WatchdogAssumption
  <2>2. /\ EC_STATE_NONE \in ECState /\ EC_STATE_OPERATIONAL \in ECState
        /\ faults \in 0 .. MaxFaults
        /\ dowkccheck \in 0 .. MaxWkc /\ wkc_seen \in 0 .. MaxWkc
        /\ bad_count \in 0 .. WD_BAD_TO_LATCH_FAULT
        /\ down \in 0 .. WD_BAD_TO_LATCH_FAULT
        /\ good_count \in 0 .. WD_GOOD_TO_ARM /\ up \in 0 .. WD_GOOD_TO_ARM
    BY <2>1 DEF Init, ECState
  <2>3. QED
    BY <2>2 DEF Init, TypeOK, Pc
<1>2. /\ LoopInv /\ LostInv /\ WkcInv /\ CountInv /\ LatchInv /\ FlagInv
      /\ StatusIsConsistent
  BY WatchdogAssumption
     DEF Init, LoopInv, LostInv, WkcInv, CountInv, Rearming, LatchInv, FlagInv,
         StatusIsConsistent
<1>3. QED
  BY <1>1, <1>2 DEF IInv

\* A step that leaves the watchdog's own state alone keeps the invariant.
LEMMA EnvironmentKeepsInv ==
  ASSUME IInv, TypeOK', WkcInv', reset_req' \in {reset_req, 1},
         UNCHANGED watchdogVars
  PROVE  IInv'
<1>1. LoopInv' /\ LostInv' /\ CountInv' /\ LatchInv'
  BY DEF IInv, LoopInv, LostInv, CountInv, Rearming, LatchInv, watchdogVars,
         flagVars, localVars, verdict, rounds
<1>2. FlagInv' /\ StatusIsConsistent'
  BY DEF IInv, FlagInv, StatusIsConsistent, watchdogVars, flagVars, localVars
<1>3. QED
  BY <1>1, <1>2 DEF IInv

LEMMA SlaveFailsKeepsInv ==
  ASSUME IInv, NEW s \in Slave, SlaveFails(s) PROVE IInv'
<1> USE DEF SlaveFails, busVars, soemVars, flagVars, localVars, verdict,
            historyVars, rounds
<1>1. TypeOK'
  BY WatchdogAssumption DEF IInv, TypeOK
<1>2. WkcInv' /\ reset_req' \in {reset_req, 1}
  BY DEF IInv, WkcInv
<1>3. UNCHANGED watchdogVars
  BY DEF watchdogVars
<1>4. QED
  BY <1>1, <1>2, <1>3, EnvironmentKeepsInv

LEMMA SlaveReturnsKeepsInv ==
  ASSUME IInv, NEW s \in Slave, SlaveReturns(s) PROVE IInv'
<1> USE DEF SlaveReturns, busVars, soemVars, flagVars, localVars, verdict,
            historyVars, rounds
<1>1. TypeOK'
  BY DEF IInv, TypeOK
<1>2. WkcInv' /\ reset_req' \in {reset_req, 1}
  BY DEF IInv, WkcInv
<1>3. UNCHANGED watchdogVars
  BY DEF watchdogVars
<1>4. QED
  BY <1>1, <1>2, <1>3, EnvironmentKeepsInv

LEMMA SlaveObeysKeepsInv ==
  ASSUME IInv, NEW s \in Slave, SlaveObeys(s) PROVE IInv'
<1> USE DEF SlaveObeys, busVars, soemVars, flagVars, localVars, verdict,
            historyVars, rounds
<1>1. TypeOK'
  BY DEF IInv, TypeOK, ECState
<1>2. WkcInv' /\ reset_req' \in {reset_req, 1}
  BY DEF IInv, WkcInv
<1>3. UNCHANGED watchdogVars
  BY DEF watchdogVars
<1>4. QED
  BY <1>1, <1>2, <1>3, EnvironmentKeepsInv

\* A frame that comes back wrong makes the count positive.
LEMMA RtCycleKeepsInv ==
  ASSUME IInv, NEW lost \in BOOLEAN, RtCycle(lost) PROVE IInv'
<1> USE DEF RtCycle, busVars, soemVars, flagVars, localVars, verdict,
            historyVars, rounds
<1>1. TypeOK'
  BY WatchdogAssumption DEF IInv, TypeOK, CountUp
<1>2. WkcInv' /\ reset_req' \in {reset_req, 1}
  BY WatchdogAssumption DEF IInv, TypeOK, WkcInv, CountUp
<1>3. UNCHANGED watchdogVars
  BY DEF watchdogVars
<1>4. QED
  BY <1>1, <1>2, <1>3, EnvironmentKeepsInv

LEMMA RequestResetKeepsInv ==
  ASSUME IInv, RequestReset PROVE IInv'
<1> USE DEF RequestReset, busVars, soemVars, flagVars, localVars, verdict,
            historyVars, rounds
<1>1. TypeOK'
  BY DEF IInv, TypeOK
<1>2. WkcInv' /\ reset_req' \in {reset_req, 1}
  BY DEF IInv, WkcInv
<1>3. UNCHANGED watchdogVars
  BY DEF watchdogVars
<1>4. QED
  BY <1>1, <1>2, <1>3, EnvironmentKeepsInv

LEMMA WdSampleKeepsInv == ASSUME IInv, WdSample PROVE IInv'
<1> USE DEF WdSample, busVars, soemVars, flagVars
<1>1. TypeOK'
  BY DEF IInv, TypeOK, Pc
<1>2. LoopInv' /\ LostInv' /\ WkcInv' /\ CountInv'
  BY DEF IInv, LoopInv, LostInv, WkcInv, CountInv
<1>3. LatchInv' /\ FlagInv' /\ StatusIsConsistent'
  BY DEF IInv, Rearming, LatchInv, FlagInv, StatusIsConsistent
<1>4. QED
  BY <1>1, <1>2, <1>3 DEF IInv

\* The one step that counts: the driver's verdict and the bus itself.
LEMMA WdReadStateKeepsInv == ASSUME IInv, WdReadState PROVE IInv'
<1> USE DEF WdReadState, busVars, flagVars
<1>1. TypeOK'
  <2>1. /\ WD_BAD_TO_LATCH_FAULT \in Nat
        /\ WD_GOOD_TO_ARM \in Nat
    BY WatchdogAssumption
  <2>2. /\ bad_count' \in 0 .. WD_BAD_TO_LATCH_FAULT
        /\ good_count' \in 0 .. WD_GOOD_TO_ARM
        /\ up' \in 0 .. WD_GOOD_TO_ARM
        /\ down' \in 0 .. WD_BAD_TO_LATCH_FAULT
    <3>1. /\ CountUp(bad_count, WD_BAD_TO_LATCH_FAULT)
                 \in 0 .. WD_BAD_TO_LATCH_FAULT
          /\ CountUp(down, WD_BAD_TO_LATCH_FAULT)
                 \in 0 .. WD_BAD_TO_LATCH_FAULT
          /\ CountUp(good_count, WD_GOOD_TO_ARM) \in 0 .. WD_GOOD_TO_ARM
          /\ CountUp(up, WD_GOOD_TO_ARM) \in 0 .. WD_GOOD_TO_ARM
      BY <2>1 DEF IInv, TypeOK, CountUp
    <3>2. /\ bad_count' \in {0, CountUp(bad_count, WD_BAD_TO_LATCH_FAULT)}
          /\ good_count' \in {0, CountUp(good_count, WD_GOOD_TO_ARM)}
      OBVIOUS
    <3>3. /\ up' \in {0, CountUp(up, WD_GOOD_TO_ARM)}
          /\ down' \in {0, CountUp(down, WD_BAD_TO_LATCH_FAULT)}
      OBVIOUS
    <3>4. QED
      BY <2>1, <3>1, <3>2, <3>3
  <2>3. all_op' \in BOOLEAN
    OBVIOUS
  <2>4. pc' \in Pc
    BY DEF Pc
  <2>5. QED
    BY <2>2, <2>3, <2>4 DEF IInv, TypeOK
<1>2. /\ LoopInv' /\ LostInv' /\ WkcInv' /\ LatchInv' /\ FlagInv'
      /\ StatusIsConsistent'
  <2>1. pc = "readstate" /\ pc' \in {"recover", "latch"}
    OBVIOUS
  <2>2. LoopInv' /\ LostInv' /\ WkcInv'
    BY DEF IInv, LoopInv, LostInv, WkcInv, NeedsRecovery
  <2>3. LatchInv' /\ FlagInv'
    BY <2>1 DEF Rearming, LatchInv, FlagInv
  <2>4. StatusIsConsistent'
    BY <2>1 DEF IInv, StatusIsConsistent
  <2>5. QED
    BY <2>2, <2>3, <2>4
<1>3. CountInv'
  <2>1. CASE BusOk(all_op')
    <3>1. ~wrong_seen /\ \A s \in Slave : bus[s] = EC_STATE_OPERATIONAL
      <4>1. wkc_seen = 0 /\ all_op'
        BY <2>1 DEF BusOk
      <4>2. ~wrong_seen
        BY <4>1 DEF IInv, WkcInv
      <4>3. QED
        BY <4>1, <4>2
    <3>2. /\ bad_count' = 0 /\ good_count' = CountUp(good_count, WD_GOOD_TO_ARM)
          /\ up' = CountUp(up, WD_GOOD_TO_ARM) /\ down' = 0
      BY <2>1, <3>1
    <3>3. QED
      BY <3>2, WatchdogAssumption DEF IInv, TypeOK, CountInv, CountUp
  <2>2. CASE ~BusOk(all_op')
    <3>1. /\ bad_count' = CountUp(bad_count, WD_BAD_TO_LATCH_FAULT)
          /\ good_count' = 0
      BY <2>2
    <3>2. /\ down' \in {0, CountUp(down, WD_BAD_TO_LATCH_FAULT)}
          /\ up' \in {0, CountUp(up, WD_GOOD_TO_ARM)}
      OBVIOUS
    <3>3. QED
      BY <3>1, <3>2, WatchdogAssumption DEF IInv, TypeOK, CountInv, CountUp
  <2>3. QED
    BY <2>1, <2>2
<1>4. QED
  BY <1>1, <1>2, <1>3 DEF IInv

LEMMA WdRecoverBeginKeepsInv == ASSUME IInv, WdRecoverBegin PROVE IInv'
<1> USE DEF WdRecoverBegin, busVars, flagVars, historyVars, rounds
<1>1. TypeOK'
  BY DEF IInv, TypeOK, Pc
<1>2. LoopInv' /\ LostInv'
  BY WatchdogAssumption DEF IInv, LoopInv, LostInv, Slave
<1>3. WkcInv' /\ CountInv' /\ LatchInv' /\ FlagInv' /\ StatusIsConsistent'
  BY DEF IInv, WkcInv, CountInv, Rearming, LatchInv, FlagInv,
         StatusIsConsistent
<1>4. QED
  BY <1>1, <1>2, <1>3 DEF IInv

\* One pass of the slave loop: the slaves behind it are as LostInv wants them
\* outside the loop.
LEMMA WdRecoverSlaveKeepsInv == ASSUME IInv, WdRecoverSlave PROVE IInv'
<1>1. slaveix \in Slave
  BY DEF IInv, LoopInv, WdRecoverSlave
<1>2. PICK reached \in {EC_STATE_INIT, EC_STATE_PRE_OP, EC_STATE_SAFE_OP} :
         LET h == Handled(slaveix, reached)
         IN  /\ reached # EC_STATE_SAFE_OP => faults < MaxFaults
             /\ faults' = IF reached # EC_STATE_SAFE_OP THEN faults + 1 ELSE faults
             /\ state' = [state EXCEPT ![slaveix] = h.st]
             /\ islost' = [islost EXCEPT ![slaveix] = StillLost(h, reached)]
             /\ mbxhandlerstate' = [mbxhandlerstate EXCEPT ![slaveix] = h.mbx]
             /\ request' = [request EXCEPT ![slaveix] = h.req]
             /\ bus' = [bus EXCEPT ![slaveix] = h.al]
  BY DEF WdRecoverSlave
<1> DEFINE h == Handled(slaveix, reached)
<1>3. /\ docheckstate' = Recheck(slaveix)
      /\ slaveix' = IF slaveix < SlaveCount THEN slaveix + 1 ELSE 1
      /\ pc = "slaves"
      /\ pc' = IF slaveix < SlaveCount THEN "slaves" ELSE "clamp"
      /\ UNCHANGED <<flagVars, reset_req, dowkccheck, wkc_seen, all_op,
                     bad_count, good_count, historyVars>>
  BY DEF WdRecoverSlave
<1>4. /\ h.st \in ECState /\ h.al \in ECState
      /\ h.mbx \in {"none", "cyclic", "lost"}
      /\ h.req \in {EC_STATE_NONE, EC_STATE_OPERATIONAL,
                    EC_STATE_SAFE_OP + EC_STATE_ACK}
      /\ StillLost(h, reached) \in BOOLEAN
  BY <1>1, HandledType DEF IInv, StillLost
<1>5. SlaveCount \in Nat /\ MaxFaults \in Nat
  BY WatchdogAssumption
<1> HIDE DEF h
<1>6. slaveix' \in Slave
  BY <1>1, <1>3, <1>5 DEF Slave
<1>7. TypeOK'
  <2>1. /\ state' \in [Slave -> ECState]
        /\ bus' \in [Slave -> ECState]
        /\ islost' \in [Slave -> BOOLEAN]
        /\ mbxhandlerstate' \in [Slave -> {"none", "cyclic", "lost"}]
        /\ request' \in [Slave -> {EC_STATE_NONE, EC_STATE_OPERATIONAL,
                                   EC_STATE_SAFE_OP + EC_STATE_ACK}]
    BY <1>1, <1>2, <1>4 DEF IInv, TypeOK, h
  <2>2. faults' \in 0 .. MaxFaults
    BY <1>2, <1>5 DEF IInv, TypeOK
  <2>3. docheckstate' \in BOOLEAN
    BY <1>3 DEF IInv, TypeOK, Recheck
  <2>4. QED
    BY <1>3, <1>6, <2>1, <2>2, <2>3
       DEF IInv, TypeOK, Pc, flagVars, historyVars, rounds
<1>8. LoopInv'
  BY <1>3, <1>6 DEF LoopInv
<1>9. LostInv'
  <2> SUFFICES ASSUME NEW s \in Slave, islost'[s]
               PROVE  /\ mbxhandlerstate'[s] = "lost"
                      /\ docheckstate' \/ (pc' = "slaves" /\ slaveix' <= s)
    BY DEF LostInv
  <2>1. CASE s = slaveix
    <3>1. StillLost(h, reached)
      BY <1>1, <1>2, <2>1 DEF h, IInv, TypeOK
    <3>2. state[slaveix] # EC_STATE_OPERATIONAL /\ h.mbx = "lost"
      BY <1>1, <3>1, StillLostIsMarked DEF h, IInv
    <3>3. mbxhandlerstate'[slaveix] = h.mbx
      BY <1>1, <1>2 DEF h, IInv, TypeOK
    <3>4. QED
      BY <1>3, <2>1, <3>2, <3>3 DEF Recheck
  <2>2. CASE s # slaveix
    <3>1. islost[s] /\ mbxhandlerstate'[s] = mbxhandlerstate[s]
      BY <1>1, <1>2, <2>2 DEF IInv, TypeOK
    <3>2. mbxhandlerstate[s] = "lost" /\ (docheckstate \/ slaveix <= s)
      BY <3>1 DEF IInv, LostInv
    <3>3. CASE docheckstate
      BY <1>3, <3>1, <3>2, <3>3 DEF Recheck
    <3>4. CASE slaveix <= s
      BY <1>1, <1>3, <1>5, <2>2, <3>1, <3>2, <3>4 DEF Slave
    <3>5. QED
      BY <3>2, <3>3, <3>4
  <2>3. QED
    BY <2>1, <2>2
<1>10. WkcInv' /\ CountInv' /\ LatchInv' /\ FlagInv' /\ StatusIsConsistent'
  BY <1>3 DEF IInv, WkcInv, CountInv, Rearming, LatchInv, FlagInv,
              StatusIsConsistent, flagVars, historyVars, rounds
<1>11. QED
  BY <1>7, <1>8, <1>9, <1>10 DEF IInv

\* The clamp leaves a count behind, never zero.
LEMMA WdClampKeepsInv == ASSUME IInv, WdClamp PROVE IInv'
<1> USE DEF WdClamp, busVars, soemVars, flagVars, verdict, historyVars, rounds
<1>1. TypeOK' /\ WkcInv'
  BY WatchdogAssumption DEF IInv, TypeOK, Pc, WkcInv
<1>2. LoopInv' /\ LostInv' /\ CountInv'
  BY DEF IInv, LoopInv, LostInv, CountInv
<1>3. LatchInv' /\ FlagInv' /\ StatusIsConsistent'
  BY DEF IInv, Rearming, LatchInv, FlagInv, StatusIsConsistent
<1>4. QED
  BY <1>1, <1>2, <1>3 DEF IInv

\* A store leaves slaves, recovery and counters alone; what is left to show is
\* what it does to the flags.
LEMMA StoreKeepsInv ==
  ASSUME IInv, NEW here \in Pc, NEW next \in Pc, Store(here, next),
         next \notin {"recover", "slaves"}, here # "slaves",
         fault_latched' \in {0, 1}, in_op' \in {0, 1}, reset_req' \in {0, 1},
         ethercat_state' \in {EC_STATE_SAFE_OP, EC_STATE_OPERATIONAL},
         dowkccheck' \in 0 .. MaxWkc, asked' \in BOOLEAN,
         frame_wrong' \in BOOLEAN, frame_wrong' => dowkccheck' > 0,
         LatchInv', FlagInv', StatusIsConsistent'
  PROVE  IInv'
<1> USE DEF Store, busVars, soemVars, verdict, rounds
<1>1. TypeOK'
  BY DEF IInv, TypeOK
<1>2. LoopInv' /\ LostInv' /\ WkcInv' /\ CountInv'
  BY DEF IInv, LoopInv, LostInv, WkcInv, CountInv
<1>3. QED
  BY <1>1, <1>2 DEF IInv

\* Past this step a bad count at its threshold has latched the fault.
LEMMA WdLatchKeepsInv == ASSUME IInv, WdLatch PROVE IInv'
<1> USE DEF WdLatch, IInv, TypeOK
<1>1. LatchInv'
  BY DEF Store, verdict, Rearming, LatchInv
<1>2. FlagInv' /\ StatusIsConsistent'
  BY DEF Store, FlagInv, StatusIsConsistent, EC_STATE_SAFE_OP,
         EC_STATE_OPERATIONAL
<1> DEFINE next == IF bad_count >= WD_BAD_TO_LATCH_FAULT THEN "cut" ELSE "reset"
<1>3. Store("latch", next) /\ next \in Pc /\ next \notin {"recover", "slaves"}
  BY DEF Pc
<1>4. "latch" \in Pc /\ asked' \in BOOLEAN /\ WkcInv
  BY DEF Pc
<1> HIDE DEF next
<1>5. QED
  BY <1>1, <1>2, <1>3, <1>4, StoreKeepsInv DEF WkcInv

LEMMA WdCutKeepsInv == ASSUME IInv, WdCut PROVE IInv'
<1> USE DEF WdCut, IInv, TypeOK, flagVars
<1> DEFINE next == IF in_op # 0 THEN "report" ELSE "reset"
<1>1. LatchInv'
  BY DEF Store, verdict, Rearming, LatchInv, CountInv, AcceptReset
<1>2. FlagInv' /\ StatusIsConsistent'
  BY DEF Store, FlagInv, LatchInv, StatusIsConsistent, AcceptReset,
         EC_STATE_SAFE_OP, EC_STATE_OPERATIONAL
<1>3. /\ Store("cut", next) /\ "cut" \in Pc /\ next \in Pc
      /\ next \notin {"recover", "slaves"}
  BY DEF Pc
<1>4. WkcInv /\ 0 \in 0 .. MaxWkc /\ EC_STATE_SAFE_OP # EC_STATE_OPERATIONAL
  BY WatchdogAssumption DEF EC_STATE_SAFE_OP, EC_STATE_OPERATIONAL
<1> HIDE DEF next
<1>5. QED
  BY <1>1, <1>2, <1>3, <1>4, StoreKeepsInv DEF WkcInv

LEMMA WdReportKeepsInv == ASSUME IInv, WdReport PROVE IInv'
<1> USE DEF WdReport, IInv, TypeOK, flagVars
<1>1. LatchInv'
  BY DEF Store, verdict, Rearming, LatchInv, CountInv, AcceptReset
<1>2. FlagInv' /\ StatusIsConsistent'
  BY DEF Store, FlagInv, LatchInv, StatusIsConsistent, AcceptReset,
         EC_STATE_SAFE_OP, EC_STATE_OPERATIONAL
<1>3. /\ Store("report", "reset") /\ "report" \in Pc /\ "reset" \in Pc
      /\ "reset" \notin {"recover", "slaves"}
  BY DEF Pc
<1>4. WkcInv /\ 0 \in 0 .. MaxWkc /\ EC_STATE_SAFE_OP # EC_STATE_OPERATIONAL
  BY WatchdogAssumption DEF EC_STATE_SAFE_OP, EC_STATE_OPERATIONAL
<1>5. QED
  BY <1>1, <1>2, <1>3, <1>4, StoreKeepsInv DEF WkcInv

LEMMA WdResetKeepsInv == ASSUME IInv, WdReset PROVE IInv'
<1> USE DEF WdReset, IInv, TypeOK, flagVars
<1> DEFINE next == IF AcceptReset THEN "rearm" ELSE "sample"
<1>1. LatchInv'
  BY DEF Store, verdict, Rearming, LatchInv, CountInv, AcceptReset
<1>2. FlagInv' /\ StatusIsConsistent'
  BY DEF Store, FlagInv, LatchInv, StatusIsConsistent, AcceptReset,
         EC_STATE_SAFE_OP, EC_STATE_OPERATIONAL
<1>3. /\ Store("reset", next) /\ "reset" \in Pc /\ next \in Pc
      /\ next \notin {"recover", "slaves"}
  BY DEF Pc
<1>4. WkcInv /\ 0 \in 0 .. MaxWkc /\ EC_STATE_SAFE_OP # EC_STATE_OPERATIONAL
  BY WatchdogAssumption DEF EC_STATE_SAFE_OP, EC_STATE_OPERATIONAL
<1> HIDE DEF next
<1>5. QED
  BY <1>1, <1>2, <1>3, <1>4, StoreKeepsInv DEF WkcInv

\* The good rounds that allow it leave no bad count behind, here and in the
\* stores that follow.
LEMMA WdRearmKeepsInv == ASSUME IInv, WdRearm PROVE IInv'
<1> USE DEF WdRearm, IInv, TypeOK, flagVars
<1>1. LatchInv'
  BY WatchdogAssumption
     DEF Store, verdict, Rearming, LatchInv, CountInv, AcceptReset
<1>2. FlagInv' /\ StatusIsConsistent'
  BY DEF Store, FlagInv, LatchInv, StatusIsConsistent, AcceptReset,
         EC_STATE_SAFE_OP, EC_STATE_OPERATIONAL
<1>3. /\ Store("rearm", "arm") /\ "rearm" \in Pc /\ "arm" \in Pc
      /\ "arm" \notin {"recover", "slaves"}
  BY DEF Pc
<1>4. WkcInv /\ 0 \in 0 .. MaxWkc /\ EC_STATE_SAFE_OP # EC_STATE_OPERATIONAL
  BY WatchdogAssumption DEF EC_STATE_SAFE_OP, EC_STATE_OPERATIONAL
<1>5. QED
  BY <1>1, <1>2, <1>3, <1>4, StoreKeepsInv DEF WkcInv

LEMMA WdArmKeepsInv == ASSUME IInv, WdArm PROVE IInv'
<1> USE DEF WdArm, IInv, TypeOK, flagVars
<1>1. LatchInv'
  BY DEF Store, verdict, Rearming, LatchInv, CountInv, AcceptReset
<1>2. FlagInv' /\ StatusIsConsistent'
  BY DEF Store, FlagInv, LatchInv, StatusIsConsistent, AcceptReset,
         EC_STATE_SAFE_OP, EC_STATE_OPERATIONAL
<1>3. /\ Store("arm", "online") /\ "arm" \in Pc /\ "online" \in Pc
      /\ "online" \notin {"recover", "slaves"}
  BY DEF Pc
<1>4. WkcInv /\ 0 \in 0 .. MaxWkc /\ EC_STATE_SAFE_OP # EC_STATE_OPERATIONAL
  BY WatchdogAssumption DEF EC_STATE_SAFE_OP, EC_STATE_OPERATIONAL
<1>5. QED
  BY <1>1, <1>2, <1>3, <1>4, StoreKeepsInv DEF WkcInv

LEMMA WdOnlineKeepsInv == ASSUME IInv, WdOnline PROVE IInv'
<1> USE DEF WdOnline, IInv, TypeOK, flagVars
<1>1. LatchInv'
  BY DEF Store, verdict, Rearming, LatchInv, CountInv, AcceptReset
<1>2. FlagInv' /\ StatusIsConsistent'
  BY DEF Store, FlagInv, LatchInv, StatusIsConsistent, AcceptReset,
         EC_STATE_SAFE_OP, EC_STATE_OPERATIONAL
<1>3. /\ Store("online", "consume") /\ "online" \in Pc /\ "consume" \in Pc
      /\ "consume" \notin {"recover", "slaves"}
  BY DEF Pc
<1>4. WkcInv /\ 0 \in 0 .. MaxWkc /\ EC_STATE_SAFE_OP # EC_STATE_OPERATIONAL
  BY WatchdogAssumption DEF EC_STATE_SAFE_OP, EC_STATE_OPERATIONAL
<1>5. QED
  BY <1>1, <1>2, <1>3, <1>4, StoreKeepsInv DEF WkcInv

LEMMA WdConsumeKeepsInv == ASSUME IInv, WdConsume PROVE IInv'
<1> USE DEF WdConsume, IInv, TypeOK, flagVars
<1>1. LatchInv'
  BY DEF Store, verdict, Rearming, LatchInv, CountInv, AcceptReset
<1>2. FlagInv' /\ StatusIsConsistent'
  BY DEF Store, FlagInv, LatchInv, StatusIsConsistent, AcceptReset,
         EC_STATE_SAFE_OP, EC_STATE_OPERATIONAL
<1>3. /\ Store("consume", "forget") /\ "consume" \in Pc /\ "forget" \in Pc
      /\ "forget" \notin {"recover", "slaves"}
  BY DEF Pc
<1>4. WkcInv /\ 0 \in 0 .. MaxWkc /\ EC_STATE_SAFE_OP # EC_STATE_OPERATIONAL
  BY WatchdogAssumption DEF EC_STATE_SAFE_OP, EC_STATE_OPERATIONAL
<1>5. QED
  BY <1>1, <1>2, <1>3, <1>4, StoreKeepsInv DEF WkcInv

LEMMA WdForgetKeepsInv == ASSUME IInv, WdForget PROVE IInv'
<1> USE DEF WdForget, IInv, TypeOK, flagVars
<1>1. LatchInv'
  BY DEF Store, verdict, Rearming, LatchInv, CountInv, AcceptReset
<1>2. FlagInv' /\ StatusIsConsistent'
  BY DEF Store, FlagInv, LatchInv, StatusIsConsistent, AcceptReset,
         EC_STATE_SAFE_OP, EC_STATE_OPERATIONAL
<1>3. /\ Store("forget", "sample") /\ "forget" \in Pc /\ "sample" \in Pc
      /\ "sample" \notin {"recover", "slaves"}
  BY DEF Pc
<1>4. WkcInv /\ 0 \in 0 .. MaxWkc /\ EC_STATE_SAFE_OP # EC_STATE_OPERATIONAL
  BY WatchdogAssumption DEF EC_STATE_SAFE_OP, EC_STATE_OPERATIONAL
<1>5. QED
  BY <1>1, <1>2, <1>3, <1>4, StoreKeepsInv DEF WkcInv

LEMMA WdEndKeepsInv == ASSUME IInv, WdEnd PROVE IInv'
<1> USE DEF WdEnd, IInv, TypeOK, flagVars
<1>1. LatchInv'
  BY DEF Store, verdict, Rearming, LatchInv, CountInv, AcceptReset
<1>2. FlagInv' /\ StatusIsConsistent'
  BY DEF Store, FlagInv, LatchInv, StatusIsConsistent, AcceptReset,
         EC_STATE_SAFE_OP, EC_STATE_OPERATIONAL
<1>3. /\ Store("sample", "ended") /\ "sample" \in Pc /\ "ended" \in Pc
      /\ "ended" \notin {"recover", "slaves"}
  BY DEF Pc
<1>4. WkcInv /\ 0 \in 0 .. MaxWkc /\ EC_STATE_SAFE_OP # EC_STATE_OPERATIONAL
  BY WatchdogAssumption DEF EC_STATE_SAFE_OP, EC_STATE_OPERATIONAL
<1>5. QED
  BY <1>1, <1>2, <1>3, <1>4, StoreKeepsInv DEF WkcInv

LEMMA StopMarkKeepsInv == ASSUME IInv, StopMark PROVE IInv'
<1> USE DEF StopMark, IInv, TypeOK, flagVars
<1>1. LatchInv'
  BY DEF Store, verdict, Rearming, LatchInv, CountInv, AcceptReset
<1>2. FlagInv' /\ StatusIsConsistent'
  BY DEF Store, FlagInv, LatchInv, StatusIsConsistent, AcceptReset,
         EC_STATE_SAFE_OP, EC_STATE_OPERATIONAL
<1>3. /\ Store("ended", "marked") /\ "ended" \in Pc /\ "marked" \in Pc
      /\ "marked" \notin {"recover", "slaves"}
  BY DEF Pc
<1>4. WkcInv /\ 0 \in 0 .. MaxWkc /\ EC_STATE_SAFE_OP # EC_STATE_OPERATIONAL
  BY WatchdogAssumption DEF EC_STATE_SAFE_OP, EC_STATE_OPERATIONAL
<1>5. QED
  BY <1>1, <1>2, <1>3, <1>4, StoreKeepsInv DEF WkcInv

LEMMA StopReportKeepsInv == ASSUME IInv, StopReport PROVE IInv'
<1> USE DEF StopReport, IInv, TypeOK, flagVars
<1>1. LatchInv'
  BY DEF Store, verdict, Rearming, LatchInv, CountInv, AcceptReset
<1>2. FlagInv' /\ StatusIsConsistent'
  BY DEF Store, FlagInv, LatchInv, StatusIsConsistent, AcceptReset,
         EC_STATE_SAFE_OP, EC_STATE_OPERATIONAL
<1>3. /\ Store("marked", "stopped") /\ "marked" \in Pc /\ "stopped" \in Pc
      /\ "stopped" \notin {"recover", "slaves"}
  BY DEF Pc
<1>4. WkcInv /\ 0 \in 0 .. MaxWkc /\ EC_STATE_SAFE_OP # EC_STATE_OPERATIONAL
  BY WatchdogAssumption DEF EC_STATE_SAFE_OP, EC_STATE_OPERATIONAL
<1>5. QED
  BY <1>1, <1>2, <1>3, <1>4, StoreKeepsInv DEF WkcInv

\* No step of the bus, the operator or the two threads leaves IInv.
LEMMA InvStep == IInv /\ [Next]_vars => IInv'
<1> SUFFICES ASSUME IInv, [Next]_vars PROVE IInv'
  OBVIOUS
<1>1. CASE \E s \in Slave : SlaveFails(s) \/ SlaveReturns(s) \/ SlaveObeys(s)
  BY <1>1, SlaveFailsKeepsInv, SlaveReturnsKeepsInv, SlaveObeysKeepsInv
<1>2. CASE \E lost \in BOOLEAN : RtCycle(lost)
  BY <1>2, RtCycleKeepsInv
<1>3. CASE RequestReset
  BY <1>3, RequestResetKeepsInv
<1>4. CASE WdRound
  BY <1>4, WdSampleKeepsInv, WdReadStateKeepsInv, WdRecoverBeginKeepsInv,
     WdRecoverSlaveKeepsInv, WdClampKeepsInv, WdLatchKeepsInv,
     WdCutKeepsInv, WdReportKeepsInv, WdResetKeepsInv, WdRearmKeepsInv,
     WdArmKeepsInv, WdOnlineKeepsInv, WdConsumeKeepsInv, WdForgetKeepsInv
     DEF WdRound
<1>5. CASE WdEnd \/ Stop
  BY <1>5, WdEndKeepsInv, StopMarkKeepsInv, StopReportKeepsInv DEF Stop
<1>6. CASE UNCHANGED vars
  <2> USE <1>6 DEF vars, busVars, soemVars, flagVars, localVars, verdict,
                   historyVars, rounds
  <2>1. TypeOK'
    BY DEF IInv, TypeOK
  <2>2. WkcInv' /\ reset_req' = reset_req
    BY DEF IInv, WkcInv
  <2>3. UNCHANGED watchdogVars
    BY DEF watchdogVars
  <2>4. QED
    BY <2>1, <2>2, <2>3, EnvironmentKeepsInv
<1>7. QED
  BY <1>1, <1>2, <1>3, <1>4, <1>5, <1>6 DEF Next

\* The inductive invariant holds in every reachable state.
THEOREM Invariance == Spec => []IInv
BY InvInit, InvStep, PTL DEF Spec

\* Every variable keeps its type, whatever states the slaves go through and
\* whatever SOEM reports.
THEOREM TypeCorrect == Spec => []TypeOK
<1>1. IInv => TypeOK
  BY DEF IInv
<1>2. QED
  BY <1>1, Invariance, PTL

-----------------------------------------------------------------------------
\* A lost slave keeps the recovery running and the mailbox handler away until
\* ecat_watchdog_thread finds it again.
THEOREM LostAreTended == Spec => []LostIsTended
<1>1. IInv => LostIsTended
  BY DEF IInv, LostInv, LostIsTended
<1>2. QED
  BY <1>1, Invariance, PTL

\* in_op, ethercat_state and the latch tell one story whenever nobody is between
\* two of their stores, and down means down after a stop (ecat_watchdog_thread,
\* ethercat_stop).
THEOREM StatusAgrees == Spec => []StatusIsConsistent
<1>1. IInv => StatusIsConsistent
  BY DEF IInv
<1>2. QED
  BY <1>1, Invariance, PTL

\* A bus found broken for WD_BAD_TO_LATCH_FAULT rounds, by its slaves or by its
\* frames, is latched and the driver down, whatever the recovery did meanwhile.
THEOREM FaultsAreLatched == Spec => []PersistentFaultIsLatched
<1>1. IInv => PersistentFaultIsLatched
  <2> SUFFICES ASSUME IInv, down >= WD_BAD_TO_LATCH_FAULT,
                      pc \notin {"recover", "slaves", "clamp", "latch", "cut",
                                 "report"}
               PROVE  /\ fault_latched = 1 /\ in_op = 0
                      /\ ethercat_state = EC_STATE_SAFE_OP
    BY DEF PersistentFaultIsLatched
  <2>1. bad_count >= WD_BAD_TO_LATCH_FAULT
    BY WatchdogAssumption DEF IInv, TypeOK, CountInv
  <2>2. fault_latched = 1
    BY <2>1 DEF IInv, LatchInv
  <2>3. pc \notin Rearming
    BY <2>1, WatchdogAssumption DEF IInv, TypeOK, CountInv, LatchInv
  <2>4. QED
    BY <2>2, <2>3
       DEF IInv, TypeOK, Rearming, FlagInv, StatusIsConsistent,
           EC_STATE_SAFE_OP, EC_STATE_OPERATIONAL
<1>2. QED
  BY <1>1, Invariance, PTL

\* The flags and the request are changed by the stores of ecat_watchdog_thread
\* and ethercat_stop, and the request by the operator.
LEMMA FlagsChangeInStores ==
  ASSUME [Next]_vars
  PROVE  \/ RequestReset
         \/ WdLatch \/ WdCut \/ WdReport
         \/ WdRearm \/ WdArm \/ WdOnline \/ WdConsume
         \/ StopMark \/ StopReport
         \/ UNCHANGED <<flagVars, reset_req>>
BY DEF Next, WdRound, Stop, SlaveFails, SlaveReturns, SlaveObeys, RtCycle,
       WdSample, WdReadState, WdRecoverBegin, WdRecoverSlave, WdClamp, WdReset, WdForget,
       WdEnd, vars

\* The driver is re-armed only after WD_GOOD_TO_ARM rounds in a row that found
\* every slave OPERATIONAL and the last frame right.
THEOREM RearmsAreEarned == Spec => RearmIsEarned
<1>1. IInv /\ [Next]_vars =>
         [fault_latched = 1 /\ fault_latched' = 0 => up >= WD_GOOD_TO_ARM]_vars
  <2> SUFFICES ASSUME IInv, [Next]_vars, fault_latched = 1, fault_latched' = 0
               PROVE  up >= WD_GOOD_TO_ARM
    OBVIOUS
  <2>1. CASE WdRearm
    BY <2>1, WatchdogAssumption
       DEF WdRearm, Store, IInv, TypeOK, Rearming, LatchInv, CountInv
  <2>2. fault_latched' = fault_latched \/ WdLatch \/ WdRearm
    BY FlagsChangeInStores
       DEF RequestReset, WdCut, WdReport, WdArm, WdOnline, WdConsume, StopMark,
           StopReport, flagVars
  <2>3. ~WdLatch
    BY DEF WdLatch
  <2>4. QED
    BY <2>1, <2>2, <2>3
<1>2. QED
  BY <1>1, Invariance, PTL DEF Spec, RearmIsEarned

-----------------------------------------------------------------------------
\* The latch as FaultLatch sees it.
Stopped == pc \in {"ended", "marked", "stopped"}
Wanted == reset_req = 1 /\ pc \notin {"arm", "online", "consume"}

\* Nobody is between two stores: the displays show what the latch says.
LEMMA AgreedAtRest ==
  ASSUME IInv, pc \notin {"cut", "report", "arm", "online"}, ~Stopped
  PROVE  Latch!Agreed
<1>1. in_op = 1 <=> fault_latched = 0
  BY DEF IInv, StatusIsConsistent, Stopped
<1>2. in_op = 1 <=> ethercat_state = EC_STATE_OPERATIONAL
  BY DEF IInv, StatusIsConsistent, Stopped
<1>3. fault_latched \in {0, 1}
  BY DEF IInv, TypeOK
<1>4. QED
  BY <1>1, <1>2, <1>3 DEF Latch!Agreed, Latch!Operational, Stopped

\* The displays of the latch, by name.
InOp == "in_op"
State == "ethercat_state"
Shown == [d \in {InOp, State} |->
             IF d = InOp THEN in_op = 1
             ELSE ethercat_state = EC_STATE_OPERATIONAL]

LEMMA LatchInit == Init => Latch!Init
<1> SUFFICES ASSUME Init PROVE Latch!Init
  OBVIOUS
<1>1. fault_latched # 1 /\ in_op = 1 /\ ethercat_state = EC_STATE_OPERATIONAL
  BY DEF Init
<1>2. ~Stopped /\ ~Wanted /\ up = 0 /\ down = 0
  BY DEF Init, Stopped, Wanted
<1>3. Shown = [d \in {InOp, State} |-> TRUE]
  BY <1>1 DEF Shown
<1>4. /\ (fault_latched = 1) = FALSE
      /\ Stopped = FALSE
      /\ Wanted = FALSE
  BY <1>1, <1>2
<1>5. QED
  BY <1>2, <1>3, <1>4 DEF Latch!Init, Stopped, Wanted, Shown, InOp, State

\* The latch is blind to a step that changes neither flags nor counts.
LEMMA BlindStep ==
  ASSUME UNCHANGED <<flagVars, Stopped, Wanted, up, down>>
  PROVE  UNCHANGED Latch!vars
BY DEF flagVars, Stopped, Wanted, Latch!vars

\* A store that brings one display in line with the latch.
LEMMA InOpFollows ==
  ASSUME UNCHANGED <<fault_latched, ethercat_state, Stopped, Wanted, up, down>>,
         (in_op' = 1) = (fault_latched # 1 /\ ~Stopped)
  PROVE  Latch!Next \/ UNCHANGED Latch!vars
<1> DEFINE op == fault_latched # 1 /\ ~Stopped
<1>1. CASE (in_op = 1) = op
  <2>1. (in_op' = 1) = (in_op = 1)
    BY <1>1
  <2>2. QED
    BY <2>1 DEF Stopped, Wanted, Latch!vars
<1>2. CASE (in_op = 1) # op
  <2>1. Shown' = [Shown EXCEPT ![InOp] = op]
    BY DEF Shown, InOp, State
  <2>2. Shown[InOp] # op
    BY <1>2 DEF Shown
  <2>3. Latch!Follow(InOp)
    BY <2>1, <2>2 DEF Shown, InOp, State, Stopped, Wanted, Latch!Follow,
       Latch!Operational
  <2>4. QED
    BY <2>3 DEF Latch!Next, InOp
<1>3. QED
  BY <1>1, <1>2

LEMMA StateFollows ==
  ASSUME UNCHANGED <<fault_latched, in_op, Stopped, Wanted, up, down>>,
         (ethercat_state' = EC_STATE_OPERATIONAL)
             = (fault_latched # 1 /\ ~Stopped)
  PROVE  Latch!Next \/ UNCHANGED Latch!vars
<1> DEFINE op == fault_latched # 1 /\ ~Stopped
           up_now == ethercat_state = EC_STATE_OPERATIONAL
<1>1. CASE up_now = op
  <2>1. up_now' = up_now
    BY <1>1
  <2>2. QED
    BY <2>1 DEF Stopped, Wanted, Latch!vars
<1>2. CASE up_now # op
  <2>1. Shown' = [Shown EXCEPT ![State] = op]
    BY DEF Shown, InOp, State
  <2>2. Shown[State] # op
    BY <1>2 DEF Shown, InOp, State
  <2>3. Latch!Follow(State)
    BY <2>1, <2>2 DEF Shown, InOp, State, Stopped, Wanted, Latch!Follow,
       Latch!Operational
  <2>4. QED
    BY <2>3 DEF Latch!Next, State
<1>3. QED
  BY <1>1, <1>2

\* One step of the watchdog, the stop, the bus or the operator is one of the
\* latch, or nothing to it.
LEMMA LatchStep == IInv /\ IInv' /\ [Next]_vars => [Latch!Next]_(Latch!vars)
<1> SUFFICES ASSUME IInv, IInv', [Next]_vars
             PROVE  Latch!Next \/ UNCHANGED Latch!vars
  OBVIOUS
<1>0. /\ fault_latched \in {0, 1} /\ in_op \in {0, 1} /\ reset_req \in {0, 1}
      /\ fault_latched' \in {0, 1} /\ in_op' \in {0, 1}
      /\ EC_STATE_SAFE_OP # EC_STATE_OPERATIONAL
  BY DEF IInv, TypeOK, EC_STATE_SAFE_OP, EC_STATE_OPERATIONAL
\* The bus is looked at.
<1>1. CASE WdReadState
  <2>1. pc = "readstate" /\ pc' \in {"recover", "latch"}
    BY <1>1 DEF WdReadState
  <2>2. UNCHANGED <<flagVars, reset_req, Stopped, Wanted>>
    BY <1>1, <2>1 DEF WdReadState, Stopped, Wanted
  <2>3. Latch!Agreed /\ ~Stopped
    BY <2>1, AgreedAtRest DEF Stopped
  <2>4. down = WD_BAD_TO_LATCH_FAULT => fault_latched = 1
    BY <2>1, WatchdogAssumption DEF IInv, TypeOK, LatchInv, CountInv
  <2>5. \/ up' = CountUp(up, WD_GOOD_TO_ARM) /\ down' = 0
        \/ up' = 0 /\ down' = CountUp(down, WD_BAD_TO_LATCH_FAULT)
    BY <1>1 DEF WdReadState
  <2>6. Latch!Look
    BY <2>2, <2>3, <2>4, <2>5
       DEF Latch!Look, Latch!Counted, CountUp, flagVars, Stopped, Wanted
  <2>7. QED
    BY <2>6 DEF Latch!Next
\* The latch closes; both displays follow.
<1>2. CASE WdLatch
  <2>1. pc = "latch" /\ pc' \in {"cut", "reset"}
    BY <1>2 DEF WdLatch, Store
  <2>2. UNCHANGED <<in_op, ethercat_state, Stopped, Wanted, up, down>>
    BY <1>2, <2>1 DEF WdLatch, Store, rounds, Stopped, Wanted
  <2>3. CASE fault_latched' = fault_latched
    BY <2>2, <2>3, BlindStep DEF flagVars
  <2>4. CASE fault_latched' # fault_latched
    <3>1. fault_latched = 0 /\ fault_latched' = 1
      BY <1>0, <1>2, <2>4 DEF WdLatch
    <3>2. Latch!Agreed /\ ~Stopped
      BY <2>1, AgreedAtRest DEF Stopped
    <3>3. Latch!Latch
      BY <2>2, <3>1, <3>2 DEF Latch!Latch, Stopped, Wanted
    <3>4. QED
      BY <3>3 DEF Latch!Next
  <2>5. QED
    BY <2>3, <2>4
<1>3. CASE WdCut
  <2>1. pc = "cut" /\ pc' \in {"report", "reset"} /\ in_op' = 0
    BY <1>3 DEF WdCut, Store
  <2>2. UNCHANGED <<fault_latched, ethercat_state, Stopped, Wanted, up, down>>
    BY <1>3, <2>1 DEF WdCut, Store, rounds, Stopped, Wanted
  <2>3. fault_latched = 1
    BY <2>1 DEF IInv, LatchInv
  <2>4. QED
    BY <2>1, <2>2, <2>3, InOpFollows
<1>4. CASE WdReport
  <2>1. pc = "report" /\ pc' = "reset" /\ ethercat_state' = EC_STATE_SAFE_OP
    BY <1>4 DEF WdReport, Store
  <2>2. UNCHANGED <<fault_latched, in_op, Stopped, Wanted, up, down>>
    BY <1>4, <2>1 DEF WdReport, Store, rounds, Stopped, Wanted
  <2>3. fault_latched = 1
    BY <2>1 DEF IInv, LatchInv
  <2>4. QED
    BY <1>0, <2>1, <2>2, <2>3, StateFollows
\* The latch opens, the request is used up, and both displays follow.
<1>5. CASE WdRearm
  <2>1. /\ pc = "rearm" /\ pc' = "arm" /\ fault_latched' = 0
        /\ UNCHANGED <<in_op, ethercat_state, up, down>>
    BY <1>5 DEF WdRearm, Store, rounds
  <2>2. fault_latched = 1 /\ reset_req = 1
    BY <2>1 DEF IInv, FlagInv
  <2>3. up = WD_GOOD_TO_ARM
    BY <2>1, WatchdogAssumption
       DEF IInv, TypeOK, Rearming, LatchInv, CountInv
  <2>4. Latch!Agreed /\ ~Stopped /\ ~Stopped'
    BY <2>1, AgreedAtRest DEF Stopped
  <2>5. Wanted /\ ~Wanted'
    BY <2>1, <2>2 DEF Wanted
  <2>6. Latch!Rearm
    BY <2>1, <2>2, <2>3, <2>4, <2>5 DEF Latch!Rearm, Stopped, Wanted
  <2>7. QED
    BY <2>6 DEF Latch!Next
<1>6. CASE WdArm
  <2>1. pc = "arm" /\ pc' = "online" /\ in_op' = 1
    BY <1>6 DEF WdArm, Store
  <2>2. UNCHANGED <<fault_latched, ethercat_state, Stopped, Wanted, up, down>>
    BY <1>6, <2>1 DEF WdArm, Store, rounds, Stopped, Wanted
  <2>3. fault_latched = 0 /\ ~Stopped
    BY <2>1 DEF IInv, FlagInv, Stopped
  <2>4. QED
    BY <2>1, <2>2, <2>3, InOpFollows
<1>7. CASE WdOnline
  <2>1. /\ pc = "online" /\ pc' = "consume"
        /\ ethercat_state' = EC_STATE_OPERATIONAL
    BY <1>7 DEF WdOnline, Store
  <2>2. UNCHANGED <<fault_latched, in_op, Stopped, Wanted, up, down>>
    BY <1>7, <2>1 DEF WdOnline, Store, rounds, Stopped, Wanted
  <2>3. fault_latched = 0 /\ ~Stopped
    BY <2>1 DEF IInv, FlagInv, Stopped
  <2>4. QED
    BY <2>1, <2>2, <2>3, StateFollows
\* Consumed with the request honoured just before.
<1>8. CASE WdConsume
  <2>1. pc = "consume" /\ pc' = "forget" /\ reset_req' = 0
    BY <1>8 DEF WdConsume, Store
  <2>2. UNCHANGED <<flagVars, Stopped, Wanted, up, down>>
    BY <1>8, <2>1 DEF WdConsume, Store, rounds, Stopped, Wanted
  <2>3. QED
    BY <2>2, BlindStep
<1>9. CASE RequestReset
  <2>1. UNCHANGED <<flagVars, pc, Stopped, up, down>> /\ reset_req' = 1
    BY <1>9 DEF RequestReset, localVars, rounds, Stopped
  <2>2. CASE pc \in {"arm", "online", "consume"}
    <3>1. Wanted' = Wanted
      BY <2>1, <2>2 DEF Wanted
    <3>2. QED
      BY <2>1, <3>1, BlindStep
  <2>3. CASE pc \notin {"arm", "online", "consume"}
    <3>1. Wanted'
      BY <2>1, <2>3 DEF Wanted
    <3>2. Latch!Ask
      BY <2>1, <3>1 DEF flagVars, Latch!Ask, Stopped, Wanted
    <3>3. QED
      BY <3>2 DEF Latch!Next
  <2>4. QED
    BY <2>2, <2>3
\* The watchdog has ended; both displays follow.
<1>10. CASE WdEnd
  <2>1. pc = "sample" /\ pc' = "ended" /\ UNCHANGED reset_req
    BY <1>10 DEF WdEnd, Store
  <2>2. UNCHANGED <<flagVars, Wanted, up, down>>
    BY <1>10, <2>1 DEF WdEnd, Store, rounds, Wanted
  <2>3. Latch!Agreed /\ ~Stopped /\ Stopped'
    BY <2>1, AgreedAtRest DEF Stopped
  <2>4. Latch!Stop
    BY <2>2, <2>3 DEF flagVars, Latch!Stop, Stopped, Wanted
  <2>5. QED
    BY <2>4 DEF Latch!Next
<1>11. CASE StopMark
  <2>1. pc = "ended" /\ pc' = "marked" /\ in_op' = 0
    BY <1>11 DEF StopMark, Store
  <2>2. UNCHANGED <<fault_latched, ethercat_state, Stopped, Wanted, up, down>>
    BY <1>11, <2>1 DEF StopMark, Store, rounds, Stopped, Wanted
  <2>3. QED
    BY <2>1, <2>2, InOpFollows DEF Stopped
<1>12. CASE StopReport
  <2>1. /\ pc = "marked" /\ pc' = "stopped"
        /\ ethercat_state' = EC_STATE_SAFE_OP
    BY <1>12 DEF StopReport, Store
  <2>2. UNCHANGED <<fault_latched, in_op, Stopped, Wanted, up, down>>
    BY <1>12, <2>1 DEF StopReport, Store, rounds, Stopped, Wanted
  <2>3. QED
    BY <1>0, <2>1, <2>2, StateFollows DEF Stopped
<1>13. CASE /\ UNCHANGED <<flagVars, reset_req, up, down>>
            /\ \/ UNCHANGED pc
               \/ pc' \notin {"arm", "online", "consume", "ended", "marked",
                              "stopped"}
                  /\ pc \notin {"arm", "online", "consume", "ended", "marked",
                                "stopped"}
  BY <1>13, BlindStep DEF Stopped, Wanted
<1>14. CASE \/ \E s \in Slave :
                  SlaveFails(s) \/ SlaveReturns(s) \/ SlaveObeys(s)
            \/ \E lost \in BOOLEAN : RtCycle(lost)
            \/ UNCHANGED vars
  BY <1>13, <1>14
     DEF SlaveFails, SlaveReturns, SlaveObeys, RtCycle, localVars, historyVars,
         rounds, vars
<1>15. CASE \/ WdSample \/ WdRecoverBegin \/ WdRecoverSlave \/ WdClamp
            \/ WdReset \/ WdForget
  BY <1>13, <1>15
     DEF WdSample, WdRecoverBegin, WdRecoverSlave, WdClamp, WdReset, WdForget,
         Store, historyVars, rounds
<1>16. QED
  BY <1>1, <1>2, <1>3, <1>4, <1>5, <1>6, <1>7, <1>8, <1>9, <1>10, <1>11, <1>12,
     <1>14, <1>15 DEF Next, WdRound, Stop

\* For any number of slaves and any thresholds: the latch, the two flags that
\* follow it, the reset request, the stop and the rounds of the watchdog behave
\* as FaultLatch says, store by store (ecat_watchdog_thread, ethercat_stop).
THEOREM WatchdogImplementsLatch == Spec => ImplementsLatch
BY InvInit, InvStep, LatchInit, LatchStep, PTL
   DEF Spec, ImplementsLatch, Latch!Spec
=============================================================================
