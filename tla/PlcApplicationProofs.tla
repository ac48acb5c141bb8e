------------------------ MODULE PlcApplicationProofs ------------------------
(***************************************************************************)
(* Proofs about PlcApplication, on top of those about Scheduler and Tags:  *)
(* for any table of tasks, any threshold of the counter and any delays.    *)
(***************************************************************************)
EXTENDS PlcApplication, SchedulerProofs, TagsProofs

\* A step of the program is a step of its scheduler.
LEMMA StepIsScheduled ==
  ASSUME [AppNext]_allVars
  PROVE  [Next]_vars
BY DEF AppNext, RunApplication, Others, Next, Thread, allVars

\* The application changes nothing the scheduler depends on.
THEOREM ImplementsScheduler == AppSpec => Spec
<1>1. AppInit => Init
  BY DEF AppInit
<1>2. QED
  BY <1>1, StepIsScheduled, PTL DEF AppSpec, Spec

\* So with the application, too, no period is lost or doubled, the table keeps
\* its bounds, and a stop is near.
THEOREM ScheduleIsKept ==
  AppSpec => [](TypeOK /\ RunsMatchTime) /\ StopIsNear
BY ImplementsScheduler, TypeCorrect, RhythmIsKept, StopTerminates, PTL

-----------------------------------------------------------------------------
\* X15_1 is an output BOOL of device 0, placed in its image.
LEMMA X15IsWritable ==
  /\ x15.dtype = "BOOL" /\ x15.vtype = "OUT" /\ x15.device = 0
  /\ x15.bit \in 0 .. 7 /\ x15.offset \in Nat
BY X15IsInImage DEF x15, PLC_Tags_desc_arr, IoTag, X15_BIT

LEMMA X15IsPlaced ==
  /\ IsPlaced(x15, BlankOutputs[0]) /\ ValuesOf(x15) = {0, 1}
  /\ Writable(x15, BlankOutputs)
<1>1. DOMAIN BlankOutputs = {0}
      /\ BlankOutputs[0] = [o \in 0 .. SizeOf(L230_RX_PDO) - 1 |-> 0]
  BY DEF BlankOutputs
<1>2. BytesOf(x15) = {x15.offset}
  BY X15IsWritable DEF BytesOf, plc_type_size
<1>3. IsPlaced(x15, BlankOutputs[0])
  BY <1>1, <1>2, X15IsWritable, X15IsInImage DEF IsPlaced, plc_type_size, Byte
<1>4. QED
  BY <1>1, <1>3, X15IsWritable DEF ValuesOf, Writable

\* Writing 0 to it leaves the image blank, and a write takes the place of the
\* one before.
LEMMA X15HasOneValue ==
  /\ plc_tag_write(x15, 0, BlankOutputs) = BlankOutputs
  /\ \A v, w \in {0, 1} :
        plc_tag_write(x15, w, plc_tag_write(x15, v, BlankOutputs))
            = plc_tag_write(x15, w, BlankOutputs)
<1> DEFINE blank == BlankOutputs[0]
           Only(image) == [d \in {0} |-> image]
<1>1. BlankOutputs = Only(blank)
  BY DEF BlankOutputs
<1>2. ASSUME NEW image, NEW v
      PROVE  plc_tag_write(x15, v, Only(image)) = Only(Stored(image, x15, v))
  BY X15IsWritable DEF plc_tag_write, Writable
<1>3. Stored(blank, x15, 0) = blank
  <2>1. GetBit(0, x15.bit) = 0 /\ SetBit(0, x15.bit, 0) = 0
    <3> DEFINE p == 2 ^ x15.bit
    <3>1. p \in Weight /\ p % 256 = p
      BY X15IsWritable, WeightOfBit
    <3> HIDE DEF p
    <3>2. (0 \div p) % 2 = 0 /\ 0 + (0 - 0) * p = 0
      BY <3>1, SMT DEF Weight
    <3>3. QED
      BY <3>1, <3>2 DEF GetBit, SetBit, p
  <2>2. Stored(blank, x15, 0)
            = [blank EXCEPT ![x15.offset] = SetBit(@, x15.bit, 0)]
    BY X15IsWritable DEF Stored
  <2>3. blank = [o \in 0 .. SizeOf(L230_RX_PDO) - 1 |-> 0]
    BY DEF BlankOutputs
  <2>4. QED
    BY <2>1, <2>2, <2>3
<1>4. ASSUME NEW v \in {0, 1}, NEW w \in {0, 1}
      PROVE  Stored(Stored(blank, x15, v), x15, w) = Stored(blank, x15, w)
  BY X15IsPlaced, LastWriteStays
<1> HIDE DEF blank, Only
<1>5. ASSUME NEW v \in {0, 1}, NEW w \in {0, 1}
      PROVE  plc_tag_write(x15, w, plc_tag_write(x15, v, BlankOutputs))
                 = plc_tag_write(x15, w, BlankOutputs)
  BY <1>1, <1>2, <1>4
<1>6. QED
  BY <1>1, <1>2, <1>3, <1>5

-----------------------------------------------------------------------------
\* Before the first run nothing is counted and the image is blank.
LEMMA CountInit == AppInit => CountInv
<1> SUFFICES ASSUME AppInit PROVE CountInv
  OBVIOUS
<1>1. runs[Blinker] = 0
  BY ApplicationAssumption DEF AppInit, Init
<1>2. blinks = 0 /\ counter = 0 /\ value = 0 /\ outputs = BlankOutputs
  BY DEF AppInit
<1>3. blinks \in Nat /\ counter \in 0 .. BlinkAfter + 1 /\ value = blinks % 2
  BY <1>2, ApplicationAssumption
<1>4. runs[Blinker] = blinks * (BlinkAfter + 1) + counter
  BY <1>1, <1>2, ApplicationAssumption
<1>5. QED
  BY <1>2, <1>3, <1>4, X15HasOneValue DEF CountInv

\* One blink more is BlinkAfter + 1 runs more.
LEMMA OneMoreBlink ==
  ASSUME NEW b \in Nat, NEW n \in Nat
  PROVE  (b + 1) * n = b * n + n /\ b * n \in Nat
OBVIOUS

\* A run of the task counts itself, the run that blinks as the first of the
\* next round.
LEMMA TaskKeepsCount ==
  ASSUME CountInv, plc_task1_run, runs'[Blinker] = runs[Blinker] + 1
  PROVE  CountInv'
<1> DEFINE round == BlinkAfter + 1
<1>1. BlinkAfter \in Nat /\ round \in Nat
  BY ApplicationAssumption
<1>2. blinks \in Nat /\ counter \in Nat /\ counter <= round
  BY <1>1 DEF CountInv
<1>3. runs[Blinker] = blinks * round + counter
  BY DEF CountInv
<1>4. (blinks + 1) * round = blinks * round + round /\ blinks * round \in Nat
  BY <1>1, <1>2, OneMoreBlink
<1>5. CASE counter > BlinkAfter
  <2>1. counter = round
    BY <1>1, <1>2, <1>5
  <2>2. counter' = 1 /\ blinks' = blinks + 1 /\ value' = 1 - value
        /\ outputs' = plc_tag_write(x15, value', outputs)
    BY <1>5 DEF plc_task1_run
  <2>3. runs'[Blinker] = blinks' * round + counter'
    <3> HIDE DEF round
    <3>1. QED
      BY <1>1, <1>2, <1>3, <1>4, <2>1, <2>2
  <2>4. value' = blinks' % 2 /\ value \in {0, 1} /\ value' \in {0, 1}
    BY <1>2, <2>2 DEF CountInv
  <2>5. outputs' = plc_tag_write(x15, value', BlankOutputs)
    BY <2>2, <2>4, X15HasOneValue DEF CountInv
  <2>6. QED
    BY <1>1, <1>2, <2>2, <2>3, <2>4, <2>5 DEF CountInv
<1>6. CASE ~(counter > BlinkAfter)
  <2>1. counter' = counter + 1 /\ UNCHANGED <<value, outputs, blinks>>
    BY <1>6 DEF plc_task1_run
  <2>2. runs'[Blinker] = blinks' * round + counter'
    <3> HIDE DEF round
    <3>1. QED
      BY <1>1, <1>2, <1>3, <1>4, <2>1
  <2>3. QED
    BY <1>1, <1>2, <1>6, <2>1, <2>2 DEF CountInv
<1>7. QED
  BY <1>5, <1>6

\* Where the task is not run, its runs do not change.
LEMMA OthersKeepCount ==
  ASSUME CountInv, UNCHANGED appVars, runs'[Blinker] = runs[Blinker]
  PROVE  CountInv'
BY DEF CountInv, appVars

LEMMA CountStep ==
  ASSUME IInv, CountInv, [AppNext]_allVars
  PROVE  CountInv'
<1>1. CASE RunApplication /\ i = Blinker /\ Runs(i)
  <2>1. runs'[Blinker] = runs[Blinker] + 1 /\ plc_task1_run
    BY <1>1, ApplicationAssumption DEF RunApplication, RunTask, IInv, TypeOK
  <2>2. QED
    BY <2>1, TaskKeepsCount
<1>2. CASE RunApplication /\ ~(i = Blinker /\ Runs(i))
  <2>1. runs'[Blinker] = runs[Blinker] /\ UNCHANGED appVars
    BY <1>2, ApplicationAssumption DEF RunApplication, RunTask, IInv, TypeOK
  <2>2. QED
    BY <2>1, OthersKeepCount
<1>3. CASE Others /\ UNCHANGED appVars
  <2>1. UNCHANGED runs
    BY <1>3 DEF Others, AddTask, Start, Stop, Join, Begin, LoopTest, Wake, Sync,
                Elapse, LatchOrReset, tableVars
  <2>2. QED
    BY <1>3, <2>1, OthersKeepCount
<1>4. CASE UNCHANGED allVars
  <2>1. UNCHANGED appVars /\ UNCHANGED runs
    BY <1>4 DEF allVars, vars, tableVars
  <2>2. QED
    BY <2>1, OthersKeepCount
<1>5. QED
  BY <1>1, <1>2, <1>3, <1>4 DEF AppNext

\* The counter of plc_task1_run, its blinks and the runs the scheduler gave it
\* agree in every state.
THEOREM BlinksAreCounted == AppSpec => []CountInv
<1>1. AppSpec => []IInv
  BY ImplementsScheduler, Invariance
<1>2. QED
  BY <1>1, CountInit, CountStep, PTL DEF AppSpec

\* The rounds a count of runs holds.
LEMMA RoundsOfCount ==
  ASSUME NEW b \in Nat, NEW n \in Nat \ {0}, NEW r \in 0 .. n - 1
  PROVE  (b * n + r) \div n = b
<1> DEFINE a == b * n + r
           q == a \div n
<1>1. b * n \in Nat /\ a \in Nat
  BY SMT
<1>2. q \in Int /\ n * q <= a /\ a < n * q + n
  BY <1>1, SMT
<1>3. ~(q >= b + 1)
  <2> SUFFICES ASSUME q >= b + 1 PROVE FALSE
    OBVIOUS
  <2>1. n * q >= n * (b + 1)
    BY <1>2, SMT
  <2>2. n * (b + 1) = b * n + n
    BY SMT
  <2>3. QED
    BY <1>1, <1>2, <2>1, <2>2, SMT
<1>4. ~(q <= b - 1)
  <2> SUFFICES ASSUME q <= b - 1 PROVE FALSE
    OBVIOUS
  <2>1. n * q <= n * (b - 1)
    BY <1>2, SMT
  <2>2. n * (b - 1) = b * n - n
    BY SMT
  <2>3. QED
    BY <1>1, <1>2, <2>1, <2>2, SMT
<1>5. QED
  BY <1>2, <1>3, <1>4, SMT

\* A product is no less than its first factor.
LEMMA AtLeastOnce ==
  ASSUME NEW r \in Nat \ {0}, NEW p \in Nat \ {0}
  PROVE  (r - 1) * p >= r - 1
<1>1. p - 1 \in Nat /\ r - 1 \in Nat
  OBVIOUS
<1>2. (r - 1) * p = (r - 1) * (p - 1) + (r - 1)
  BY SMT
<1>3. (r - 1) * (p - 1) >= 0
  BY <1>1, SMT
<1>4. QED
  BY <1>1, <1>2, <1>3, SMT

\* What a count says is lit is what the task wrote last.
LEMMA LitIsValue ==
  ASSUME CountInv
  PROVE  Lit(runs[Blinker]) = value
<1> DEFINE round == BlinkAfter + 1
<1>1. round \in Nat \ {0} /\ blinks \in Nat /\ counter \in 0 .. round
  BY ApplicationAssumption DEF CountInv
<1>2. runs[Blinker] = blinks * round + counter /\ blinks * round \in Nat
  BY <1>1, OneMoreBlink DEF CountInv
<1>3. CASE counter = 0
  <2>1. blinks = 0 /\ value = 0 /\ runs[Blinker] = 0
    BY <1>1, <1>2, <1>3 DEF CountInv
  <2>2. QED
    BY <2>1 DEF Lit
<1>4. CASE counter # 0
  <2>1. counter - 1 \in 0 .. round - 1
    BY <1>1, <1>4
  <2>2. (blinks * round + (counter - 1)) \div round = blinks
    <3> HIDE DEF round
    <3>1. QED
      BY <1>1, <2>1, RoundsOfCount
  <2>3. runs[Blinker] - 1 = blinks * round + (counter - 1) /\ runs[Blinker] # 0
    <3> HIDE DEF round
    <3>1. QED
      BY <1>1, <1>2, <1>4
  <2>4. QED
    BY <2>2, <2>3 DEF Lit, CountInv
<1>5. QED
  BY <1>3, <1>4

\* The lamp keeps time: in every state between two ticks the output image is
\* blank but for X15, and X15 is what the deadlines that have come make it,
\* whatever delayed tasks and thread (plc_task1_run under scheduler_thread).
THEOREM LampKeepsTime == AppSpec => []BlinkFollowsTime
<1>1. AppSpec => []IInv /\ []RunsMatchTime
  BY ImplementsScheduler, Invariance, RhythmIsKept, PTL
<1>2. ASSUME IInv, RunsMatchTime, CountInv PROVE BlinkFollowsTime
  <2> SUFFICES ASSUME pc = "loop", init[Blinker]
               PROVE  \E count \in 0 .. now + 1 :
                         /\ Due(count)
                         /\ outputs = plc_tag_write(x15, Lit(count), BlankOutputs)
    BY <1>2 DEF BlinkFollowsTime
  <2> DEFINE r == runs[Blinker]
             p == Period[Blinker]
  <2>1. Blinker \in 1 .. task_count
    BY <1>2, ApplicationAssumption DEF IInv, TypeOK, Slot
  <2>2. r \in Nat /\ first[Blinker] \in Nat /\ now \in Nat
    BY <1>2, ApplicationAssumption DEF IInv, TypeOK
  <2>3. p \in Nat /\ p >= 1
    BY <1>2, <2>1, SlotsHoldEntries, SchedulerAssumption DEF IInv
  <2>4. Due(r)
    BY <1>2, <2>1 DEF RunsMatchTime, Due
  <2>5. r \in 0 .. now + 1
    <3>1. CASE r = 0
      BY <2>2, <3>1
    <3>2. CASE r > 0
      <4>1. first[Blinker] + (r - 1) * p <= now
        BY <2>4, <3>2 DEF Due
      <4>2. (r - 1) * p >= r - 1
        <5> HIDE DEF r, p
        <5>1. QED
          BY <2>2, <2>3, <3>2, AtLeastOnce
      <4>3. (r - 1) * p \in Int
        BY <2>2, <2>3
      <4>4. QED
        <5> HIDE DEF r, p
        <5>1. QED
          BY <2>2, <4>1, <4>2, <4>3
    <3>3. QED
      BY <2>2, <3>1, <3>2
  <2>6. outputs = plc_tag_write(x15, Lit(r), BlankOutputs)
    BY <1>2, LitIsValue DEF CountInv
  <2>7. QED
    BY <2>4, <2>5, <2>6
<1>3. QED
  BY <1>1, <1>2, BlinksAreCounted, PTL

\* Of the image of the device nothing but X15_1 ever differs from what the
\* driver started with: it holds bytes, X15_1 reads as the task wrote it last,
\* and every tag that shares no bit with it reads as before (plc_task1_run
\* through plc_tag_write).
OnlyX15Changes ==
    LET image == outputs[0]
    IN  /\ image \in [DOMAIN BlankOutputs[0] -> Byte]
        /\ ValueAt(image, x15) = value
        /\ \A tag : IsPlaced(tag, BlankOutputs[0]) /\ Apart(x15, tag)
               => ValueAt(image, tag) = ValueAt(BlankOutputs[0], tag)

THEOREM OtherOutputsAreKept == AppSpec => []OnlyX15Changes
<1>1. ASSUME CountInv PROVE OnlyX15Changes
  <2>1. value \in {0, 1} /\ outputs = plc_tag_write(x15, value, BlankOutputs)
    BY <1>1 DEF CountInv
  <2>2. outputs[0] = Stored(BlankOutputs[0], x15, value)
    BY <2>1, X15IsWritable, X15IsPlaced DEF plc_tag_write, Writable
  <2>3. QED
    BY <2>1, <2>2, X15IsPlaced, StoredIsImage, ReadsWhatWasWritten, OtherTagsAreKept
       DEF OnlyX15Changes
<1>2. QED
  BY <1>1, BlinksAreCounted, PTL
=============================================================================
