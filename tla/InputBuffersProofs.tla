------------------------- MODULE InputBuffersProofs -------------------------
(***************************************************************************)
(* Proofs about InputBuffers, for any number of slaves, any images, any    *)
(* tags and any interleaving with the watchdog: TypeOK, the inductive      *)
(* invariant IInv, the three safety properties it implies, and that the    *)
(* buffers implement ImageChannel.                                         *)
(***************************************************************************)
EXTENDS InputBuffers, TLAPS

AtMost(f, g) == \A c \in Cell : f[c] <= g[c]

\* Nothing in the buffers is newer than the IO map, and the IO map is at most
\* one cycle ahead of the exchanges (the zeros of the watchdog).
Ages ==
    /\ \A c \in Cell : soem_inputs[c] <= cycle + 1
    /\ \A i \in Index : AtMost(in_buffers[i], soem_inputs)

\* The buffer tasks read is the image published last, and in the other one the
\* bytes already copied are not older than it.
CopyIsAhead ==
    /\ in_buffers[active_in_buffer_idx] = published
    /\ rt_pc = "exchange" => published_cycle = cycle
    /\ rt_pc = "copy" =>
           /\ in_back = 1 - active_in_buffer_idx
           /\ cycle = published_cycle + 1
           /\ \A c \in Cell \ rt_todo : published[c] <= in_buffers[in_back][c]

\* A read never finds less than the image it started from: not in the bytes it
\* has, nor in those it is going to fetch.
ReadIsAhead ==
    /\ AtMost(floor, published)
    /\ floor_cycle <= published_cycle
    /\ plc_pc = "tasks" => plc_todo = {}
    /\ plc_pc = "read" =>
           /\ AtMost(floor, in_buffers[idx])
           /\ \A c \in tag \ plc_todo : /\ floor[c] <= value[c]
                                        /\ value[c] <= soem_inputs[c]

\* Until a second exchange begins, the buffer a read holds is left alone.
ReadIsUndisturbed ==
    plc_pc = "read" /\ cycle <= floor_cycle + 1 =>
        /\ in_buffers[idx] = floor
        /\ published_cycle = floor_cycle => idx = active_in_buffer_idx
        /\ \A c \in tag \ plc_todo : value[c] = floor[c]

\* The bytes copied so far are those of the IO map, but for the ones cleared
\* since the exchange.
CopyFollowsBus ==
    /\ LateClearCostsOneImage
    /\ rt_pc = "copy" => \A c \in Cell \ (rt_todo \cup cleared) :
                            in_buffers[in_back][c] = soem_inputs[c]

IInv ==
    /\ TypeOK
    /\ tag \subseteq Cell
    /\ Ages
    /\ CopyIsAhead
    /\ ReadIsAhead
    /\ ReadIsUndisturbed
    /\ CopyFollowsBus

-----------------------------------------------------------------------------
\* One step keeps every variable in its type.
LEMMA TypeStep == TypeOK /\ [Next]_vars => TypeOK'
<1> SUFFICES ASSUME TypeOK, [Next]_vars PROVE TypeOK'
  OBVIOUS
<1> USE DEF TypeOK, Image, Index, wdVars
<1>1. ASSUME NEW answered \in SUBSET Slave, RtExchange(answered) PROVE TypeOK'
  BY <1>1 DEF RtExchange, plcVars
<1>2. ASSUME NEW c \in Cell, RtCopy(c) PROVE TypeOK'
  BY <1>2 DEF RtCopy, plcVars
<1>3. CASE RtPublish
  BY <1>3 DEF RtPublish, plcVars
<1>4. ASSUME NEW s \in Slave, WdSlaveLost(s) PROVE TypeOK'
  <2>1. {s} \X InBytes[s] \subseteq Cell
    BY <1>4 DEF Cell
  <2>2. QED
    BY <1>4, <2>1 DEF WdSlaveLost, rtVars, plcVars
<1>5. ASSUME NEW c \in Cell, WdClear(c) PROVE TypeOK'
  BY <1>5 DEF WdClear, rtVars, plcVars
<1>6. ASSUME NEW t \in Tags, PlcReadBegin(t) PROVE TypeOK'
  BY <1>6, InputAssumption DEF PlcReadBegin, rtVars
<1>7. ASSUME NEW c \in Cell, PlcReadByte(c) PROVE TypeOK'
  BY <1>7 DEF PlcReadByte, rtVars
<1>8. CASE PlcReadEnd
  BY <1>8 DEF PlcReadEnd, rtVars
<1>9. CASE UNCHANGED vars
  BY <1>9 DEF vars, rtVars, wdVars, plcVars
<1>10. QED
  BY <1>1, <1>2, <1>3, <1>4, <1>5, <1>6, <1>7, <1>8, <1>9 DEF Next

\* Every variable keeps its type; in particular the published index always
\* names one of the two input buffers.
THEOREM TypeCorrect == Spec => []TypeOK
<1>1. Init => TypeOK
  BY DEF Init, TypeOK, Image, Blank, Index
<1>2. QED
  BY <1>1, TypeStep, PTL DEF Spec

-----------------------------------------------------------------------------
LEMMA InvInit == Init => IInv
<1> SUFFICES ASSUME Init PROVE IInv
  OBVIOUS
<1>1. TypeOK
  BY DEF Init, TypeOK, Image, Blank, Index
<1>2. Ages /\ CopyIsAhead /\ ReadIsAhead /\ ReadIsUndisturbed
  BY DEF Init, Ages, CopyIsAhead, ReadIsAhead, ReadIsUndisturbed, AtMost,
         Blank, Index
<1>3. CopyFollowsBus
  BY DEF Init, CopyFollowsBus, LateClearCostsOneImage
<1>4. QED
  BY <1>1, <1>2, <1>3 DEF IInv, Init

\* A frame only makes inputs newer, and it begins the cycle after the
\* published one.
LEMMA RtExchangeKeepsInv ==
  ASSUME IInv, TypeOK', NEW answered \in SUBSET Slave, RtExchange(answered)
  PROVE  IInv'
<1> USE DEF IInv, TypeOK, Image, Index, RtExchange, wdVars, plcVars
<1>1. AtMost(soem_inputs, soem_inputs')
  BY DEF Ages, AtMost
<1>2. Ages'
  BY <1>1 DEF Ages, AtMost
<1>3. CopyIsAhead'
  BY DEF CopyIsAhead
<1>4. ReadIsAhead'
  BY <1>1 DEF ReadIsAhead, AtMost
<1>5. ReadIsUndisturbed'
  BY DEF ReadIsUndisturbed
<1>6. CopyFollowsBus'
  BY DEF CopyFollowsBus, LateClearCostsOneImage
<1>7. QED
  BY <1>2, <1>3, <1>4, <1>5, <1>6

\* A copied byte is as new as the IO map, and it goes to the buffer that is
\* not published: a read that holds that buffer began a cycle ago.
LEMMA RtCopyKeepsInv ==
  ASSUME IInv, TypeOK', NEW c \in Cell, RtCopy(c)
  PROVE  IInv'
<1> USE DEF IInv, TypeOK, Image, Index, RtCopy, wdVars, plcVars
<1>1. Ages'
  BY DEF Ages, AtMost
<1>2. CopyIsAhead'
  <2>1. published[c] <= soem_inputs[c]
    BY DEF Ages, AtMost, CopyIsAhead
  <2>2. QED
    BY <2>1 DEF CopyIsAhead
<1>3. ReadIsAhead'
  BY DEF ReadIsAhead, Ages, AtMost
<1>4. ReadIsUndisturbed'
  BY DEF ReadIsUndisturbed, ReadIsAhead, CopyIsAhead
<1>5. CopyFollowsBus'
  BY DEF CopyFollowsBus, LateClearCostsOneImage, CopyIsAhead
<1>6. QED
  BY <1>1, <1>2, <1>3, <1>4, <1>5

LEMMA RtPublishKeepsInv ==
  ASSUME IInv, TypeOK', RtPublish
  PROVE  IInv'
<1> USE DEF IInv, TypeOK, Image, Index, RtPublish, wdVars, plcVars
<1>1. Ages'
  BY DEF Ages, AtMost
<1>2. CopyIsAhead'
  BY DEF CopyIsAhead
<1>3. ReadIsAhead'
  BY DEF ReadIsAhead, CopyIsAhead, AtMost
<1>4. ReadIsUndisturbed'
  BY DEF ReadIsUndisturbed, ReadIsAhead, CopyIsAhead
<1>5. CopyFollowsBus'
  BY DEF CopyFollowsBus, LateClearCostsOneImage, CopyIsAhead
<1>6. QED
  BY <1>1, <1>2, <1>3, <1>4, <1>5

\* The zeros of the watchdog are newer than anything exchanged so far.
LEMMA WdClearKeepsInv ==
  ASSUME IInv, TypeOK', NEW c \in Cell, WdClear(c)
  PROVE  IInv'
<1> USE DEF IInv, TypeOK, Image, Index, WdClear, wdVars, rtVars, plcVars
<1>1. AtMost(soem_inputs, soem_inputs')
  BY DEF Ages, AtMost
<1>2. Ages'
  BY <1>1 DEF Ages, AtMost
<1>3. CopyIsAhead'
  BY DEF CopyIsAhead
<1>4. ReadIsAhead'
  BY <1>1 DEF ReadIsAhead, AtMost
<1>5. ReadIsUndisturbed'
  BY DEF ReadIsUndisturbed
<1>6. CopyFollowsBus'
  BY DEF CopyFollowsBus, LateClearCostsOneImage
<1>7. QED
  BY <1>2, <1>3, <1>4, <1>5, <1>6

LEMMA WdSlaveLostKeepsInv ==
  ASSUME IInv, TypeOK', NEW s \in Slave, WdSlaveLost(s)
  PROVE  IInv'
BY DEF IInv, Ages, CopyIsAhead, ReadIsAhead, ReadIsUndisturbed, AtMost,
       CopyFollowsBus, LateClearCostsOneImage, WdSlaveLost, rtVars, plcVars

\* A read starts on the published buffer, from its image.
LEMMA PlcReadBeginKeepsInv ==
  ASSUME IInv, TypeOK', NEW t \in Tags, PlcReadBegin(t)
  PROVE  IInv'
<1> USE DEF IInv, TypeOK, Image, Index, PlcReadBegin, wdVars, rtVars
<1>1. Ages' /\ CopyIsAhead'
  BY DEF Ages, AtMost, CopyIsAhead
<1>2. ReadIsAhead'
  BY DEF ReadIsAhead, CopyIsAhead, AtMost
<1>3. ReadIsUndisturbed'
  BY DEF ReadIsUndisturbed, CopyIsAhead
<1>4. CopyFollowsBus'
  BY DEF CopyFollowsBus, LateClearCostsOneImage
<1>5. QED
  BY <1>1, <1>2, <1>3, <1>4, InputAssumption

LEMMA PlcReadByteKeepsInv ==
  ASSUME IInv, TypeOK', NEW c \in Cell, PlcReadByte(c)
  PROVE  IInv'
<1> USE DEF IInv, TypeOK, Image, Index, PlcReadByte, wdVars, rtVars
<1>1. Ages' /\ CopyIsAhead'
  BY DEF Ages, AtMost, CopyIsAhead
<1>2. ReadIsAhead'
  BY DEF ReadIsAhead, Ages, AtMost
<1>3. ReadIsUndisturbed'
  BY DEF ReadIsUndisturbed
<1>4. CopyFollowsBus'
  BY DEF CopyFollowsBus, LateClearCostsOneImage
<1>5. QED
  BY <1>1, <1>2, <1>3, <1>4

LEMMA PlcReadEndKeepsInv ==
  ASSUME IInv, TypeOK', PlcReadEnd
  PROVE  IInv'
BY DEF IInv, Ages, CopyIsAhead, ReadIsAhead, ReadIsUndisturbed, AtMost,
       CopyFollowsBus, LateClearCostsOneImage, PlcReadEnd, rtVars, wdVars

\* No step of the three threads leaves IInv.
LEMMA InvStep == IInv /\ [Next]_vars => IInv'
<1> SUFFICES ASSUME IInv, [Next]_vars PROVE IInv'
  OBVIOUS
<1>0. TypeOK'
  BY TypeStep DEF IInv
<1>1. CASE \E answered \in SUBSET Slave : RtExchange(answered)
  BY <1>0, <1>1, RtExchangeKeepsInv
<1>2. CASE \E c \in Cell : RtCopy(c)
  BY <1>0, <1>2, RtCopyKeepsInv
<1>3. CASE RtPublish
  BY <1>0, <1>3, RtPublishKeepsInv
<1>4. CASE \E s \in Slave : WdSlaveLost(s)
  BY <1>0, <1>4, WdSlaveLostKeepsInv
<1>5. CASE \E c \in Cell : WdClear(c)
  BY <1>0, <1>5, WdClearKeepsInv
<1>6. CASE \E t \in Tags : PlcReadBegin(t)
  BY <1>0, <1>6, PlcReadBeginKeepsInv
<1>7. CASE \E c \in Cell : PlcReadByte(c)
  BY <1>0, <1>7, PlcReadByteKeepsInv
<1>8. CASE PlcReadEnd
  BY <1>0, <1>8, PlcReadEndKeepsInv
<1>9. CASE UNCHANGED vars
  BY <1>9 DEF vars, rtVars, wdVars, plcVars, IInv, TypeOK, Image, Ages, AtMost,
              CopyIsAhead, ReadIsAhead, ReadIsUndisturbed, CopyFollowsBus,
              LateClearCostsOneImage
<1>10. QED
  BY <1>1, <1>2, <1>3, <1>4, <1>5, <1>6, <1>7, <1>8, <1>9 DEF Next

\* The inductive invariant holds in every reachable state.
THEOREM Invariance == Spec => []IInv
BY InvInit, InvStep, PTL DEF Spec

-----------------------------------------------------------------------------
\* However often inputs are exchanged, published or cleared while a PLC task
\* reads a tag, each byte it gets is at least as new as the image that was
\* published when the read began.
THEOREM ReadsAreFresh == Spec => []ReadIsFresh
<1>1. IInv => ReadIsFresh
  BY DEF IInv, ReadIsAhead, ReadIsFresh, ReadDone
<1>2. QED
  BY <1>1, Invariance, PTL

\* A read that no second exchange overtakes returns bytes of one published
\* image.
THEOREM ShortReadsAreCoherent == Spec => []ShortReadIsCoherent
<1>1. IInv => ShortReadIsCoherent
  BY DEF IInv, ReadIsUndisturbed, ShortReadIsCoherent, ReadDone
<1>2. QED
  BY <1>1, Invariance, PTL

\* Clearing the inputs of a lost slave loses no more than one exchange's fresh
\* inputs, whenever the memset runs (ecat_watchdog_thread, ethercat_thread).
THEOREM LateClearsCostOneImage == Spec => []LateClearCostsOneImage
<1>1. IInv => LateClearCostsOneImage
  BY DEF IInv, CopyFollowsBus
<1>2. QED
  BY <1>1, Invariance, PTL

-----------------------------------------------------------------------------
LEMMA ChannelInit == Init => Channel!Init
BY DEF Init, Channel!Init, Blank, Channel!Blank

\* Each action of the threads is one of the channel's, or invisible to it.
LEMMA ChannelStep ==
  IInv /\ IInv' /\ [Next]_vars => [Channel!Next]_(Channel!vars)
<1> SUFFICES ASSUME IInv, IInv', [Next]_vars
             PROVE  Channel!Next \/ UNCHANGED Channel!vars
  OBVIOUS
<1> USE DEF IInv, TypeOK, Image, Index
<1>1. ASSUME NEW answered \in SUBSET Slave, RtExchange(answered)
      PROVE  Channel!Write
  BY <1>1 DEF RtExchange, plcVars, Channel!Write, Channel!Image,
              Channel!NotNewer, Ages
<1>2. ASSUME NEW c \in Cell, RtCopy(c) PROVE UNCHANGED Channel!vars
  BY <1>2 DEF RtCopy, plcVars, Channel!vars
<1>3. CASE RtPublish
  BY <1>3 DEF RtPublish, plcVars, Channel!Commit, Channel!Image,
              Channel!NotNewer, Channel!Next, Ages, AtMost, CopyIsAhead
<1>4. ASSUME NEW s \in Slave, WdSlaveLost(s) PROVE UNCHANGED Channel!vars
  BY <1>4 DEF WdSlaveLost, rtVars, plcVars, Channel!vars
<1>5. ASSUME NEW c \in Cell, WdClear(c) PROVE Channel!Write
  BY <1>5 DEF WdClear, rtVars, plcVars, Channel!Write, Channel!Image,
              Channel!NotNewer, Ages
<1>6. ASSUME NEW t \in Tags, PlcReadBegin(t) PROVE Channel!Sample
  BY <1>6 DEF PlcReadBegin, rtVars, Channel!Sample, ReadIsAhead
<1>7. ASSUME NEW c \in Cell, PlcReadByte(c) PROVE Channel!Fetch(c)
  <2>1. in_buffers[idx][c] \in floor[c] .. soem_inputs[c]
    BY <1>7 DEF PlcReadByte, ReadIsAhead, Ages, AtMost
  <2>2. QED
    BY <1>7, <2>1 DEF PlcReadByte, rtVars, Channel!Fetch
<1>8. CASE PlcReadEnd
  BY <1>8 DEF PlcReadEnd, rtVars, Channel!vars
<1>9. CASE UNCHANGED vars
  BY <1>9 DEF vars, rtVars, wdVars, plcVars, Channel!vars
<1>10. QED
  BY <1>1, <1>2, <1>3, <1>4, <1>5, <1>6, <1>7, <1>8, <1>9
     DEF Next, Channel!Next

\* The two input buffers and their index implement the bufferless channel.
THEOREM BuffersImplementChannel == Spec => ImplementsChannel
BY ChannelInit, ChannelStep, Invariance, PTL
   DEF Spec, ImplementsChannel, Channel!Spec
=============================================================================
