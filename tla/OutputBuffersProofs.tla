------------------------ MODULE OutputBuffersProofs -------------------------
(***************************************************************************)
(* Proofs about OutputBuffers, for any number of slaves and any images:    *)
(* TypeOK, the inductive invariant IInv and the three safety properties it *)
(* implies, and that the buffers implement ImageChannel.                   *)
(***************************************************************************)
EXTENDS OutputBuffers, TLAPS

\* One step keeps every variable in its type.
LEMMA TypeStep == TypeOK /\ [Next]_vars => TypeOK'
<1> SUFFICES ASSUME TypeOK, [Next]_vars PROVE TypeOK'
  OBVIOUS
<1> USE DEF TypeOK, Image, Index
<1>1. CASE \E c \in Cell : PlcWrite(c)
  BY <1>1 DEF PlcWrite, rtVars
<1>2. CASE SyncCommit
  BY <1>2 DEF SyncCommit, rtVars
<1>3. CASE \E c \in Cell : SyncCopy(c)
  BY <1>3 DEF SyncCopy, rtVars
<1>4. CASE SyncPublish
  BY <1>4 DEF SyncPublish, rtVars
<1>5. CASE RtLoad
  BY <1>5 DEF RtLoad, plcVars
<1>6. CASE \E c \in Cell : RtCopy(c)
  BY <1>6 DEF RtCopy, plcVars
<1>7. CASE RtSend
  BY <1>7 DEF RtSend, plcVars
<1>8. CASE UNCHANGED vars
  BY <1>8 DEF vars, plcVars, rtVars
<1>9. QED
  BY <1>1, <1>2, <1>3, <1>4, <1>5, <1>6, <1>7, <1>8 DEF Next

\* Every variable keeps its type; in particular the indices the two threads
\* exchange always name one of the two buffers.
THEOREM TypeCorrect == Spec => []TypeOK
<1>1. Init => TypeOK
  BY DEF Init, TypeOK, Image, Blank, Index
<1>2. QED
  BY <1>1, TypeStep, PTL DEF Spec

-----------------------------------------------------------------------------
LEMMA InvInit == Init => IInv
<1> SUFFICES ASSUME Init PROVE IInv
  OBVIOUS
<1>1. TypeOK
  BY DEF Init, TypeOK, Image, Blank, Index
<1>2. Ages
  BY DEF Init, Ages, AtMost, Blank, Index
<1>3. TasksHoldImage /\ SyncHoldsCommit /\ CopyIsFresh /\ QuietCopyFollowsCommit
  BY DEF Init, TasksHoldImage, SyncHoldsCommit, CopyIsFresh,
         QuietCopyFollowsCommit, Index
<1>4. QED
  BY <1>1, <1>2, <1>3 DEF IInv

\* A task writes a byte of the active buffer: never the one the last commit
\* rests in, and nothing newer than the cycle under way.
LEMMA PlcWriteKeepsInv ==
  ASSUME IInv, TypeOK', NEW c \in Cell, PlcWrite(c)
  PROVE  IInv'
<1> USE DEF IInv, TypeOK, Image, Index, PlcWrite, rtVars
<1>1. Ages'
  BY DEF Ages, AtMost, Blank
<1>2. TasksHoldImage'
  BY DEF TasksHoldImage
<1>3. SyncHoldsCommit'
  BY DEF SyncHoldsCommit
<1>4. CopyIsFresh'
  BY DEF CopyIsFresh, Ages, AtMost
<1>5. QuietCopyFollowsCommit'
  BY DEF QuietCopyFollowsCommit
<1>6. QED
  BY <1>1, <1>2, <1>3, <1>4, <1>5

\* The commit makes the buffer the tasks have just filled the one to send.
LEMMA SyncCommitKeepsInv ==
  ASSUME IInv, TypeOK', SyncCommit
  PROVE  IInv'
<1> USE DEF IInv, TypeOK, Image, Index, SyncCommit, rtVars
<1>1. Ages'
  BY DEF Ages, AtMost
<1>2. TasksHoldImage'
  BY DEF TasksHoldImage
<1>3. SyncHoldsCommit'
  BY DEF SyncHoldsCommit, TasksHoldImage
<1>4. CopyIsFresh'
  BY DEF CopyIsFresh, AtMost
<1>5. QuietCopyFollowsCommit'
  BY DEF QuietCopyFollowsCommit, Ages
<1>6. QED
  BY <1>1, <1>2, <1>3, <1>4, <1>5

\* The copy may overwrite the buffer the real-time thread is reading, with
\* bytes of the latest commit.
LEMMA SyncCopyKeepsInv ==
  ASSUME IInv, TypeOK', NEW c \in Cell, SyncCopy(c)
  PROVE  IInv'
<1> USE DEF IInv, TypeOK, Image, Index, SyncCopy, rtVars
<1>1. Ages'
  BY DEF Ages, AtMost, SyncHoldsCommit, Blank
<1>2. TasksHoldImage'
  BY DEF TasksHoldImage
<1>3. SyncHoldsCommit'
  BY DEF SyncHoldsCommit
<1>4. CopyIsFresh'
  BY DEF CopyIsFresh, SyncHoldsCommit, Ages, AtMost
<1>5. QuietCopyFollowsCommit'
  BY DEF QuietCopyFollowsCommit
<1>6. QED
  BY <1>1, <1>2, <1>3, <1>4, <1>5

LEMMA SyncPublishKeepsInv ==
  ASSUME IInv, TypeOK', SyncPublish
  PROVE  IInv'
<1> USE DEF IInv, TypeOK, Image, Index, SyncPublish, rtVars
<1>1. Ages'
  BY DEF Ages, AtMost, Blank
<1>2. TasksHoldImage'
  <2>1. out_buffers[1 - plc_idx] = plc_image
    BY DEF SyncHoldsCommit
  <2>2. out_buffers[rt_out_buffer_idx] = committed
    BY DEF SyncHoldsCommit
  <2>3. QED
    BY <2>1, <2>2 DEF TasksHoldImage, SyncHoldsCommit
<1>3. SyncHoldsCommit'
  BY DEF SyncHoldsCommit
<1>4. CopyIsFresh'
  BY DEF CopyIsFresh, AtMost
<1>5. QuietCopyFollowsCommit'
  BY DEF QuietCopyFollowsCommit
<1>6. QED
  BY <1>1, <1>2, <1>3, <1>4, <1>5

\* The buffer to send is nowhere older than the last commit.
LEMMA SentBufferIsCommitted ==
  ASSUME IInv
  PROVE  AtMost(committed, out_buffers[rt_out_buffer_idx])
<1> USE DEF IInv, TypeOK, Image, Index, AtMost
<1>1. CASE plc_pc = "sync"
  BY <1>1 DEF SyncHoldsCommit
<1>2. CASE plc_pc = "tasks" /\ commits > 0
  BY <1>2 DEF TasksHoldImage
<1>3. CASE commits = 0
  BY <1>3 DEF Ages, Blank
<1>4. QED
  BY <1>1, <1>2, <1>3

LEMMA RtLoadKeepsInv ==
  ASSUME IInv, TypeOK', RtLoad
  PROVE  IInv'
<1> USE DEF IInv, TypeOK, Image, Index, RtLoad, plcVars
<1>1. Ages'
  BY DEF Ages, AtMost, Blank
<1>2. TasksHoldImage'
  BY DEF TasksHoldImage
<1>3. SyncHoldsCommit'
  BY DEF SyncHoldsCommit
<1>4. CopyIsFresh'
  BY SentBufferIsCommitted DEF CopyIsFresh, AtMost
<1>5. QuietCopyFollowsCommit'
  BY DEF QuietCopyFollowsCommit
<1>6. QED
  BY <1>1, <1>2, <1>3, <1>4, <1>5

LEMMA RtCopyKeepsInv ==
  ASSUME IInv, TypeOK', NEW c \in Cell, RtCopy(c)
  PROVE  IInv'
<1> USE DEF IInv, TypeOK, Image, Index, RtCopy, plcVars
<1>1. Ages'
  BY DEF Ages, AtMost, Blank
<1>2. TasksHoldImage'
  BY DEF TasksHoldImage
<1>3. SyncHoldsCommit'
  BY DEF SyncHoldsCommit
<1>4. CopyIsFresh'
  BY DEF CopyIsFresh, AtMost
<1>5. QuietCopyFollowsCommit'
  <2>1. commits > 0 => out_buffers[rt_out_buffer_idx] = committed
    BY DEF SyncHoldsCommit, TasksHoldImage
  <2>2. QED
    BY <2>1 DEF QuietCopyFollowsCommit
<1>6. QED
  BY <1>1, <1>2, <1>3, <1>4, <1>5

LEMMA RtSendKeepsInv ==
  ASSUME IInv, TypeOK', RtSend
  PROVE  IInv'
<1> USE DEF IInv, TypeOK, Image, Index, RtSend, plcVars
<1>1. Ages'
  BY DEF Ages, AtMost, Blank
<1>2. TasksHoldImage' /\ SyncHoldsCommit'
  BY DEF TasksHoldImage, SyncHoldsCommit
<1>3. CopyIsFresh' /\ QuietCopyFollowsCommit'
  BY DEF CopyIsFresh, QuietCopyFollowsCommit
<1>4. QED
  BY <1>1, <1>2, <1>3

\* No step of either thread leaves IInv.
LEMMA InvStep == IInv /\ [Next]_vars => IInv'
<1> SUFFICES ASSUME IInv, [Next]_vars PROVE IInv'
  OBVIOUS
<1>0. TypeOK'
  BY TypeStep DEF IInv
<1>1. CASE \E c \in Cell : PlcWrite(c)
  BY <1>0, <1>1, PlcWriteKeepsInv
<1>2. CASE SyncCommit
  BY <1>0, <1>2, SyncCommitKeepsInv
<1>3. CASE \E c \in Cell : SyncCopy(c)
  BY <1>0, <1>3, SyncCopyKeepsInv
<1>4. CASE SyncPublish
  BY <1>0, <1>4, SyncPublishKeepsInv
<1>5. CASE RtLoad
  BY <1>0, <1>5, RtLoadKeepsInv
<1>6. CASE \E c \in Cell : RtCopy(c)
  BY <1>0, <1>6, RtCopyKeepsInv
<1>7. CASE RtSend
  BY <1>0, <1>7, RtSendKeepsInv
<1>8. CASE UNCHANGED vars
  BY <1>8 DEF vars, plcVars, rtVars, IInv, TypeOK, Image, Ages, AtMost, Blank,
              TasksHoldImage, SyncHoldsCommit, CopyIsFresh, QuietCopyFollowsCommit
<1>9. QED
  BY <1>1, <1>2, <1>3, <1>4, <1>5, <1>6, <1>7, <1>8 DEF Next

\* The inductive invariant holds in every reachable state.
THEOREM Invariance == Spec => []IInv
BY InvInit, InvStep, PTL DEF Spec

-----------------------------------------------------------------------------
\* A PLC task finds every output as it was left by the last task that wrote
\* it, across any number of buffer swaps (ethercat_sync_buffers).
THEOREM RemanenceHolds == Spec => []Remanence
<1>1. IInv => Remanence
  BY DEF IInv, TasksHoldImage, Remanence
<1>2. QED
  BY <1>1, Invariance, PTL

\* However late the real-time thread runs and however often the buffers are
\* swapped under its copy, it sends nothing older than the commit it loaded.
THEOREM FramesAreFresh == Spec => []FrameIsFresh
<1>1. IInv => FrameIsFresh
  BY DEF IInv, CopyIsFresh, Ages, AtMost, FrameIsFresh, FrameReady
<1>2. QED
  BY <1>1, Invariance, PTL

\* A copy no sync overlaps sends exactly the last commit.
THEOREM QuietFramesAreCommits == Spec => []QuietFrameIsTheCommit
<1>1. ASSUME IInv PROVE QuietFrameIsTheCommit
  <2> SUFFICES ASSUME FrameReady, floor_commits = commits, commits > 0
               PROVE  soem_outputs = committed
    BY DEF QuietFrameIsTheCommit
  <2>1. \A c \in Cell : soem_outputs[c] = committed[c]
    BY <1>1 DEF IInv, QuietCopyFollowsCommit, FrameReady
  <2>2. QED
    BY <1>1, <2>1 DEF IInv, TypeOK, Image
<1>2. QED
  BY <1>1, Invariance, PTL

-----------------------------------------------------------------------------
LEMMA ChannelInit == Init => Channel!Init
BY DEF Init, Channel!Init, Blank, Channel!Blank

\* Each action of the threads is one of the channel's, or invisible to it.
LEMMA ChannelStep ==
  IInv /\ TypeOK' /\ [Next]_vars => [Channel!Next]_(Channel!vars)
<1> SUFFICES ASSUME IInv, TypeOK', [Next]_vars
             PROVE  Channel!Next \/ UNCHANGED Channel!vars
  OBVIOUS
<1> USE DEF IInv, TypeOK, Image, Index
<1>1. ASSUME NEW c \in Cell, PlcWrite(c) PROVE Channel!Write
  BY <1>1 DEF PlcWrite, rtVars, Channel!Write, Channel!Image,
              Channel!NotNewer, Ages
<1>2. CASE SyncCommit
  BY <1>2 DEF SyncCommit, rtVars, Channel!Commit, Channel!Image,
              Channel!NotNewer, Channel!Next, Ages, AtMost
<1>3. ASSUME NEW c \in Cell, SyncCopy(c) PROVE UNCHANGED Channel!vars
  BY <1>3 DEF SyncCopy, rtVars, Channel!vars
<1>4. CASE SyncPublish
  BY <1>4 DEF SyncPublish, rtVars, Channel!vars
<1>5. CASE RtLoad
  BY <1>5 DEF RtLoad, plcVars, Channel!Sample, Channel!Next, CopyIsFresh
<1>6. ASSUME NEW c \in Cell, RtCopy(c) PROVE Channel!Fetch(c)
  <2>1. out_buffers[out_idx][c] \in floor[c] .. plc_image[c]
    BY <1>6 DEF RtCopy, CopyIsFresh, Ages, AtMost
  <2>2. c \in rt_todo
    BY <1>6 DEF RtCopy, NextBytes
  <2>3. QED
    BY <1>6, <2>1, <2>2 DEF RtCopy, plcVars, Channel!Fetch
<1>7. CASE RtSend
  BY <1>7 DEF RtSend, plcVars, Channel!vars
<1>8. CASE UNCHANGED vars
  BY <1>8 DEF vars, plcVars, rtVars, Channel!vars
<1>9. QED
  BY <1>1, <1>2, <1>3, <1>4, <1>5, <1>6, <1>7, <1>8 DEF Next, Channel!Next

\* The two output buffers and their indices implement the bufferless channel.
THEOREM BuffersImplementChannel == Spec => ImplementsChannel
BY ChannelInit, ChannelStep, TypeCorrect, Invariance, PTL
   DEF Spec, ImplementsChannel, Channel!Spec
=============================================================================
