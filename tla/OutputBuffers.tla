--------------------------- MODULE OutputBuffers ----------------------------
(***************************************************************************)
(* The output half of the process image: the scheduler thread runs the PLC *)
(* tasks, which write output tags into one of the two out_buffers, and     *)
(* then calls ethercat_sync_buffers; the real-time EtherCAT thread copies  *)
(* the other buffer to the slaves' outputs once per bus cycle.  Nothing    *)
(* but three atomic indices synchronises the two threads.                  *)
(*                                                                         *)
(* The value of a byte is the number of the PLC cycle that wrote it, so    *)
(* that a value says how old it is.  A memcpy is one step per byte: the    *)
(* slaves are copied in the order of the loop, the bytes of a slave in any *)
(* order, which C leaves open.                                             *)
(***************************************************************************)
EXTENDS Naturals

CONSTANTS
    SlaveCount,     \* d->slave_count
    OutBytes,       \* the bytes of each slave's output image (out_size)
    MaxCommit       \* bound: PLC cycles committed

Slave == 0 .. SlaveCount - 1

ASSUME OutputAssumption ==
    /\ SlaveCount \in Nat
    /\ MaxCommit \in Nat

Cell == UNION {{s} \X OutBytes[s] : s \in Slave}

Index == {0, 1}

VARIABLES
    out_buffers,            \* [Index -> image], of all slaves together
    active_out_buffer_idx,  \* the buffer the PLC writes
    rt_out_buffer_idx,      \* the buffer the real-time thread is to send
    plc_pc,                 \* scheduler thread: "tasks" or inside "sync"
    plc_idx,                \* local of ethercat_sync_buffers
    plc_todo,               \* bytes its memcpy loop has still to copy
    rt_pc,                  \* real-time thread: "load", "copy"
    out_idx,                \* local of ethercat_thread
    rt_todo,                \* bytes its output loop has still to copy
    soem_outputs,           \* the image the next frame will carry
    \* History, read by no action of the threads:
    plc_image,              \* the last value the PLC wrote to each byte
    committed,              \* plc_image at the last commit
    commits,                \* number of commits so far
    floor,                  \* committed when the RT thread loaded its index
    floor_commits           \* commits at that moment

plcVars == <<active_out_buffer_idx, rt_out_buffer_idx, plc_pc, plc_idx,
             plc_todo, plc_image, committed, commits>>
rtVars == <<rt_pc, out_idx, rt_todo, soem_outputs, floor, floor_commits>>
vars == <<out_buffers, plcVars, rtVars>>

Blank == [c \in Cell |-> 0]

\* for (i = 0; i < slave_count; i++) memcpy(...): the next bytes to copy.
NextBytes(todo) == {c \in todo : \A d \in todo : c[1] <= d[1]}

\* Both buffers are CALLOCed and the three indices set to 0 by
\* ethercat_finalize_mapping, before either thread exists.
Init ==
    /\ out_buffers = [i \in Index |-> Blank]
    /\ active_out_buffer_idx = 0
    /\ rt_out_buffer_idx = 0
    /\ plc_pc = "tasks" /\ plc_idx = 0 /\ plc_todo = {}
    /\ rt_pc = "load" /\ out_idx = 0 /\ rt_todo = {}
    /\ soem_outputs = Blank
    /\ plc_image = Blank
    /\ committed = Blank
    /\ commits = 0
    /\ floor = Blank
    /\ floor_commits = 0

-----------------------------------------------------------------------------
\* The scheduler thread.

\* plc_tag_write: get_output_data returns the active buffer, one byte of it
\* is written.
PlcWrite(c) ==
    /\ plc_pc = "tasks"
    /\ out_buffers' =
           [out_buffers EXCEPT ![active_out_buffer_idx][c] = commits + 1]
    /\ plc_image' = [plc_image EXCEPT ![c] = commits + 1]
    /\ UNCHANGED <<active_out_buffer_idx, rt_out_buffer_idx, plc_pc, plc_idx,
                   plc_todo, committed, commits, rtVars>>

\* Slip: without the copy that "1) Commit" is followed by.
CommitWithoutCopy ==
    /\ plc_pc = "tasks"
    /\ commits < MaxCommit
    /\ plc_idx' = active_out_buffer_idx
    /\ rt_out_buffer_idx' = active_out_buffer_idx
    /\ plc_todo' = {}
    /\ plc_pc' = "sync"
    /\ committed' = plc_image
    /\ commits' = commits + 1
    /\ UNCHANGED <<out_buffers, active_out_buffer_idx, plc_image, rtVars>>

\* "1) Commit": only this thread changes active_out_buffer_idx, so its load
\* and the store of rt_out_buffer_idx are one step.
SyncCommit ==
    /\ plc_pc = "tasks"
    /\ commits < MaxCommit
    /\ plc_idx' = active_out_buffer_idx
    /\ rt_out_buffer_idx' = active_out_buffer_idx
    /\ plc_todo' = Cell
    /\ plc_pc' = "sync"
    /\ committed' = plc_image
    /\ commits' = commits + 1
    /\ UNCHANGED <<out_buffers, active_out_buffer_idx, plc_image, rtVars>>

\* Slip: source and destination swapped.
CopyBackwards(c) ==
    /\ plc_pc = "sync"
    /\ c \in NextBytes(plc_todo)
    /\ out_buffers' =
           [out_buffers EXCEPT ![plc_idx][c] = out_buffers[1 - plc_idx][c]]
    /\ plc_todo' = plc_todo \ {c}
    /\ UNCHANGED <<active_out_buffer_idx, rt_out_buffer_idx, plc_pc, plc_idx,
                   plc_image, committed, commits, rtVars>>

\* The buffer the PLC will write next takes over what it wrote last.
SyncCopy(c) ==
    /\ plc_pc = "sync"
    /\ c \in NextBytes(plc_todo)
    /\ out_buffers' =
           [out_buffers EXCEPT ![1 - plc_idx][c] = out_buffers[plc_idx][c]]
    /\ plc_todo' = plc_todo \ {c}
    /\ UNCHANGED <<active_out_buffer_idx, rt_out_buffer_idx, plc_pc, plc_idx,
                   plc_image, committed, commits, rtVars>>

\* "3) Publication".
SyncPublish ==
    /\ plc_pc = "sync"
    /\ plc_todo = {}
    /\ active_out_buffer_idx' = 1 - plc_idx
    /\ plc_pc' = "tasks"
    /\ UNCHANGED <<out_buffers, rt_out_buffer_idx, plc_idx, plc_todo,
                   plc_image, committed, commits, rtVars>>

-----------------------------------------------------------------------------
\* The real-time EtherCAT thread.

\* Slip: the index of the PLC instead of the committed one.
LoadActiveIndex ==
    /\ rt_pc = "load"
    /\ out_idx' = active_out_buffer_idx
    /\ rt_todo' = Cell
    /\ rt_pc' = "copy"
    /\ floor' = committed
    /\ floor_commits' = commits
    /\ UNCHANGED <<out_buffers, plcVars, soem_outputs>>

RtLoad ==
    /\ rt_pc = "load"
    /\ out_idx' = rt_out_buffer_idx
    /\ rt_todo' = Cell
    /\ rt_pc' = "copy"
    /\ floor' = committed
    /\ floor_commits' = commits
    /\ UNCHANGED <<out_buffers, plcVars, soem_outputs>>

\* Slip: the other buffer.
CopyOtherBuffer(c) ==
    /\ rt_pc = "copy"
    /\ c \in NextBytes(rt_todo)
    /\ soem_outputs' = [soem_outputs EXCEPT ![c] = out_buffers[1 - out_idx][c]]
    /\ rt_todo' = rt_todo \ {c}
    /\ UNCHANGED <<out_buffers, plcVars, rt_pc, out_idx, floor, floor_commits>>

RtCopy(c) ==
    /\ rt_pc = "copy"
    /\ c \in NextBytes(rt_todo)
    /\ soem_outputs' = [soem_outputs EXCEPT ![c] = out_buffers[out_idx][c]]
    /\ rt_todo' = rt_todo \ {c}
    /\ UNCHANGED <<out_buffers, plcVars, rt_pc, out_idx, floor, floor_commits>>

\* ecx_send_processdata puts soem_outputs on the wire.
RtSend ==
    /\ rt_pc = "copy"
    /\ rt_todo = {}
    /\ rt_pc' = "load"
    /\ UNCHANGED <<out_buffers, plcVars, out_idx, rt_todo, soem_outputs,
                   floor, floor_commits>>

-----------------------------------------------------------------------------
Next ==
    \/ \E c \in Cell : PlcWrite(c)
    \/ SyncCommit
    \/ \E c \in Cell : SyncCopy(c)
    \/ SyncPublish
    \/ RtLoad
    \/ \E c \in Cell : RtCopy(c)
    \/ RtSend

Spec == Init /\ [][Next]_vars

-----------------------------------------------------------------------------
Image == [Cell -> Nat]

TypeOK ==
    /\ out_buffers \in [Index -> Image]
    /\ active_out_buffer_idx \in Index
    /\ rt_out_buffer_idx \in Index
    /\ plc_pc \in {"tasks", "sync"}
    /\ plc_idx \in Index
    /\ plc_todo \in SUBSET Cell
    /\ rt_pc \in {"load", "copy"}
    /\ out_idx \in Index
    /\ rt_todo \in SUBSET Cell
    /\ soem_outputs \in Image
    /\ plc_image \in Image
    /\ committed \in Image
    /\ commits \in Nat
    /\ floor \in Image
    /\ floor_commits \in Nat

\* The frame is complete and about to be sent.
FrameReady == rt_pc = "copy" /\ rt_todo = {}

\* A task that does not write a byte in some cycle finds it as it left it:
\* whichever buffer is active while tasks run holds every value written so
\* far (the "Remanence" copy of ethercat_sync_buffers).
Remanence ==
    plc_pc = "tasks" => out_buffers[active_out_buffer_idx] = plc_image

\* However the threads interleave, no byte of a frame is older than the
\* commit the real-time thread found when it loaded rt_out_buffer_idx, and
\* none was never written by the PLC.
FrameIsFresh ==
    FrameReady => \A c \in Cell : /\ floor[c] <= soem_outputs[c]
                                  /\ soem_outputs[c] <= plc_image[c]

\* If no PLC cycle is committed while the real-time thread copies its
\* outputs, and one was committed before, the frame is exactly that commit:
\* neither a half-written image nor the writes of a cycle still running.
QuietFrameIsTheCommit ==
    FrameReady /\ floor_commits = commits /\ commits > 0
        => soem_outputs = committed

-----------------------------------------------------------------------------
\* Why they hold: an inductive invariant.

AtMost(f, g) == \A c \in Cell : f[c] <= g[c]

\* Nothing is newer than what the PLC wrote, no commit newer than the last.
Ages ==
    /\ \A i \in Index : AtMost(out_buffers[i], plc_image)
    /\ AtMost(soem_outputs, plc_image)
    /\ \A c \in Cell : plc_image[c] <= commits + 1
    /\ AtMost(committed, plc_image)
    /\ AtMost(floor, committed)
    /\ floor_commits <= commits
    /\ commits = 0 => committed = Blank

\* While tasks run they own the active buffer, and the last commit rests in
\* the other one; before the first commit there is no other one.
TasksHoldImage ==
    plc_pc = "tasks"
        => /\ out_buffers[active_out_buffer_idx] = plc_image
           /\ commits > 0 => /\ rt_out_buffer_idx # active_out_buffer_idx
                             /\ out_buffers[rt_out_buffer_idx] = committed

\* During the sync the active buffer is the commit, and the other one agrees
\* with it as far as the copy has come.
SyncHoldsCommit ==
    plc_pc = "sync"
        => /\ plc_idx = active_out_buffer_idx
           /\ plc_idx = rt_out_buffer_idx
           /\ out_buffers[plc_idx] = plc_image
           /\ committed = plc_image
           /\ commits > 0
           /\ \A c \in Cell \ plc_todo :
                 out_buffers[1 - plc_idx][c] = plc_image[c]

\* The buffer the real-time thread copies from may be the one the sync writes
\* to, but never falls behind the commit the copy started from.
CopyIsFresh ==
    /\ rt_pc = "load" => rt_todo = {}
    /\ rt_pc = "copy"
           => /\ AtMost(floor, out_buffers[out_idx])
              /\ \A c \in Cell \ rt_todo : floor[c] <= soem_outputs[c]

QuietCopyFollowsCommit ==
    rt_pc = "copy" /\ floor_commits = commits /\ commits > 0
        => /\ out_idx = rt_out_buffer_idx
           /\ \A c \in Cell \ rt_todo : soem_outputs[c] = committed[c]

IInv ==
    /\ TypeOK
    /\ Ages
    /\ TasksHoldImage
    /\ SyncHoldsCommit
    /\ CopyIsFresh
    /\ QuietCopyFollowsCommit

-----------------------------------------------------------------------------
\* Both directions of the image implement ImageChannel.
Channel == INSTANCE ImageChannel
               WITH source <- plc_image, todo <- rt_todo, got <- soem_outputs

\* Every step of the two threads is a step of the bufferless channel, or
\* changes nothing there.
ImplementsChannel == Channel!Spec

\* Claimed by the comment on sync in backend.h ("publie les sorties",
\* "garantit la coherence temporelle"): from the first commit on, a frame
\* carries one PLC image, the one committed when its copy started or the one
\* committed last.
FrameIsCoherent ==
    FrameReady /\ floor_commits > 0 => soem_outputs \in {floor, committed}
=============================================================================
