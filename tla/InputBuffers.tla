---------------------------- MODULE InputBuffers ----------------------------
(***************************************************************************)
(* The input half of the process image: once per bus cycle the real-time   *)
(* EtherCAT thread exchanges a frame, copies the slaves' inputs into the   *)
(* in_buffers entry that is not published and publishes it; PLC tasks read *)
(* tags from the published one; the watchdog thread clears the inputs of a *)
(* slave it declares lost, while either of them runs.                      *)
(*                                                                         *)
(* The value of a byte is the number of the bus cycle it stems from (the   *)
(* zero the watchdog stores counts as the cycle after the last exchange).  *)
(* A memcpy or memset is one step per byte.                                *)
(***************************************************************************)
EXTENDS Naturals

CONSTANTS
    SlaveCount,     \* d->slave_count
    InBytes,        \* the bytes of each slave's input image (in_size)
    Tags,           \* the byte sets the input tags occupy
    MaxCycle        \* bound: bus cycles

Slave == 0 .. SlaveCount - 1

Cell == UNION {{s} \X InBytes[s] : s \in Slave}

ASSUME InputAssumption ==
    /\ SlaveCount \in Nat
    /\ MaxCycle \in Nat
    /\ Tags \subseteq SUBSET Cell

Index == {0, 1}

VARIABLES
    in_buffers,             \* [Index -> image], of all slaves together
    active_in_buffer_idx,   \* the published buffer
    soem_inputs,            \* the inputs in SOEM's IO map
    rt_pc,                  \* real-time thread: "exchange", "copy"
    in_back,                \* local of ethercat_thread
    rt_todo,                \* bytes its input loop has still to copy
    wd_todo,                \* watchdog: bytes its memset has still to clear
    plc_pc,                 \* scheduler thread: "tasks" or inside "read"
    tag,                    \* the tag being read
    idx,                    \* local of ethercat_device_get_input_ptr
    plc_todo,               \* bytes plc_tag_read has still to fetch
    value,                  \* the bytes it has fetched
    \* History, read by no action of the threads:
    cycle,                  \* exchanges so far
    published,              \* image published last
    published_cycle,        \* and the exchange that began it
    floor,                  \* published when the read loaded its index
    floor_cycle,            \* published_cycle at that moment
    cleared                 \* bytes cleared since the last exchange

rtVars == <<active_in_buffer_idx, rt_pc, in_back, rt_todo, cycle, published,
            published_cycle>>
plcVars == <<plc_pc, tag, idx, plc_todo, value, floor, floor_cycle>>
wdVars == <<wd_todo, cleared>>
vars == <<in_buffers, soem_inputs, rtVars, wdVars, plcVars>>

Blank == [c \in Cell |-> 0]

\* for (i = 0; i < slave_count; i++) memcpy(...): the next bytes to copy.
NextBytes(todo) == {c \in todo : \A d \in todo : c[1] <= d[1]}

Init ==
    /\ in_buffers = [i \in Index |-> Blank]
    /\ active_in_buffer_idx = 0
    /\ soem_inputs = Blank
    /\ rt_pc = "exchange" /\ in_back = 1 /\ rt_todo = {}
    /\ wd_todo = {}
    /\ plc_pc = "tasks" /\ tag = {} /\ idx = 0 /\ plc_todo = {}
    /\ value = Blank
    /\ cycle = 0
    /\ published = Blank
    /\ published_cycle = 0
    /\ floor = Blank
    /\ floor_cycle = 0
    /\ cleared = {}

-----------------------------------------------------------------------------
\* The real-time EtherCAT thread.

\* Slip: the inputs are copied over the buffer that is published.
ExchangeToFront(answered) ==
    /\ rt_pc = "exchange"
    /\ cycle < MaxCycle
    /\ in_back' = active_in_buffer_idx
    /\ soem_inputs' = [c \in Cell |->
           IF c[1] \in answered THEN cycle + 1 ELSE soem_inputs[c]]
    /\ rt_todo' = Cell
    /\ rt_pc' = "copy"
    /\ cycle' = cycle + 1
    /\ cleared' = {}
    /\ UNCHANGED <<in_buffers, active_in_buffer_idx, published,
                   published_cycle, wd_todo, plcVars>>

\* Slip: the inputs of a slave that did not answer are not copied.
ExchangeOfAnswers(answered) ==
    /\ rt_pc = "exchange"
    /\ cycle < MaxCycle
    /\ in_back' = IF active_in_buffer_idx = 0 THEN 1 ELSE 0
    /\ soem_inputs' = [c \in Cell |->
           IF c[1] \in answered THEN cycle + 1 ELSE soem_inputs[c]]
    /\ rt_todo' = {c \in Cell : c[1] \in answered}
    /\ rt_pc' = "copy"
    /\ cycle' = cycle + 1
    /\ cleared' = {}
    /\ UNCHANGED <<in_buffers, active_in_buffer_idx, published,
                   published_cycle, wd_todo, plcVars>>

\* One frame; only the slaves in answered processed it.  Only this thread
\* changes active_in_buffer_idx, so its load at the top of the loop belongs
\* to the same step.
RtExchange(answered) ==
    /\ rt_pc = "exchange"
    /\ cycle < MaxCycle
    /\ in_back' = IF active_in_buffer_idx = 0 THEN 1 ELSE 0
    /\ soem_inputs' = [c \in Cell |->
           IF c[1] \in answered THEN cycle + 1 ELSE soem_inputs[c]]
    /\ rt_todo' = Cell
    /\ rt_pc' = "copy"
    /\ cycle' = cycle + 1
    /\ cleared' = {}
    /\ UNCHANGED <<in_buffers, active_in_buffer_idx, published,
                   published_cycle, wd_todo, plcVars>>

RtCopy(c) ==
    /\ rt_pc = "copy"
    /\ c \in NextBytes(rt_todo)
    /\ in_buffers' = [in_buffers EXCEPT ![in_back][c] = soem_inputs[c]]
    /\ rt_todo' = rt_todo \ {c}
    /\ UNCHANGED <<active_in_buffer_idx, soem_inputs, rt_pc, in_back, cycle,
                   published, published_cycle, wdVars, plcVars>>

\* Slip: published before the copy is complete.
PublishEarly ==
    /\ rt_pc = "copy"
    /\ active_in_buffer_idx' = in_back
    /\ rt_pc' = "exchange"
    /\ published' = in_buffers[in_back]
    /\ published_cycle' = cycle
    /\ UNCHANGED <<in_buffers, soem_inputs, in_back, rt_todo, cycle, wdVars,
                   plcVars>>

RtPublish ==
    /\ rt_pc = "copy"
    /\ rt_todo = {}
    /\ active_in_buffer_idx' = in_back
    /\ rt_pc' = "exchange"
    /\ published' = in_buffers[in_back]
    /\ published_cycle' = cycle
    /\ UNCHANGED <<in_buffers, soem_inputs, in_back, rt_todo, cycle, wdVars,
                   plcVars>>

-----------------------------------------------------------------------------
\* The watchdog declares slave s lost and clears its inputs in the IO map.

WdSlaveLost(s) ==
    /\ wd_todo = {}
    /\ InBytes[s] # {}
    /\ wd_todo' = {s} \X InBytes[s]
    /\ UNCHANGED <<in_buffers, soem_inputs, rtVars, plcVars, cleared>>

WdClear(c) ==
    /\ c \in wd_todo
    /\ soem_inputs' = [soem_inputs EXCEPT ![c] = cycle + 1]
    /\ wd_todo' = wd_todo \ {c}
    /\ cleared' = cleared \cup {c}
    /\ UNCHANGED <<in_buffers, rtVars, plcVars>>

-----------------------------------------------------------------------------
\* plc_tag_read in a PLC task.

\* Slip: the buffer that is not published.
ReadBeginBack(t) ==
    /\ plc_pc = "tasks"
    /\ tag' = t
    /\ idx' = 1 - active_in_buffer_idx
    /\ plc_todo' = t
    /\ plc_pc' = "read"
    /\ floor' = published
    /\ floor_cycle' = published_cycle
    /\ UNCHANGED <<in_buffers, soem_inputs, rtVars, wdVars, value>>

PlcReadBegin(t) ==
    /\ plc_pc = "tasks"
    /\ tag' = t
    /\ idx' = active_in_buffer_idx
    /\ plc_todo' = t
    /\ plc_pc' = "read"
    /\ floor' = published
    /\ floor_cycle' = published_cycle
    /\ UNCHANGED <<in_buffers, soem_inputs, rtVars, wdVars, value>>

PlcReadByte(c) ==
    /\ plc_pc = "read"
    /\ c \in plc_todo
    /\ value' = [value EXCEPT ![c] = in_buffers[idx][c]]
    /\ plc_todo' = plc_todo \ {c}
    /\ UNCHANGED <<in_buffers, soem_inputs, rtVars, wdVars, plc_pc, tag, idx,
                   floor, floor_cycle>>

PlcReadEnd ==
    /\ plc_pc = "read"
    /\ plc_todo = {}
    /\ plc_pc' = "tasks"
    /\ UNCHANGED <<in_buffers, soem_inputs, rtVars, wdVars, tag, idx,
                   plc_todo, value, floor, floor_cycle>>

-----------------------------------------------------------------------------
Next ==
    \/ \E answered \in SUBSET Slave : RtExchange(answered)
    \/ \E c \in Cell : RtCopy(c)
    \/ RtPublish
    \/ \E s \in Slave : WdSlaveLost(s)
    \/ \E c \in Cell : WdClear(c)
    \/ \E t \in Tags : PlcReadBegin(t)
    \/ \E c \in Cell : PlcReadByte(c)
    \/ PlcReadEnd

Spec == Init /\ [][Next]_vars

-----------------------------------------------------------------------------
Image == [Cell -> Nat]

TypeOK ==
    /\ in_buffers \in [Index -> Image]
    /\ active_in_buffer_idx \in Index
    /\ soem_inputs \in Image
    /\ rt_pc \in {"exchange", "copy"}
    /\ in_back \in Index
    /\ rt_todo \in SUBSET Cell
    /\ wd_todo \in SUBSET Cell
    /\ plc_pc \in {"tasks", "read"}
    /\ tag \in SUBSET Cell
    /\ idx \in Index
    /\ plc_todo \in SUBSET Cell
    /\ value \in Image
    /\ cycle \in Nat
    /\ published \in Image
    /\ published_cycle \in Nat
    /\ floor \in Image
    /\ floor_cycle \in Nat
    /\ cleared \in SUBSET Cell

\* plc_tag_read is about to return.
ReadDone == plc_pc = "read" /\ plc_todo = {}

\* However the threads interleave, no byte of a tag is older than the image
\* that was published when the read began, and none comes from nowhere.
ReadIsFresh ==
    ReadDone => \A c \in tag : /\ floor[c] <= value[c]
                               /\ value[c] <= soem_inputs[c]

\* A read during which the real-time thread does not finish one cycle and
\* start another returns the bytes of a single published image, in
\* whatever phase of its cycle that thread was when the read began.
ShortReadIsCoherent ==
    ReadDone /\ cycle <= floor_cycle + 1 => \A c \in tag : value[c] = floor[c]

\* Between two cycles the published image is what the bus last gave, whether a
\* slave answered or had been cleared before; only bytes cleared since that
\* exchange may differ.  A byte cleared late, after its slave has answered
\* again, thus loses its fresh input of one exchange at most.
LateClearCostsOneImage ==
    rt_pc = "exchange" =>
        \A c \in Cell \ cleared : published[c] = soem_inputs[c]

Channel == INSTANCE ImageChannel
               WITH source <- soem_inputs, committed <- published,
                    todo <- plc_todo, got <- value

\* Every step of the three threads is a step of the bufferless channel, or
\* changes nothing there.
ImplementsChannel == Channel!Spec
=============================================================================
