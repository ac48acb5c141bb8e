--------------------------- MODULE PlcApplication ---------------------------
(***************************************************************************)
(* The PLC task of the application on the scheduler that runs it: every    *)
(* so many runs plc_task1_run turns its value over and writes it to the    *)
(* output tag X15_1.  The configuration places the tag in the output image *)
(* of the device, which this module holds as the task finds it (that the   *)
(* two output buffers keep it so is the Remanence of OutputBuffers).       *)
(***************************************************************************)
EXTENDS Scheduler, Configuration

CONSTANTS
    Blinker,        \* the slot of plc_task1_run
    BlinkAfter      \* the task waits for its counter to pass this

ASSUME ApplicationAssumption ==
    /\ Blinker \in Slot
    /\ BlinkAfter \in Nat

VARIABLES
    counter, value,     \* statics of plc_task1_run
    outputs,            \* what get_output_data gives: images by device
    blinks              \* history: writes so far

appVars == <<counter, value, outputs, blinks>>
allVars == <<vars, appVars>>

x15 == PLC_Tags_desc_arr[3]

BlankOutputs == [d \in {0} |-> [o \in 0 .. SizeOf(L230_RX_PDO) - 1 |-> 0]]

\* The tag lies in the image.  No constant is left open in this: evaluated
\* once, it holds.
ASSUME X15IsInImage ==
    /\ SizeOf(L230_RX_PDO) \in Nat
    /\ x15.offset \in 0 .. SizeOf(L230_RX_PDO) - 1

AppInit ==
    /\ Init
    /\ counter = 0 /\ value = 0 /\ blinks = 0
    /\ outputs = BlankOutputs

\* Slip: a run that blinks does not count.
BlinkUncounted ==
    IF counter > BlinkAfter
    THEN /\ value' = 1 - value
         /\ outputs' = plc_tag_write(x15, value', outputs)
         /\ counter' = 0
         /\ blinks' = blinks + 1
    ELSE counter' = counter + 1 /\ UNCHANGED <<value, outputs, blinks>>

\* The counter starts at 0 and starts again at 1.
plc_task1_run ==
    IF counter > BlinkAfter
    THEN /\ value' = 1 - value
         /\ outputs' = plc_tag_write(x15, value', outputs)
         /\ counter' = 1
         /\ blinks' = blinks + 1
    ELSE counter' = counter + 1 /\ UNCHANGED <<value, outputs, blinks>>

RunApplication ==
    /\ RunTask
    /\ IF i = Blinker /\ Runs(i) THEN plc_task1_run ELSE UNCHANGED appVars

Others ==
    \/ AddTask \/ Start \/ Stop \/ Join
    \/ Begin \/ LoopTest \/ Wake \/ Sync
    \/ Elapse \/ LatchOrReset

AppNext ==
    \/ RunApplication
    \/ Others /\ UNCHANGED appVars

AppSpec == AppInit /\ [][AppNext]_allVars /\ Fairness

-----------------------------------------------------------------------------
\* So many deadlines of the task have come, at some moment from the tick to the
\* last look at the clock.
Due(count) ==
    /\ first[Blinker] + count * Period[Blinker] > next
    /\ count > 0 => first[Blinker] + (count - 1) * Period[Blinker] <= now

\* The output after so many runs.
Lit(count) == IF count = 0 THEN 0 ELSE ((count - 1) \div (BlinkAfter + 1)) % 2

\* Between two ticks the output shows what the time says: it has turned over
\* with every BlinkAfter + 1 deadlines that have come after the first, however
\* late tasks and thread were.  No other bit of the image is ever touched.
BlinkFollowsTime ==
    pc = "loop" /\ init[Blinker] =>
        \E count \in 0 .. now + 1 :
            /\ Due(count)
            /\ outputs = plc_tag_write(x15, Lit(count), BlankOutputs)

\* Why it holds: the counter, the blinks and the runs of the task agree, as the
\* run that blinks counts itself, and each write replaces the one before.
CountInv ==
    /\ blinks \in Nat /\ counter \in 0 .. BlinkAfter + 1
    /\ runs[Blinker] = blinks * (BlinkAfter + 1) + counter
    /\ counter = 0 => blinks = 0
    /\ value = blinks % 2
    /\ outputs = plc_tag_write(x15, value, BlankOutputs)
=============================================================================
