----------------------------- MODULE FaultLatch ------------------------------
(***************************************************************************)
(* What the watchdog promises to an operator, without slaves, working      *)
(* counters or recovery.  A latch is closed or open, and a few displays    *)
(* show whether the driver is operational; each follows the latch in a     *)
(* step of its own, so that for a moment they may disagree.  From time to  *)
(* time the bus is looked at, and found well or not.  By then all displays *)
(* show what the latch says.  The latch may close; it has done so by the   *)
(* time somebody looks again when the last Bad looks all found the bus     *)
(* unwell.  It opens only for a request, which is then used up, and only   *)
(* when the last Good looks all found the bus well.  Once the driver is    *)
(* stopped nobody looks, nothing opens or closes, and the displays go out. *)
(*                                                                         *)
(* Nothing is promised about when the request was made.                    *)
(***************************************************************************)
EXTENDS Naturals

CONSTANTS
    Bad, Good,              \* looks it takes for either
    Displays

VARIABLES latched,
          stopped,
          shown,            \* [Displays -> BOOLEAN], TRUE: operational
          wanted,           \* somebody asked for the latch to open
          up, down          \* looks in a row that found the bus well, unwell

vars == <<latched, stopped, shown, wanted, up, down>>

\* One more, or as many as matter.
Counted(n, enough) == IF n < enough THEN n + 1 ELSE enough

\* What a display should show, and that all of them do.
Operational == ~latched /\ ~stopped
Agreed == \A d \in Displays : shown[d] = Operational

Init ==
    /\ latched = FALSE
    /\ stopped = FALSE
    /\ shown = [d \in Displays |-> TRUE]
    /\ wanted = FALSE
    /\ up = 0 /\ down = 0

Look ==
    /\ ~stopped /\ Agreed
    /\ down = Bad => latched
    /\ \/ up' = Counted(up, Good) /\ down' = 0
       \/ up' = 0 /\ down' = Counted(down, Bad)
    /\ UNCHANGED <<latched, stopped, shown, wanted>>

Latch ==
    /\ ~stopped /\ ~latched /\ Agreed
    /\ latched' = TRUE
    /\ UNCHANGED <<stopped, shown, wanted, up, down>>

Follow(d) ==
    /\ shown[d] # Operational
    /\ shown' = [shown EXCEPT ![d] = Operational]
    /\ UNCHANGED <<latched, stopped, wanted, up, down>>

Ask ==
    /\ wanted' = TRUE
    /\ UNCHANGED <<latched, stopped, shown, up, down>>

Rearm ==
    /\ ~stopped /\ latched /\ Agreed
    /\ wanted
    /\ up = Good
    /\ latched' = FALSE
    /\ wanted' = FALSE
    /\ UNCHANGED <<stopped, shown, up, down>>

Stop ==
    /\ ~stopped /\ Agreed
    /\ stopped' = TRUE
    /\ UNCHANGED <<latched, shown, wanted, up, down>>

Next ==
    \/ Look
    \/ Latch
    \/ \E d \in Displays : Follow(d)
    \/ Ask
    \/ Rearm
    \/ Stop

Spec == Init /\ [][Next]_vars
=============================================================================
