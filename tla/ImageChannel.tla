---------------------------- MODULE ImageChannel ----------------------------
(***************************************************************************)
(* What one direction of the process image promises to its reader, without *)
(* any buffer.  A writer keeps an image of the bytes of all slaves up to   *)
(* date and commits it from time to time; a reader takes a commit as its   *)
(* reference and then fetches the bytes one after the other.  Each byte it *)
(* gets is at least as recent as the commit it started from and was        *)
(* written by the writer before it was fetched.  Nothing is promised about *)
(* two bytes belonging to the same commit: the double buffers of           *)
(* OutputBuffers and InputBuffers implement this and no more.              *)
(*                                                                         *)
(* The value of a byte is the number of the writer's cycle that wrote it.  *)
(***************************************************************************)
EXTENDS Naturals

CONSTANT Cell           \* the bytes of the image, over all slaves

VARIABLES source,       \* the writer's image
          committed,    \* the image of the last commit
          floor,        \* the commit the reader started from
          todo,         \* the bytes the reader has still to fetch
          got           \* the reader's copy

vars == <<source, committed, floor, todo, got>>

Image == [Cell -> Nat]

NotNewer(f, g) == \A c \in Cell : f[c] <= g[c]

Blank == [c \in Cell |-> 0]

Init ==
    /\ source = Blank
    /\ committed = Blank
    /\ floor = Blank
    /\ todo = {}
    /\ got = Blank

\* The writer brings some bytes up to date.
Write ==
    /\ source' \in Image
    /\ NotNewer(source, source')
    /\ UNCHANGED <<committed, floor, todo, got>>

\* The writer hands over an image it has written since the last commit.
Commit ==
    /\ committed' \in Image
    /\ NotNewer(committed, committed')
    /\ NotNewer(committed', source)
    /\ UNCHANGED <<source, floor, todo, got>>

\* The reader starts on some bytes, with the last commit as its reference.
Sample ==
    /\ todo = {}
    /\ todo' \in SUBSET Cell
    /\ floor' = committed
    /\ UNCHANGED <<source, committed, got>>

\* The reader gets one byte.
Fetch(c) ==
    /\ c \in todo
    /\ \E v \in floor[c] .. source[c] : got' = [got EXCEPT ![c] = v]
    /\ todo' = todo \ {c}
    /\ UNCHANGED <<source, committed, floor>>

Next ==
    \/ Write
    \/ Commit
    \/ Sample
    \/ \E c \in Cell : Fetch(c)

Spec == Init /\ [][Next]_vars
=============================================================================
