-------------------------- MODULE MCOutputBuffers ---------------------------
(* Two slaves, one with two output bytes and one with a single byte, so that *)
(* a frame can be torn inside a slave and between slaves.                    *)
EXTENDS OutputBuffers, TLC

MCOutBytes == (0 :> {1, 2}) @@ (1 :> {1})
=============================================================================
