--------------------------- MODULE MCInputBuffers ---------------------------
(* Slave 0 has a tag of two bytes (like the REAL tags of the configuration), *)
(* slave 1 has outputs only, so that the in_size > 0 guards matter.          *)
EXTENDS InputBuffers, TLC

MCInBytes == (0 :> {1, 2}) @@ (1 :> {})

MCTags == {{<<0, 1>>, <<0, 2>>}}
=============================================================================
