------------------------- MODULE MCServerLifecycle -------------------------
(***************************************************************************)
(* Three requests: enough to fill a queue of one with one record in hand,  *)
(* and to have one request under way when the other records are queued.    *)
(***************************************************************************)
EXTENDS ServerLifecycle
CONSTANTS r1, r2, r3
=============================================================================
