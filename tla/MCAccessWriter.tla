--------------------------- MODULE MCAccessWriter ---------------------------
(***************************************************************************)
(* Three requests and two closers share a writer whose requested capacity  *)
(* of zero NewAccessWriter raises to one.                                  *)
(***************************************************************************)
EXTENDS AccessWriter
CONSTANTS e1, e2, e3, c1, c2
=============================================================================
