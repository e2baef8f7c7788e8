--------------------------- MODULE MCAdminConsole ---------------------------
(***************************************************************************)
(* Two links, two chains of requests at a time and two tokens.             *)
(***************************************************************************)
EXTENDS AdminConsole, TLC
CONSTANTS a, b, k1, k2, t1, t2
Symmetry == Permutations(Links) \cup Permutations(Calls) \cup Permutations(Tokens)
=============================================================================
