------------------------- MODULE MCActivityTracking -------------------------
(***************************************************************************)
(* A primary and a replica, two visits, two addresses (spellings of one    *)
(* address are the business of RedirectStore's own runs).                  *)
(***************************************************************************)
EXTENDS ActivityTracking, TLC

CONSTANTS a, b, u, p, r, v1, v2

MCFold == [s \in Slugs |-> s]

MCRank == [s \in Canonical |-> IF s = a THEN 1 ELSE 2]

MCBatches ==
  {<< [slug |-> a, url |-> u, disabled |-> TRUE, expires |-> None,
       clicks |-> 0, last |-> None] >>}

MCSymmetry == Permutations(Visits)
=============================================================================
