-------------------------- MODULE MCRedirectStore --------------------------
(***************************************************************************)
(* Small instances of RedirectStore for TLC.  Instants count half          *)
(* milliseconds; with LastInstant = 3 the instant 4 lies in year 10000.    *)
(***************************************************************************)
EXTENDS RedirectStore, TLC

CONSTANTS a, b, c,  \* canonical slugs
          A,        \* a slug that NOCASE folds to a
          u, w      \* destinations

MCFold == [s \in Slugs |-> IF s = A THEN a ELSE s]

MCRank == [s \in Canonical |-> IF s = a THEN 1 ELSE IF s = b THEN 2 ELSE 3]

Imported(slug, disabled, expires, clicks, last) ==
  [slug |-> slug, url |-> u, disabled |-> disabled, expires |-> expires,
   clicks |-> clicks, last |-> last]

(***************************************************************************)
(* A restored link in upper case with a saturated counter and a last       *)
(* access in year 10000; a batch whose second row may conflict; an empty   *)
(* backup.                                                                 *)
(***************************************************************************)
MCBatches ==
  { << >>,
    << Imported(A, TRUE, 4, MaxCount, 4) >>,
    << Imported(A, FALSE, None, 1, 2), Imported(b, FALSE, 1, 0, None) >> }

SlugOnlyBatches ==
  { << >>,
    << Imported(A, FALSE, None, 0, None), Imported(b, FALSE, None, 0, None) >> }
=============================================================================
