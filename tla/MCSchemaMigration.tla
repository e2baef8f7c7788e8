------------------------- MODULE MCSchemaMigration -------------------------
(***************************************************************************)
(* Two machines of the primary region, one elsewhere, and databases of up  *)
(* to two rows.                                                            *)
(***************************************************************************)
EXTENDS SchemaMigration

CONSTANTS a, A, b, m1, m2, m3

MCFold == [s \in Slugs |-> IF s = A THEN a ELSE s]
=============================================================================
