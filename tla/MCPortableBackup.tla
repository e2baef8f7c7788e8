-------------------------- MODULE MCPortableBackup --------------------------
(***************************************************************************)
(* One address with two spellings, the slugs of legacy tables and of other *)
(* servers that no server of today would create, and files with one fault  *)
(* each.  The instants 0 to 2 are portable and 3 lies in year 10000.       *)
(***************************************************************************)
EXTENDS PortableBackup, TLC

a == << "a" >>
A == << "A" >>
dash == << "-" >>           \* which ValidateSlug refuses
u == << "u" >>
Empty == << >>
FF == << "FF" >>            \* not UTF-8
aNulb == << "a", "NUL", "b" >>
ANulA == << "A", "NUL", "A" >>  \* the same as aNulb under NOCASE
aNul == << "a", "NUL" >>        \* the same as neither

MCSlugs == {a, A, dash, Empty, FF, aNulb, ANulA, aNul}

MCCanonical == {a}

MCManaged == {a}

MCURLs == {u, Empty, FF}

MCDestinations == {u}

MCGarbled == {FF}

MCCharacters == {"a", "A", "b", "-", "FF", "NUL"}

MCCapitals == {"A"}

MCLower == [ch \in Capitals |-> "a"]

MCNul == "NUL"

MCFold ==
  [s \in Slugs |->
     IF s = A THEN a ELSE IF s = ANulA THEN aNulb ELSE s]

MCRank == [s \in Canonical |-> 1]

Row(slug, url) ==
  [slug |-> slug, url |-> url, disabled |-> FALSE, expires |-> None,
   clicks |-> 0, last |-> None]

(***************************************************************************)
(* No rows, two slugs with a NUL, and one fault each: an empty slug, an    *)
(* empty destination, a garbled slug, a garbled destination.               *)
(***************************************************************************)
MCLegacy ==
  { << >>, << Row(aNulb, u), Row(aNul, u) >>,
    << Row(Empty, u) >>, << Row(dash, Empty) >>,
    << Row(FF, u) >>, << Row(dash, FF) >> }

Link(slug, url, expires, updated, clicks, last) ==
  [slug |-> slug, url |-> url, disabled |-> clicks = 0, expires |-> expires,
   updated |-> updated, clicks |-> clicks, last |-> last]

Unused(slug, url) == Link(slug, url, None, 1, 0, None)

File(version, entries) == [version |-> version, redirects |-> entries]

(***************************************************************************)
(* Accepted: a mixed-case slug in each version, of which version 1 has no  *)
(* lifecycle and usage fields, and a destination updated in year 10000.    *)
(* Refused: another version, two spellings of one slug, with and without a *)
(* NUL, an empty slug, an empty destination, bad timestamps, usage that    *)
(* disagrees, a negative counter and a file too large.                     *)
(***************************************************************************)
MCFiles ==
  { File(v, << Link(A, u, 1, 1, 1, 1) >>) : v \in 2..4 } \cup
  { File(1, << Link(A, u, Bad, Bad, -1, Bad), Unused(dash, u) >>),
    File(3, << Link(dash, u, None, 3, 0, None) >>),
    File(3, << Unused(a, u), Unused(A, u) >>),
    File(3, << Unused(aNulb, u), Unused(ANulA, u) >>),
    File(3, << Unused(Empty, u) >>),
    File(3, << Unused(dash, Empty) >>),
    File(2, << Link(dash, u, Bad, 1, 0, None) >>),
    File(2, << Link(dash, u, None, Bad, 0, None) >>),
    File(3, << Link(dash, u, None, 1, 1, Bad) >>),
    File(3, << Link(dash, u, None, 1, 1, None) >>),
    File(3, << Link(dash, u, None, 1, 0, 1) >>),
    File(3, << Link(dash, u, None, 1, -1, 1) >>),
    File(3, << Unused(a, u), Unused(dash, u), Unused(aNul, u) >>) }
=============================================================================
