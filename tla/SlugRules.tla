----------------------------- MODULE SlugRules -----------------------------
(***************************************************************************)
(* What a slug may look like (validation/validation.go), how two spellings *)
(* of it compare, and where the router sends a request for it              *)
(* (routes/routes.go, handlers/redirect.go).  A slug is a word: a sequence *)
(* of characters, of which only the class and the case matter.             *)
(***************************************************************************)
EXTENDS Naturals, Sequences

CONSTANTS
  Characters,     \* everything a path segment may contain
  Plain,          \* a to z and 0 to 9
  Capitals,       \* A to Z
  Hyphen,
  Lower,          \* strings.ToLower, for each character
  Words,          \* the words under consideration
  MaxSlugLength,
  Api, Admin,     \* the reserved slugs
  WellKnown,      \* the reserved prefix
  Generated       \* the outputs of GenerateSlug

(***************************************************************************)
(* ToLower follows Unicode: it agrees with ASCII on ASCII, and may take    *)
(* another character, such as the Kelvin sign, to a plain one.             *)
(***************************************************************************)
ASSUME CharacterAssumption ==
  /\ Plain \subseteq Characters
  /\ Capitals \subseteq Characters
  /\ Hyphen \in Characters
  /\ Hyphen \notin Plain \cup Capitals
  /\ Plain \cap Capitals = {}
  /\ Lower \in [Characters -> Characters]
  /\ \A ch \in Plain \cup {Hyphen} : Lower[ch] = ch
  /\ \A ch \in Capitals : Lower[ch] \in Plain

ASSUME WordAssumption ==
  /\ Words \subseteq Seq(Characters)
  /\ \A word \in Words :
       [i \in DOMAIN word |->
          IF word[i] \in Capitals THEN Lower[word[i]] ELSE word[i]] \in Words
  /\ Api \in Seq(Plain) /\ Admin \in Seq(Plain)
  /\ WellKnown \in Seq(Characters)
  /\ MaxSlugLength \in Nat

ToLower(word) == [i \in DOMAIN word |-> Lower[word[i]]]

(***************************************************************************)
(* SQLite's NOCASE, the canonical form of ValidateSlug and sqliteNOCASE-   *)
(* Name: only the capitals of ASCII are folded.                            *)
(***************************************************************************)
NoCase(word) ==
  [i \in DOMAIN word |->
     IF word[i] \in Capitals THEN Lower[word[i]] ELSE word[i]]

HasPrefix(word, prefix) ==
  Len(prefix) <= Len(word) /\ SubSeq(word, 1, Len(prefix)) = prefix

Reserved(word) == word \in {Api, Admin} \/ HasPrefix(word, WellKnown)

Spelled(slug) ==
  \A i \in DOMAIN slug :
    \/ slug[i] \in Plain \cup Capitals
    \/ slug[i] = Hyphen /\ i > 1 /\ i < Len(slug) /\ slug[i - 1] # Hyphen

\* Mutant of ValidSlug: the reserved names are compared as they are written.
ValidAsWritten(slug) ==
  /\ Len(slug) \in 1..MaxSlugLength
  /\ ~Reserved(slug)
  /\ Spelled(slug)

(***************************************************************************)
(* ValidateSlug accepts slug; what it returns is NoCase(slug).             *)
(***************************************************************************)
ValidSlug(slug) ==
  /\ Len(slug) \in 1..MaxSlugLength
  /\ ~Reserved(ToLower(slug))
  /\ Spelled(slug)

CanonicalSlugs == {NoCase(word) : word \in {w \in Words : ValidSlug(w)}}

(***************************************************************************)
(* The handler for GET /word.  Patterns compare bytes, and /admin wins     *)
(* over /{slug}; every other path of one segment is a slug.                *)
(***************************************************************************)
Route(word) ==
  IF word = << >> THEN "home" ELSE IF word = Admin THEN "admin" ELSE "redirect"
=============================================================================
