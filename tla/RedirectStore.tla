--------------------------- MODULE RedirectStore ---------------------------
(***************************************************************************)
(* The SQLite tables behind gottem.link and the operations of package db   *)
(* on them (db/redirects.go, db/misses.go, ResolveSlug of db/db.go).       *)
(*                                                                         *)
(* Every operation is one SQL statement or one transaction, which SQLite   *)
(* serializes, so each is one action; an operation that returns an error   *)
(* rolls back and is a step that does not happen.  A slug, a destination   *)
(* and an instant are opaque: the tables tell slugs apart by the NOCASE    *)
(* collation (Fold) and order instants by julianday(), which keeps whole   *)
(* milliseconds and is NULL from year 10000 on.  created_at, updated_at    *)
(* and destination_updated_at decide nothing and are left out.             *)
(***************************************************************************)
EXTENDS Integers, Sequences, FiniteSets

CONSTANTS
  Slugs,        \* every slug a row may hold, migrated and imported ones included
  Canonical,    \* the outputs of validation.ValidateSlug
  Fold,         \* the NOCASE collation: the representative of each slug
  Rank,         \* the place of a canonical slug in ORDER BY slug COLLATE NOCASE
  URLs,         \* destinations
  Clock,        \* instants that time.Now() can return, in ticks
  Expirations,  \* instants that validateExpiration and the import accept
  LastInstant,  \* the last tick of year 9999
  Resolution,   \* ticks in one millisecond
  MaxCount,     \* 2^63 - 1, where click_count and miss_count saturate
  MaxId,        \* the last rowid AUTOINCREMENT can hand out
  MaxMisses,    \* maxStoredSlugMisses
  Batches,      \* import batches, as sequences of ImportRow
  None          \* SQL NULL

ASSUME SlugAssumption ==
  /\ Canonical \subseteq Slugs
  /\ IsFiniteSet(Canonical)
  /\ Fold \in [Slugs -> Slugs]
  /\ \A s \in Slugs : Fold[Fold[s]] = Fold[s]
  /\ \A s \in Canonical : Fold[s] = s
  /\ Rank \in [Canonical -> Nat]
  /\ \A s, t \in Canonical : Rank[s] = Rank[t] => s = t

ASSUME TimeAssumption ==
  /\ LastInstant \in Nat
  /\ Resolution \in Nat \ {0}
  /\ Clock \subseteq 0..LastInstant
  /\ Expirations \subseteq Int
  /\ None \notin Int

ASSUME BoundAssumption ==
  /\ MaxCount \in Nat \ {0}
  /\ MaxId \in Nat
  /\ MaxMisses \in Nat \ {0}

Instant == Expirations \cup Clock

Row == [slug: Slugs, url: URLs, disabled: BOOLEAN,
        expires: Expirations \cup {None},
        clicks: 0..MaxCount, last: Instant \cup {None}]

Miss == [count: 1..MaxCount, first: Clock, last: Clock]

(***************************************************************************)
(* What backup.Decode lets through to ImportRedirects: usage is present    *)
(* exactly when the redirect has been used.                                *)
(***************************************************************************)
ImportRow == {row \in Row : row.clicks = 0 <=> row.last = None}

ASSUME BatchAssumption == Batches \subseteq Seq(ImportRow)

VARIABLES
  redirects,  \* table redirects: id -> row
  lastId,     \* the AUTOINCREMENT sequence of that table
  misses      \* table slug_misses: canonical slug -> aggregate

vars == <<redirects, lastId, misses>>
-----------------------------------------------------------------------------
JulianDay(t) == t \div Resolution

(***************************************************************************)
(* julianday(t) > julianday(u): not true when t has no julian day.         *)
(***************************************************************************)
Later(t, u) == t <= LastInstant /\ JulianDay(t) > JulianDay(u)

SameSlug(s, t) == Fold[s] = Fold[t]

\* Mutant of Rows: the slug column without COLLATE NOCASE.
ExactRows(rows, slug) == {id \in DOMAIN rows : rows[id].slug = slug}

Rows(rows, slug) == {id \in DOMAIN rows : SameSlug(rows[id].slug, slug)}

Live(row, now) ==
  /\ ~row.disabled
  /\ row.expires = None \/ Later(row.expires, now)

(***************************************************************************)
(* The ids a visit to slug resolves to at instant now; empty for           *)
(* sql.ErrNoRows.                                                          *)
(***************************************************************************)
ResolveSlug(rows, slug, now) ==
  {id \in Rows(rows, slug) : Live(rows[id], now)}

NewRow(slug, url, expires) ==
  [slug |-> slug, url |-> url, disabled |-> FALSE, expires |-> expires,
   clicks |-> 0, last |-> None]

\* Mutants of Increment: no saturation, and wrapping to zero.
UnboundedIncrement(n) == n + 1

WrappingIncrement(n) == (n + 1) % (MaxCount + 1)

Increment(n) == IF n < MaxCount THEN n + 1 ELSE n

\* Mutant of Accessed: the access recorded last wins.
AccessedInArrivalOrder(row, at) ==
  [row EXCEPT !.clicks = Increment(@), !.last = at]

Accessed(row, at) ==
  [row EXCEPT !.clicks = Increment(@),
              !.last = IF @ # None /\ Later(@, at) THEN @ ELSE at]

Missed(miss, at) ==
  [count |-> Increment(miss.count),
   first |-> IF Later(at, miss.first) THEN miss.first ELSE at,
   last  |-> IF Later(miss.last, at) THEN miss.last ELSE at]

\* Mutant of Before: ORDER BY julianday(last_missed_at) ASC.
OldestFirst(table, s, t) ==
  \/ Later(table[t].last, table[s].last)
  \/ /\ JulianDay(table[s].last) = JulianDay(table[t].last)
     /\ Rank[s] < Rank[t]

(***************************************************************************)
(* ORDER BY julianday(last_missed_at) DESC, slug COLLATE NOCASE: s comes   *)
(* before t.                                                               *)
(***************************************************************************)
Before(table, s, t) ==
  \/ Later(table[s].last, table[t].last)
  \/ /\ JulianDay(table[s].last) = JulianDay(table[t].last)
     /\ Rank[s] < Rank[t]

Ahead(table, s) == {t \in DOMAIN table : Before(table, t, s)}

\* Mutant of Kept: one slug too many.
KeptOffByOne(table) ==
  {s \in DOMAIN table : Cardinality(Ahead(table, s)) <= MaxMisses}

Kept(table) == {s \in DOMAIN table : Cardinality(Ahead(table, s)) < MaxMisses}

Prune(table) == [s \in Kept(table) |-> table[s]]

\* Mutant of WithoutMisses: the slug compared byte by byte.
WithoutExactMisses(table, slugs) ==
  [s \in DOMAIN table \ slugs |-> table[s]]

WithoutMisses(table, slugs) ==
  [s \in {t \in DOMAIN table : \A u \in slugs : ~SameSlug(t, u)} |-> table[s]]
-----------------------------------------------------------------------------
Init ==
  /\ redirects = [id \in {} |-> None]
  /\ lastId = 0
  /\ misses = [s \in {} |-> None]

\* Mutant of CreateRedirect: INTEGER PRIMARY KEY without AUTOINCREMENT.
CreateReusingIds(slug, url, expires) ==
  /\ lastId < MaxId
  /\ Rows(redirects, slug) = {}
  /\ lastId' = 1 + Cardinality(DOMAIN redirects)
  /\ redirects' = [id \in DOMAIN redirects \cup {lastId'} |->
                     IF id = lastId' THEN NewRow(slug, url, expires)
                                     ELSE redirects[id]]
  /\ misses' = WithoutMisses(misses, {slug})

CreateRedirect(slug, url, expires) ==
  /\ lastId < MaxId
  /\ Rows(redirects, slug) = {}
  /\ lastId' = lastId + 1
  /\ redirects' = [id \in DOMAIN redirects \cup {lastId'} |->
                     IF id = lastId' THEN NewRow(slug, url, expires)
                                     ELSE redirects[id]]
  /\ misses' = WithoutMisses(misses, {slug})

(***************************************************************************)
(* All or nothing: one taken slug, or two equal ones, fails the batch.     *)
(***************************************************************************)
ImportRedirects(batch) ==
  LET slugs == {batch[i].slug : i \in DOMAIN batch}
      ids   == lastId + 1 .. lastId + Len(batch)
  IN  /\ lastId + Len(batch) <= MaxId
      /\ \A slug \in slugs : Rows(redirects, slug) = {}
      /\ \A i, j \in DOMAIN batch :
           SameSlug(batch[i].slug, batch[j].slug) => i = j
      /\ lastId' = lastId + Len(batch)
      /\ redirects' = [id \in DOMAIN redirects \cup ids |->
                         IF id \in ids THEN batch[id - lastId]
                                       ELSE redirects[id]]
      /\ misses' = WithoutMisses(misses, slugs)

(***************************************************************************)
(* UPDATE redirects SET ... WHERE slug = ?, with the new form of each row  *)
(* that matches; none is ErrRedirectNotFound.                              *)
(***************************************************************************)
Rewrite(matches) ==
  /\ DOMAIN matches # {}
  /\ redirects' = [id \in DOMAIN redirects |->
                     IF id \in DOMAIN matches THEN matches[id]
                                              ELSE redirects[id]]
  /\ UNCHANGED <<lastId, misses>>

UpdateRedirect(slug, url) ==
  Rewrite([id \in Rows(redirects, slug) |->
             [redirects[id] EXCEPT !.url = url]])

DisableRedirect(slug) ==
  Rewrite([id \in Rows(redirects, slug) |->
             [redirects[id] EXCEPT !.disabled = TRUE]])

EnableRedirect(slug) ==
  Rewrite([id \in Rows(redirects, slug) |->
             [redirects[id] EXCEPT !.disabled = FALSE]])

SetRedirectExpiration(slug, expires) ==
  Rewrite([id \in Rows(redirects, slug) |->
             [redirects[id] EXCEPT !.expires = expires]])

DeleteRedirect(slug) ==
  /\ Rows(redirects, slug) # {}
  /\ redirects' = [id \in DOMAIN redirects \ Rows(redirects, slug) |->
                     redirects[id]]
  /\ UNCHANGED <<lastId, misses>>

(***************************************************************************)
(* By id, not by slug: an id that is gone is ErrRedirectNotFound.          *)
(***************************************************************************)
RecordRedirectAccess(id, at) ==
  /\ id \in DOMAIN redirects
  /\ redirects' = [redirects EXCEPT ![id] = Accessed(@, at)]
  /\ UNCHANGED <<lastId, misses>>

(***************************************************************************)
(* A slug that has a row, even a disabled or expired one, is not a miss;   *)
(* the pruning statement runs in either case.                              *)
(***************************************************************************)
WithMiss(slug, at) ==
  [s \in DOMAIN misses \cup {slug} |->
     IF s # slug THEN misses[s]
     ELSE IF slug \in DOMAIN misses THEN Missed(misses[slug], at)
     ELSE [count |-> 1, first |-> at, last |-> at]]

\* Mutant of RecordSlugMiss: without NOT EXISTS.
RecordMissUnchecked(slug, at) ==
  /\ misses' = Prune(WithMiss(slug, at))
  /\ UNCHANGED <<redirects, lastId>>

RecordSlugMiss(slug, at) ==
  /\ misses' = Prune(IF Rows(redirects, slug) = {} THEN WithMiss(slug, at)
                                                   ELSE misses)
  /\ UNCHANGED <<redirects, lastId>>
-----------------------------------------------------------------------------
Create ==
  \E slug \in Canonical, url \in URLs, expires \in Expirations \cup {None} :
    CreateRedirect(slug, url, expires)

Manage ==
  \E slug \in Slugs :
    \/ \E url \in URLs : UpdateRedirect(slug, url)
    \/ DisableRedirect(slug)
    \/ EnableRedirect(slug)
    \/ \E expires \in Expirations \cup {None} :
         SetRedirectExpiration(slug, expires)
    \/ DeleteRedirect(slug)

Import == \E batch \in Batches : ImportRedirects(batch)

Record ==
  \E at \in Clock :
    \/ \E id \in 1..lastId : RecordRedirectAccess(id, at)
    \/ \E slug \in Canonical : RecordSlugMiss(slug, at)

Next == Create \/ Manage \/ Import \/ Record

Spec == Init /\ [][Next]_vars
-----------------------------------------------------------------------------
(***************************************************************************)
(* The tables hold what their schema allows.  In particular the counters   *)
(* stay inside a signed 64-bit integer and ids stay at or below the        *)
(* AUTOINCREMENT sequence.                                                 *)
(***************************************************************************)
TypeOK ==
  /\ lastId \in 0..MaxId
  /\ DOMAIN redirects \subseteq 1..lastId
  /\ redirects \in [DOMAIN redirects -> Row]
  /\ DOMAIN misses \subseteq Canonical
  /\ misses \in [DOMAIN misses -> Miss]

(***************************************************************************)
(* Two rows never answer to the same address: slugs that differ only in    *)
(* ASCII case are one slug, whether a row was created or imported.         *)
(***************************************************************************)
SlugsUnique ==
  \A i, j \in DOMAIN redirects :
    Fold[redirects[i].slug] = Fold[redirects[j].slug] => i = j

(***************************************************************************)
(* The missed-slug report lists only slugs that have no redirect: creating *)
(* or importing a link clears its miss, and a miss recorded late, after    *)
(* its slug was taken, does not come back.                                 *)
(***************************************************************************)
MissesUnresolved ==
  \A s \in DOMAIN misses, id \in DOMAIN redirects : Fold[redirects[id].slug] # s

(***************************************************************************)
(* The missed-slug table never holds more than MaxMisses slugs, although   *)
(* each pruning removes only what one ranking of the whole table puts      *)
(* beyond that place.                                                      *)
(***************************************************************************)
MissRetention == Cardinality(DOMAIN misses) <= MaxMisses

(***************************************************************************)
(* A redirect has a last access exactly when its counter is not zero,      *)
(* which is what the import of a backup insists on.                        *)
(***************************************************************************)
UsageConsistent ==
  \A id \in DOMAIN redirects :
    redirects[id].clicks = 0 <=> redirects[id].last = None

(***************************************************************************)
(* Usage only grows while a row lives: no operation lowers its counter or, *)
(* to the millisecond, moves its last access back, whatever order the      *)
(* accesses are recorded in.  (A last access that was imported beyond year *)
(* 9999 has no julian day and may be replaced.)                            *)
(***************************************************************************)
UsageGrows ==
  [][\A id \in DOMAIN redirects \cap DOMAIN redirects' :
       /\ redirects'[id].clicks >= redirects[id].clicks
       /\ (redirects[id].last # None /\ redirects[id].last <= LastInstant) =>
            /\ redirects'[id].last # None
            /\ JulianDay(redirects'[id].last) >= JulianDay(redirects[id].last)
    ]_vars

(***************************************************************************)
(* A missed slug leaves the table only because a redirect took it, or      *)
(* because the table is full of slugs missed at least as recently.         *)
(***************************************************************************)
OnlyOldestPruned ==
  [][\A s \in DOMAIN misses \ DOMAIN misses' :
       \/ \E id \in DOMAIN redirects' : Fold[redirects'[id].slug] = s
       \/ /\ Cardinality(DOMAIN misses') = MaxMisses
          /\ \A t \in DOMAIN misses' : ~Later(misses[s].last, misses'[t].last)
    ]_vars
=============================================================================
