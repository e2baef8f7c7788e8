------------------------ MODULE RedirectStore_proofs ------------------------
(***************************************************************************)
(* Proofs, for every value of the constants, of the safety properties of   *)
(* RedirectStore.  IInv is their conjunction; it is inductive as it        *)
(* stands, since the slug and usage guarantees of each row and the two     *)
(* guarantees of the miss table only lean on one another.                  *)
(***************************************************************************)
EXTENDS RedirectStore, TLAPS, FiniteSetTheorems, FunctionTheorems

IInv ==
  /\ TypeOK
  /\ SlugsUnique
  /\ MissesUnresolved
  /\ MissRetention
  /\ UsageConsistent
-----------------------------------------------------------------------------
(***************************************************************************)
(* Helpers: the day of an instant is an integer, an increment never leaves *)
(* the counter's range or yields zero.                                     *)
(***************************************************************************)
LEMMA JulianDayType == \A t \in Int : JulianDay(t) \in Int
BY TimeAssumption DEF JulianDay

LEMMA ClockType == \A t \in Clock : t \in Int /\ t <= LastInstant
<1>1. \A t \in 0..LastInstant : t \in Int /\ t <= LastInstant
  BY TimeAssumption
<1>. QED
  BY <1>1, TimeAssumption

LEMMA IncrementType ==
  \A n \in 0..MaxCount :
    /\ Increment(n) \in 1..MaxCount
    /\ Increment(n) >= n
BY BoundAssumption DEF Increment

(***************************************************************************)
(* Recording an access yields a row whose usage is consistent.             *)
(***************************************************************************)
LEMMA AccessedType ==
  ASSUME NEW row \in Row, NEW at \in Clock
  PROVE  /\ Accessed(row, at) \in Row
         /\ Accessed(row, at).slug = row.slug
         /\ Accessed(row, at).clicks \in 1..MaxCount
         /\ Accessed(row, at).clicks >= row.clicks
         /\ Accessed(row, at).last # None
         /\ (row.last # None /\ row.last <= LastInstant) =>
              JulianDay(Accessed(row, at).last) >= JulianDay(row.last)
<1>1. row.clicks \in 0..MaxCount /\ row.last \in Instant \cup {None}
  BY DEF Row
<1>2. Increment(row.clicks) \in 1..MaxCount /\ Increment(row.clicks) >= row.clicks
  BY <1>1, IncrementType
<1>3. at \in Instant /\ at # None
  BY TimeAssumption DEF Instant
<1>. DEFINE later == IF row.last # None /\ Later(row.last, at) THEN row.last ELSE at
<1>4. later \in Instant \cup {None} /\ later # None
  BY <1>1, <1>3
<1>5. Accessed(row, at) = [row EXCEPT !.clicks = Increment(row.clicks), !.last = later]
  BY DEF Accessed
<1>0. (row.last # None /\ row.last <= LastInstant) =>
        JulianDay(later) >= JulianDay(row.last)
  <2>1. CASE row.last = None
    BY <2>1
  <2>2. CASE row.last # None
    <3>1. row.last \in Int /\ at \in Int
      BY <1>1, <2>2, ClockType, TimeAssumption DEF Instant
    <3>2. JulianDay(row.last) \in Int /\ JulianDay(at) \in Int
      BY <3>1, JulianDayType
    <3>. QED
      BY <3>2 DEF Later
  <2>. QED
    BY <2>1, <2>2
<1>. HIDE DEF later
<1>. DEFINE new == [row EXCEPT !.clicks = Increment(row.clicks), !.last = later]
<1>6. Increment(row.clicks) \in 0..MaxCount
  BY <1>2, BoundAssumption
<1>7. new \in Row
  BY <1>4, <1>6 DEF Row
<1>8. new.slug = row.slug /\ new.clicks = Increment(row.clicks) /\ new.last = later
  BY DEF Row
<1>. HIDE DEF new
<1>. QED
  BY <1>0, <1>2, <1>4, <1>5, <1>7, <1>8 DEF new

LEMMA MissedType ==
  ASSUME NEW miss \in Miss, NEW at \in Clock
  PROVE  Missed(miss, at) \in Miss
BY IncrementType, BoundAssumption DEF Miss, Missed

LEMMA FirstMissType ==
  ASSUME NEW at \in Clock
  PROVE  [count |-> 1, first |-> at, last |-> at] \in Miss
BY BoundAssumption DEF Miss
-----------------------------------------------------------------------------
(***************************************************************************)
(* The ranking of the miss table is a strict total order, so the number of *)
(* slugs ahead of a slug identifies it: at most MaxMisses slugs have fewer *)
(* than MaxMisses slugs ahead.                                             *)
(***************************************************************************)
IsTable(table) ==
  /\ DOMAIN table \subseteq Canonical
  /\ table \in [DOMAIN table -> Miss]

LEMMA BeforeIsTotalOrder ==
  ASSUME NEW table, IsTable(table)
  PROVE  /\ \A s \in DOMAIN table : ~Before(table, s, s)
         /\ \A s, t \in DOMAIN table : s # t => Before(table, s, t) \/ Before(table, t, s)
         /\ \A r, s, t \in DOMAIN table :
              Before(table, r, s) /\ Before(table, s, t) => Before(table, r, t)
<1>. DEFINE day(s) == JulianDay(table[s].last)
<1>1. \A s \in DOMAIN table : table[s].last \in Clock
  BY DEF IsTable, Miss
<1>2. \A s \in DOMAIN table : table[s].last \in Int /\ table[s].last <= LastInstant
  BY <1>1, ClockType
<1>3. \A s \in DOMAIN table : day(s) \in Int
  BY <1>2, JulianDayType
<1>4. \A s, t \in DOMAIN table :
        Before(table, s, t) <=> day(s) > day(t) \/ (day(s) = day(t) /\ Rank[s] < Rank[t])
  BY <1>2 DEF Before, Later
<1>5. \A s \in DOMAIN table : Rank[s] \in Nat
  BY SlugAssumption DEF IsTable
<1>6. \A s, t \in DOMAIN table : Rank[s] = Rank[t] => s = t
  BY SlugAssumption DEF IsTable
<1>. HIDE DEF day
<1>. QED
  BY <1>3, <1>4, <1>5, <1>6

LEMMA AheadFinite ==
  ASSUME NEW table, IsTable(table), NEW s
  PROVE  IsFiniteSet(Ahead(table, s)) /\ Cardinality(Ahead(table, s)) \in Nat
<1>1. Ahead(table, s) \in SUBSET Canonical
  BY DEF Ahead, IsTable
<1>. QED
  BY <1>1, FS_Subset, FS_CardinalityType, SlugAssumption

LEMMA AheadGrows ==
  ASSUME NEW table, IsTable(table), NEW s \in DOMAIN table, NEW t \in DOMAIN table,
         Before(table, s, t)
  PROVE  Cardinality(Ahead(table, s)) # Cardinality(Ahead(table, t))
<1>1. Ahead(table, s) \in SUBSET Ahead(table, t)
  BY BeforeIsTotalOrder DEF Ahead
<1>2. s \in Ahead(table, t) /\ s \notin Ahead(table, s)
  BY BeforeIsTotalOrder DEF Ahead
<1>3. IsFiniteSet(Ahead(table, t))
  BY AheadFinite
<1>. QED
  BY <1>1, <1>2, <1>3, FS_Subset

LEMMA KeptBounded ==
  ASSUME NEW table, IsTable(table)
  PROVE  Cardinality(Kept(table)) <= MaxMisses
<1>. DEFINE places == 0 .. MaxMisses - 1
            place  == [s \in Kept(table) |-> Cardinality(Ahead(table, s))]
<1>1. \A s \in Kept(table) : s \in DOMAIN table /\ Cardinality(Ahead(table, s)) \in places
  BY AheadFinite, BoundAssumption DEF Kept
<1>2. place \in [Kept(table) -> places]
  BY <1>1
<1>3. ASSUME NEW s \in Kept(table), NEW t \in Kept(table), place[s] = place[t]
      PROVE  s = t
  <2>1. Cardinality(Ahead(table, s)) = Cardinality(Ahead(table, t))
    BY <1>3
  <2>2. ~Before(table, s, t) /\ ~Before(table, t, s)
    BY <1>1, <2>1, AheadGrows
  <2>. QED
    BY <1>1, <2>2, BeforeIsTotalOrder
<1>4. place \in Injection(Kept(table), places)
  BY <1>2, <1>3, Fun_IsInj
<1>5. IsFiniteSet(places) /\ Cardinality(places) = MaxMisses
  BY FS_Interval, BoundAssumption
<1>6. Cardinality(Kept(table)) <= Cardinality(places)
  BY <1>4, <1>5, FS_Injection
<1>. QED
  BY <1>5, <1>6

LEMMA PruneTable ==
  ASSUME NEW table, IsTable(table)
  PROVE  /\ IsTable(Prune(table))
         /\ DOMAIN Prune(table) \subseteq DOMAIN table
         /\ Cardinality(DOMAIN Prune(table)) <= MaxMisses
<1>1. DOMAIN Prune(table) = Kept(table) /\ Kept(table) \subseteq DOMAIN table
  BY DEF Prune, Kept
<1>2. \A s \in Kept(table) : Prune(table)[s] = table[s]
  BY DEF Prune
<1>3. Prune(table) = [s \in Kept(table) |-> table[s]]
  BY DEF Prune
<1>. QED
  BY <1>1, <1>2, <1>3, KeptBounded DEF IsTable

LEMMA WithoutMissesTable ==
  ASSUME NEW table, IsTable(table), Cardinality(DOMAIN table) <= MaxMisses,
         NEW slugs
  PROVE  LET left == WithoutMisses(table, slugs)
         IN  /\ IsTable(left)
             /\ DOMAIN left \subseteq DOMAIN table
             /\ Cardinality(DOMAIN left) <= MaxMisses
             /\ \A s \in DOMAIN left, u \in slugs : Fold[s] # Fold[u]
<1>. DEFINE left == WithoutMisses(table, slugs)
<1>1. /\ DOMAIN left \subseteq DOMAIN table
      /\ left = [s \in DOMAIN left |-> table[s]]
      /\ \A s \in DOMAIN left, u \in slugs : Fold[s] # Fold[u]
  BY DEF WithoutMisses, SameSlug
<1>2. IsFiniteSet(DOMAIN table)
  BY SlugAssumption, FS_Subset DEF IsTable
<1>3. Cardinality(DOMAIN left) <= Cardinality(DOMAIN table)
  BY <1>1, <1>2, FS_Subset
<1>4. Cardinality(DOMAIN left) \in Nat /\ Cardinality(DOMAIN table) \in Nat
  BY <1>1, <1>2, FS_Subset, FS_CardinalityType
<1>5. IsTable(left)
  BY <1>1 DEF IsTable
<1>. QED
  BY <1>1, <1>3, <1>4, <1>5, BoundAssumption
-----------------------------------------------------------------------------
(***************************************************************************)
(* The steps.  Grown is what UsageGrows says of one step; RowsInv and      *)
(* MissesInv are the parts of IInv about each table.                       *)
(***************************************************************************)
Grown ==
  \A id \in DOMAIN redirects \cap DOMAIN redirects' :
    /\ redirects'[id].clicks >= redirects[id].clicks
    /\ (redirects[id].last # None /\ redirects[id].last <= LastInstant) =>
         /\ redirects'[id].last # None
         /\ JulianDay(redirects'[id].last) >= JulianDay(redirects[id].last)

RowsInv ==
  /\ lastId \in 0..MaxId
  /\ DOMAIN redirects \subseteq 1..lastId
  /\ redirects \in [DOMAIN redirects -> Row]
  /\ SlugsUnique
  /\ UsageConsistent

MissesInv == IsTable(misses) /\ MissRetention

LEMMA IInvParts == IInv <=> RowsInv /\ MissesInv /\ MissesUnresolved
BY DEF IInv, RowsInv, MissesInv, TypeOK, IsTable

(***************************************************************************)
(* A row that keeps its usage has grown as UsageGrows asks.                *)
(***************************************************************************)
LEMMA UsageKept ==
  ASSUME RowsInv,
         \A id \in DOMAIN redirects \cap DOMAIN redirects' :
           /\ redirects'[id].clicks = redirects[id].clicks
           /\ redirects'[id].last = redirects[id].last
  PROVE  Grown
<1>. SUFFICES ASSUME NEW id \in DOMAIN redirects \cap DOMAIN redirects'
              PROVE  /\ redirects[id].clicks \in Int
                     /\ (redirects[id].last # None) => JulianDay(redirects[id].last) \in Int
  BY DEF Grown
<1>1. redirects[id] \in Row
  BY DEF RowsInv
<1>2. redirects[id].clicks \in 0..MaxCount /\ redirects[id].last \in Instant \cup {None}
  BY <1>1 DEF Row
<1>3. \A t \in Instant : t \in Int
  BY ClockType, TimeAssumption DEF Instant
<1>. QED
  BY <1>2, <1>3, JulianDayType

LEMMA CreateStep ==
  ASSUME RowsInv, MissesInv, MissesUnresolved,
         NEW slug \in Canonical, NEW url \in URLs,
         NEW expires \in Expirations \cup {None},
         CreateRedirect(slug, url, expires)
  PROVE  RowsInv' /\ MissesInv' /\ MissesUnresolved' /\ Grown
<1>. DEFINE new == NewRow(slug, url, expires)
<1>1. new \in Row /\ new.slug = slug /\ new.clicks = 0 /\ new.last = None
  BY SlugAssumption, BoundAssumption DEF NewRow, Row
<1>2. /\ lastId' = lastId + 1
      /\ lastId' \in 0..MaxId
      /\ lastId' \notin DOMAIN redirects
  BY BoundAssumption DEF CreateRedirect, RowsInv
<1>3. /\ DOMAIN redirects' = DOMAIN redirects \cup {lastId'}
      /\ redirects'[lastId'] = new
      /\ \A id \in DOMAIN redirects : redirects'[id] = redirects[id]
      /\ redirects' = [id \in DOMAIN redirects' |-> redirects'[id]]
  BY <1>2 DEF CreateRedirect
<1>4. \A id \in DOMAIN redirects : Fold[redirects[id].slug] # Fold[slug]
  BY DEF CreateRedirect, Rows, SameSlug
<1>. HIDE DEF new
<1>5. RowsInv'
  <2>1. DOMAIN redirects' \subseteq 1..lastId'
    BY <1>2, <1>3 DEF RowsInv
  <2>2. \A id \in DOMAIN redirects' : redirects'[id] \in Row
    BY <1>1, <1>3 DEF RowsInv
  <2>3. redirects' \in [DOMAIN redirects' -> Row]
    BY <1>3, <2>2
  <2>4. SlugsUnique'
    BY <1>1, <1>3, <1>4 DEF RowsInv, SlugsUnique
  <2>5. UsageConsistent'
    BY <1>1, <1>3 DEF RowsInv, UsageConsistent
  <2>. QED
    BY <1>2, <2>1, <2>3, <2>4, <2>5 DEF RowsInv
<1>6. misses' = WithoutMisses(misses, {slug})
  BY DEF CreateRedirect
<1>7. /\ MissesInv'
      /\ DOMAIN misses' \subseteq DOMAIN misses
      /\ \A s \in DOMAIN misses' : Fold[s] # Fold[slug]
  BY <1>6, WithoutMissesTable DEF MissesInv, MissRetention
<1>8. MissesUnresolved'
  <2>1. \A s \in DOMAIN misses' : Fold[s] = s
    BY <1>7, SlugAssumption DEF MissesInv, IsTable
  <2>. QED
    BY <1>1, <1>3, <1>7, <2>1 DEF MissesUnresolved
<1>9. Grown
  BY <1>3, UsageKept
<1>. QED
  BY <1>5, <1>7, <1>8, <1>9

LEMMA ImportStep ==
  ASSUME RowsInv, MissesInv, MissesUnresolved,
         NEW batch \in Batches, ImportRedirects(batch)
  PROVE  RowsInv' /\ MissesInv' /\ MissesUnresolved' /\ Grown
<1>. DEFINE ids   == lastId + 1 .. lastId + Len(batch)
            slugs == {batch[i].slug : i \in DOMAIN batch}
<1>1. batch \in Seq(ImportRow)
  BY BatchAssumption
<1>2. Len(batch) \in Nat /\ DOMAIN batch = 1..Len(batch)
  BY <1>1
<1>3. \A i \in DOMAIN batch :
        /\ batch[i] \in Row
        /\ batch[i].clicks = 0 <=> batch[i].last = None
  BY <1>1 DEF ImportRow
<1>4. lastId \in Nat /\ lastId' = lastId + Len(batch) /\ lastId' \in 0..MaxId
  BY <1>2, BoundAssumption DEF ImportRedirects, RowsInv
<1>5. \A id \in ids : id - lastId \in DOMAIN batch /\ id \in 1..lastId' /\ id \notin DOMAIN redirects
  BY <1>2, <1>4 DEF RowsInv
<1>6. /\ DOMAIN redirects' = DOMAIN redirects \cup ids
      /\ \A id \in ids : redirects'[id] = batch[id - lastId]
      /\ \A id \in DOMAIN redirects : redirects'[id] = redirects[id]
      /\ redirects' = [id \in DOMAIN redirects' |-> redirects'[id]]
  BY <1>5 DEF ImportRedirects
<1>7. \A i \in DOMAIN batch, id \in DOMAIN redirects : Fold[redirects[id].slug] # Fold[batch[i].slug]
  BY DEF ImportRedirects, Rows, SameSlug
<1>8. \A i, j \in DOMAIN batch : Fold[batch[i].slug] = Fold[batch[j].slug] => i = j
  BY DEF ImportRedirects, SameSlug
<1>9. RowsInv'
  <2>1. DOMAIN redirects' \subseteq 1..lastId'
    BY <1>2, <1>4, <1>5, <1>6 DEF RowsInv
  <2>2. \A id \in DOMAIN redirects' :
          /\ redirects'[id] \in Row
          /\ redirects'[id].clicks = 0 <=> redirects'[id].last = None
    BY <1>3, <1>5, <1>6 DEF RowsInv, UsageConsistent
  <2>3. redirects' \in [DOMAIN redirects' -> Row]
    BY <1>6, <2>2
  <2>4. SlugsUnique'
    <3>. SUFFICES ASSUME NEW i \in DOMAIN redirects', NEW j \in DOMAIN redirects',
                         Fold[redirects'[i].slug] = Fold[redirects'[j].slug]
                  PROVE  i = j
      BY DEF SlugsUnique
    <3>1. CASE i \in DOMAIN redirects /\ j \in DOMAIN redirects
      BY <1>6, <3>1 DEF RowsInv, SlugsUnique
    <3>2. CASE i \in ids /\ j \in ids
      <4>1. i - lastId = j - lastId
        BY <1>5, <1>6, <1>8, <3>2
      <4>. QED
        BY <1>2, <1>4, <3>2, <4>1
    <3>3. CASE i \in ids /\ j \in DOMAIN redirects
      BY <1>5, <1>6, <1>7, <3>3
    <3>4. CASE i \in DOMAIN redirects /\ j \in ids
      BY <1>5, <1>6, <1>7, <3>4
    <3>. QED
      BY <1>6, <3>1, <3>2, <3>3, <3>4
  <2>5. UsageConsistent'
    BY <2>2 DEF UsageConsistent
  <2>. QED
    BY <1>4, <2>1, <2>3, <2>4, <2>5 DEF RowsInv
<1>10. misses' = WithoutMisses(misses, slugs)
  BY DEF ImportRedirects
<1>11. /\ MissesInv'
       /\ DOMAIN misses' \subseteq DOMAIN misses
       /\ \A s \in DOMAIN misses', i \in DOMAIN batch : Fold[s] # Fold[batch[i].slug]
  BY <1>10, WithoutMissesTable DEF MissesInv, MissRetention
<1>12. MissesUnresolved'
  <2>1. \A s \in DOMAIN misses' : Fold[s] = s
    BY <1>11, SlugAssumption DEF MissesInv, IsTable
  <2>. QED
    BY <1>5, <1>6, <1>11, <2>1 DEF MissesUnresolved
<1>13. Grown
  BY <1>5, <1>6, UsageKept
<1>. QED
  BY <1>9, <1>11, <1>12, <1>13

(***************************************************************************)
(* Any UPDATE that keeps the slug and the usage of the rows it matches.    *)
(***************************************************************************)
LEMMA RewriteStep ==
  ASSUME RowsInv, MissesInv, MissesUnresolved,
         NEW matches, DOMAIN matches \subseteq DOMAIN redirects,
         \A id \in DOMAIN matches :
           /\ matches[id] \in Row
           /\ matches[id].slug = redirects[id].slug
           /\ matches[id].clicks = redirects[id].clicks
           /\ matches[id].last = redirects[id].last,
         Rewrite(matches)
  PROVE  RowsInv' /\ MissesInv' /\ MissesUnresolved' /\ Grown
<1>1. /\ lastId' = lastId /\ misses' = misses
      /\ DOMAIN redirects' = DOMAIN redirects
      /\ redirects' = [id \in DOMAIN redirects' |-> redirects'[id]]
  BY DEF Rewrite
<1>2. \A id \in DOMAIN redirects :
        /\ redirects'[id] \in Row
        /\ redirects'[id].slug = redirects[id].slug
        /\ redirects'[id].clicks = redirects[id].clicks
        /\ redirects'[id].last = redirects[id].last
  BY DEF Rewrite, RowsInv
<1>3. redirects' \in [DOMAIN redirects' -> Row]
  BY <1>1, <1>2
<1>4. RowsInv'
  BY <1>1, <1>2, <1>3 DEF RowsInv, SlugsUnique, UsageConsistent
<1>5. MissesInv' /\ MissesUnresolved'
  BY <1>1, <1>2 DEF MissesInv, MissRetention, MissesUnresolved
<1>6. Grown
  BY <1>1, <1>2, UsageKept
<1>. QED
  BY <1>4, <1>5, <1>6

LEMMA ManageStep ==
  ASSUME RowsInv, MissesInv, MissesUnresolved, Manage
  PROVE  RowsInv' /\ MissesInv' /\ MissesUnresolved' /\ Grown
<1>1. PICK slug \in Slugs :
        \/ \E url \in URLs : UpdateRedirect(slug, url)
        \/ DisableRedirect(slug)
        \/ EnableRedirect(slug)
        \/ \E expires \in Expirations \cup {None} : SetRedirectExpiration(slug, expires)
        \/ DeleteRedirect(slug)
  BY DEF Manage
<1>2. /\ Rows(redirects, slug) \subseteq DOMAIN redirects
      /\ \A id \in Rows(redirects, slug) : redirects[id] \in Row
  BY DEF Rows, RowsInv
<1>3. CASE \E url \in URLs : UpdateRedirect(slug, url)
  <2>1. PICK url \in URLs : UpdateRedirect(slug, url)
    BY <1>3
  <2>. DEFINE matches == [id \in Rows(redirects, slug) |-> [redirects[id] EXCEPT !.url = url]]
  <2>2. \A id \in DOMAIN matches :
          /\ matches[id] \in Row
          /\ matches[id].slug = redirects[id].slug
          /\ matches[id].clicks = redirects[id].clicks
          /\ matches[id].last = redirects[id].last
    BY <1>2 DEF Row
  <2>3. DOMAIN matches \subseteq DOMAIN redirects /\ Rewrite(matches)
    BY <1>2, <2>1 DEF UpdateRedirect
  <2>. QED
    BY <2>2, <2>3, RewriteStep
<1>4. CASE DisableRedirect(slug)
  <2>. DEFINE matches == [id \in Rows(redirects, slug) |-> [redirects[id] EXCEPT !.disabled = TRUE]]
  <2>1. \A id \in DOMAIN matches :
          /\ matches[id] \in Row
          /\ matches[id].slug = redirects[id].slug
          /\ matches[id].clicks = redirects[id].clicks
          /\ matches[id].last = redirects[id].last
    BY <1>2 DEF Row
  <2>2. DOMAIN matches \subseteq DOMAIN redirects /\ Rewrite(matches)
    BY <1>2, <1>4 DEF DisableRedirect
  <2>. QED
    BY <2>1, <2>2, RewriteStep
<1>5. CASE EnableRedirect(slug)
  <2>. DEFINE matches == [id \in Rows(redirects, slug) |-> [redirects[id] EXCEPT !.disabled = FALSE]]
  <2>1. \A id \in DOMAIN matches :
          /\ matches[id] \in Row
          /\ matches[id].slug = redirects[id].slug
          /\ matches[id].clicks = redirects[id].clicks
          /\ matches[id].last = redirects[id].last
    BY <1>2 DEF Row
  <2>2. DOMAIN matches \subseteq DOMAIN redirects /\ Rewrite(matches)
    BY <1>2, <1>5 DEF EnableRedirect
  <2>. QED
    BY <2>1, <2>2, RewriteStep
<1>6. CASE \E expires \in Expirations \cup {None} : SetRedirectExpiration(slug, expires)
  <2>1. PICK expires \in Expirations \cup {None} : SetRedirectExpiration(slug, expires)
    BY <1>6
  <2>. DEFINE matches == [id \in Rows(redirects, slug) |-> [redirects[id] EXCEPT !.expires = expires]]
  <2>2. \A id \in DOMAIN matches :
          /\ matches[id] \in Row
          /\ matches[id].slug = redirects[id].slug
          /\ matches[id].clicks = redirects[id].clicks
          /\ matches[id].last = redirects[id].last
    BY <1>2 DEF Row
  <2>3. DOMAIN matches \subseteq DOMAIN redirects /\ Rewrite(matches)
    BY <1>2, <2>1 DEF SetRedirectExpiration
  <2>. QED
    BY <2>2, <2>3, RewriteStep
<1>7. CASE DeleteRedirect(slug)
  <2>1. /\ lastId' = lastId /\ misses' = misses
        /\ DOMAIN redirects' \subseteq DOMAIN redirects
        /\ redirects' = [id \in DOMAIN redirects' |-> redirects'[id]]
        /\ \A id \in DOMAIN redirects' : redirects'[id] = redirects[id]
    BY <1>7 DEF DeleteRedirect
  <2>2. redirects' \in [DOMAIN redirects' -> Row]
    BY <2>1 DEF RowsInv
  <2>3. RowsInv'
    BY <2>1, <2>2 DEF RowsInv, SlugsUnique, UsageConsistent
  <2>4. MissesInv' /\ MissesUnresolved'
    BY <2>1 DEF MissesInv, MissRetention, MissesUnresolved
  <2>5. Grown
    BY <2>1, UsageKept
  <2>. QED
    BY <2>3, <2>4, <2>5
<1>. QED
  BY <1>1, <1>3, <1>4, <1>5, <1>6, <1>7

LEMMA AccessStep ==
  ASSUME RowsInv, MissesInv, MissesUnresolved,
         NEW id \in 1..lastId, NEW at \in Clock, RecordRedirectAccess(id, at)
  PROVE  RowsInv' /\ MissesInv' /\ MissesUnresolved' /\ Grown
<1>1. /\ id \in DOMAIN redirects
      /\ lastId' = lastId /\ misses' = misses
      /\ DOMAIN redirects' = DOMAIN redirects
      /\ redirects' = [i \in DOMAIN redirects' |-> redirects'[i]]
      /\ redirects'[id] = Accessed(redirects[id], at)
      /\ \A i \in DOMAIN redirects : i # id => redirects'[i] = redirects[i]
  BY DEF RecordRedirectAccess, RowsInv
<1>2. redirects[id] \in Row
  BY <1>1 DEF RowsInv
<1>3. /\ redirects'[id] \in Row
      /\ redirects'[id].slug = redirects[id].slug
      /\ redirects'[id].clicks \in 1..MaxCount
      /\ redirects'[id].clicks >= redirects[id].clicks
      /\ redirects'[id].last # None
      /\ (redirects[id].last # None /\ redirects[id].last <= LastInstant) =>
           JulianDay(redirects'[id].last) >= JulianDay(redirects[id].last)
  BY <1>1, <1>2, AccessedType
<1>4. \A i \in DOMAIN redirects' : redirects'[i] \in Row /\ redirects'[i].slug = redirects[i].slug
  BY <1>1, <1>3 DEF RowsInv
<1>5. RowsInv'
  <2>1. redirects' \in [DOMAIN redirects' -> Row]
    BY <1>1, <1>4
  <2>2. SlugsUnique'
    BY <1>1, <1>4 DEF RowsInv, SlugsUnique
  <2>3. redirects'[id].clicks # 0
    BY <1>3
  <2>4. UsageConsistent'
    BY <1>1, <1>3, <2>3 DEF RowsInv, UsageConsistent
  <2>. QED
    BY <1>1, <2>1, <2>2, <2>4 DEF RowsInv
<1>6. MissesInv' /\ MissesUnresolved'
  BY <1>1, <1>4 DEF MissesInv, MissRetention, MissesUnresolved
<1>7. Grown
  <2>. SUFFICES ASSUME NEW i \in DOMAIN redirects
                PROVE  /\ redirects'[i].clicks >= redirects[i].clicks
                       /\ (redirects[i].last # None /\ redirects[i].last <= LastInstant) =>
                            /\ redirects'[i].last # None
                            /\ JulianDay(redirects'[i].last) >= JulianDay(redirects[i].last)
    BY <1>1 DEF Grown
  <2>1. CASE i = id
    BY <1>3, <2>1
  <2>2. CASE i # id
    <3>1. redirects[i] \in Row /\ redirects'[i] = redirects[i]
      BY <1>1, <2>2 DEF RowsInv
    <3>2. redirects[i].clicks \in 0..MaxCount /\ redirects[i].last \in Instant \cup {None}
      BY <3>1 DEF Row
    <3>3. \A t \in Instant : t \in Int
      BY ClockType, TimeAssumption DEF Instant
    <3>. QED
      BY <3>1, <3>2, <3>3, JulianDayType
  <2>. QED
    BY <2>1, <2>2
<1>. QED
  BY <1>5, <1>6, <1>7

LEMMA WithMissTable ==
  ASSUME MissesInv, NEW slug \in Canonical, NEW at \in Clock
  PROVE  IsTable(WithMiss(slug, at))
<1>1. DOMAIN WithMiss(slug, at) = DOMAIN misses \cup {slug}
  BY DEF WithMiss
<1>2. \A s \in DOMAIN misses \cup {slug} : WithMiss(slug, at)[s] \in Miss
  BY MissedType, FirstMissType DEF WithMiss, MissesInv, IsTable
<1>3. WithMiss(slug, at) = [s \in DOMAIN misses \cup {slug} |-> WithMiss(slug, at)[s]]
  BY DEF WithMiss
<1>. QED
  BY <1>1, <1>2, <1>3 DEF MissesInv, IsTable

LEMMA MissStep ==
  ASSUME RowsInv, MissesInv, MissesUnresolved,
         NEW slug \in Canonical, NEW at \in Clock, RecordSlugMiss(slug, at)
  PROVE  RowsInv' /\ MissesInv' /\ MissesUnresolved' /\ Grown
<1>. DEFINE table == IF Rows(redirects, slug) = {} THEN WithMiss(slug, at) ELSE misses
<1>1. redirects' = redirects /\ lastId' = lastId /\ misses' = Prune(table)
  BY DEF RecordSlugMiss
<1>2. RowsInv' /\ Grown
  BY <1>1, UsageKept DEF RowsInv, SlugsUnique, UsageConsistent
<1>3. IsTable(WithMiss(slug, at))
  BY WithMissTable
<1>4. /\ IsTable(table)
      /\ \A s \in DOMAIN table :
           s \in DOMAIN misses \/ (s = slug /\ Rows(redirects, slug) = {})
  BY <1>3 DEF MissesInv, WithMiss
<1>. HIDE DEF table
<1>5. MissesInv' /\ DOMAIN misses' \subseteq DOMAIN table
  BY <1>1, <1>4, PruneTable DEF MissesInv, MissRetention
<1>6. MissesUnresolved'
  <2>. SUFFICES ASSUME NEW s \in DOMAIN misses', NEW id \in DOMAIN redirects
                PROVE  Fold[redirects[id].slug] # s
    BY <1>1 DEF MissesUnresolved
  <2>1. CASE s \in DOMAIN misses
    BY <2>1 DEF MissesUnresolved
  <2>2. CASE s = slug /\ Rows(redirects, slug) = {}
    BY <2>2, SlugAssumption DEF Rows, SameSlug
  <2>. QED
    BY <1>4, <1>5, <2>1, <2>2
<1>. QED
  BY <1>2, <1>5, <1>6

LEMMA StutterStep ==
  ASSUME RowsInv, MissesInv, MissesUnresolved, UNCHANGED vars
  PROVE  RowsInv' /\ MissesInv' /\ MissesUnresolved' /\ Grown
<1>1. redirects' = redirects /\ lastId' = lastId /\ misses' = misses
  BY DEF vars
<1>2. Grown
  BY <1>1, UsageKept
<1>. QED
  BY <1>1, <1>2 DEF RowsInv, SlugsUnique, UsageConsistent,
                    MissesInv, MissRetention, MissesUnresolved
-----------------------------------------------------------------------------
(***************************************************************************)
(* The empty database satisfies the invariant, and every operation of      *)
(* package db keeps it and lets usage only grow.                           *)
(***************************************************************************)
LEMMA InitIInv == Init => IInv
<1>. SUFFICES ASSUME Init PROVE IInv
  OBVIOUS
<1>1. DOMAIN redirects = {} /\ DOMAIN misses = {} /\ lastId = 0
  BY DEF Init
<1>2. redirects \in [DOMAIN redirects -> Row] /\ misses \in [DOMAIN misses -> Miss]
  BY <1>1 DEF Init
<1>3. Cardinality(DOMAIN misses) <= MaxMisses
  BY <1>1, FS_EmptySet, BoundAssumption
<1>. QED
  BY <1>1, <1>2, <1>3, BoundAssumption
  DEF IInv, TypeOK, SlugsUnique, MissesUnresolved, MissRetention, UsageConsistent

LEMMA NextIInv == IInv /\ [Next]_vars => IInv' /\ Grown
<1>. SUFFICES ASSUME RowsInv, MissesInv, MissesUnresolved, [Next]_vars
              PROVE  RowsInv' /\ MissesInv' /\ MissesUnresolved' /\ Grown
  BY IInvParts, PTL
<1>1. CASE Create
  BY <1>1, CreateStep DEF Create
<1>2. CASE Manage
  BY <1>2, ManageStep
<1>3. CASE Import
  BY <1>3, ImportStep DEF Import
<1>4. CASE Record
  BY <1>4, AccessStep, MissStep DEF Record
<1>5. CASE UNCHANGED vars
  BY <1>5, StutterStep
<1>. QED
  BY <1>1, <1>2, <1>3, <1>4, <1>5 DEF Next

(***************************************************************************)
(* All the safety properties of the store hold in every reachable state.   *)
(***************************************************************************)
THEOREM StoreInvariant == Spec => []IInv
BY InitIInv, NextIInv, PTL DEF Spec

(***************************************************************************)
(* The tables keep their schema: counters never overflow 64 bits and no id *)
(* exceeds the AUTOINCREMENT sequence.                                     *)
(***************************************************************************)
THEOREM StoreTypeCorrect == Spec => []TypeOK
<1>1. IInv => TypeOK
  BY DEF IInv
<1>. QED
  BY <1>1, StoreInvariant, PTL

(***************************************************************************)
(* No two rows of any database answer to the same slug.                    *)
(***************************************************************************)
THEOREM StoreSlugsUnique == Spec => []SlugsUnique
<1>1. IInv => SlugsUnique
  BY DEF IInv
<1>. QED
  BY <1>1, StoreInvariant, PTL

(***************************************************************************)
(* The missed-slug report never lists a slug that has a redirect.          *)
(***************************************************************************)
THEOREM StoreMissesUnresolved == Spec => []MissesUnresolved
<1>1. IInv => MissesUnresolved
  BY DEF IInv
<1>. QED
  BY <1>1, StoreInvariant, PTL

(***************************************************************************)
(* The missed-slug table stays within its limit whatever order the misses  *)
(* arrive in.                                                              *)
(***************************************************************************)
THEOREM StoreMissRetention == Spec => []MissRetention
<1>1. IInv => MissRetention
  BY DEF IInv
<1>. QED
  BY <1>1, StoreInvariant, PTL

(***************************************************************************)
(* A row has a last access exactly when its counter is not zero.           *)
(***************************************************************************)
THEOREM StoreUsageConsistent == Spec => []UsageConsistent
<1>1. IInv => UsageConsistent
  BY DEF IInv
<1>. QED
  BY <1>1, StoreInvariant, PTL

(***************************************************************************)
(* No operation takes usage away from a row that survives it.              *)
(***************************************************************************)
THEOREM StoreUsageGrows == Spec => UsageGrows
<1>1. IInv /\ [Next]_vars => [Grown]_vars
  BY NextIInv
<1>2. Spec => [][Grown]_vars
  BY <1>1, StoreInvariant, PTL DEF Spec
<1>. QED
  BY <1>2 DEF UsageGrows, Grown
-----------------------------------------------------------------------------
(***************************************************************************)
(* Pruning: a table that exceeds its bound by one slug loses the last one  *)
(* of the ranking.                                                         *)
(***************************************************************************)
LEMMA PrunedIsLast ==
  ASSUME NEW table, IsTable(table), Cardinality(DOMAIN table) <= MaxMisses + 1,
         NEW s \in DOMAIN table, s \notin Kept(table)
  PROVE  /\ Cardinality(Kept(table)) = MaxMisses
         /\ \A t \in Kept(table) : Before(table, t, s)
<1>. DEFINE others == DOMAIN table \ {s}
<1>1. IsFiniteSet(DOMAIN table)
  BY SlugAssumption, FS_Subset DEF IsTable
<1>2. IsFiniteSet(others) /\ Cardinality(others) = Cardinality(DOMAIN table) - 1
  BY <1>1, FS_RemoveElement
<1>3. Ahead(table, s) \subseteq others
  BY BeforeIsTotalOrder DEF Ahead
<1>4. Cardinality(Ahead(table, s)) >= MaxMisses
  BY AheadFinite, BoundAssumption DEF Kept
<1>5. /\ Cardinality(Ahead(table, s)) \in Nat
      /\ Cardinality(others) \in Nat /\ Cardinality(DOMAIN table) \in Nat
      /\ Cardinality(Ahead(table, s)) <= Cardinality(others)
  BY <1>1, <1>2, <1>3, AheadFinite, FS_CardinalityType, FS_Subset
<1>6. Cardinality(others) = MaxMisses
      /\ Cardinality(Ahead(table, s)) = Cardinality(others)
  BY <1>2, <1>4, <1>5, BoundAssumption
<1>7. Ahead(table, s) = others
  BY <1>2, <1>3, <1>6, FS_Subset
<1>8. ASSUME NEW t \in others PROVE t \in Kept(table)
  <2>1. Before(table, t, s) /\ ~Before(table, s, t)
    BY <1>7, BeforeIsTotalOrder DEF Ahead
  <2>2. Ahead(table, t) \subseteq others \ {t}
    BY <2>1, BeforeIsTotalOrder DEF Ahead
  <2>3. /\ IsFiniteSet(others \ {t})
        /\ Cardinality(others \ {t}) = MaxMisses - 1
    BY <1>2, <1>6, <1>8, FS_RemoveElement
  <2>4. Cardinality(Ahead(table, t)) <= MaxMisses - 1
    BY <2>2, <2>3, FS_Subset
  <2>. QED
    BY <1>8, <2>4, AheadFinite, BoundAssumption DEF Kept
<1>9. Kept(table) = others
  BY <1>8 DEF Kept
<1>. QED
  BY <1>6, <1>7, <1>9 DEF Ahead

(***************************************************************************)
(* What OnlyOldestPruned says of one step.                                 *)
(***************************************************************************)
Oldest ==
  \A s \in DOMAIN misses \ DOMAIN misses' :
    \/ \E id \in DOMAIN redirects' : Fold[redirects'[id].slug] = s
    \/ /\ Cardinality(DOMAIN misses') = MaxMisses
       /\ \A t \in DOMAIN misses' : ~Later(misses[s].last, misses'[t].last)

(***************************************************************************)
(* Recording a miss never makes it older.                                  *)
(***************************************************************************)
LEMMA MissRecent ==
  ASSUME MissesInv, NEW slug \in Canonical, NEW at \in Clock, NEW s \in DOMAIN misses
  PROVE  JulianDay(WithMiss(slug, at)[s].last) >= JulianDay(misses[s].last)
<1>1. misses[s].last \in Int /\ misses[s].last <= LastInstant /\ at \in Int
  BY ClockType DEF MissesInv, IsTable, Miss
<1>2. JulianDay(misses[s].last) \in Int /\ JulianDay(at) \in Int
  BY <1>1, JulianDayType
<1>3. WithMiss(slug, at)[s].last =
        IF s = slug
        THEN IF Later(misses[s].last, at) THEN misses[s].last ELSE at
        ELSE misses[s].last
  BY DEF WithMiss, Missed
<1>. QED
  BY <1>1, <1>2, <1>3 DEF Later

LEMMA MissPrunes ==
  ASSUME RowsInv, MissesInv, NEW slug \in Canonical, NEW at \in Clock,
         RecordSlugMiss(slug, at)
  PROVE  Oldest
<1>. DEFINE table == IF Rows(redirects, slug) = {} THEN WithMiss(slug, at) ELSE misses
<1>1. misses' = Prune(table) /\ DOMAIN misses' = Kept(table)
  BY DEF RecordSlugMiss, Prune
<1>2. IsTable(table) /\ IsTable(misses)
  BY WithMissTable DEF MissesInv
<1>3. /\ IsFiniteSet(DOMAIN misses) /\ Cardinality(DOMAIN misses) \in Nat
      /\ Cardinality(DOMAIN misses) <= MaxMisses
  BY <1>2, SlugAssumption, FS_Subset, FS_CardinalityType
  DEF IsTable, MissesInv, MissRetention
<1>4. Cardinality(DOMAIN table) <= MaxMisses + 1
  <2>1. DOMAIN WithMiss(slug, at) = DOMAIN misses \cup {slug}
    BY DEF WithMiss
  <2>2. Cardinality(DOMAIN misses \cup {slug}) <= MaxMisses + 1
    <3>1. Cardinality(DOMAIN misses \cup {slug}) =
            IF slug \in DOMAIN misses THEN Cardinality(DOMAIN misses)
                                      ELSE Cardinality(DOMAIN misses) + 1
      BY <1>3, FS_AddElement
    <3>. QED
      BY <1>3, <3>1, BoundAssumption
  <2>. QED
    BY <1>3, <2>1, <2>2, BoundAssumption
<1>5. ASSUME NEW s \in DOMAIN misses
      PROVE  /\ s \in DOMAIN table
             /\ JulianDay(table[s].last) >= JulianDay(misses[s].last)
  <2>1. JulianDay(misses[s].last) \in Int
    BY ClockType, JulianDayType DEF MissesInv, IsTable, Miss
  <2>2. s \in DOMAIN WithMiss(slug, at)
    BY DEF WithMiss
  <2>. QED
    BY <2>1, <2>2, MissRecent
<1>6. \A t \in DOMAIN table : JulianDay(table[t].last) \in Int
  BY <1>2, ClockType, JulianDayType DEF IsTable, Miss
<1>7. \A t \in Kept(table) : t \in DOMAIN table /\ Prune(table)[t] = table[t]
  BY DEF Prune, Kept
<1>. HIDE DEF table
<1>8. ASSUME NEW s \in DOMAIN misses \ DOMAIN misses'
      PROVE  /\ Cardinality(DOMAIN misses') = MaxMisses
             /\ \A t \in DOMAIN misses' : ~Later(misses[s].last, misses'[t].last)
  <2>1. s \in DOMAIN table /\ s \notin Kept(table)
    BY <1>1, <1>5, <1>8
  <2>2. /\ Cardinality(Kept(table)) = MaxMisses
        /\ \A t \in Kept(table) : Before(table, t, s)
    BY <1>2, <1>4, <2>1, PrunedIsLast
  <2>3. \A t \in Kept(table) :
          JulianDay(table[t].last) >= JulianDay(table[s].last)
    BY <1>6, <1>7, <2>1, <2>2 DEF Before, Later
  <2>4. JulianDay(misses[s].last) \in Int
    BY ClockType, JulianDayType DEF MissesInv, IsTable, Miss
  <2>. QED
    BY <1>1, <1>5, <1>6, <1>7, <2>1, <2>2, <2>3, <2>4 DEF Later
<1>. QED
  BY <1>8 DEF Oldest

(***************************************************************************)
(* A miss is forgotten because its slug is taken, or because the table is  *)
(* full of slugs missed at least as recently.                              *)
(***************************************************************************)
THEOREM StoreOnlyOldestPruned == Spec => OnlyOldestPruned
<1>1. IInv /\ [Next]_vars => [Oldest]_vars
  <2>. SUFFICES ASSUME RowsInv, MissesInv, Next PROVE Oldest
    BY IInvParts
  <2>1. CASE misses' = misses
    BY <2>1 DEF Oldest
  <2>2. \A s \in DOMAIN misses : Fold[s] = s
    BY SlugAssumption DEF MissesInv, IsTable
  <2>3. CASE Create
    <3>1. PICK slug \in Canonical :
            \E url \in URLs, expires \in Expirations \cup {None} :
              CreateRedirect(slug, url, expires)
      BY <2>3 DEF Create
    <3>2. lastId' \in DOMAIN redirects' /\ redirects'[lastId'].slug = slug
      BY <3>1 DEF CreateRedirect, NewRow
    <3>3. \A s \in DOMAIN misses \ DOMAIN misses' : Fold[s] = Fold[slug]
      BY <3>1 DEF CreateRedirect, WithoutMisses, SameSlug
    <3>. QED
      BY <2>2, <3>2, <3>3 DEF Oldest
  <2>4. CASE Import
    <3>1. PICK batch \in Batches : ImportRedirects(batch)
      BY <2>4 DEF Import
    <3>2. Len(batch) \in Nat /\ DOMAIN batch = 1..Len(batch) /\ lastId \in Nat
      BY BatchAssumption, BoundAssumption DEF RowsInv
    <3>3. \A i \in DOMAIN batch :
            lastId + i \in DOMAIN redirects' /\ redirects'[lastId + i].slug = batch[i].slug
      BY <3>1, <3>2 DEF ImportRedirects
    <3>4. \A s \in DOMAIN misses \ DOMAIN misses' :
            \E i \in DOMAIN batch : Fold[s] = Fold[batch[i].slug]
      BY <3>1 DEF ImportRedirects, WithoutMisses, SameSlug
    <3>. QED
      BY <2>2, <3>3, <3>4 DEF Oldest
  <2>5. CASE Manage
    BY <2>1, <2>5
    DEF Manage, UpdateRedirect, DisableRedirect, EnableRedirect,
        SetRedirectExpiration, DeleteRedirect, Rewrite
  <2>6. CASE Record
    BY <2>1, <2>6, MissPrunes DEF Record, RecordRedirectAccess
  <2>. QED
    BY <2>3, <2>4, <2>5, <2>6 DEF Next
<1>2. Spec => [][Oldest]_vars
  BY <1>1, StoreInvariant, PTL DEF Spec
<1>. QED
  BY <1>2 DEF OnlyOldestPruned, Oldest
=============================================================================
