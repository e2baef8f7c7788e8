----------------------- MODULE PortableBackup_proofs -----------------------
(***************************************************************************)
(* Proofs, for any tables and any files, that imports keep the tables      *)
(* consistent, that an export can be restored, that the restored database  *)
(* answers as the exported one did, and that expirations up to year 9999   *)
(* keep the export possible.                                               *)
(***************************************************************************)
EXTENDS PortableBackup, FiniteSetTheorems, FunctionTheorems, TLAPS

(***************************************************************************)
(* The tables, as RedirectStore_proofs knows them, with any batch that the *)
(* database could hold.                                                    *)
(***************************************************************************)
Tables == INSTANCE RedirectStore_proofs WITH Batches <- Seq(Store!ImportRow)

LEMMA TablesAssumption ==
  /\ Tables!SlugAssumption
  /\ Tables!TimeAssumption
  /\ Tables!BoundAssumption
  /\ Tables!BatchAssumption
<1>1. Tables!SlugAssumption
  BY StoreAssumption DEF Tables!SlugAssumption, Store!SlugAssumption,
                         Tables!IsFiniteSet, Store!IsFiniteSet
<1>2. Tables!TimeAssumption
  BY StoreAssumption DEF Tables!TimeAssumption, Store!TimeAssumption
<1>3. Tables!BoundAssumption
  BY StoreAssumption DEF Tables!BoundAssumption, Store!BoundAssumption
<1>4. Store!ImportRow = Tables!ImportRow
  BY DEF Store!ImportRow, Store!Row, Store!Instant,
         Tables!ImportRow, Tables!Row, Tables!Instant
<1>5. Tables!BatchAssumption
  BY <1>4 DEF Tables!BatchAssumption
<1>. QED
  BY <1>1, <1>2, <1>3, <1>5

LEMMA TablesInit == Init => Tables!IInv
<1>. SUFFICES ASSUME Init PROVE Tables!IInv
  OBVIOUS
<1>1. PICK table \in Legacy :
        redirects = [id \in DOMAIN table |-> table[id]] /\ lastId = Len(table)
  BY DEF Init
<1>2. /\ table \in Seq(Store!ImportRow) /\ Len(table) <= MaxId
      /\ \A i, j \in DOMAIN table :
           Fold[table[i].slug] = Fold[table[j].slug] => i = j
      /\ DOMAIN misses = {}
  BY <1>1, LegacyAssumption DEF Init
<1>3. /\ Len(table) \in Nat /\ DOMAIN redirects = 1..Len(table)
      /\ \A i \in DOMAIN redirects :
           redirects[i] = table[i] /\ redirects[i] \in Store!ImportRow
  BY <1>1, <1>2
<1>4. Tables!TypeOK
  <2>1. redirects \in [DOMAIN redirects -> Tables!Row]
    BY <1>1, <1>3 DEF Store!ImportRow, Store!Row, Store!Instant, Tables!Row, Tables!Instant
  <2>2. misses \in [DOMAIN misses -> Tables!Miss] /\ DOMAIN misses \subseteq Canonical
    BY DEF Init
  <2>3. lastId \in 0..MaxId
    BY <1>1, <1>2, <1>3, StoreAssumption DEF Store!BoundAssumption
  <2>. QED
    BY <1>1, <1>3, <2>1, <2>2, <2>3 DEF Tables!TypeOK
<1>5. Tables!SlugsUnique
  BY <1>1, <1>2, <1>3 DEF Tables!SlugsUnique
<1>6. Tables!MissesUnresolved /\ Tables!UsageConsistent
  BY <1>2, <1>3 DEF Tables!MissesUnresolved, Tables!UsageConsistent, Store!ImportRow
<1>7. Tables!MissRetention
  <2>1. Tables!Cardinality({}) = 0
    BY FS_EmptySet DEF Tables!Cardinality, Cardinality
  <2>. QED
    BY <1>2, <2>1, StoreAssumption DEF Tables!MissRetention, Store!BoundAssumption
<1>. QED
  BY <1>4, <1>5, <1>6, <1>7 DEF Tables!IInv

store == <<redirects, lastId, misses>>

LEMMA TablesStep ==
  ASSUME Tables!IInv, [Tables!Next]_store PROVE Tables!IInv'
BY TablesAssumption, Tables!NextIInv DEF store, Tables!vars

LEMMA UseStep == Use => Tables!Next
<1>1. CreateLink => Tables!Create
  BY LegacyAssumption
     DEF CreateLink, Store!CreateRedirect, Store!Rows, Store!SameSlug,
         Store!NewRow, Store!WithoutMisses,
         Tables!Create, Tables!CreateRedirect, Tables!Rows, Tables!SameSlug,
         Tables!NewRow, Tables!WithoutMisses
<1>2. ASSUME ChangeLink PROVE Tables!Manage
  <2>1. PICK slug \in Slugs :
          \/ \E url \in URLs : Store!UpdateRedirect(slug, url)
          \/ Store!DisableRedirect(slug)
          \/ Store!EnableRedirect(slug)
          \/ \E expires \in Expirations \cup {None} :
               Store!SetRedirectExpiration(slug, expires)
          \/ Store!DeleteRedirect(slug)
    BY <1>2, LegacyAssumption DEF ChangeLink
  <2>2. \/ \E url \in URLs : Tables!UpdateRedirect(slug, url)
        \/ Tables!DisableRedirect(slug)
        \/ Tables!EnableRedirect(slug)
        \/ \E expires \in Expirations \cup {None} :
             Tables!SetRedirectExpiration(slug, expires)
        \/ Tables!DeleteRedirect(slug)
    BY <2>1
       DEF Store!UpdateRedirect, Store!DisableRedirect, Store!EnableRedirect,
           Store!SetRedirectExpiration, Store!DeleteRedirect,
           Store!Rewrite, Store!Rows, Store!SameSlug,
           Tables!UpdateRedirect, Tables!DisableRedirect, Tables!EnableRedirect,
           Tables!SetRedirectExpiration, Tables!DeleteRedirect,
           Tables!Rewrite, Tables!Rows, Tables!SameSlug
  <2>. QED
    BY <2>2 DEF Tables!Manage
<1>3. ASSUME NEW id \in 1..lastId, NEW at \in Clock, Store!RecordRedirectAccess(id, at)
      PROVE  Tables!RecordRedirectAccess(id, at)
  BY <1>3 DEF Store!RecordRedirectAccess, Store!Accessed, Store!Increment,
              Store!Later, Store!JulianDay, Tables!RecordRedirectAccess,
              Tables!Accessed, Tables!Increment, Tables!Later, Tables!JulianDay
<1>. QED
  BY <1>1, <1>2, <1>3 DEF Use, Visit, Tables!Next, Tables!Record

(***************************************************************************)
(* What the invariant of the tables says, in the terms of this module.     *)
(***************************************************************************)
LEMMA TablesFacts ==
  ASSUME Tables!IInv
  PROVE  /\ Store!TypeOK /\ Store!SlugsUnique /\ Store!UsageConsistent
         /\ lastId \in Nat
         /\ DOMAIN redirects \subseteq 1..lastId
         /\ \A id \in DOMAIN redirects : redirects[id] \in Store!ImportRow
         /\ \A i, j \in DOMAIN redirects :
              Fold[redirects[i].slug] = Fold[redirects[j].slug] => i = j
<1>1. Tables!TypeOK /\ Tables!SlugsUnique /\ Tables!UsageConsistent
  BY DEF Tables!IInv
<1>2. Store!TypeOK
  BY <1>1 DEF Tables!TypeOK, Tables!Row, Tables!Instant, Tables!Miss,
              Store!TypeOK, Store!Row, Store!Instant, Store!Miss
<1>3. Store!SlugsUnique /\ Store!UsageConsistent
  BY <1>1 DEF Tables!SlugsUnique, Store!SlugsUnique,
              Tables!UsageConsistent, Store!UsageConsistent
<1>4. lastId \in Nat
  BY <1>2, StoreAssumption DEF Store!TypeOK, Store!BoundAssumption
<1>. QED
  BY <1>2, <1>3, <1>4 DEF Store!TypeOK, Store!SlugsUnique,
                          Store!UsageConsistent, Store!ImportRow
-----------------------------------------------------------------------------
(***************************************************************************)
(* The list of redirects has each of them once.                            *)
(***************************************************************************)
Ids == DOMAIN redirects

Count == Cardinality(Ids)

Sorted(ids) == \A i, j \in DOMAIN ids : i < j => Precedes(ids[i], ids[j])

LEMMA PlaceType ==
  ASSUME Tables!IInv, NEW id \in Ids PROVE Place(redirects[id].slug) \in Int
<1>1. redirects[id].slug \in Slugs
  BY TablesFacts DEF Ids, Store!ImportRow, Store!Row
<1>. QED
  BY <1>1, StoreAssumption DEF Place, Store!SlugAssumption

LEMMA PrecedesIsTotalOrder ==
  ASSUME Tables!IInv
  PROVE  /\ \A i \in Ids : ~Precedes(i, i)
         /\ \A i, j, k \in Ids : Precedes(i, j) /\ Precedes(j, k) => Precedes(i, k)
         /\ \A i, j \in Ids : i = j \/ Precedes(i, j) \/ Precedes(j, i)
<1> DEFINE place == [i \in Ids |-> Place(redirects[i].slug)]
<1>1. \A i \in Ids : i \in Int
  BY TablesFacts DEF Ids
<1>2. \A i \in Ids : place[i] \in Int
  BY PlaceType
<1>3. \A i, j \in Ids : Precedes(i, j) <=>
        place[i] < place[j] \/ (place[i] = place[j] /\ i < j)
  BY DEF Precedes
<1> HIDE DEF place
<1>. QED
  BY <1>1, <1>2, <1>3

LEMMA IdsFinite ==
  ASSUME Tables!IInv PROVE IsFiniteSet(Ids) /\ Count \in Nat
<1>1. IsFiniteSet(1..lastId)
  BY TablesFacts, FS_Interval
<1>. QED
  BY <1>1, TablesFacts, FS_Subset, FS_CardinalityType DEF Ids, Count

(***************************************************************************)
(* A row stands where the number of rows before it says.                   *)
(***************************************************************************)
Earlier(i) == {j \in Ids : Precedes(j, i)}

LEMMA EarlierGrows ==
  ASSUME Tables!IInv, NEW i \in Ids, NEW j \in Ids, Precedes(i, j)
  PROVE  Cardinality(Earlier(i)) < Cardinality(Earlier(j))
<1>1. Earlier(i) \in SUBSET Earlier(j)
  BY PrecedesIsTotalOrder DEF Earlier
<1>2. i \in Earlier(j) /\ i \notin Earlier(i)
  BY PrecedesIsTotalOrder DEF Earlier
<1>3. IsFiniteSet(Earlier(j)) /\ IsFiniteSet(Earlier(i))
  BY IdsFinite, FS_Subset DEF Earlier
<1>4. Cardinality(Earlier(i)) \in Nat /\ Cardinality(Earlier(j)) \in Nat
  BY <1>3, FS_CardinalityType
<1>. QED
  BY <1>1, <1>2, <1>3, <1>4, FS_Subset

LEMMA EarlierBounded ==
  ASSUME Tables!IInv, NEW i \in Ids
  PROVE  Cardinality(Earlier(i)) + 1 \in 1..Count
<1>1. Earlier(i) \in SUBSET Ids /\ i \in Ids /\ i \notin Earlier(i)
  BY PrecedesIsTotalOrder DEF Earlier
<1>2. IsFiniteSet(Earlier(i)) /\ Cardinality(Earlier(i)) \in Nat
  BY <1>1, IdsFinite, FS_Subset, FS_CardinalityType
<1>3. Cardinality(Earlier(i)) <= Count /\ Cardinality(Earlier(i)) # Count
  BY <1>1, IdsFinite, FS_Subset DEF Count
<1>. QED
  BY <1>2, <1>3, IdsFinite

LEMMA SortedListExists ==
  ASSUME Tables!IInv PROVE \E ids \in [1..Count -> Ids] : Sorted(ids)
<1> DEFINE places == 1..Count
           place  == [i \in Ids |-> Cardinality(Earlier(i)) + 1]
<1>1. place \in [Ids -> places]
  BY EarlierBounded
<1>2. \A i, j \in Ids : Precedes(i, j) => place[i] < place[j]
  <2>. SUFFICES ASSUME NEW i \in Ids, NEW j \in Ids, Precedes(i, j)
                PROVE  place[i] < place[j]
    OBVIOUS
  <2>1. Cardinality(Earlier(i)) < Cardinality(Earlier(j))
    BY EarlierGrows
  <2>2. Cardinality(Earlier(i)) + 1 \in Int /\ Cardinality(Earlier(j)) + 1 \in Int
    BY EarlierBounded
  <2>3. IsFiniteSet(Earlier(j)) /\ IsFiniteSet(Earlier(i))
    BY IdsFinite, FS_Subset DEF Earlier
  <2>. QED
    BY <2>1, <2>3, FS_CardinalityType
<1>3. IsFiniteSet(places) /\ Cardinality(places) = Count
  BY IdsFinite, FS_Interval
<1> HIDE DEF place
<1>4. \A i \in Ids : place[i] \in Int
  BY <1>1
<1>5. \A i, j \in Ids : place[i] = place[j] => i = j
  BY <1>2, <1>4, PrecedesIsTotalOrder
<1>6. place \in Injection(Ids, places)
  BY <1>1, <1>5, Fun_IsInj
<1>7. place \in Surjection(Ids, places)
  BY <1>3, <1>6, FS_Injection DEF Count
<1>8. \A k \in places : \E i \in Ids : place[i] = k
  BY <1>7 DEF Surjection
<1> DEFINE ids == [k \in places |-> CHOOSE i \in Ids : place[i] = k]
<1>9. \A k \in places : ids[k] \in Ids /\ place[ids[k]] = k
  BY <1>8
<1>10. ids \in [places -> Ids] /\ DOMAIN ids = places
  BY <1>9
<1> HIDE DEF ids
<1>11. Sorted(ids)
  <2>. SUFFICES ASSUME NEW k \in places, NEW l \in places, k < l
                PROVE  Precedes(ids[k], ids[l])
    BY <1>10 DEF Sorted
  <2>1. ids[k] # ids[l]
    BY <1>9
  <2>2. ~Precedes(ids[l], ids[k])
    BY <1>2, <1>9
  <2>. QED
    BY <1>9, <2>1, <2>2, PrecedesIsTotalOrder
<1>. QED
  BY <1>10, <1>11

LEMMA SortedIsBijective ==
  ASSUME Tables!IInv, NEW ids \in [1..Count -> Ids], Sorted(ids)
  PROVE  /\ \A i, j \in 1..Count : ids[i] = ids[j] => i = j
         /\ \A id \in Ids : \E i \in 1..Count : ids[i] = id
<1>1. \A i, j \in 1..Count : ids[i] = ids[j] => i = j
  BY PrecedesIsTotalOrder DEF Sorted
<1>2. ids \in Injection(1..Count, Ids)
  BY <1>1, Fun_IsInj
<1>3. Cardinality(1..Count) = Cardinality(Ids)
  BY IdsFinite, FS_Interval DEF Count
<1>4. ids \in Surjection(1..Count, Ids)
  BY <1>2, <1>3, IdsFinite, FS_Injection
<1>5. \A id \in Ids : \E i \in 1..Count : ids[i] = id
  BY <1>4 DEF Surjection
<1>. QED
  BY <1>1, <1>5

LEMMA SortedPlaces ==
  ASSUME Tables!IInv, NEW ids \in [1..Count -> Ids], Sorted(ids), NEW k \in 1..Count
  PROVE  Cardinality(Earlier(ids[k])) = k - 1
<1> DEFINE front  == 1 .. k - 1
           before == [i \in front |-> ids[i]]
<1>1. front \subseteq 1..Count /\ k \in Int
  BY IdsFinite
<1>2. \A i \in front : ids[i] \in Earlier(ids[k])
  BY <1>1 DEF Sorted, Earlier
<1>3. \A id \in Earlier(ids[k]) : \E i \in front : ids[i] = id
  <2>. SUFFICES ASSUME NEW id \in Earlier(ids[k])
                PROVE  \E i \in front : ids[i] = id
    OBVIOUS
  <2>1. id \in Ids /\ Precedes(id, ids[k])
    BY DEF Earlier
  <2>2. PICK i \in 1..Count : ids[i] = id
    BY <2>1, SortedIsBijective
  <2>3. ~Precedes(ids[k], id) /\ i # k
    BY <2>1, <2>2, PrecedesIsTotalOrder
  <2>4. ~(k < i)
    BY <2>2, <2>3 DEF Sorted
  <2>5. i \in front
    BY <2>3, <2>4, IdsFinite
  <2>. QED
    BY <2>2, <2>5
<1>4. \A i, j \in front : before[i] = before[j] => i = j
  BY <1>1, SortedIsBijective
<1>5. before \in [front -> Earlier(ids[k])]
  BY <1>2
<1>6. before \in Injection(front, Earlier(ids[k]))
  BY <1>4, <1>5, Fun_IsInj
<1>7. before \in Bijection(front, Earlier(ids[k]))
  BY <1>3, <1>5, <1>6 DEF Bijection, Surjection
<1>8. IsFiniteSet(front) /\ Cardinality(front) = k - 1
  <2>1. k \in Int /\ k >= 1 /\ k - 1 \in Int
    BY <1>1
  <2>2. IsFiniteSet(front) /\ Cardinality(front) = IF 1 > k - 1 THEN 0 ELSE (k - 1) - 1 + 1
    BY <2>1, FS_Interval
  <2>. QED
    BY <2>1, <2>2
<1>. QED
  BY <1>7, <1>8, FS_Bijection DEF ExistsBijection

(***************************************************************************)
(* There is one sorted list.                                               *)
(***************************************************************************)
LEMMA SortedListUnique ==
  ASSUME Tables!IInv, NEW f \in [1..Count -> Ids], NEW g \in [1..Count -> Ids],
         Sorted(f), Sorted(g)
  PROVE  f = g
<1>1. ASSUME NEW k \in 1..Count PROVE f[k] = g[k]
  <2>1. Cardinality(Earlier(f[k])) = k - 1 /\ Cardinality(Earlier(g[k])) = k - 1
    BY SortedPlaces
  <2>2. ~Precedes(f[k], g[k]) /\ ~Precedes(g[k], f[k])
    BY <2>1, EarlierGrows, IdsFinite
  <2>. QED
    BY <2>2, PrecedesIsTotalOrder
<1>2. f = [k \in 1..Count |-> f[k]] /\ g = [k \in 1..Count |-> g[k]]
  OBVIOUS
<1>. QED
  BY <1>1, <1>2

LEMMA ListSorted ==
  ASSUME Tables!IInv
  PROVE  ListRedirects \in [1..Count -> Ids] /\ Sorted(ListRedirects)
BY SortedListExists DEF ListRedirects, Sorted, Ids, Count
-----------------------------------------------------------------------------
(***************************************************************************)
(* The key of the decoder and the collation of the table agree.            *)
(***************************************************************************)
LEMMA PrefixIncluded ==
  ASSUME NEW s \in Slugs, NEW t \in Slugs, SameNocase(s, t)
  PROVE  /\ Prefix(s) \subseteq Prefix(t)
         /\ \A i \in Prefix(s) : ASCII(s[i]) = ASCII(t[i])
<1>1. /\ s \in Seq(Characters) /\ t \in Seq(Characters) /\ Len(s) = Len(t)
      /\ DOMAIN s = 1..Len(s) /\ DOMAIN t = 1..Len(s) /\ Len(s) \in Nat
  BY CollationAssumption DEF SameNocase
<1>2. \A i \in Prefix(s) : \A j \in 1..i :
        j \in DOMAIN s /\ s[j] # Nul /\ ASCII(s[j]) = ASCII(t[j])
  BY <1>1 DEF Prefix, SameNocase
<1>3. \A ch : ch # Nul <=> ASCII(ch) # Nul
  BY CollationAssumption DEF ASCII
<1>4. \A i \in Prefix(s) : \A j \in 1..i : t[j] # Nul
  BY <1>2, <1>3
<1>5. \A i \in Prefix(s) : i \in 1..i /\ i \in DOMAIN t
  BY <1>1 DEF Prefix
<1>. QED
  BY <1>2, <1>4, <1>5 DEF Prefix

LEMMA KeysAgree ==
  ASSUME NEW s \in Slugs, NEW t \in Slugs
  PROVE  sqliteNOCASE(s) = sqliteNOCASE(t) <=> Fold[s] = Fold[t]
<1>1. ASSUME Fold[s] = Fold[t] PROVE sqliteNOCASE(s) = sqliteNOCASE(t)
  <2>1. SameNocase(s, t) /\ SameNocase(t, s)
    BY <1>1, CollationAssumption
  <2>2. Prefix(s) = Prefix(t) /\ Len(s) = Len(t)
    BY <2>1, PrefixIncluded DEF SameNocase
  <2>3. \A i \in Prefix(s) : ASCII(s[i]) = ASCII(t[i])
    BY <2>1, PrefixIncluded
  <2>. QED
    BY <2>2, <2>3 DEF sqliteNOCASE
<1>2. ASSUME sqliteNOCASE(s) = sqliteNOCASE(t) PROVE Fold[s] = Fold[t]
  <2> DEFINE f == [i \in Prefix(s) |-> ASCII(s[i])]
             g == [i \in Prefix(t) |-> ASCII(t[i])]
  <2>1. f = g /\ Len(s) = Len(t)
    BY <1>2 DEF sqliteNOCASE
  <2>2. DOMAIN f = Prefix(s) /\ DOMAIN g = Prefix(t)
    OBVIOUS
  <2>3. Prefix(s) = Prefix(t)
    BY <2>1, <2>2
  <2>4. \A i \in Prefix(s) : f[i] = ASCII(s[i]) /\ g[i] = ASCII(t[i])
    BY <2>3
  <2>5. \A i \in Prefix(s) : ASCII(s[i]) = ASCII(t[i])
    BY <2>1, <2>4
  <2> HIDE DEF f, g
  <2>6. /\ DOMAIN s = 1..Len(s) /\ DOMAIN t = 1..Len(s) /\ Len(s) \in Nat
    BY <2>1, CollationAssumption
  <2>7. ASSUME NEW i \in DOMAIN s, \A j \in 1 .. i - 1 : s[j] # Nul
        PROVE  ASCII(s[i]) = ASCII(t[i])
    <3>1. i \in Nat /\ \A k \in 1..i : k # i => k \in 1 .. i - 1
      BY <2>6
    <3>2. CASE s[i] # Nul
      <4>1. \A k \in 1..i : s[k] # Nul
        BY <2>7, <3>1, <3>2
      <4>. QED
        BY <2>5, <4>1 DEF Prefix
    <3>3. CASE s[i] = Nul
      <4>1. i \in 1..i /\ i \in DOMAIN t /\ i \notin Prefix(t)
        BY <2>3, <2>6, <3>3 DEF Prefix
      <4>2. PICK k \in 1..i : t[k] = Nul
        BY <4>1 DEF Prefix
      <4>3. ASSUME k # i PROVE FALSE
        <5>1. k \in 1 .. i - 1 /\ k \in DOMAIN s /\ k \in 1..k
          BY <2>6, <3>1, <4>3
        <5>2. \A l \in 1..k : s[l] # Nul
          BY <2>7, <3>1, <5>1
        <5>3. k \in Prefix(t)
          BY <2>3, <5>1, <5>2 DEF Prefix
        <5>. QED
          BY <4>2, <5>1, <5>3 DEF Prefix
      <4>. QED
        BY <3>3, <4>2, <4>3
    <3>. QED
      BY <3>2, <3>3
  <2>8. SameNocase(s, t)
    BY <2>1, <2>7 DEF SameNocase
  <2>. QED
    BY <2>8, CollationAssumption
<1>. QED
  BY <1>1, <1>2
-----------------------------------------------------------------------------
(***************************************************************************)
(* Entries of a file: as they are read, as Decode lets them through, and   *)
(* as an export writes them.                                               *)
(***************************************************************************)
ReadEntry ==
  [slug : Slugs, url : URLs, disabled : BOOLEAN,
   expires : Expirations \cup {None, Bad},
   updated : Expirations \cup Clock \cup {None, Bad},
   clicks : {n \in Int : n <= MaxCount},
   last : Expirations \cup Clock \cup {None, Bad}]

UsageWhole(entry) == entry.clicks = 0 <=> entry.last = None

TypedEntry ==
  [slug : Slugs, url : URLs, disabled : BOOLEAN, expires : Expirations \cup {None},
   updated : Expirations \cup Clock \cup {None},
   clicks : 0..MaxCount, last : Expirations \cup Clock \cup {None}]

DecodedEntry == {entry \in TypedEntry : UsageWhole(entry)}

TableRow ==
  [slug : Slugs, url : URLs, disabled : BOOLEAN, expires : Expirations \cup {None},
   clicks : 0..MaxCount, last : Expirations \cup Clock \cup {None}]

PortableEntry(entry) ==
  /\ {entry.slug, entry.url} \cap Garbled = {}
  /\ Portable(entry.updated)
  /\ PortableOptional(entry.expires)
  /\ PortableOptional(entry.last)

LEMMA ImportRowParts == Store!ImportRow = {row \in TableRow : UsageWhole(row)}
BY DEF Store!ImportRow, Store!Row, Store!Instant, TableRow, UsageWhole

LEMMA ImportRowType == \A entry \in DecodedEntry : ImportRow(entry) \in Store!ImportRow
<1>1. \A entry \in DecodedEntry : ImportRow(entry) \in TableRow
  BY DEF DecodedEntry, TypedEntry, TableRow, ImportRow
<1>2. \A entry \in DecodedEntry : UsageWhole(ImportRow(entry))
  BY DEF DecodedEntry, UsageWhole, ImportRow
<1>. QED
  BY <1>1, <1>2, ImportRowParts

LEMMA BatchType ==
  ASSUME NEW entries \in Seq(DecodedEntry)
  PROVE  /\ Batch(entries) \in Seq(Store!ImportRow)
         /\ Len(Batch(entries)) = Len(entries)
         /\ DOMAIN Batch(entries) = 1..Len(entries) /\ Len(entries) \in Nat
         /\ \A i \in 1..Len(entries) :
              Batch(entries)[i] = ImportRow(entries[i]) /\ entries[i] \in DecodedEntry
<1>1. DOMAIN entries = 1..Len(entries) /\ Len(entries) \in Nat
      /\ \A i \in 1..Len(entries) : entries[i] \in DecodedEntry
  OBVIOUS
<1>2. Batch(entries) = [i \in 1..Len(entries) |-> ImportRow(entries[i])]
  BY <1>1 DEF Batch
<1>3. Batch(entries) \in [1..Len(entries) -> Store!ImportRow]
  BY <1>1, <1>2, ImportRowType
<1>. QED
  BY <1>1, <1>2, <1>3

(***************************************************************************)
(* Writing a row and reading it as version 3 give the row back.            *)
(***************************************************************************)
LEMMA EntryParts ==
  ASSUME NEW row \in Store!ImportRow, NEW updated \in Expirations \cup Clock
  PROVE  /\ Entry(row, updated) \in DecodedEntry
         /\ ImportRow(Entry(row, updated)) = row
         /\ Entry(row, updated).updated = updated
         /\ Entry(row, updated).slug = row.slug
<1>1. row \in TableRow /\ UsageWhole(row)
  BY ImportRowParts
<1>2. Entry(row, updated) \in TypedEntry
  BY <1>1 DEF Entry, TypedEntry, TableRow
<1>3. UsageWhole(Entry(row, updated))
  BY <1>1 DEF Entry, UsageWhole
<1>4. ImportRow(Entry(row, updated)) = row
  BY <1>1 DEF Entry, ImportRow, TableRow
<1>. QED
  BY <1>2, <1>3, <1>4 DEF DecodedEntry, Entry

(***************************************************************************)
(* An entry is its row and the time its destination was updated.           *)
(***************************************************************************)
LEMMA EntrySplits ==
  \A entry \in DecodedEntry : entry = Entry(ImportRow(entry), entry.updated)
BY DEF DecodedEntry, TypedEntry, Entry, ImportRow

LEMMA FieldsSame == \A entry \in DecodedEntry : Fields(3, entry) = entry
<1>1. \A entry \in TypedEntry : Fields(3, entry) = entry
  <2>. SUFFICES ASSUME NEW entry \in TypedEntry PROVE Fields(3, entry) = entry
    OBVIOUS
  <2>1. 3 >= 2 /\ 3 >= 3
    OBVIOUS
  <2>2. Fields(3, entry) =
          [entry EXCEPT !.expires = entry.expires, !.updated = entry.updated,
                        !.clicks = entry.clicks, !.last = entry.last]
    BY <2>1 DEF Fields, TypedEntry
  <2>. QED
    BY <2>2 DEF TypedEntry
<1>. QED
  BY <1>1 DEF DecodedEntry

LEMMA EntriesSame ==
  ASSUME NEW envelope, envelope.version = 3,
         envelope.redirects \in Seq(DecodedEntry)
  PROVE  Entries(envelope) = envelope.redirects
<1> DEFINE entries == envelope.redirects
<1>1. /\ entries = [i \in DOMAIN entries |-> entries[i]]
      /\ \A i \in DOMAIN entries : entries[i] \in DecodedEntry
  OBVIOUS
<1>2. \A i \in DOMAIN entries : Fields(3, entries[i]) = entries[i]
  BY <1>1, FieldsSame
<1>. QED
  BY <1>1, <1>2 DEF Entries

LEMMA EntriesRead ==
  ASSUME NEW envelope \in Files
  PROVE  Entries(envelope) \in Seq(ReadEntry)
<1> DEFINE entries == envelope.redirects
<1>1. entries \in Seq(ReadEntry)
  <2> DEFINE written ==
        [slug : Slugs \ Garbled, url : URLs \ Garbled,
         disabled : BOOLEAN, expires : Expirations \cup {None, Bad},
         updated : Expirations \cup Clock \cup {Bad},
         clicks : {n \in Int : n <= MaxCount},
         last : Expirations \cup Clock \cup {None, Bad}]
  <2>1. \A entry \in written : entry \in ReadEntry
    BY DEF ReadEntry
  <2>2. entries \in Seq(written)
    BY FileAssumption
  <2> HIDE DEF written, entries
  <2>. QED
    BY <2>1, <2>2
<1>2. \A entry \in ReadEntry : Fields(envelope.version, entry) \in ReadEntry
  <2>1. 0 \in {n \in Int : n <= MaxCount}
    BY StoreAssumption DEF Store!BoundAssumption
  <2>. QED
    BY <2>1 DEF ReadEntry, Fields
<1>3. /\ \A i \in 1..Len(entries) : entries[i] \in ReadEntry
      /\ DOMAIN entries = 1..Len(entries) /\ Len(entries) \in Nat
  BY <1>1
<1>4. Entries(envelope) \in [1..Len(entries) -> ReadEntry]
  BY <1>2, <1>3 DEF Entries
<1> HIDE DEF entries
<1>. QED
  BY <1>3, <1>4

(***************************************************************************)
(* What Decode lets through, the tables can hold.                          *)
(***************************************************************************)
LEMMA DecodedImportable ==
  ASSUME NEW envelope \in Files, Decodes(envelope)
  PROVE  Entries(envelope) \in Seq(DecodedEntry)
<1> DEFINE entries == Entries(envelope)
<1>1. entries \in Seq(ReadEntry) /\ \A i \in DOMAIN entries : entries[i] \in ReadEntry
  BY EntriesRead
<1>2. \A i \in DOMAIN entries :
        /\ entries[i].expires # Bad /\ entries[i].updated # Bad
        /\ ValidUsage(entries[i])
  BY DEF Decodes
<1>3. ASSUME NEW entry \in ReadEntry, entry.expires # Bad, entry.updated # Bad,
             ValidUsage(entry)
      PROVE  entry \in DecodedEntry
  <2>1. entry.clicks \in 0..MaxCount
    BY <1>3, StoreAssumption DEF ReadEntry, ValidUsage, Store!BoundAssumption
  <2>2. entry \in TypedEntry
    BY <1>3, <2>1 DEF ReadEntry, TypedEntry, ValidUsage
  <2>. QED
    BY <1>3, <2>2 DEF DecodedEntry, ValidUsage, UsageWhole
<1>4. \A i \in DOMAIN entries : entries[i] \in DecodedEntry
  BY <1>1, <1>2, <1>3
<1> HIDE DEF entries
<1>5. entries \in Seq(DecodedEntry)
  BY <1>1, <1>4
<1>. QED
  BY <1>5 DEF entries

(***************************************************************************)
(* ... and its slugs are distinct to the table: this is where the keys     *)
(* have to agree.                                                          *)
(***************************************************************************)
LEMMA DecodedDistinct ==
  ASSUME NEW envelope, Decodes(envelope), Entries(envelope) \in Seq(DecodedEntry)
  PROVE  ~InsertConflicts(Entries(envelope))
<1> DEFINE entries == Entries(envelope)
<1>1. /\ ~Duplicates(entries)
      /\ \A i \in DOMAIN entries : entries[i].slug # << >>
  BY DEF Decodes
<1>2. \A i \in DOMAIN entries : entries[i].slug \in Slugs
  BY DEF DecodedEntry, TypedEntry
<1> HIDE DEF entries
<1>3. \A i, j \in DOMAIN entries :
        Fold[entries[i].slug] = Fold[entries[j].slug] => i = j
  BY <1>1, <1>2, KeysAgree DEF Duplicates
<1>4. ~InsertConflicts(entries)
  BY <1>3 DEF InsertConflicts, Store!SameSlug
<1>. QED
  BY <1>4 DEF entries
-----------------------------------------------------------------------------
(***************************************************************************)
(* The invariant: the last export is a file of version 3 with the rows of  *)
(* source, each under a slug of its own, in the order of their slugs; the  *)
(* rows of a restored database are its entries, under ids in their order;  *)
(* a file that a dry run passed has no conflict with the tables.           *)
(***************************************************************************)
Stamped == destinationUpdatedAt \in [DOMAIN redirects -> Expirations \cup Clock]

SameRows(rows, table) ==
  /\ \A i \in DOMAIN rows : \E id \in DOMAIN table : rows[i] = table[id]
  /\ \A id \in DOMAIN table : \E i \in DOMAIN rows : rows[i] = table[id]

FileKept ==
  file # None =>
    /\ file = [version |-> 3, redirects |-> file.redirects]
    /\ file.redirects \in Seq(DecodedEntry)
    /\ Fits(Len(file.redirects))
    /\ \A i, j \in DOMAIN file.redirects :
         Fold[file.redirects[i].slug] = Fold[file.redirects[j].slug] => i = j
    /\ \A i, j \in DOMAIN file.redirects :
         i < j => Place(file.redirects[i].slug) <= Place(file.redirects[j].slug)
    /\ \A i \in DOMAIN file.redirects : PortableEntry(file.redirects[i])
    /\ SameRows(Batch(file.redirects), source)

Numbered(entries, first) ==
  /\ redirects = [id \in first + 1 .. first + Len(entries) |->
                    ImportRow(entries[id - first])]
  /\ \A id \in first + 1 .. first + Len(entries) :
       destinationUpdatedAt[id] = entries[id - first].updated

Rebuilt ==
  restored => file # None /\ \E first \in Nat : Numbered(file.redirects, first)

Checked ==
  checked # None =>
    /\ RedirectImportConflicts(Entries(checked)) = {}
    /\ ~InsertConflicts(Entries(checked))

IInv ==
  Tables!IInv /\ Stamped /\ FileKept /\ Rebuilt /\ Checked /\ DryRunPredicts

LEMMA ImportStep ==
  ASSUME NEW rows \in Seq(Store!ImportRow), Store!ImportRedirects(rows)
  PROVE  Tables!Next
<1>1. Tables!ImportRedirects(rows)
  BY DEF Store!ImportRedirects, Store!Rows, Store!SameSlug, Store!WithoutMisses,
         Tables!ImportRedirects, Tables!Rows, Tables!SameSlug, Tables!WithoutMisses
<1>. QED
  BY <1>1 DEF Tables!Next, Tables!Import

(***************************************************************************)
(* What an import adds.                                                    *)
(***************************************************************************)
LEMMA ImportAdds ==
  ASSUME IInv, NEW envelope, Imported(envelope),
         Entries(envelope) \in Seq(DecodedEntry)
  PROVE  LET entries == Entries(envelope)
             ids     == lastId + 1 .. lastId + Len(entries)
         IN  /\ Tables!Next
             /\ DOMAIN redirects' = DOMAIN redirects \cup ids
             /\ \A id \in ids : redirects'[id] = ImportRow(entries[id - lastId])
             /\ Stamped'
             /\ \A id \in ids : entries[id - lastId].updated # None =>
                  destinationUpdatedAt'[id] = entries[id - lastId].updated
             /\ redirects' = [id \in DOMAIN redirects' |-> redirects'[id]]
<1> DEFINE entries == Entries(envelope)
           ids     == lastId + 1 .. lastId + Len(entries)
<1>1. /\ Batch(entries) \in Seq(Store!ImportRow) /\ Len(Batch(entries)) = Len(entries)
      /\ Len(entries) \in Nat
      /\ \A i \in 1..Len(entries) :
           Batch(entries)[i] = ImportRow(entries[i]) /\ entries[i] \in DecodedEntry
      /\ DOMAIN entries = 1..Len(entries)
  BY BatchType
<1>2. /\ Store!ImportRedirects(Batch(entries))
      /\ \E now \in [DOMAIN entries -> Clock] :
           destinationUpdatedAt' =
             [id \in DOMAIN redirects' |->
                IF id <= lastId THEN destinationUpdatedAt[id]
                ELSE IF entries[id - lastId].updated = None THEN now[id - lastId]
                ELSE entries[id - lastId].updated]
  BY DEF Imported
<1>3. lastId \in Nat /\ DOMAIN redirects \subseteq 1..lastId
  BY TablesFacts DEF IInv
<1> HIDE DEF entries
<1>4. Tables!Next
  BY <1>1, <1>2, ImportStep
<1>5. redirects' = [id \in DOMAIN redirects \cup ids |->
                      IF id \in ids THEN Batch(entries)[id - lastId]
                                    ELSE redirects[id]]
  BY <1>1, <1>2 DEF Store!ImportRedirects
<1>6. \A id \in ids : id - lastId \in 1..Len(entries) /\ ~(id <= lastId)
  BY <1>1, <1>3
<1>7. PICK now \in [DOMAIN entries -> Clock] :
        destinationUpdatedAt' =
          [id \in DOMAIN redirects' |->
             IF id <= lastId THEN destinationUpdatedAt[id]
             ELSE IF entries[id - lastId].updated = None THEN now[id - lastId]
             ELSE entries[id - lastId].updated]
  BY <1>2
<1>8. DOMAIN redirects' = DOMAIN redirects \cup ids
  BY <1>5
<1>9. \A i \in 1..Len(entries) :
        entries[i].updated \in Expirations \cup Clock \cup {None} /\ now[i] \in Clock
  BY <1>1 DEF DecodedEntry, TypedEntry
<1>10. \A id \in DOMAIN redirects : destinationUpdatedAt[id] \in Expirations \cup Clock
  BY DEF IInv, Stamped
<1>11. \A id \in DOMAIN redirects' :
         (IF id <= lastId THEN destinationUpdatedAt[id]
          ELSE IF entries[id - lastId].updated = None THEN now[id - lastId]
          ELSE entries[id - lastId].updated) \in Expirations \cup Clock
  <2>. SUFFICES ASSUME NEW id \in DOMAIN redirects \cup ids
                PROVE  (IF id <= lastId THEN destinationUpdatedAt[id]
                        ELSE IF entries[id - lastId].updated = None THEN now[id - lastId]
                        ELSE entries[id - lastId].updated) \in Expirations \cup Clock
    BY <1>8
  <2>1. CASE id \in DOMAIN redirects
    BY <1>3, <1>10, <2>1
  <2>2. CASE id \in ids
    BY <1>6, <1>9, <2>2
  <2>. QED
    BY <2>1, <2>2
<1>12. Stamped'
  BY <1>7, <1>11 DEF Stamped
<1>13. \A id \in ids : redirects'[id] = ImportRow(entries[id - lastId])
  BY <1>1, <1>5, <1>6
<1>14. \A id \in ids : entries[id - lastId].updated # None =>
         destinationUpdatedAt'[id] = entries[id - lastId].updated
  BY <1>6, <1>7, <1>8
<1>15. redirects' = [id \in DOMAIN redirects' |-> redirects'[id]]
  BY <1>5, <1>8
<1>. QED
  BY <1>4, <1>8, <1>12, <1>13, <1>14, <1>15 DEF entries

Input(envelope) == envelope \in Files \/ (file # None /\ envelope = file)

LEMMA InputFacts ==
  ASSUME IInv, NEW envelope, Input(envelope), Decodes(envelope)
  PROVE  /\ envelope # None
         /\ Entries(envelope) \in Seq(DecodedEntry)
         /\ ~InsertConflicts(Entries(envelope))
<1>1. envelope # None
  BY FileAssumption DEF Input
<1>2. Entries(envelope) \in Seq(DecodedEntry)
  <2>1. CASE envelope \in Files
    BY <2>1, DecodedImportable
  <2>2. CASE file # None /\ envelope = file
    BY <2>2, EntriesSame DEF IInv, FileKept
  <2>. QED
    BY <2>1, <2>2 DEF Input
<1>. QED
  BY <1>1, <1>2, DecodedDistinct

LEMMA ImportedIInv ==
  ASSUME IInv, NEW envelope, Input(envelope), Decodes(envelope),
         Imported(envelope), UNCHANGED <<file, source>>
  PROVE  IInv'
<1> DEFINE entries == Entries(envelope)
           ids     == lastId + 1 .. lastId + Len(entries)
<1>1. entries \in Seq(DecodedEntry)
  BY InputFacts
<1>2. /\ Tables!Next
      /\ DOMAIN redirects' = DOMAIN redirects \cup ids
      /\ \A id \in ids : redirects'[id] = ImportRow(entries[id - lastId])
      /\ Stamped'
      /\ \A id \in ids : entries[id - lastId].updated # None =>
           destinationUpdatedAt'[id] = entries[id - lastId].updated
      /\ redirects' = [id \in DOMAIN redirects' |-> redirects'[id]]
  BY <1>1, ImportAdds
<1>3. /\ answer' \in {None, "imported"} /\ checked' = None
      /\ restored' = (envelope = file /\ DOMAIN redirects = {})
  BY DEF Imported, Answered
<1>4. Tables!IInv'
  BY <1>2, TablesStep DEF IInv
<1>5. FileKept'
  BY DEF IInv, FileKept, SameRows
<1> HIDE DEF entries, ids
<1>6. Rebuilt'
  <2>. SUFFICES ASSUME restored'
                PROVE  file' # None /\ \E first \in Nat : Numbered(file.redirects, first)'
    BY DEF Rebuilt
  <2>1. envelope = file /\ DOMAIN redirects = {}
    BY <1>3
  <2>2. file # None
    BY <2>1, InputFacts
  <2>3. entries = file.redirects
    BY <2>1, <2>2, EntriesSame DEF entries, IInv, FileKept
  <2>4. lastId \in Nat /\ Len(entries) \in Nat /\ DOMAIN entries = 1..Len(entries)
    BY <1>1, TablesFacts DEF IInv
  <2>5. \A i \in 1..Len(entries) : entries[i].updated # None
    <3>1. \A i \in DOMAIN entries : PortableEntry(entries[i])
      BY <2>2, <2>3 DEF IInv, FileKept
    <3>2. None \notin 0..LastInstant
      BY StoreAssumption DEF Store!TimeAssumption
    <3>. QED
      BY <2>4, <3>1, <3>2 DEF PortableEntry, Portable
  <2>6. \A id \in ids : id - lastId \in 1..Len(entries)
    BY <2>4 DEF ids
  <2>7. DOMAIN redirects' = ids
    BY <1>2, <2>1
  <2>8. redirects' = [id \in ids |-> ImportRow(entries[id - lastId])]
    BY <1>2, <2>7
  <2>9. \A id \in ids : destinationUpdatedAt'[id] = entries[id - lastId].updated
    BY <1>2, <2>5, <2>6
  <2>. QED
    BY <2>2, <2>3, <2>4, <2>8, <2>9 DEF Numbered, ids
<1>. QED
  BY <1>2, <1>3, <1>4, <1>5, <1>6 DEF IInv, Checked, DryRunPredicts

(***************************************************************************)
(* What leaves the database and the file as they are.                      *)
(***************************************************************************)
LEMMA Unmoved ==
  ASSUME IInv, UNCHANGED <<database, file, source, restored>>
  PROVE  Tables!IInv' /\ Stamped' /\ FileKept' /\ Rebuilt'
<1>1. Tables!IInv'
  BY TablesStep DEF IInv, database, store
<1>. QED
  BY <1>1 DEF IInv, Stamped, FileKept, SameRows, Rebuilt, Numbered, database

LEMMA ConflictingIInv ==
  ASSUME IInv, NEW envelope, Input(envelope), Decodes(envelope),
         Conflicting(envelope), UNCHANGED <<file, source>>
  PROVE  IInv'
<1>1. UNCHANGED <<database, checked, restored>>
  BY DEF Conflicting
<1>2. envelope # checked
  <2>. SUFFICES ASSUME envelope = checked PROVE FALSE
    OBVIOUS
  <2>1. envelope # None /\ ~InsertConflicts(Entries(envelope))
    BY InputFacts
  <2>2. RedirectImportConflicts(Entries(envelope)) = {}
    BY <2>1 DEF IInv, Checked
  <2>. QED
    BY <2>1, <2>2 DEF Conflicting
<1>3. answer' = None
  BY <1>2 DEF Conflicting, Answered
<1>4. Checked'
  BY <1>1 DEF IInv, Checked, RedirectImportConflicts, Store!Rows, database
<1>. QED
  BY <1>1, <1>3, <1>4, Unmoved DEF IInv, DryRunPredicts

LEMMA DryRunIInv ==
  ASSUME IInv, NEW envelope, Input(envelope), DryRun(envelope)
  PROVE  IInv'
<1>1. /\ UNCHANGED <<database, file, source, restored>> /\ answer' = None
      /\ checked' \in {envelope, None} /\ Decodes(envelope)
      /\ checked' # None => RedirectImportConflicts(Entries(envelope)) = {}
  BY DEF DryRun
<1>2. ~InsertConflicts(Entries(envelope))
  BY <1>1, InputFacts
<1>3. Checked'
  <2>. SUFFICES ASSUME checked' # None
                PROVE  /\ RedirectImportConflicts(Entries(envelope))' = {}
                       /\ ~InsertConflicts(Entries(envelope))
    BY <1>1 DEF Checked
  <2>. QED
    BY <1>1, <1>2 DEF RedirectImportConflicts, Store!Rows, database
<1>. QED
  BY <1>1, <1>3, Unmoved DEF IInv, DryRunPredicts

(***************************************************************************)
(* What an export writes.                                                  *)
(***************************************************************************)
LEMMA BackupRows ==
  ASSUME Tables!IInv, Stamped
  PROVE  LET entries == Backup.redirects
         IN  /\ Backup = [version |-> 3, redirects |-> entries]
             /\ entries \in Seq(DecodedEntry) /\ Len(entries) = Count
             /\ DOMAIN entries = 1..Count
             /\ \A i \in 1..Count :
                  /\ ListRedirects[i] \in Ids
                  /\ entries[i] = Exported(ListRedirects[i])
                  /\ ImportRow(entries[i]) = redirects[ListRedirects[i]]
                  /\ entries[i].slug = redirects[ListRedirects[i]].slug
<1> DEFINE entries == Backup.redirects
<1>1. ListRedirects \in [1..Count -> Ids]
  BY ListSorted
<1>2. /\ Backup = [version |-> 3, redirects |-> entries]
      /\ entries = [i \in 1..Count |-> Exported(ListRedirects[i])]
  BY <1>1 DEF Backup
<1>3. \A id \in Ids :
        /\ Exported(id) \in DecodedEntry
        /\ ImportRow(Exported(id)) = redirects[id]
        /\ Exported(id).slug = redirects[id].slug
  <2>1. \A id \in Ids :
          /\ redirects[id] \in Store!ImportRow
          /\ destinationUpdatedAt[id] \in Expirations \cup Clock
    BY TablesFacts DEF Ids, Stamped
  <2>. QED
    BY <2>1, EntryParts DEF Exported
<1> HIDE DEF entries
<1>4. \A i \in 1..Count :
        /\ ListRedirects[i] \in Ids
        /\ entries[i] = Exported(ListRedirects[i])
        /\ entries[i] \in DecodedEntry
  BY <1>1, <1>2, <1>3
<1>5. entries \in [1..Count -> DecodedEntry]
  BY <1>2, <1>4
<1>6. entries \in Seq(DecodedEntry) /\ Len(entries) = Count /\ DOMAIN entries = 1..Count
  BY <1>5, IdsFinite
<1>. QED
  BY <1>2, <1>3, <1>4, <1>6 DEF entries

LEMMA ExportIInv ==
  ASSUME IInv, Export PROVE IInv'
<1> DEFINE entries == Backup.redirects
<1>1. /\ Fits(Count) /\ UNCHANGED <<database, checked>> /\ restored' = FALSE
      /\ source' = redirects /\ answer' = None /\ file' = Backup
      /\ \A id \in Ids : Exportable(id)
  BY DEF Export, Count, Ids
<1>2. /\ Backup = [version |-> 3, redirects |-> entries]
      /\ entries \in Seq(DecodedEntry) /\ Len(entries) = Count
      /\ DOMAIN entries = 1..Count
      /\ \A i \in 1..Count :
           /\ ListRedirects[i] \in Ids
           /\ entries[i] = Exported(ListRedirects[i])
           /\ ImportRow(entries[i]) = redirects[ListRedirects[i]]
           /\ entries[i].slug = redirects[ListRedirects[i]].slug
  BY BackupRows DEF IInv
<1>3. /\ ListRedirects \in [1..Count -> Ids] /\ Sorted(ListRedirects)
      /\ \A i, j \in 1..Count : ListRedirects[i] = ListRedirects[j] => i = j
      /\ \A id \in Ids : \E i \in 1..Count : ListRedirects[i] = id
  BY ListSorted, SortedIsBijective DEF IInv
<1>4. file'.redirects = entries /\ file' = [version |-> 3, redirects |-> file'.redirects]
  BY <1>1, <1>2
<1> HIDE DEF entries
<1>5. \A i, j \in DOMAIN entries : Fold[entries[i].slug] = Fold[entries[j].slug] => i = j
  BY <1>2, <1>3, TablesFacts DEF IInv, Ids
<1>6. \A i, j \in DOMAIN entries : i < j => Place(entries[i].slug) <= Place(entries[j].slug)
  <2>. SUFFICES ASSUME NEW i \in 1..Count, NEW j \in 1..Count, i < j
                PROVE  Place(entries[i].slug) <= Place(entries[j].slug)
    BY <1>2
  <2>1. Precedes(ListRedirects[i], ListRedirects[j])
    BY <1>3 DEF Sorted
  <2>2. Place(entries[i].slug) \in Int /\ Place(entries[j].slug) \in Int
    BY <1>2, PlaceType DEF IInv
  <2>. QED
    BY <1>2, <2>1, <2>2 DEF Precedes
<1>7. \A i \in DOMAIN entries : PortableEntry(entries[i])
  BY <1>1, <1>2 DEF Exported, Entry, Exportable, PortableEntry
<1>8. SameRows(Batch(entries), redirects)
  <2>1. /\ DOMAIN Batch(entries) = 1..Count
        /\ \A i \in 1..Count : Batch(entries)[i] = redirects[ListRedirects[i]]
    BY <1>2, BatchType
  <2>. QED
    BY <1>3, <2>1 DEF SameRows, Ids
<1>9. FileKept'
  BY <1>1, <1>2, <1>4, <1>5, <1>6, <1>7, <1>8 DEF FileKept, SameRows
<1>10. Tables!IInv' /\ Stamped'
  <2>1. Tables!IInv'
    BY <1>1, TablesStep DEF IInv, database, store
  <2>. QED
    BY <1>1, <2>1 DEF IInv, Stamped, database
<1>11. Checked'
  BY <1>1 DEF IInv, Checked, RedirectImportConflicts, Store!Rows, database
<1>. QED
  BY <1>1, <1>9, <1>10, <1>11 DEF IInv, Rebuilt, DryRunPredicts

LEMMA RestampStamps ==
  ASSUME Stamped, NEW ids, NEW now, Restamp(ids, now),
         ids # {} => now \in Clock,
         \A id \in DOMAIN redirects' : id \in ids \/ id \in DOMAIN redirects
  PROVE  Stamped'
BY DEF Stamped, Restamp

LEMMA UseIInv ==
  ASSUME IInv, Use PROVE IInv'
<1>1. Tables!IInv'
  BY UseStep, TablesStep DEF IInv
<1>2. /\ UNCHANGED <<file, source>> /\ restored' = FALSE
      /\ checked' = None /\ answer' = None
  BY DEF Use
<1>3. Stamped'
  <2>. USE DEF IInv
  <2>1. CASE CreateLink
    <3>1. PICK now \in Clock : Restamp({lastId'}, now)
      BY <2>1 DEF CreateLink
    <3>2. \A id \in DOMAIN redirects' : id \in {lastId'} \/ id \in DOMAIN redirects
      BY <2>1 DEF CreateLink, Store!CreateRedirect
    <3>. QED
      BY <3>1, <3>2, RestampStamps
  <2>2. CASE ChangeLink
    <3>1. DOMAIN redirects' \subseteq DOMAIN redirects
      BY <2>2 DEF ChangeLink, Store!UpdateRedirect, Store!DisableRedirect,
                  Store!EnableRedirect, Store!SetRedirectExpiration,
                  Store!DeleteRedirect, Store!Rewrite
    <3>2. \E ids : \E now : Restamp(ids, now) /\ (ids # {} => now \in Clock)
      BY <2>2 DEF ChangeLink
    <3>. QED
      BY <3>1, <3>2, RestampStamps
  <2>3. CASE Visit
    <3>1. DOMAIN redirects' \subseteq DOMAIN redirects /\ Restamp({}, None)
      BY <2>3 DEF Visit, Store!RecordRedirectAccess
    <3>. QED
      BY <3>1, RestampStamps
  <2>. QED
    BY <2>1, <2>2, <2>3 DEF Use
<1>. QED
  BY <1>1, <1>2, <1>3 DEF IInv, FileKept, SameRows, Rebuilt, Checked, DryRunPredicts

LEMMA LoseTables == Lose => Tables!IInv'
<1>1. Lose => Tables!Init'
  BY DEF Lose, Tables!Init
<1>2. Tables!Init => Tables!IInv
  BY TablesAssumption, Tables!InitIInv
<1>. QED
  BY <1>1, <1>2, PTL

LEMMA LoseIInv ==
  ASSUME IInv, Lose PROVE IInv'
<1>1. Tables!IInv'
  BY LoseTables
<1>2. Stamped'
  BY DEF Lose, Stamped
<1>3. /\ UNCHANGED <<file, source>> /\ restored' = FALSE
      /\ checked' = None /\ answer' = None
  BY DEF Lose
<1>. QED
  BY <1>1, <1>2, <1>3 DEF IInv, FileKept, SameRows, Rebuilt, Checked, DryRunPredicts

LEMMA NextIInv == IInv /\ [Next]_vars => IInv'
<1>. SUFFICES ASSUME IInv, [Next]_vars PROVE IInv'
  OBVIOUS
<1>1. CASE Use
  BY <1>1, UseIInv
<1>2. CASE Export
  BY <1>2, ExportIInv
<1>3. ASSUME NEW envelope \in Files \cup ({file} \ {None}),
             DryRun(envelope) \/ Import(envelope)
      PROVE  IInv'
  <2>1. Input(envelope)
    BY DEF Input
  <2>2. CASE DryRun(envelope)
    BY <2>1, <2>2, DryRunIInv
  <2>3. CASE Import(envelope)
    BY <2>1, <2>3, ImportedIInv, ConflictingIInv DEF Import
  <2>. QED
    BY <1>3, <2>2, <2>3
<1>4. CASE Lose
  BY <1>4, LoseIInv
<1>5. CASE UNCHANGED vars
  <2>1. UNCHANGED <<database, file, source, restored, checked, answer>>
    BY <1>5 DEF vars
  <2>2. Checked'
    BY <2>1 DEF IInv, Checked, RedirectImportConflicts, Store!Rows, database
  <2>. QED
    BY <2>1, <2>2, Unmoved DEF IInv, DryRunPredicts
<1>. QED
  BY <1>1, <1>2, <1>3, <1>4, <1>5 DEF Next

(***************************************************************************)
(* The invariant holds always.                                             *)
(***************************************************************************)
THEOREM BackupInvariant == Spec => []IInv
<1>1. Init => IInv
  <2>. SUFFICES ASSUME Init PROVE IInv
    OBVIOUS
  <2>1. Stamped
    BY DEF Init, Stamped
  <2>. QED
    BY <2>1, TablesInit DEF Init, IInv, FileKept, Rebuilt, Checked, DryRunPredicts
<1>. QED
  BY <1>1, NextIInv, PTL DEF Spec
-----------------------------------------------------------------------------
(***************************************************************************)
(* Imports of any file keep types, unique slugs and consistent usage.      *)
(***************************************************************************)
THEOREM BackupStoreConsistent == Spec => []StoreConsistent
<1>1. IInv => StoreConsistent
  BY TablesFacts DEF IInv, Stamped, StoreConsistent, Store!Instant
<1>. QED
  BY <1>1, BackupInvariant, PTL

(***************************************************************************)
(* Decode takes every file the server exports, unless a row has an empty   *)
(* slug or destination, and an empty database has no conflict with it.     *)
(***************************************************************************)
THEOREM BackupExportsRestorable == Spec => []ExportsRestorable
<1>1. IInv => ExportsRestorable
  <2>. SUFFICES ASSUME IInv, file # None
                PROVE  /\ Decodes(file) <=>
                            \A i \in DOMAIN file.redirects : Whole(file.redirects[i])
                       /\ ~InsertConflicts(file.redirects)
    BY DEF ExportsRestorable
  <2> DEFINE entries == file.redirects
  <2>1. /\ file.version = 3 /\ entries \in Seq(DecodedEntry) /\ Fits(Len(entries))
        /\ \A i, j \in DOMAIN entries :
             Fold[entries[i].slug] = Fold[entries[j].slug] => i = j
        /\ \A i \in DOMAIN entries : PortableEntry(entries[i])
    BY DEF IInv, FileKept
  <2>2. Entries(file) = entries
    BY <2>1, EntriesSame
  <2>3. \A i \in DOMAIN entries : entries[i] \in DecodedEntry /\ entries[i].slug \in Slugs
    BY <2>1 DEF DecodedEntry, TypedEntry
  <2> HIDE DEF entries
  <2>4. ~InsertConflicts(entries)
    BY <2>1 DEF InsertConflicts, Store!SameSlug
  <2>5. ~Duplicates(entries)
    BY <2>1, <2>3, KeysAgree DEF Duplicates
  <2>6. Bad \notin Expirations \cup Clock \cup {None}
    <3>1. Bad \notin Int /\ Bad # None
      BY FileAssumption
    <3>2. Expirations \subseteq Int /\ Clock \subseteq Int
      BY StoreAssumption DEF Store!TimeAssumption
    <3>. QED
      BY <3>1, <3>2
  <2>7. \A entry \in DecodedEntry :
          Bad \notin {entry.expires, entry.updated} /\ ValidUsage(entry)
    <3>1. \A entry \in TypedEntry :
            entry.expires # Bad /\ entry.updated # Bad /\ entry.last # Bad
      BY <2>6 DEF TypedEntry
    <3>2. \A entry \in TypedEntry : entry.clicks >= 0
      BY StoreAssumption DEF TypedEntry, Store!BoundAssumption
    <3>. QED
      BY <3>1, <3>2 DEF DecodedEntry, ValidUsage, UsageWhole
  <2>8. Decodes(file) <=> \A i \in DOMAIN entries : Whole(entries[i])
    BY <2>1, <2>2, <2>3, <2>5, <2>7 DEF Decodes, Whole
  <2>. QED
    BY <2>4, <2>8 DEF entries
<1>. QED
  BY <1>1, BackupInvariant, PTL

(***************************************************************************)
(* The rows of a restored database are those of source.                    *)
(***************************************************************************)
LEMMA RestoredRows ==
  ASSUME IInv, restored
  PROVE  /\ SameRows(redirects, source)
         /\ \A id \in Ids : Exportable(id)
         /\ Backup = file
<1> DEFINE entries == file.redirects
           n       == Len(entries)
<1>1. PICK first \in Nat : Numbered(entries, first)
  BY DEF IInv, Rebuilt
<1>2. /\ file = [version |-> 3, redirects |-> entries] /\ entries \in Seq(DecodedEntry)
      /\ \A i, j \in DOMAIN entries :
           i < j => Place(entries[i].slug) <= Place(entries[j].slug)
      /\ \A i \in DOMAIN entries : PortableEntry(entries[i])
      /\ SameRows(Batch(entries), source)
  BY DEF IInv, Rebuilt, FileKept
<1>3. /\ n \in Nat /\ DOMAIN entries = 1..n
      /\ \A i \in 1..n : entries[i] \in DecodedEntry
      /\ DOMAIN Batch(entries) = 1..n
      /\ \A i \in 1..n : Batch(entries)[i] = ImportRow(entries[i])
  BY <1>2, BatchType
<1> DEFINE ids == [i \in 1..n |-> first + i]
<1>4. /\ Ids = first + 1 .. first + n
      /\ \A id \in Ids : /\ redirects[id] = ImportRow(entries[id - first])
                         /\ destinationUpdatedAt[id] = entries[id - first].updated
  BY <1>1 DEF Numbered, Ids
<1>5. Count = n
  <2>. HIDE DEF n
  <2>1. first + 1 \in Int /\ first + n \in Int
    BY <1>3
  <2>2. Cardinality(first + 1 .. first + n)
          = IF first + 1 > first + n THEN 0 ELSE (first + n) - (first + 1) + 1
    BY <2>1, FS_Interval
  <2>3. (IF first + 1 > first + n THEN 0 ELSE (first + n) - (first + 1) + 1) = n
    BY <1>3
  <2>. QED
    BY <1>4, <2>2, <2>3 DEF Count
<1> HIDE DEF entries, n
<1>6. \A id \in Ids : id - first \in 1..n
  BY <1>3, <1>4
<1>7. \A i \in 1..n :
        /\ first + i \in Ids
        /\ redirects[first + i] = ImportRow(entries[i])
        /\ redirects[first + i].slug = entries[i].slug
        /\ Exported(first + i) = entries[i]
  <2>. SUFFICES ASSUME NEW i \in 1..n
                PROVE  /\ first + i \in Ids
                       /\ redirects[first + i] = ImportRow(entries[i])
                       /\ redirects[first + i].slug = entries[i].slug
                       /\ Exported(first + i) = entries[i]
    OBVIOUS
  <2>1. first + i \in Ids /\ (first + i) - first = i
    BY <1>3, <1>4
  <2>2. /\ redirects[first + i] = ImportRow(entries[i])
        /\ destinationUpdatedAt[first + i] = entries[i].updated
    BY <1>4, <2>1
  <2>3. Exported(first + i) = entries[i]
    BY <1>3, <2>2, EntrySplits DEF Exported
  <2>. QED
    BY <2>1, <2>2, <2>3 DEF ImportRow
<1>8. SameRows(redirects, source)
  <2>1. \A id \in Ids : \E k \in DOMAIN source : redirects[id] = source[k]
    <3>. SUFFICES ASSUME NEW id \in Ids
                  PROVE  \E k \in DOMAIN source : redirects[id] = source[k]
      OBVIOUS
    <3>1. /\ id - first \in DOMAIN Batch(entries)
          /\ redirects[id] = Batch(entries)[id - first]
      BY <1>3, <1>4, <1>6
    <3>. QED
      BY <1>2, <3>1 DEF SameRows
  <2>2. ASSUME NEW k \in DOMAIN source PROVE \E id \in Ids : redirects[id] = source[k]
    <3>1. PICK i \in 1..n : ImportRow(entries[i]) = source[k]
      BY <1>2, <1>3 DEF SameRows
    <3>. QED
      BY <1>7, <3>1
  <2>. QED
    BY <2>1, <2>2 DEF SameRows, Ids
<1>9. \A id \in Ids : Exportable(id)
  <2>. SUFFICES ASSUME NEW id \in Ids PROVE Exportable(id)
    OBVIOUS
  <2>1. PortableEntry(entries[id - first])
    BY <1>2, <1>3, <1>6
  <2>2. /\ redirects[id] = ImportRow(entries[id - first])
        /\ destinationUpdatedAt[id] = entries[id - first].updated
    BY <1>4
  <2>. QED
    BY <2>1, <2>2 DEF PortableEntry, Exportable, ImportRow
<1>10. ids \in [1..Count -> Ids] /\ Sorted(ids)
  <2>1. ids \in [1..Count -> Ids]
    BY <1>5, <1>7
  <2>2. ASSUME NEW i \in 1..n, NEW j \in 1..n, i < j
        PROVE  Precedes(first + i, first + j)
    <3>1. Place(entries[i].slug) <= Place(entries[j].slug)
      BY <1>2, <1>3, <2>2
    <3>2. Place(entries[i].slug) \in Int /\ Place(entries[j].slug) \in Int
      BY <1>7, PlaceType DEF IInv
    <3>3. first + i < first + j
      BY <1>3, <2>2
    <3>. QED
      BY <1>7, <3>1, <3>2, <3>3 DEF Precedes
  <2>3. DOMAIN ids = 1..n /\ \A i \in 1..n : ids[i] = first + i
    OBVIOUS
  <2> HIDE DEF ids
  <2>. QED
    BY <2>1, <2>2, <2>3 DEF Sorted
<1>11. ListRedirects = ids
  BY <1>10, ListSorted, SortedListUnique DEF IInv
<1>12. Backup = file
  <2>1. /\ Backup = [version |-> 3, redirects |-> Backup.redirects]
        /\ Backup.redirects \in Seq(DecodedEntry)
        /\ DOMAIN Backup.redirects = 1..n
        /\ \A i \in 1..n : Backup.redirects[i] = Exported(ListRedirects[i])
    BY <1>5, BackupRows DEF IInv
  <2>2. \A i \in 1..n : Backup.redirects[i] = entries[i]
    BY <1>7, <1>11, <2>1
  <2>3. Backup.redirects = entries
    BY <1>2, <1>3, <2>1, <2>2
  <2>. QED
    BY <1>2, <2>1, <2>3
<1>. QED
  BY <1>8, <1>9, <1>12

LEMMA AnswersIncluded ==
  ASSUME NEW rows, NEW table, NEW slug, NEW now,
         \A i \in DOMAIN rows : \E id \in DOMAIN table : rows[i] = table[id]
  PROVE  Answer(rows, slug, now) \subseteq Answer(table, slug, now)
<1>. SUFFICES ASSUME NEW i \in Store!ResolveSlug(rows, slug, now)
              PROVE  [url |-> rows[i].url, clicks |-> rows[i].clicks,
                      last |-> rows[i].last] \in Answer(table, slug, now)
  BY DEF Answer
<1>1. PICK id \in DOMAIN table : rows[i] = table[id]
  BY DEF Store!ResolveSlug, Store!Rows
<1>2. id \in Store!ResolveSlug(table, slug, now)
  BY <1>1 DEF Store!ResolveSlug, Store!Rows
<1>. QED
  BY <1>1, <1>2 DEF Answer

LEMMA AnswersAgree ==
  ASSUME SameRows(redirects, source), NEW slug, NEW now
  PROVE  Answer(redirects, slug, now) = Answer(source, slug, now)
<1>1. Answer(redirects, slug, now) \subseteq Answer(source, slug, now)
  BY AnswersIncluded DEF SameRows
<1>2. \A id \in DOMAIN source : \E i \in DOMAIN redirects : source[id] = redirects[i]
  BY DEF SameRows
<1>3. Answer(source, slug, now) \subseteq Answer(redirects, slug, now)
  BY <1>2, AnswersIncluded
<1>. QED
  BY <1>1, <1>3

(***************************************************************************)
(* A database rebuilt from an export answers as the exported one did and   *)
(* can be exported again, to the very same file.                           *)
(***************************************************************************)
THEOREM BackupRestores == Spec => []RestoreEquivalent
<1>1. IInv => RestoreEquivalent
  <2>. SUFFICES ASSUME IInv, restored
                PROVE  /\ \A slug \in Slugs :
                            /\ \A now \in 0..LastInstant :
                                 Answer(redirects, slug, now) = Answer(source, slug, now)
                            /\ Store!Rows(redirects, slug) = {}
                                 <=> Store!Rows(source, slug) = {}
                       /\ \A id \in DOMAIN redirects : Exportable(id)
                       /\ Backup = file
    BY DEF RestoreEquivalent
  <2>1. /\ SameRows(redirects, source)
        /\ \A id \in DOMAIN redirects : Exportable(id)
        /\ Backup = file
    BY RestoredRows DEF Ids
  <2>2. \A slug : Store!Rows(redirects, slug) = {} <=> Store!Rows(source, slug) = {}
    BY <2>1 DEF SameRows, Store!Rows
  <2>. QED
    BY <2>1, <2>2, AnswersAgree
<1>. QED
  BY <1>1, BackupInvariant, PTL

(***************************************************************************)
(* A file that a dry run passed is imported, as long as the tables have    *)
(* not changed, whatever its slugs are.                                    *)
(***************************************************************************)
THEOREM BackupDryRunPredicts == Spec => []DryRunPredicts
<1>1. IInv => DryRunPredicts
  BY DEF IInv
<1>. QED
  BY <1>1, BackupInvariant, PTL

(***************************************************************************)
(* If no expiration, and no timestamp of a file, lies outside of years 0   *)
(* to 9999 in UTC, every table can be exported, garbled rows apart.        *)
(***************************************************************************)
THEOREM BackupAlwaysExportable ==
  ASSUME Expirations \subseteq 0..LastInstant
  PROVE  Spec => []AlwaysExportable
<1>1. IInv => AlwaysExportable
  <2>1. Expirations \cup Clock \subseteq 0..LastInstant
    BY StoreAssumption DEF Store!TimeAssumption
  <2>2. \A row \in TableRow : PortableOptional(row.expires) /\ PortableOptional(row.last)
    BY <2>1 DEF TableRow, PortableOptional, Portable
  <2>3. ASSUME IInv, NEW id \in DOMAIN redirects PROVE Portable(destinationUpdatedAt[id])
    BY <2>1, <2>3 DEF IInv, Stamped, Portable
  <2>. QED
    BY <2>2, <2>3, TablesFacts, ImportRowParts DEF IInv, AlwaysExportable, Exportable
<1>. QED
  BY <1>1, BackupInvariant, PTL
=============================================================================
