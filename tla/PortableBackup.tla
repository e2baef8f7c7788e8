--------------------------- MODULE PortableBackup ---------------------------
(***************************************************************************)
(* The portable export and import: the management handlers that write and  *)
(* read a backup file, backup.Decode which judges it, and the tables of    *)
(* RedirectStore below them, while the owner and the visitors go on and    *)
(* the database may be lost and rebuilt.                                   *)
(*                                                                         *)
(* A file is its version and its entries; JSON syntax is left out, and the *)
(* size of a file is counted in entries.  A timestamp is the instant it    *)
(* names, or Bad.  Times are written as UTC in RFC 3339, which has no form *)
(* for an instant outside of years 0 to 9999, although an accepted one     *)
(* with an offset can name it.                                             *)
(***************************************************************************)
EXTENDS Integers, Sequences, FiniteSets

CONSTANTS
  Slugs, Canonical, Fold, Rank, URLs, Clock, Expirations, LastInstant,
  Resolution, MaxCount, MaxId, MaxMisses, None,  \* see RedirectStore
  Managed,      \* the slugs under which the owner changes links
  Destinations, \* what ValidateDestination accepts
  Garbled,      \* slugs and URLs that are not UTF-8
  Characters,   \* everything a slug may contain
  Capitals,     \* A to Z
  Lower,        \* and what they fold to
  Nul,          \* the character 0
  Legacy,       \* the tables that the migrations may leave
  Files,        \* files the owner may import: [version, redirects]
  Bad,          \* no timestamp, or text that time.Parse refuses
  MaxEntries    \* backup.MaxBytes, in entries

VARIABLES
  redirects, lastId, misses,  \* the database
  destinationUpdatedAt,       \* its column of that name: id -> instant
  file,      \* the last export, or None
  source,    \* history: the table it was taken from
  restored,  \* history: the database was rebuilt from file and not used since
  checked,   \* history: the file of the last dry run, if that found no
             \* conflict and the tables have not changed since, or None
  answer     \* history: the answer to the import of the file that was
             \* checked, if it has just been made, or None

database == <<redirects, lastId, misses, destinationUpdatedAt>>

vars == <<database, file, source, restored, checked, answer>>

Store == INSTANCE RedirectStore WITH Batches <- {}

ASSUME StoreAssumption ==
  /\ Store!SlugAssumption
  /\ Store!TimeAssumption
  /\ Store!BoundAssumption

(***************************************************************************)
(* What SQLite does with COLLATE NOCASE: the comparison folds ASCII, ends  *)
(* at a difference or a NUL, and then looks at the lengths.                *)
(***************************************************************************)
ASCII(ch) == IF ch \in Capitals THEN Lower[ch] ELSE ch

SameNocase(s, t) ==
  /\ Len(s) = Len(t)
  /\ \A i \in DOMAIN s :
       (\A j \in 1 .. i - 1 : s[j] # Nul) => ASCII(s[i]) = ASCII(t[i])

ASSUME CollationAssumption ==
  /\ Slugs \subseteq Seq(Characters)
  /\ Nul \notin Capitals
  /\ \A ch \in Capitals : Lower[ch] # Nul
  /\ \A s, t \in Slugs : Fold[s] = Fold[t] <=> SameNocase(s, t)

(***************************************************************************)
(* A migrated table holds whatever older servers took, empty and garbled   *)
(* slugs and destinations too.                                             *)
(***************************************************************************)
ASSUME LegacyAssumption ==
  /\ Managed \subseteq Slugs
  /\ Destinations \subseteq URLs
  /\ \A table \in Legacy :
       /\ table \in Seq(Store!ImportRow)
       /\ Len(table) <= MaxId
       /\ \A i, j \in DOMAIN table :
            Fold[table[i].slug] = Fold[table[j].slug] => i = j

(***************************************************************************)
(* What encoding/json makes of a file: any version, and entries whose      *)
(* fields need not be valid; a count is a signed 64-bit integer, and every *)
(* string is UTF-8.                                                        *)
(***************************************************************************)
ASSUME FileAssumption ==
  /\ MaxEntries \in Nat
  /\ Bad \notin Int \cup {None}
  /\ None \notin Files
  /\ \A envelope \in Files :
       /\ DOMAIN envelope = {"version", "redirects"}
       /\ envelope.redirects \in
            Seq([slug : Slugs \ Garbled, url : URLs \ Garbled,
                 disabled : BOOLEAN, expires : Expirations \cup {None, Bad},
                 updated : Expirations \cup Clock \cup {Bad},
                 clicks : {n \in Int : n <= MaxCount},
                 last : Expirations \cup Clock \cup {None, Bad}])
-----------------------------------------------------------------------------
(***************************************************************************)
(* portableTimestamp reads what the database holds; year 10000 and year -1 *)
(* cannot be read back.                                                    *)
(***************************************************************************)
Portable(t) == t \in 0..LastInstant

PortableOptional(t) == t = None \/ Portable(t)

Exportable(id) ==
  /\ {redirects[id].slug, redirects[id].url} \cap Garbled = {}
  /\ Portable(destinationUpdatedAt[id])
  /\ PortableOptional(redirects[id].expires)
  /\ PortableOptional(redirects[id].last)

Fits(n) == n <= MaxEntries

Entry(row, updated) ==
  [slug |-> row.slug, url |-> row.url, disabled |-> row.disabled,
   expires |-> row.expires, updated |-> updated,
   clicks |-> row.clicks, last |-> row.last]

\* Mutants of Exported: disabled links are written as active; the last
\* access is left out.
ExportedActive(id) ==
  Entry([redirects[id] EXCEPT !.disabled = FALSE], destinationUpdatedAt[id])

ExportedWithoutAccess(id) ==
  Entry([redirects[id] EXCEPT !.last = None], destinationUpdatedAt[id])

(***************************************************************************)
(* The entry of a row: neither its id nor created_at and updated_at, and   *)
(* whether disabled_at is set in place of its value.                       *)
(***************************************************************************)
Exported(id) == Entry(redirects[id], destinationUpdatedAt[id])

(***************************************************************************)
(* ORDER BY slug COLLATE NOCASE; slugs that Rank leaves out come first.    *)
(***************************************************************************)
Place(slug) == IF Fold[slug] \in Canonical THEN Rank[Fold[slug]] + 1 ELSE 0

Precedes(i, j) ==
  \/ Place(redirects[i].slug) < Place(redirects[j].slug)
  \/ Place(redirects[i].slug) = Place(redirects[j].slug) /\ i < j

ListRedirects ==
  CHOOSE ids \in [1..Cardinality(DOMAIN redirects) -> DOMAIN redirects] :
    \A i, j \in DOMAIN ids : i < j => Precedes(ids[i], ids[j])

(***************************************************************************)
(* The backup.Envelope of all redirects, in the order they are listed.     *)
(***************************************************************************)
Backup ==
  LET ids == ListRedirects
  IN  [version |-> 3, redirects |-> [i \in DOMAIN ids |-> Exported(ids[i])]]
-----------------------------------------------------------------------------
(***************************************************************************)
(* What the wire format of each version has room for.                      *)
(***************************************************************************)
Fields(version, entry) ==
  [entry EXCEPT !.expires = IF version >= 2 THEN @ ELSE None,
                !.updated = IF version >= 2 THEN @ ELSE None,
                !.clicks  = IF version >= 3 THEN @ ELSE 0,
                !.last    = IF version >= 3 THEN @ ELSE None]

Entries(envelope) ==
  [i \in DOMAIN envelope.redirects |->
     Fields(envelope.version, envelope.redirects[i])]

\* Mutant of sqliteNOCASE: the whole slug is folded, as in sqliteNOCASEName.
FoldedName(slug) ==
  [prefix |-> [i \in DOMAIN slug |-> ASCII(slug[i])], length |-> Len(slug)]

(***************************************************************************)
(* The decoder's own key: the folded bytes before a NUL, and the length.   *)
(***************************************************************************)
Prefix(slug) == {i \in DOMAIN slug : \A j \in 1..i : slug[j] # Nul}

sqliteNOCASE(slug) ==
  [prefix |-> [i \in Prefix(slug) |-> ASCII(slug[i])], length |-> Len(slug)]

Duplicates(entries) ==
  \E i, j \in DOMAIN entries :
    /\ i # j
    /\ << >> \notin {entries[i].slug, entries[j].slug}
    /\ sqliteNOCASE(entries[i].slug) = sqliteNOCASE(entries[j].slug)

\* Mutant of ValidUsage: only the sign of the counter is checked.
NonNegativeUsage(entry) == entry.clicks >= 0 /\ entry.last # Bad

ValidUsage(entry) ==
  /\ entry.clicks >= 0
  /\ (entry.clicks = 0) <=> (entry.last = None)
  /\ entry.last # Bad

(***************************************************************************)
(* backup.Decode: a file that breaks one rule is refused as a whole.       *)
(***************************************************************************)
Decodes(envelope) ==
  LET entries == Entries(envelope)
  IN  /\ envelope.version \in 1..3
      /\ Fits(Len(entries))
      /\ ~Duplicates(entries)
      /\ \A i \in DOMAIN entries :
           /\ << >> \notin {entries[i].slug, entries[i].url}
           /\ Bad \notin {entries[i].expires, entries[i].updated}
           /\ ValidUsage(entries[i])

(***************************************************************************)
(* The columns of an entry that RedirectStore knows.                       *)
(***************************************************************************)
ImportRow(entry) ==
  [slug |-> entry.slug, url |-> entry.url, disabled |-> entry.disabled,
   expires |-> entry.expires, clicks |-> entry.clicks, last |-> entry.last]

Batch(entries) == [i \in DOMAIN entries |-> ImportRow(entries[i])]

(***************************************************************************)
(* The entries whose slug is taken.                                        *)
(***************************************************************************)
RedirectImportConflicts(entries) ==
  {i \in DOMAIN entries : Store!Rows(redirects, entries[i].slug) # {}}

(***************************************************************************)
(* UNIQUE refuses the second of two slugs that are one to the table.       *)
(***************************************************************************)
InsertConflicts(entries) ==
  \E i, j \in DOMAIN entries :
    i # j /\ Store!SameSlug(entries[i].slug, entries[j].slug)
-----------------------------------------------------------------------------
Init ==
  /\ \E table \in Legacy :
       /\ redirects = [id \in DOMAIN table |-> table[id]]
       /\ lastId = Len(table)
  /\ misses = [s \in {} |-> None]
  /\ destinationUpdatedAt \in [DOMAIN redirects -> Clock]
  /\ file = None
  /\ source = [id \in {} |-> None]
  /\ restored = FALSE
  /\ checked = None
  /\ answer = None

(***************************************************************************)
(* destination_updated_at = CURRENT_TIMESTAMP in the rows of ids; the      *)
(* others keep theirs.                                                     *)
(***************************************************************************)
Restamp(ids, now) ==
  destinationUpdatedAt' =
    [id \in DOMAIN redirects' |->
       IF id \in ids THEN now ELSE destinationUpdatedAt[id]]

(***************************************************************************)
(* The owner edits and visitors visit.  (Missed slugs are in no backup.)   *)
(***************************************************************************)
CreateLink ==
  \E slug \in Canonical, url \in Destinations, expires \in Expirations \cup {None} :
    /\ Store!CreateRedirect(slug, url, expires)
    /\ \E now \in Clock : Restamp({lastId'}, now)

ChangeLink ==
  \E slug \in Managed :
    \/ /\ \E url \in Destinations : Store!UpdateRedirect(slug, url)
       /\ \E now \in Clock : Restamp(Store!Rows(redirects, slug), now)
    \/ /\ \/ Store!DisableRedirect(slug)
          \/ Store!EnableRedirect(slug)
          \/ \E expires \in Expirations \cup {None} :
               Store!SetRedirectExpiration(slug, expires)
          \/ Store!DeleteRedirect(slug)
       /\ Restamp({}, None)

Visit ==
  /\ \E id \in 1..lastId, at \in Clock : Store!RecordRedirectAccess(id, at)
  /\ Restamp({}, None)

Use ==
  /\ CreateLink \/ ChangeLink \/ Visit
  /\ restored' = FALSE /\ checked' = None /\ answer' = None
  /\ UNCHANGED <<file, source>>

(***************************************************************************)
(* ManagementExportHandler: one row that is not portable, or a file too    *)
(* large, fails the whole export.                                          *)
(***************************************************************************)
Export ==
  /\ \A id \in DOMAIN redirects : Exportable(id)
  /\ Fits(Cardinality(DOMAIN redirects))
  /\ file' = Backup
  /\ source' = redirects
  /\ restored' = FALSE /\ answer' = None
  /\ UNCHANGED <<database, checked>>

(***************************************************************************)
(* ManagementImportHandler, the dry run.                                   *)
(***************************************************************************)
DryRun(envelope) ==
  /\ Decodes(envelope)
  /\ checked' = IF RedirectImportConflicts(Entries(envelope)) = {}
                THEN envelope ELSE None
  /\ answer' = None
  /\ UNCHANGED <<database, file, source, restored>>

(***************************************************************************)
(* ManagementImportHandler, with dry_run=false.  Version 1 brings no       *)
(* destination_updated_at: the row gets CURRENT_TIMESTAMP.                 *)
(***************************************************************************)
Answered(envelope, status) ==
  answer' = IF envelope = checked THEN status ELSE None

Imported(envelope) ==
  LET entries == Entries(envelope)
  IN  /\ Store!ImportRedirects(Batch(entries))
      /\ \E now \in [DOMAIN entries -> Clock] :
           destinationUpdatedAt' =
             [id \in DOMAIN redirects' |->
                IF id <= lastId THEN destinationUpdatedAt[id]
                ELSE IF entries[id - lastId].updated = None THEN now[id - lastId]
                ELSE entries[id - lastId].updated]
      /\ Answered(envelope, "imported")
      /\ checked' = None
      /\ restored' = (envelope = file /\ DOMAIN redirects = {})

Conflicting(envelope) ==
  /\ \/ RedirectImportConflicts(Entries(envelope)) # {}
     \/ InsertConflicts(Entries(envelope))
  /\ Answered(envelope, "conflicts")
  /\ UNCHANGED <<database, checked, restored>>

Import(envelope) ==
  /\ Decodes(envelope)
  /\ Imported(envelope) \/ Conflicting(envelope)
  /\ UNCHANGED <<file, source>>

(***************************************************************************)
(* The database is lost; a new one is migrated in its place.               *)
(***************************************************************************)
Lose ==
  /\ redirects' = [id \in {} |-> None]
  /\ lastId' = 0
  /\ misses' = [s \in {} |-> None]
  /\ destinationUpdatedAt' = [id \in {} |-> None]
  /\ restored' = FALSE /\ checked' = None /\ answer' = None
  /\ UNCHANGED <<file, source>>

Next ==
  \/ Use
  \/ Export
  \/ \E envelope \in Files \cup ({file} \ {None}) :
       DryRun(envelope) \/ Import(envelope)
  \/ Lose

Spec == Init /\ [][Next]_vars
-----------------------------------------------------------------------------
(***************************************************************************)
(* Whatever files are imported, the tables keep their types, their unique  *)
(* slugs and the agreement of counter and last access that other           *)
(* operations rely on.                                                     *)
(***************************************************************************)
StoreConsistent ==
  /\ Store!TypeOK /\ Store!SlugsUnique /\ Store!UsageConsistent
  /\ destinationUpdatedAt \in [DOMAIN redirects -> Store!Instant]

(***************************************************************************)
(* What the server exports, the server takes back: the file passes Decode, *)
(* unless it has a row with an empty slug or destination, which only       *)
(* version 0 of the database let in, and an empty database has no conflict *)
(* with it.                                                                *)
(***************************************************************************)
Whole(entry) == << >> \notin {entry.slug, entry.url}

ExportsRestorable ==
  file # None =>
    /\ Decodes(file) <=> \A i \in DOMAIN file.redirects : Whole(file.redirects[i])
    /\ ~InsertConflicts(file.redirects)

(***************************************************************************)
(* A database rebuilt from an export answers every visit as the original   *)
(* did, at every instant, knows its usage, and exports the same file: no   *)
(* generation of backups loses what an earlier one held, the time of the   *)
(* last change of a destination included.                                  *)
(***************************************************************************)
Answer(table, slug, now) ==
  {[url |-> table[id].url, clicks |-> table[id].clicks, last |-> table[id].last]
     : id \in Store!ResolveSlug(table, slug, now)}

RestoreEquivalent ==
  restored =>
    /\ \A slug \in Slugs :
         /\ \A now \in 0..LastInstant :
              Answer(redirects, slug, now) = Answer(source, slug, now)
         /\ Store!Rows(redirects, slug) = {} <=> Store!Rows(source, slug) = {}
    /\ \A id \in DOMAIN redirects : Exportable(id)
    /\ Backup = file

(***************************************************************************)
(* A dry run that reports no conflict predicts the import: as long as the  *)
(* tables have not changed, importing that file does not fail with a       *)
(* conflict, neither with the tables nor of the file with itself.          *)
(***************************************************************************)
DryRunPredicts == answer \in {None, "imported"}

(***************************************************************************)
(* docs/operations.md: "gottem export writes a versioned logical backup    *)
(* that can rebuild redirect behavior", and it refuses "a legacy row that  *)
(* contains invalid UTF-8".  No other row keeps the export from being      *)
(* written.                                                                *)
(***************************************************************************)
AlwaysExportable ==
  \A id \in DOMAIN redirects :
    {redirects[id].slug, redirects[id].url} \cap Garbled = {} => Exportable(id)
=============================================================================
