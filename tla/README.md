# A TLA+ development of gottem.link

gottem.link is a small URL shortener: one Go server over SQLite, replicated by
LiteFS on Fly.io, with a management API, an admin console, a command line
client and portable backups. This directory models the parts of it that are
hard to test, checks them with TLC on small instances and proves the central
safety properties with TLAPS for every value of the constants.

    tlc -workers 2 -config RedirectStoreUsage.cfg MCRedirectStore
    tlapm RedirectStore_proofs.tla

Paths below are relative to `src/`. `PROJECT.json` names, for every definition
that models code, the lines it stands for.

## 1. The system

| component | state | operations | interacts with |
|---|---|---|---|
| tables (`db/redirects.go`, `db/misses.go`) | `redirects`, its AUTOINCREMENT sequence, `slug_misses` | create, import, update, disable, enable, expire, delete, record access, record miss, resolve | called by every handler; one transaction each |
| activity writer (`db/stats.go`) | bounded channel, `closed`, mutex, context | `Track`, `TrackMiss`, `Close`, the goroutine `run` | request goroutines, `main` at shutdown, the store below |
| delivery (`db/http_stats.go`, `handlers/access.go`) | requests under way | post with a 500 ms timeout, record on the primary | LiteFS proxy, tables of the primary |
| public handler (`handlers/redirect.go`) | one request | resolve, classify a missing slug, answer, track | a node's copy of the tables, the writer |
| migrations and start (`db/db.go`, `main.go`, `litefs.yml`) | `user_version`, schema, lease | migrate one version at a time, check, serve | LiteFS, other machines |
| portable backup (`backup/backup.go`, `handlers/management.go`) | the file | export, decode, dry run, import | tables |
| management API (`handlers/management.go`, `handlers/auth.go`) | none of its own | one handler for each operation, retries of generated slugs | tables |
| command line client (`cmd/gottem`) | one invocation | parse, ask, send one request, judge the answer, exit | management API |
| process (`main.go`) | control point, listener, one deadline of 10 s | start, serve, close the writer, then the HTTP server | writer, HTTP server, signals |
| sessions (`handlers/session.go`) | signed cookies, the running token | log in, check, log out | admin console |
| admin console (`handlers/admin/admin.js`) | page variables, dialogs | asynchronous API calls | management API, sessions |
| slug and destination rules (`validation/`, `handlers/slug.go`) | none | predicates on strings | all handlers |
| routing and configuration (`routes/`, `config.go`) | the two tokens | dispatch, authorization | all handlers |
| pages, health, QR codes, scripts | none | | |

What is hard here:

- **Order.** Accesses are recorded late, by several nodes, in any order, and by
  id; the link may be gone, edited or created again by then.
- **Stale reads.** A replica answers visitors from an old copy; the missed-slug
  decision reads it twice; `migrate` reads the version outside of its
  transactions.
- **Concurrency.** `Track` races with `Close` on a channel; a full queue, a
  stalled store and a deadline meet in one `select`.
- **Late answers.** A client stops waiting while the server works on; the
  console's answers arrive after their dialog was closed or opened for another
  link; sessions end while requests are under way.
- **Deadlines.** One deadline covers draining the writer and the HTTP server,
  while the writer posts to that very server.
- **Crashes.** A migrating machine dies between versions; a server dies with
  records queued and posted.
- **Boundaries.** Counters at 2^63-1, 500 missed slugs, a queue of 256, the end
  of year 9999 (where `julianday()` is NULL and RFC 3339 has no form), files of
  1 MiB, slugs that differ in case only.
- **Round trips.** Export, decode and import translate a row three times, across
  three versions of the file format.

`PROJECT.json` lists these hazards line by line with the properties that cover
them.

## 2. The modules

| module | models | extends or instantiates |
|---|---|---|
| `RedirectStore` | the two tables and package db's operations on them | |
| `RedirectStore_proofs` | its theorems | `RedirectStore` |
| `EventSink` | what the writer promises: answer once, attempt at most once and in order | |
| `AccessWriter` | the writer, step by step | instantiates `EventSink` as `Sink` |
| `AccessWriter_proofs` | its theorems, the refinement among them | `AccessWriter` |
| `ActivityTracking` | visitors, queues, posts and replicas of a cluster | instantiates `RedirectStore` as `Store` |
| `ActivityTracking_proofs` | its theorems | `ActivityTracking`, instantiates `RedirectStore_proofs` as `Tables` |
| `SchemaMigration` | migrations, leases and start-up | |
| `SchemaMigration_proofs` | its theorems | `SchemaMigration` |
| `PortableBackup` | export, decode, dry run, import, rebuild | instantiates `RedirectStore` as `Store` |
| `PortableBackup_proofs` | its theorems | `PortableBackup`, instantiates `RedirectStore_proofs` as `Tables` |
| `ServerLifecycle` | the process from start to exit | instantiates `EventSink` as `Sink` |
| `ServerLifecycle_proofs` | its theorems | `ServerLifecycle` |
| `SlugRules` | `ValidateSlug`, NOCASE, the router's choice, over words | |
| `LinkCommands` | what a command promises: at most one effect, a truthful end | `SlugRules`; instantiates `RedirectStore` as `Store` |
| `Management` | the client, the network and the management API | `SlugRules`; instantiates `LinkCommands` as `Promise` |
| `Management_proofs` | the theorems of `SlugRules` and its own, the refinement among them | `Management`, instantiates `RedirectStore_proofs` as `Tables` |
| `AdminConsole` | the page, its requests and the sessions | |
| `AdminConsole_proofs` | its theorems | `AdminConsole` |
| `MC...` | constants for TLC | one module each |

**RedirectStore.** `redirects` is a function from ids to rows, `lastId` the
AUTOINCREMENT sequence, `misses` a function from slugs to their aggregate. Each
action is one statement or transaction of the same name; SQLite serializes
them, and one that fails rolls back, so it is a step that does not happen.
`ResolveSlug` and `Live` are the `WHERE` clause of the public lookup. Slugs are
opaque; `Fold` is the NOCASE collation, `Canonical` what `ValidateSlug` returns.
Instants are integers and `Resolution` of them make a millisecond, the grain of
`julianday()`; `Later` is false for an instant after `LastInstant`, as a
comparison with NULL is. A row keeps whether `disabled_at` is set and not its
value.

**AccessWriter.** One control point for each caller and one for the goroutine
`run`; taking the mutex, testing `closed`, the non-blocking send, `close`, each
case of each `select` and the return of a store call are steps of their own.
What happens between `Lock` and `Unlock` is thus open to every interleaving
with the code that does not take the mutex. `accepted` is a history variable.

**ActivityTracking.** A visit is a record that walks through `RedirectHandler`:
resolve, classify or respond, track, and for a missing slug the page that follows
`TrackMiss` (`Render`). Each reads the copy of its node at that moment. The queue of a node is EventSink's (`Track` is atomic, which
`AccessWriter` shows to be sound), its writer posts one record at a time, and
`flight` holds what is under way. `GiveUp` ends a post while its record may
still be applied: the timeout. `Manage` is the owner, with every action of
`RedirectStore`. Requests and records are identified with their visit.

**SchemaMigration.** `version`, `columns` and `missTable` are the schema, a row
is its slug and the set of columns in which it holds data. `MigrateStep` is one
round of the loop in `migrate`, with `at` as its local variable `version`;
`Rebuild` is the create-copy-drop-rename of versions 1, 3 and 4. Machines boot,
are promoted (candidates only), migrate, check `Ready` and serve; a machine that
serves may be stopped as idle (`Stop`), and one that is down is started again or
not, as `fly.toml:23` has it. The constant
`Failover` says whether the lease may leave a machine that is migrating.

**PortableBackup.** `Decodes` is `backup.Decode` with the rules of `validate`,
`Entries` what the wire format of each version has room for, `Export`, `DryRun`
and `Import` the handlers. The tables are those of `RedirectStore` and one column
more, `destinationUpdatedAt`, which no visit depends on and every export does.
They begin as a migration may leave them (`Legacy`): with slugs and destinations
that are empty, not UTF-8 (`Garbled`) or have a NUL inside. Slugs are sequences of
characters here, since there are two notions of the same slug: the key of the
decoder (`sqliteNOCASE`) and the collation of the table (`Fold`), which
`CollationAssumption` ties to what SQLite does (`SameNocase`). `Lose` empties the
database, so that an import restores. Four variables are history: `source`
remembers the exported table, `restored` that the present one was rebuilt from the
file, `checked` the file of a dry run that found no conflict in the present
tables, and `answer` what the import of that file answered. `ListRedirects` is
the query's `ORDER BY slug COLLATE NOCASE`: the one sequence of the rows that
goes up in the rank of their folded slugs; `Backup` is the envelope
`ManagementExportHandler` makes of it.

**ServerLifecycle.** `main` is the control point of `main`, `serve` and
`shutdown`; `accepting` is what `server.Serve` does or has sent to `errCh`. The
writer is the abstract `EventSink`, so `AccessWriter` is one of the writers that
fit (its `ImplementsSink`), and a record is identified with the request that
produced it. `Deadline` is the context of `shutdownTimeout`, which both waits
read: `WriterExpires` and `ServerExpires` are their cases. `http.Server` is
external: `Shutdown` closes the listener, then polls until no request is under
way (`Poll`, `PollAgain`) or the context is done.

**SlugRules, LinkCommands, Management.** A slug is a sequence of characters, of
which only class and case matter; `Lower` may take a character outside of ASCII
to a plain one, as Unicode does with the Kelvin sign. `LinkCommands` is the
abstract system: a command has one effect, the statement of package db it stands
for, and one of four ends. `Management` splits that into the steps of
`cmd/gottem/run` (`client`), the network (`Lose`, `GiveUp`) and the handler
(`request`): authorization, validation, statement, and the loops of
`createGeneratedRedirect` (`Attempt`) and `RedirectImportConflicts`
(`CheckRow`), between whose rounds other commands run. The refinement maps the
answers with the expected status to the commands that took effect.

**AdminConsole.** One tab, which runs one task at a time. `call` holds chains of
requests: the first one, then for most the reload of the list, as the `await`s
chain them. Each continuation after an `await` is an action; so is each close
event, which the browser queues (`closing`) when a dialog closes. A modal dialog
keeps inputs from the rest of the page (`Listens`). A session cookie is the
token and the expiry it was signed with, and `Rotate` restarts the server with
another token. `approved` is a history variable: the link the owner has just
confirmed.

### Abstractions

- `created_at` and `updated_at` decide nothing and are left out. So are response
  bodies, log messages and the listing limit of 100. `destination_updated_at` is
  in `PortableBackup` only: exports and imports are all that reads it.
- Slugs that a visitor can reach are ASCII. The public handler lowercases
  Unicode while NOCASE folds ASCII only, so an imported non-ASCII slug with an
  upper-case letter exists but cannot be visited (`handlers/redirect.go:40`).
- Slugs outside of what `ValidateSlug` returns have no order among themselves in
  `ListRedirects` but that of their ids; NOCASE orders them by their bytes.
- The dry run and the import of `PortableBackup` are one step each. `Management`
  has the dry run slug by slug, with other commands in between.
- `Serve` of `AdminConsole` joins the check of the session and the effect of the
  handler behind it (`handlers/session.go:114-122`), so a session that expires
  between the two is not seen.
- Time does not advance by itself: every operation takes any instant of
  `Clock`, so clocks of nodes may disagree and go back.
- Of an HTTP status, the client's judgement keeps three classes; methods, paths,
  bodies and the text of results are left out. A 5xx answer is sent without an
  effect, and the client treats it as if there might have been one.
- The console's list may be out of date whenever it is used, so any link may
  have a card once a list was loaded. Missed slugs, search, clipboard, notices
  and status badges are left out. That a creation's button is disabled
  meanwhile is left out too, which allows more behaviours than there are.
- The close event of a dialog and the owner's inputs come in the order in which
  they happen: an input that was made before `close()` is assumed not to be
  dispatched between it and its event. Answers of fetches come at any time.
- SQLite, LiteFS, HTTP and the Go runtime are external: modelled as the code
  relies on them, and marked so in the map.

## 3. What is checked

| run | instance | states | shows |
|---|---|---|---|
| StoreUsage | 3 spellings of 2 addresses, counters saturating at 2, instants of half a millisecond up to year 10000 | 29 k | unique slugs, consistent and growing usage |
| StoreMisses | 3 missed slugs for 2 places | 99 k | no resolved misses, the retention bound, only the oldest pruned |
| Writer | 3 requests, 2 closers, capacity 0 raised to 1 | 23 k | no panic, nothing lost or reordered, callers never wait, draining, refinement of EventSink |
| Tracking | 2 visits, a primary and a replica, 2 addresses, queue of 1 | 1.1 M (with symmetry) | the right link is credited, nothing is overcounted, late misses stay out |
| TrackingLiveness | 2 visits, 1 address | 32 k | visitors are answered, queues move on |
| Migration | 3 machines, 2 candidates, up to 2 rows, every version, 1 death | 521 k | data and ids survive, only the current schema is served, a candidate that is started completes the rollout, machines stop or not |
| Backup | 2 rows, 8 slugs (2 spellings of one, an empty, a garbled and 3 with a NUL), 6 legacy tables, 16 files | 185 k | exports restore, restored tables answer alike and export the same file, a dry run predicts its import |
| Lifecycle | 3 requests, a queue of 1, any failure of start, listener, handlers and store calls | 46 k | a graceful exit, the writer's receiver outlives it, a signal ends the process |
| Management | 2 commands out of 26 jobs, imports of a capital and of a legacy slug among them, words of up to 3 of 6 characters, 2 generated slugs, 2 attempts | 819 k | commands keep their promises, created links are reachable, the backup token only exports |
| Console | 2 links, 2 chains of requests, 2 tokens, lifetime 1 | 2.6 M (with symmetry) | QR codes, expirations and deletions concern the link that is named; sessions end |
| MigrationFailover | as Migration, with failover | violation | section 5 |
| BackupYears | as Backup | violation | section 5 |

Why the bounds are enough: the rules about rows speak of at most two rows or of
a row and a miss, and both tables reach their limit (`MaxId`, `MaxMisses`,
`MaxCount`), so every comparison is seen on either side of its boundary; three
missed slugs for two places make the pruning choose. Three requests fill a
queue of one with one record in hand and leave one to be dropped; the second
closer is there because `Close` may be called twice. Two visits suffice for an
old record to meet a new link of the same slug. Two candidates suffice for one
to find what the other left. In Backup the slugs differ in the ways in which the
two keys could: in case before a NUL, after one, and in length. `MaxId`,
`MaxCrashes`, `MaxEntries`, the finite sets of instants, visits, files and legacy
tables, and `Managed`, the one slug under which the owner of Backup changes links
(what a change does, it does to any row), are the only bounds. Two commands are what
it takes to interfere, one attempt more than colliding slugs lets the loop both
succeed late and be exhausted, and words of three characters hold every position
a hyphen may have, capitals, the Kelvin sign and words next to each reserved
name. Two chains of requests let an old answer meet a new dialog; a third would
only add another old answer. `Calls`, `MaxTime` and `Commands` bound them.
Symmetry is used for the visits of Tracking and for links, chains and tokens of
Console, which have safety properties only.

Deadlock is checked wherever the system cannot stop. The writer (`AccessWriter`)
ends after `Close`, the process (`ServerLifecycle`) when it exits and a command
(`Management`) with its exit code; a page whose clock has reached its bound and
whose server has one token left may have nothing to do (`AdminConsole`). Their
runs do not check it.

Each property has a mutant of the code that breaks it, defined next to the
definition it replaces and marked as one: a reader can see there which mistake
the property would catch.

### Fairness

- *AccessWriter*: goroutines that can run do (`WF` of each caller and of `run`).
  Store calls need not return; `Drains` assumes it, as the client's 500 ms
  timeout justifies. Deadlines need not strike.
- *ActivityTracking*: request goroutines and writers run. The network, the
  primary, replication and the owner owe nothing.
- *SchemaMigration*: a machine that is up takes its next step. That a machine is
  started, or kept running, is owed by nobody: `fly.toml:23-25` stops idle machines
  and keeps none, and `docs/operations.md` says so. So `RolloutCompletes` promises
  that the version becomes current once a candidate has been started, and that a
  machine which is up then ends up serving, unless candidates are started for ever
  and get the lease before it. Deaths are bounded by `MaxCrashes`, idle stops are
  not.
- *ServerLifecycle*: `main` runs (`WF` of the steps of `serve` and `shutdown`)
  and time passes (`WF` of `Deadline`). Handlers, store calls and clients may
  hang forever. `ServerExpires` is the `select` between two polls, which is
  enabled again and again but not all the time: `SF`, since the timer of the
  context stays ready while that of the poll is set anew.
- The other modules state none.

## 4. What is proved

All theorems hold for every value of the constants that satisfies the named
assumptions of the modules (`SlugAssumption`, `TimeAssumption`,
`BoundAssumption`, `BatchAssumption`, `WriterAssumption`, `ClusterAssumption`,
`StoreAssumption`, `CollationAssumption`, `LegacyAssumption`, `FileAssumption`,
`MigrationAssumption`,
`LifecycleAssumption`, `CharacterAssumption`, `WordAssumption`,
`CommandAssumption`, `TableAssumption`, `ConsoleAssumption`), which TLC
evaluates on every run of their modules.

**RedirectStore_proofs.** The invariant `IInv` is the conjunction of the type
invariant, unique slugs, unresolved misses, the retention bound and consistent
usage. They lean on one another: recording a miss keeps the report unresolved
because the insert looks for a row, and creating keeps it because the same
transaction clears the miss. The bound on the misses is the one with an argument
of its own: `Before` is a strict total order on canonical slugs (ties are broken
by `Rank`), so the number of slugs ahead of a slug identifies it, and pruning
keeps those with fewer than `MaxMisses` ahead: the kept slugs inject into
`0..MaxMisses - 1`. `StoreUsageGrows` follows from the invariant for each
step. So does `StoreOnlyOldestPruned`: recording adds one slug at most, so what is
pruned is the last of the ranking (`PrunedIsLast`).

**AccessWriter_proofs.** The invariant adds to the checked properties what each
control point knows: who holds the mutex (`Mutex`), that `closed` and the
channel agree (`Flag`), that `run` has a record in hand exactly during a store
call, and why it can have ended. `NoSendOnClosed` is not inductive without
them. `WriterImplementsSink` maps the queue and the record in hand to the
pending events and proves that every step is a step of `EventSink` or a stutter.
`WriterAttemptsOnce` puts two facts together: records are accepted once, since
`Offer` finds no answer of its request (`Once`), and what was attempted begins
what was accepted (`Accounted`).

**ActivityTracking_proofs.** `TablesPart` shows that whatever the cluster does to
the tables is a step of `RedirectStore`, so its invariant carries over by the
theorems of `RedirectStore_proofs`, instantiated. The rest of the invariant: an id
names the same slug in every copy and for every visit that followed it, since ids
are not reused and slugs not renamed (`Lineal`, `Copies`); only a valid address
becomes a miss (`Handlers`); and a record is in one queue, in one place of it, or
in flight, never twice (`Records`). The counters need more: every click and every
miss has a visit of its own that is *spent*, its record neither queued nor in
flight (`Counts`), and no step gives a visit back (`Forward`).
`ActivityNeverOvercounts` assumes `NoImportedUsage`, that batches carry no
clicks: an import brings the clicks of another database, which no visit here
accounts for. A miss has a visit whether or not its page was still sent. `TablesPart` also makes the composition a refinement:
`ActivityImplementsTables` says that the primary's tables in a cluster behave as
`RedirectStore` alone does, and with it every theorem about the tables holds in
the cluster (`ActivityTablesConsistent`, `ActivityUsageGrows`,
`ActivityOnlyOldestPruned`).

**SchemaMigration_proofs.** Under `Failover = FALSE` the lease holder is the
only one migrating (`LeaseHeld`), so the version it remembers is the
database's (`VersionKnown`); a serving machine has seen version 5, from which
nothing leads away (`ServingCurrent`); and the sequence bounds all ids ever used
from version 4 on (`SequenceBounds`). From these follow that each change of
version keeps the rows, that ids are not reused and that only the current
schema is served. The assumption is needed: without it TLC finds the
counterexample of section 5.

**ServerLifecycle_proofs.** `GracefulExit` speaks of the end of the process, so
the invariant follows it back through the control points: past `drain` the
writer has stopped or its error is remembered, past `poll` without that error no
request is under way and none can come, since the listener is closed. What the
writer accepted is what it attempted or still has pending, and it stops with
something pending only after the error. The server is also shown to use the sink
as it may (`ServerUsesSink`): the sink's variables are its own, and every step of
the server is one of the sink or leaves them alone. `AccessWriter` implements the
same sink, which joins the two models. From the steps of the sink follows
`ServerAttemptsOnce`: queue and storage hold accepted records only, each once,
and no record is in both (`Once`).

**PortableBackup_proofs.** `IInv` is the invariant of the tables, imported from
`RedirectStore_proofs`, with each row's `destination_updated_at` (`Stamped`), and
three parts about files. `FileKept`: the file that is kept is the backup of the
table that was exported, and all of that table's rows were exportable. `Rebuilt`:
a restored table has one row for each of the file's entries, in their order, with
what that entry decodes to. `Checked`: a file that a dry run passed decodes and has
no conflict with the tables.

The theorems need that a table has exactly one sorted listing. There is one, since
the number of rows that precede a row can be its place: no two rows share it, as
slugs are unique. And there is no other, since in every listing that goes up a row
stands at that place (`SortedPlaces`). So exporting the rebuilt table lists the
same entries again, and `BackupRestores` says that the file, and the answer to
every slug at every instant, are those of the lost table.

What relates the dry run to the import is `KeysAgree`: two slugs have one key in
the decoder exactly if they are one slug to the table, for every alphabet and
wherever a NUL is. Hence an exported file has no duplicates for `Decode`, since its
table has none for NOCASE (`BackupExportsRestorable`), and a file without
duplicates has no conflict in the inserts, which the dry run does not try
(`BackupDryRunPredicts`). `BackupExportsRestorable` says of a legacy row with an
empty slug or destination that it makes the file one that `Decode` refuses.
`BackupAlwaysExportable` complements the finding of section 5: if no expiration of
a request, and none of the three timestamps of a file, lies outside of the years
that RFC 3339 can name, only garbled rows block an export.

**Management_proofs.** Of the slugs, `CanonicalRegular` says what `ValidateSlug`
returns, `SpellingsLead` that every spelling of such a slug is routed to the
redirect handler and lower-cased to it. The second rests on a fact of the two
foldings: they agree on words whose NOCASE form is plain. It would fail for
`admin`, which is why the reserved names are compared after Unicode's folding,
not before. `Control` says what request and status can be for each
state of the client and that an answer agrees with the job (`Tracks`). Under it
every step of `Management` is one of `LinkCommands` or a stutter: the step that
answers with success is `TakeEffect`, `Receive` and `GiveUp` are `Finish`.
`Reach` adds that rows and results of creations hold canonical slugs; with the
theorems about slugs it gives `CreatedReachable` for every alphabet.
The promise is spelled out as well, over the states of the programs:
`ManagementTruthful` (an exit tells the truth about the tables, at any later
moment), `ManagementEffectsOnce` (every change of the tables is the first and only
effect of one command) and `ManagementEndsStand` (after an end that states
something nothing follows). They rest on the shape of a step (`StepShapes`): the
client ends as it was told (`Told`), and an answer comes with the statement or
without it. Since a statement belongs to a valid request, it is an operation of
package db with arguments of the right kind (`ManagementOperates`), and with the
theorems of `RedirectStore_proofs`, instantiated with words for slugs and NOCASE
for the collation, the tables stay consistent under any number of commands
(`ManagementTablesConsistent`). `CommandAssumption` has what this asks of the
inputs: batches, and the first table, are what `backup.Decode` lets through. No
import calls `ValidateSlug` or `ValidateDestination`, so their slugs are any
words, legacy ones and capitals included, their destinations any URLs, and only
`Destinations` are what a create or an update may set.

**AdminConsole_proofs.** Each dialog has its part of the invariant. `Images`: a
request that is current was made for the link the QR dialog names. `Expiry`: an
open dialog names its pending link, and no close event of the one before is left,
since inputs wait for it. `Removal`: the same, with `returnValue` still "cancel";
and with the close event queued and `returnValue` "confirm" the pending link is
the approved one. `Sessions`: a cookie, kept or under way, outlives the last login
with its token by `Lifetime` at most.

Only model-checked: liveness (`TrackReturns`, `Drains`, `VisitorsAnswered`,
`QueuesDrain`, `RolloutCompletes`, `SignalEndsProcess`), which is out of the
prover's reach under fairness. No definition here is recursive, so no
proof is left out for want of induction.

## 5. What the models show to be wrong

1. **An accepted expiration can block every export** (BackupYears).
   `validateExpiration` stores `9999-12-31T23:59:59-01:00` as an instant of year
   10000, which `portableTimestamp` cannot parse; from then on the export of all
   links answers 422 until that expiration is changed. An imported file can bring
   such an instant as well, as `expires_at`, as `last_accessed_at` or as
   `destination_updated_at` (`handlers/management.go:338-357`); the last one stays
   until the destination is changed or the link deleted.
2. **A migration that is interrupted by failover can undo a newer one**
   (MigrationFailover). `migrate` reads `user_version` once. If the lease moves
   to another candidate that migrates and serves, and comes back, the first
   machine continues with the version it remembers, drops the columns its step
   does not know and sets `user_version` back. In the run version 4 runs again on a
   database of version 5 and usage is lost. (The sentence of `docs/operations.md`
   that the finding quotes speaks of the migration from version 0 and of lifecycle
   data; the property asks the same of every version and column.) Reading the version inside of
   each transaction would prevent it. It needs the machine to stay alive across
   two changes of the lease.

Remarks found while modelling, below the level of a finding:

- `last_accessed_at` can move back within one millisecond, since `julianday()`
  compares whole milliseconds; `UsageGrows` is stated to the millisecond.
- A row with an empty slug or destination, which version 0 of the database allowed
  and the migrations keep, is exported, but `Decode` refuses the file, in the
  import and in the client's own check of an export. Such a row has to be repaired
  before there is a usable backup; `ExportsRestorable` says exactly that.
- A legacy link `/admin` is redirected by `handlers/admin.go:55` and is not
  tracked.
- A second `Close` of the writer can answer nil although the deadline of the
  first one cut the draining short; `NilMeansDrained` says so.
- `docs/operations.md` says that the backup validator accepts schema versions 0
  to 4; `scripts/check-sqlite-backup` accepts 5.
- An answer to an earlier save closes an expiration dialog that was opened for
  another link meanwhile, or shows its error there
  (`handlers/admin/admin.js:331`, `:336`). What the owner was typing is lost,
  but nothing is saved for the wrong link: `ExpirationNamesItsLink`.
- Saving an expiration that was not edited sends the one of the card again, and
  so undoes a change made elsewhere since the list was loaded
  (`handlers/admin/admin.js:410`).
- A list that arrives after logout fills the page's variables again, out of
  sight (`:435`); of two lists the older one may arrive last (`:96`). Neither
  decides anything but what is shown until the next load.
- The first answer of the page may say "not authenticated" after a quick login
  and hide the page again (`:464`); the session is valid, a reload shows it.
- Logout closes the QR dialog only and an ended session all three. With the
  modal dialogs of today nobody can log out behind one.
- A `gottem create` without a slug that ends without an answer may have made a
  link, and a second try makes another one; `LinkCommands` calls that end
  "unknown", and the client's exit code does not tell it from a refusal.
- A dry run of an import reads slug by slug outside of a transaction, so its
  report need not be true of any one moment.
- Requests served while the writer drains are answered and not counted, as
  `docs/operations.md` says of what is dropped around a shutdown.

## 6. Not modelled

- **LiteFS failover of the data**: which commits a candidate lacks when it
  becomes primary is LiteFS's choice; nothing in this code reacts to it, beyond
  what SchemaMigration models.
- **`ValidateDestination` and the checks of `ADMIN_ORIGIN`** are predicates on
  one string without state; a URL is a member of a set that the rule accepts.
- **Static pages, health checks, QR rendering**: output without state. Readiness
  repeats the check that `Start` of SchemaMigration models.
- **The text of the client and of the console**: tables, notices, badges,
  search, clipboard.
- **Workflows, scripts, styles** are not part of the program.

What could come next: the contents of the console's list with several tabs, so
that an edit on a stale card can be related to what its owner saw.
