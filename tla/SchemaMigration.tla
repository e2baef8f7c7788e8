-------------------------- MODULE SchemaMigration --------------------------
(***************************************************************************)
(* Starting the service: LiteFS promotes a candidate machine, which        *)
(* migrates the database (db.Migrate, one transaction for each version)    *)
(* and then, like every other machine, serves if the schema is current.    *)
(* Machines die, stop when they are idle and are started again, alone or   *)
(* together.                                                               *)
(*                                                                         *)
(* A row is its slug and the columns in which it holds something else than *)
(* their default; a transaction either commits or changes nothing.  A      *)
(* database without tables is taken for one with an empty table.           *)
(***************************************************************************)
EXTENDS Integers, FiniteSets

CONSTANTS
  Machines,
  Candidates,  \* the machines LiteFS may make primary
  Slugs,
  Fold,        \* the NOCASE collation
  MaxId,       \* bound: ids of rows
  MaxCrashes,  \* bound: machines that die
  Failover,    \* may the lease leave a machine that is migrating?
  None

ASSUME MigrationAssumption ==
  /\ Candidates \subseteq Machines /\ Candidates # {}
  /\ Fold \in [Slugs -> Slugs]
  /\ MaxId \in Nat
  /\ MaxCrashes \in Nat
  /\ Failover \in BOOLEAN
  /\ None \notin Machines

currentSchemaVersion == 5

\* The version that adds each column with lifecycle or usage data.
Introduced == [disabled_at |-> 2, expires_at |-> 3, click_count |-> 4]

Columns == DOMAIN Introduced

ColumnsAt(v) == {column \in Columns : Introduced[column] <= v}

VARIABLES
  version,   \* PRAGMA user_version
  columns,   \* the columns of table redirects that Introduced names
  rows,      \* table redirects: id -> [slug, set]
  sequence,  \* its AUTOINCREMENT sequence, from version 4 on
  missTable, \* table slug_misses exists
  pc,        \* machine -> what it is doing
  at,        \* machine -> the local variable version of migrate
  lease,     \* the primary
  crashes,   \* machines that have died
  retired    \* history: ids of rows that were deleted

database == <<version, columns, rows, sequence, missTable>>

vars == <<database, pc, at, lease, crashes, retired>>
-----------------------------------------------------------------------------
Unique(table) ==
  \A i, j \in DOMAIN table : Fold[table[i].slug] = Fold[table[j].slug] => i = j

Tables(cols) ==
  UNION {[ids -> [slug: Slugs, set: SUBSET cols]] : ids \in SUBSET (1..MaxId)}

(***************************************************************************)
(* A database of any earlier version, or of a later one.                   *)
(***************************************************************************)
Init ==
  /\ version \in 0..currentSchemaVersion + 1
  /\ columns = ColumnsAt(version)
  /\ rows \in Tables(columns)
  /\ version > 0 => Unique(rows)
  /\ sequence \in 0..MaxId
  /\ IF version < 4 THEN sequence = 0
                    ELSE \A id \in DOMAIN rows : id <= sequence
  /\ missTable = (version >= 5)
  /\ pc = [m \in Machines |-> "down"]
  /\ at = [m \in Machines |-> 0]
  /\ lease = None
  /\ crashes = 0
  /\ retired = {}

Goto(m, point) == pc' = [pc EXCEPT ![m] = point]

Migrating(m) == pc[m] \in {"check", "migrate"}

(***************************************************************************)
(* LiteFS has mounted and synchronized (litefs.yml, exec and lease).       *)
(***************************************************************************)
Boot(m) ==
  /\ pc[m] = "down"
  /\ Goto(m, IF m \in Candidates THEN "promote" ELSE "start")
  /\ UNCHANGED <<database, at, lease, crashes, retired>>

(***************************************************************************)
(* lease.promote: the primary hands the lease over.                        *)
(***************************************************************************)
Promote(m) ==
  /\ pc[m] = "promote"
  /\ lease # None => Failover \/ ~Migrating(lease)
  /\ lease' = m
  /\ Goto(m, "check")
  /\ UNCHANGED <<database, at, crashes, retired>>

(***************************************************************************)
(* A candidate becomes primary when there is none or the primary is cut    *)
(* off; without Failover not from a machine that is migrating.             *)
(***************************************************************************)
TakeLease(m) ==
  /\ m \in Candidates
  /\ pc[m] # "down"
  /\ lease # m
  /\ lease # None => Failover \/ ~Migrating(lease)
  /\ lease' = m
  /\ UNCHANGED <<database, pc, at, crashes, retired>>
-----------------------------------------------------------------------------
Release(m) == lease' = IF lease = m THEN None ELSE lease

\* Mutant of ReadVersion: every migration starts over.
ReadNothing(m) ==
  /\ pc[m] = "check"
  /\ at' = [at EXCEPT ![m] = 0]
  /\ IF version > currentSchemaVersion
     THEN Goto(m, "down") /\ Release(m)
     ELSE Goto(m, "migrate") /\ UNCHANGED lease
  /\ UNCHANGED <<database, crashes, retired>>

(***************************************************************************)
(* migrate: PRAGMA user_version, outside of any transaction.  A newer      *)
(* database is an error, on which LiteFS exits.                            *)
(***************************************************************************)
ReadVersion(m) ==
  /\ pc[m] = "check"
  /\ at' = [at EXCEPT ![m] = version]
  /\ IF version > currentSchemaVersion
     THEN Goto(m, "down") /\ Release(m)
     ELSE /\ Goto(m, IF version = currentSchemaVersion THEN "start"
                     ELSE "migrate")
          /\ UNCHANGED lease
  /\ UNCHANGED <<database, crashes, retired>>

\* Mutant of LastId: rows are counted.
RowCount(table) == {Cardinality(DOMAIN table)}

(***************************************************************************)
(* What AUTOINCREMENT has recorded after rows were copied with their ids:  *)
(* the one largest.                                                        *)
(***************************************************************************)
LastId(table) ==
  IF DOMAIN table = {} THEN {0}
  ELSE {id \in DOMAIN table : \A other \in DOMAIN table : other <= id}

\* Mutant of Rebuild: the new column is forgotten.
RebuildUnextended(v) ==
  /\ ColumnsAt(v - 1) \subseteq columns
  /\ columns' = ColumnsAt(v - 1)
  /\ rows' = [id \in DOMAIN rows |->
                [rows[id] EXCEPT !.set = @ \cap ColumnsAt(v - 1)]]
  /\ sequence' \in IF v >= 4 THEN LastId(rows) ELSE {0}
  /\ UNCHANGED missTable

(***************************************************************************)
(* CREATE TABLE redirects_migration, INSERT ... SELECT, DROP and RENAME:   *)
(* the columns copied are those of the version before.                     *)
(***************************************************************************)
Rebuild(v) ==
  /\ ColumnsAt(v - 1) \subseteq columns
  /\ columns' = ColumnsAt(v)
  /\ rows' = [id \in DOMAIN rows |->
                [rows[id] EXCEPT !.set = @ \cap ColumnsAt(v - 1)]]
  /\ sequence' \in IF v >= 4 THEN LastId(rows) ELSE {0}
  /\ UNCHANGED missTable

AddColumn ==
  /\ "disabled_at" \notin columns
  /\ columns' = columns \cup {"disabled_at"}
  /\ UNCHANGED <<rows, sequence, missTable>>

CreateMissTable ==
  /\ ~missTable
  /\ missTable' = TRUE
  /\ UNCHANGED <<columns, rows, sequence>>

\* Mutant of MigrateTo: version 3 copies only the columns of version 1.
ForgetfulMigrateTo(v) ==
  /\ version' = v
  /\ \/ v = 1 /\ Unique(rows) /\ Rebuild(1)
     \/ v = 2 /\ AddColumn
     \/ /\ v = 3
        /\ columns' = ColumnsAt(3)
        /\ rows' = [id \in DOMAIN rows |-> [rows[id] EXCEPT !.set = {}]]
        /\ UNCHANGED <<sequence, missTable>>
     \/ v = 4 /\ Rebuild(4)
     \/ v = 5 /\ CreateMissTable

(***************************************************************************)
(* The transaction of one version; version 1 adds the constraints that the *)
(* rows of a legacy table may not meet.                                    *)
(***************************************************************************)
MigrateTo(v) ==
  /\ version' = v
  /\ \/ v = 1 /\ Unique(rows) /\ Rebuild(1)
     \/ v = 2 /\ AddColumn
     \/ v = 3 /\ Rebuild(3)
     \/ v = 4 /\ Rebuild(4)
     \/ v = 5 /\ CreateMissTable

(***************************************************************************)
(* One round of the loop in migrate.  Only the primary can write.          *)
(***************************************************************************)
MigrateStep(m) ==
  /\ pc[m] = "migrate"
  /\ lease = m
  /\ MigrateTo(at[m] + 1)
  /\ at' = [at EXCEPT ![m] = @ + 1]
  /\ Goto(m, IF at[m] + 1 < currentSchemaVersion THEN "migrate" ELSE "start")
  /\ UNCHANGED <<lease, crashes, retired>>

(***************************************************************************)
(* A statement of the transaction fails, or this machine is a replica: the *)
(* transaction rolls back, the command fails and LiteFS exits              *)
(* (exit-on-error).                                                        *)
(***************************************************************************)
Legal(v) ==
  /\ v = 1 => Unique(rows)
  /\ v = 2 => "disabled_at" \notin columns
  /\ v \in {3, 4} => ColumnsAt(v - 1) \subseteq columns
  /\ v = 5 => ~missTable

MigrateFails(m) ==
  /\ pc[m] = "migrate"
  /\ lease # m \/ ~Legal(at[m] + 1)
  /\ Release(m)
  /\ Goto(m, "down")
  /\ UNCHANGED <<database, at, crashes, retired>>

Ready ==
  /\ version = currentSchemaVersion
  /\ columns = Columns
  /\ missTable

\* Mutant of Start: the server does not look at the schema.
StartUnchecked(m) ==
  /\ pc[m] = "start"
  /\ Goto(m, "serving")
  /\ UNCHANGED <<database, at, lease, crashes, retired>>

(***************************************************************************)
(* openServingDatabase: the server starts only on the current schema.      *)
(***************************************************************************)
Start(m) ==
  /\ pc[m] = "start"
  /\ IF Ready THEN Goto(m, "serving") /\ UNCHANGED lease
              ELSE Goto(m, "down") /\ Release(m)
  /\ UNCHANGED <<database, at, crashes, retired>>
-----------------------------------------------------------------------------
(***************************************************************************)
(* What the servers write: the primary, which serves, creates rows,        *)
(* changes them and deletes them; on another schema its statements fail.   *)
(***************************************************************************)
Edit ==
  /\ lease # None /\ pc[lease] = "serving"
  /\ columns = Columns /\ missTable
  /\ \/ /\ sequence < MaxId
        /\ \E slug \in Slugs :
             /\ \A id \in DOMAIN rows : Fold[rows[id].slug] # Fold[slug]
             /\ rows' = [id \in DOMAIN rows \cup {sequence + 1} |->
                           IF id = sequence + 1
                           THEN [slug |-> slug, set |-> {}] ELSE rows[id]]
        /\ sequence' = sequence + 1
        /\ UNCHANGED retired
     \/ \E id \in DOMAIN rows, set \in SUBSET columns :
          /\ rows' = [rows EXCEPT ![id].set = set]
          /\ UNCHANGED <<sequence, retired>>
     \/ \E id \in DOMAIN rows :
          /\ rows' = [other \in DOMAIN rows \ {id} |-> rows[other]]
          /\ retired' = retired \cup {id}
          /\ UNCHANGED sequence
  /\ UNCHANGED <<version, columns, missTable, pc, at, lease, crashes>>

Crash(m) ==
  /\ pc[m] # "down"
  /\ crashes < MaxCrashes
  /\ crashes' = crashes + 1
  /\ Release(m)
  /\ Goto(m, "down")
  /\ UNCHANGED <<database, at, retired>>

(***************************************************************************)
(* Fly stops a machine that is idle (auto_stop_machines).                  *)
(***************************************************************************)
Stop(m) ==
  /\ pc[m] = "serving"
  /\ Release(m)
  /\ Goto(m, "down")
  /\ UNCHANGED <<database, at, crashes, retired>>

\* The steps of a machine that is up.
MachineStep(m) ==
  \/ Promote(m)
  \/ ReadVersion(m)
  \/ MigrateStep(m)
  \/ MigrateFails(m)
  \/ Start(m)

Next ==
  \/ \E m \in Machines :
       Boot(m) \/ MachineStep(m) \/ TakeLease(m) \/ Stop(m) \/ Crash(m)
  \/ Edit

(***************************************************************************)
(* On a machine that is up LiteFS runs its commands.  That a machine is    *)
(* started at all is owed by nobody: min_machines_running is 0.            *)
(***************************************************************************)
Fairness == \A m \in Machines : WF_vars(MachineStep(m))

Spec == Init /\ [][Next]_vars /\ Fairness
-----------------------------------------------------------------------------
(***************************************************************************)
(* The schema is the one its version names, and its tables conform to it.  *)
(***************************************************************************)
TypeOK ==
  /\ version \in 0..currentSchemaVersion + 1
  /\ columns = ColumnsAt(version)
  /\ missTable = (version >= 5)
  /\ rows \in [DOMAIN rows -> [slug: Slugs, set: SUBSET columns]]
  /\ DOMAIN rows \subseteq 1..MaxId
  /\ sequence \in 0..MaxId
  /\ pc \in [Machines -> {"down", "promote", "check", "migrate", "start",
                          "serving"}]
  /\ at \in [Machines -> 0..currentSchemaVersion + 1]
  /\ lease \in Candidates \cup {None}
  /\ crashes \in 0..MaxCrashes
  /\ retired \subseteq 1..MaxId

(***************************************************************************)
(* A migration keeps every redirect with its id and its lifecycle and      *)
(* usage data, whichever machine ran it and however often it was           *)
(* interrupted.                                                            *)
(***************************************************************************)
MigrationKeepsData == [][version' # version => rows' = rows]_vars

(***************************************************************************)
(* The id of a deleted redirect is never handed out again: an access that  *)
(* was queued for it finds no row.                                         *)
(***************************************************************************)
IdsNotReused == retired \cap DOMAIN rows = {}

(***************************************************************************)
(* A machine that serves always finds the schema its queries need, though  *)
(* other machines may start, migrate and die meanwhile.                    *)
(***************************************************************************)
ServesCurrentSchema == (\E m \in Machines : pc[m] = "serving") => Ready

\* Machine m is up, and no machine dies any more.
Up(m) == pc[m] # "down" /\ crashes = MaxCrashes

(***************************************************************************)
(* Wherever earlier attempts were interrupted: a candidate that is started *)
(* brings a database that meets the constraints to the current version,    *)
(* whoever else starts and stops meanwhile; and a machine that is up on    *)
(* the current version ends up serving, unless further candidates are      *)
(* started for ever, each of which may get the lease before it.            *)
(***************************************************************************)
RolloutCompletes ==
  version <= currentSchemaVersion /\ Unique(rows) =>
    /\ \A m \in Candidates : Up(m) ~> version = currentSchemaVersion
    /\ <>[][~ \E m \in Candidates : Boot(m)]_vars =>
         \A m \in Machines :
           (Up(m) /\ version = currentSchemaVersion) ~> pc[m] = "serving"
=============================================================================
