----------------------- MODULE SchemaMigration_proofs -----------------------
(***************************************************************************)
(* Proofs about SchemaMigration when a machine that migrates keeps the     *)
(* lease until it is done or dead (Failover = FALSE), for any number of    *)
(* machines, rows and crashes.                                             *)
(***************************************************************************)
EXTENDS SchemaMigration, TLAPS

USE DEF currentSchemaVersion

(***************************************************************************)
(* The strengthening.  A machine that migrates holds the lease, so there   *)
(* is only one, and the version it read is the version the database has;   *)
(* nothing serves before version 5, so nothing is deleted before either,   *)
(* and from version 4 on the sequence bounds every id ever used.           *)
(***************************************************************************)
CandidatesOnly ==
  \A m \in Machines : pc[m] = "promote" => m \in Candidates

LeaseHeld == \A m \in Machines : Migrating(m) => lease = m

VersionKnown ==
  \A m \in Machines : pc[m] = "migrate" => at[m] = version /\ version < 5

ServingCurrent == \A m \in Machines : pc[m] = "serving" => version = 5

SequenceBounds ==
  /\ version >= 4 => \A id \in DOMAIN rows \cup retired : id <= sequence
  /\ retired # {} => version = 5

IInv ==
  /\ TypeOK
  /\ CandidatesOnly
  /\ LeaseHeld
  /\ VersionKnown
  /\ ServingCurrent
  /\ SequenceBounds
  /\ IdsNotReused
-----------------------------------------------------------------------------
(***************************************************************************)
(* The columns of every version, spelled out.                              *)
(***************************************************************************)
LEMMA ColumnsByVersion ==
  /\ Columns = {"disabled_at", "expires_at", "click_count"}
  /\ ColumnsAt(0) = {}
  /\ ColumnsAt(1) = {}
  /\ ColumnsAt(2) = {"disabled_at"}
  /\ ColumnsAt(3) = {"disabled_at", "expires_at"}
  /\ ColumnsAt(4) = Columns
  /\ ColumnsAt(5) = Columns
  /\ ColumnsAt(6) = Columns
<1>1. Columns = {"disabled_at", "expires_at", "click_count"}
  BY DEF Columns, Introduced
<1>2. /\ Introduced["disabled_at"] = 2
      /\ Introduced["expires_at"] = 3
      /\ Introduced["click_count"] = 4
  BY DEF Introduced
<1> QED BY <1>1, <1>2 DEF ColumnsAt

(***************************************************************************)
(* A rebuild from the columns a conforming table has changes no row.       *)
(***************************************************************************)
LEMMA RebuildKeepsRows ==
  ASSUME NEW v \in {1, 3, 4}, TypeOK, version = v - 1, Rebuild(v)
  PROVE  rows' = rows
<1>1. ASSUME NEW id \in DOMAIN rows
      PROVE  [rows[id] EXCEPT !.set = @ \cap ColumnsAt(v - 1)] = rows[id]
  <2>1. rows[id] \in [slug: Slugs, set: SUBSET columns]
    BY <1>1 DEF TypeOK
  <2>2. columns = ColumnsAt(v - 1)
    BY DEF TypeOK
  <2>3. rows[id].set \cap ColumnsAt(v - 1) = rows[id].set
    BY <2>1, <2>2
  <2> QED BY <2>1, <2>3
<1>2. rows = [id \in DOMAIN rows |-> rows[id]]
  BY DEF TypeOK
<1>3. rows' = [id \in DOMAIN rows |->
                 [rows[id] EXCEPT !.set = @ \cap ColumnsAt(v - 1)]]
  BY DEF Rebuild
<1> QED BY <1>1, <1>2, <1>3

(***************************************************************************)
(* The transaction of the next version, on a conforming database: no row   *)
(* changes and the new schema is the one its version names.                *)
(***************************************************************************)
LEMMA MigrateToNext ==
  ASSUME TypeOK, NEW v \in 1..5, version = v - 1, MigrateTo(v)
  PROVE  /\ version' = v
         /\ rows' = rows
         /\ columns' = ColumnsAt(v)
         /\ columns \subseteq columns'
         /\ missTable' = (v >= 5)
         /\ sequence' \in 0..MaxId
         /\ v = 4 => \A id \in DOMAIN rows : id <= sequence'
         /\ v = 5 => sequence' = sequence
<1>1. version' = v
  BY DEF MigrateTo
<1>2. columns = ColumnsAt(v - 1) /\ missTable = (v - 1 >= 5)
  BY DEF TypeOK
<1>3. ASSUME v \in {1, 3, 4}, Rebuild(v)
      PROVE  /\ rows' = rows
             /\ columns' = ColumnsAt(v)
             /\ columns \subseteq columns'
             /\ missTable' = missTable
             /\ sequence' \in 0..MaxId
             /\ v = 4 => \A id \in DOMAIN rows : id <= sequence'
  <2>1. rows' = rows
    BY <1>3, RebuildKeepsRows
  <2>2. columns' = ColumnsAt(v) /\ missTable' = missTable
    BY <1>3 DEF Rebuild
  <2>3. sequence' \in IF v >= 4 THEN LastId(rows) ELSE {0}
    BY <1>3 DEF Rebuild
  <2>4. DOMAIN rows \subseteq 1..MaxId /\ MaxId \in Nat
    BY MigrationAssumption DEF TypeOK
  <2>5. sequence' \in 0..MaxId
    BY <1>3, <2>3, <2>4 DEF LastId
  <2>6. v = 4 => \A id \in DOMAIN rows : id <= sequence'
    BY <2>3, <2>4 DEF LastId
  <2>7. columns \subseteq columns'
    <3>1. CASE v = 1
      BY <1>2, <2>2, <3>1, ColumnsByVersion
    <3>2. CASE v = 3
      BY <1>2, <2>2, <3>2, ColumnsByVersion
    <3>3. CASE v = 4
      BY <1>2, <2>2, <3>3, ColumnsByVersion
    <3> QED BY <1>3, <3>1, <3>2, <3>3
  <2> QED BY <2>1, <2>2, <2>5, <2>6, <2>7
<1>4. CASE v = 1
  <2>1. Rebuild(1)
    BY <1>4 DEF MigrateTo
  <2> QED BY <1>1, <1>2, <1>3, <1>4, <2>1
<1>5. CASE v = 2
  <2>1. AddColumn
    BY <1>5 DEF MigrateTo
  <2>2. columns' = ColumnsAt(2)
    BY <1>2, <1>5, <2>1, ColumnsByVersion DEF AddColumn
  <2> QED BY <1>1, <1>2, <1>5, <2>1, <2>2 DEF AddColumn, TypeOK
<1>6. CASE v = 3
  <2>1. Rebuild(3)
    BY <1>6 DEF MigrateTo
  <2> QED BY <1>1, <1>2, <1>3, <1>6, <2>1
<1>7. CASE v = 4
  <2>1. Rebuild(4)
    BY <1>7 DEF MigrateTo
  <2> QED BY <1>1, <1>2, <1>3, <1>7, <2>1
<1>8. CASE v = 5
  <2>1. CreateMissTable
    BY <1>8 DEF MigrateTo
  <2>2. columns' = ColumnsAt(5)
    BY <1>2, <1>8, <2>1, ColumnsByVersion DEF CreateMissTable
  <2>3. /\ missTable' = TRUE
        /\ columns' = columns /\ rows' = rows /\ sequence' = sequence
    BY <2>1 DEF CreateMissTable
  <2>4. sequence \in 0..MaxId
    BY DEF TypeOK
  <2>5. missTable' = (v >= 5)
    <3>1. (v >= 5) = TRUE
      BY <1>8
    <3> QED BY <2>3, <3>1, Zenon
  <2>6. columns' = ColumnsAt(v) /\ columns \subseteq columns'
    BY <1>8, <2>2, <2>3
  <2> QED BY <1>1, <1>8, <2>3, <2>4, <2>5, <2>6
<1> QED BY <1>4, <1>5, <1>6, <1>7, <1>8
-----------------------------------------------------------------------------
(***************************************************************************)
(* The invariant holds at the start, whatever database is found.           *)
(***************************************************************************)
LEMMA InitIInv == Init => IInv
<1> SUFFICES ASSUME Init PROVE IInv
  OBVIOUS
<1>1. TypeOK
  <2>1. /\ DOMAIN rows \subseteq 1..MaxId
        /\ rows \in [DOMAIN rows -> [slug: Slugs, set: SUBSET columns]]
    BY DEF Init, Tables
  <2> QED BY <2>1, MigrationAssumption DEF Init, TypeOK
<1>2. CandidatesOnly /\ LeaseHeld /\ VersionKnown /\ ServingCurrent
  BY DEF Init, CandidatesOnly, LeaseHeld, VersionKnown, ServingCurrent, Migrating
<1>3. SequenceBounds /\ IdsNotReused
  BY DEF Init, SequenceBounds, IdsNotReused
<1> QED BY <1>1, <1>2, <1>3 DEF IInv

(***************************************************************************)
(* A step of a machine that leaves the database alone.                     *)
(***************************************************************************)
LEMMA QuietStep ==
  ASSUME IInv, UNCHANGED database, UNCHANGED retired,
         pc' \in [Machines -> {"down", "promote", "check", "migrate", "start",
                               "serving"}],
         at' \in [Machines -> 0..6],
         lease' \in Candidates \cup {None},
         crashes' \in 0..MaxCrashes,
         CandidatesOnly', LeaseHeld', VersionKnown', ServingCurrent'
  PROVE  IInv'
<1>1. TypeOK'
  BY DEF IInv, TypeOK, database
<1>2. SequenceBounds'
  BY DEF IInv, SequenceBounds, database
<1>3. IdsNotReused'
  BY DEF IInv, IdsNotReused, database
<1> QED BY <1>1, <1>2, <1>3 DEF IInv

(***************************************************************************)
(* A step of the loop of migrate: the machine holds the lease, so no other *)
(* one migrates, and what it last read is the version of the database.     *)
(***************************************************************************)
LEMMA MigrateStepIInv ==
  ASSUME IInv, NEW m \in Machines, MigrateStep(m)
  PROVE  IInv' /\ rows' = rows
<1> DEFINE v == at[m] + 1
<1>1. v \in 1..5 /\ version = v - 1
  BY DEF IInv, TypeOK, VersionKnown, MigrateStep
<1>2. MigrateTo(v)
  BY DEF MigrateStep
<1>3. /\ version' = v
      /\ rows' = rows
      /\ columns' = ColumnsAt(v)
      /\ columns \subseteq columns'
      /\ missTable' = (v >= 5)
      /\ sequence' \in 0..MaxId
      /\ v = 4 => \A id \in DOMAIN rows : id <= sequence'
      /\ v = 5 => sequence' = sequence
  <2> HIDE DEF v
  <2> QED BY <1>1, <1>2, MigrateToNext DEF IInv
<1>4. /\ lease = m
      /\ pc[m] = "migrate"
      /\ pc' = [pc EXCEPT ![m] = IF v < 5 THEN "migrate" ELSE "start"]
      /\ at' = [at EXCEPT ![m] = v]
      /\ UNCHANGED <<lease, crashes, retired>>
  BY DEF MigrateStep, Goto
<1> HIDE DEF v
<1>5. \A n \in Machines : n # m => pc[n] \notin {"check", "migrate"}
  BY <1>4 DEF IInv, LeaseHeld, Migrating
<1>6. retired = {}
  BY <1>1 DEF IInv, SequenceBounds
<1>7. TypeOK'
  <2>1. rows' \in [DOMAIN rows' -> [slug: Slugs, set: SUBSET columns']]
    <3>1. rows \in [DOMAIN rows -> [slug: Slugs, set: SUBSET columns]]
      BY DEF IInv, TypeOK
    <3>2. \A id \in DOMAIN rows : rows[id] \in [slug: Slugs, set: SUBSET columns']
      BY <1>3, <3>1
    <3> QED BY <1>3, <3>1, <3>2
  <2>2. at' \in [Machines -> 0..6] /\ crashes' \in 0..MaxCrashes
    BY <1>1, <1>4 DEF IInv, TypeOK
  <2>3. pc' \in [Machines -> {"down", "promote", "check", "migrate", "start",
                              "serving"}]
    BY <1>4 DEF IInv, TypeOK
  <2>4. lease' \in Candidates \cup {None} /\ retired' \subseteq 1..MaxId
    BY <1>4 DEF IInv, TypeOK
  <2>5. columns' = ColumnsAt(version') /\ missTable' = (version' >= 5)
    BY <1>3
  <2>6. version' \in 0..6 /\ sequence' \in 0..MaxId
    BY <1>1, <1>3
  <2>7. DOMAIN rows' \subseteq 1..MaxId
    BY <1>3 DEF IInv, TypeOK
  <2> QED BY <2>1, <2>2, <2>3, <2>4, <2>5, <2>6, <2>7 DEF TypeOK
<1>8. CandidatesOnly' /\ LeaseHeld'
  BY <1>4, <1>5 DEF CandidatesOnly, IInv, TypeOK, LeaseHeld, Migrating
<1>9. VersionKnown'
  BY <1>1, <1>3, <1>4, <1>5 DEF IInv, TypeOK, VersionKnown
<1>10. ServingCurrent'
  <2>1. \A n \in Machines : pc[n] # "serving"
    BY <1>1 DEF IInv, ServingCurrent
  <2> QED BY <1>4, <2>1 DEF IInv, TypeOK, ServingCurrent
<1>11. SequenceBounds'
  <2>1. CASE v = 4
    BY <1>3, <1>4, <1>6, <2>1 DEF SequenceBounds
  <2>2. CASE v = 5
    BY <1>1, <1>3, <1>4, <1>6, <2>2 DEF IInv, SequenceBounds
  <2>3. CASE v < 4
    BY <1>1, <1>3, <1>4, <1>6, <2>3 DEF SequenceBounds
  <2> QED BY <1>1, <2>1, <2>2, <2>3
<1>12. IdsNotReused'
  BY <1>4, <1>6 DEF IdsNotReused
<1> QED BY <1>3, <1>7, <1>8, <1>9, <1>10, <1>11, <1>12 DEF IInv

(***************************************************************************)
(* What the primary's server writes.  It serves, so the version is 5 and   *)
(* the sequence bounds every id, those of deleted rows included.           *)
(***************************************************************************)
LEMMA EditIInv ==
  ASSUME IInv, Edit
  PROVE  IInv' /\ version' = version
<1>1. /\ version = 5
      /\ UNCHANGED <<version, columns, missTable, pc, at, lease, crashes>>
  <2>1. lease \in Machines /\ pc[lease] = "serving"
    BY MigrationAssumption DEF IInv, TypeOK, Edit
  <2> QED BY <2>1 DEF IInv, ServingCurrent, Edit
<1>2. /\ rows \in [DOMAIN rows -> [slug: Slugs, set: SUBSET columns]]
      /\ DOMAIN rows \subseteq 1..MaxId
      /\ sequence \in 0..MaxId /\ MaxId \in Nat
      /\ retired \subseteq 1..MaxId
      /\ \A id \in DOMAIN rows \cup retired : id <= sequence
      /\ retired \cap DOMAIN rows = {}
  BY <1>1, MigrationAssumption DEF IInv, TypeOK, SequenceBounds, IdsNotReused
<1>3. /\ rows' \in [DOMAIN rows' -> [slug: Slugs, set: SUBSET columns]]
      /\ DOMAIN rows' \subseteq 1..MaxId
      /\ sequence' \in 0..MaxId
      /\ retired' \subseteq 1..MaxId
      /\ \A id \in DOMAIN rows' \cup retired' : id <= sequence'
      /\ retired' \cap DOMAIN rows' = {}
  <2>1. ASSUME sequence < MaxId, NEW slug \in Slugs,
               rows' = [id \in DOMAIN rows \cup {sequence + 1} |->
                          IF id = sequence + 1
                          THEN [slug |-> slug, set |-> {}] ELSE rows[id]],
               sequence' = sequence + 1, retired' = retired
        PROVE  <1>3!1 /\ <1>3!2 /\ <1>3!3 /\ <1>3!4 /\ <1>3!5 /\ <1>3!6
    <3>1. DOMAIN rows' = DOMAIN rows \cup {sequence + 1}
      BY <2>1
    <3>2. sequence + 1 \in 1..MaxId /\ sequence + 1 \notin retired
      BY <1>2, <2>1
    <3>3. \A id \in DOMAIN rows' : rows'[id] \in [slug: Slugs, set: SUBSET columns]
      BY <1>2, <2>1
    <3>4. rows' \in [DOMAIN rows' -> [slug: Slugs, set: SUBSET columns]]
      BY <2>1, <3>1, <3>3
    <3> QED BY <1>2, <2>1, <3>1, <3>2, <3>4
  <2>2. ASSUME NEW id \in DOMAIN rows, NEW set \in SUBSET columns,
               rows' = [rows EXCEPT ![id].set = set],
               sequence' = sequence, retired' = retired
        PROVE  <1>3!1 /\ <1>3!2 /\ <1>3!3 /\ <1>3!4 /\ <1>3!5 /\ <1>3!6
    <3>1. rows' \in [DOMAIN rows -> [slug: Slugs, set: SUBSET columns]]
      BY <1>2, <2>2
    <3>2. DOMAIN rows' = DOMAIN rows
      BY <3>1
    <3> QED BY <1>2, <2>2, <3>1, <3>2
  <2>3. ASSUME NEW id \in DOMAIN rows,
               rows' = [other \in DOMAIN rows \ {id} |-> rows[other]],
               sequence' = sequence, retired' = retired \cup {id}
        PROVE  <1>3!1 /\ <1>3!2 /\ <1>3!3 /\ <1>3!4 /\ <1>3!5 /\ <1>3!6
    BY <1>2, <2>3
  <2> QED BY <2>1, <2>2, <2>3 DEF Edit
<1>4. TypeOK'
  BY <1>1, <1>3 DEF IInv, TypeOK
<1>5. CandidatesOnly' /\ LeaseHeld' /\ VersionKnown' /\ ServingCurrent'
  BY <1>1 DEF IInv, LeaseHeld, Migrating, VersionKnown, ServingCurrent,
              CandidatesOnly
<1>6. SequenceBounds' /\ IdsNotReused'
  BY <1>1, <1>3 DEF SequenceBounds, IdsNotReused
<1> QED BY <1>1, <1>4, <1>5, <1>6 DEF IInv

(***************************************************************************)
(* Every step keeps the invariant, and one that changes the version keeps  *)
(* every row.                                                              *)
(***************************************************************************)
LEMMA NextIInv ==
  ASSUME Failover = FALSE, IInv, [Next]_vars
  PROVE  IInv' /\ (version' # version => rows' = rows)
<1> USE DEF Goto, Release
<1>1. ASSUME NEW m \in Machines, Boot(m)
      PROVE  IInv' /\ version' = version
  <2>1. pc[m] = "down" /\ pc'[m] \in {"promote", "start"}
    BY <1>1 DEF Boot, IInv, TypeOK
  <2>2. CandidatesOnly' /\ LeaseHeld' /\ VersionKnown' /\ ServingCurrent'
    BY <1>1, <2>1 DEF Boot, database, IInv, TypeOK, LeaseHeld, Migrating,
                      VersionKnown, ServingCurrent, CandidatesOnly
  <2> QED BY <1>1, <2>2, QuietStep DEF Boot, database, IInv, TypeOK
<1>2. ASSUME NEW m \in Machines, Promote(m)
      PROVE  IInv' /\ version' = version
  <2>1. \A n \in Machines : ~Migrating(n)
    BY <1>2, MigrationAssumption DEF Promote, IInv, LeaseHeld
  <2>2. CandidatesOnly' /\ LeaseHeld' /\ VersionKnown' /\ ServingCurrent'
    BY <1>2, <2>1 DEF Promote, database, IInv, TypeOK, LeaseHeld, Migrating,
                      VersionKnown, ServingCurrent, CandidatesOnly
  <2>3. lease' \in Candidates \cup {None}
    BY <1>2 DEF Promote, IInv, CandidatesOnly
  <2> QED BY <1>2, <2>2, <2>3, QuietStep DEF Promote, database, IInv, TypeOK
<1>3. ASSUME NEW m \in Machines, TakeLease(m)
      PROVE  IInv' /\ version' = version
  <2>1. \A n \in Machines : ~Migrating(n)
    BY <1>3, MigrationAssumption DEF TakeLease, IInv, LeaseHeld
  <2>2. CandidatesOnly' /\ LeaseHeld' /\ VersionKnown' /\ ServingCurrent'
    BY <1>3, <2>1 DEF TakeLease, database, IInv, LeaseHeld, Migrating,
                      VersionKnown, ServingCurrent, CandidatesOnly
  <2> QED BY <1>3, <2>2, QuietStep DEF TakeLease, database, IInv, TypeOK
<1>4. ASSUME NEW m \in Machines, ReadVersion(m)
      PROVE  IInv' /\ version' = version
  <2>1. version \in 0..6 /\ Migrating(m)
    BY <1>4 DEF ReadVersion, IInv, TypeOK, Migrating
  <2>2. CandidatesOnly' /\ LeaseHeld' /\ VersionKnown' /\ ServingCurrent'
    BY <1>4, <2>1 DEF ReadVersion, database, IInv, TypeOK, LeaseHeld,
                      Migrating, VersionKnown, ServingCurrent, CandidatesOnly
  <2> QED BY <1>4, <2>1, <2>2, QuietStep DEF ReadVersion, database, IInv, TypeOK
<1>5. ASSUME NEW m \in Machines, MigrateStep(m)
      PROVE  IInv' /\ rows' = rows
  BY <1>5, MigrateStepIInv
<1>6. ASSUME NEW m \in Machines, MigrateFails(m)
      PROVE  IInv' /\ version' = version
  <2>1. CandidatesOnly' /\ LeaseHeld' /\ VersionKnown' /\ ServingCurrent'
    BY <1>6 DEF MigrateFails, database, IInv, TypeOK, LeaseHeld, Migrating,
                VersionKnown, ServingCurrent, CandidatesOnly
  <2> QED BY <1>6, <2>1, QuietStep DEF MigrateFails, database, IInv, TypeOK
<1>7. ASSUME NEW m \in Machines, Start(m)
      PROVE  IInv' /\ version' = version
  <2>1. CandidatesOnly' /\ LeaseHeld' /\ VersionKnown' /\ ServingCurrent'
    BY <1>7 DEF Start, Ready, database, IInv, TypeOK, LeaseHeld, Migrating,
                VersionKnown, ServingCurrent, CandidatesOnly
  <2> QED BY <1>7, <2>1, QuietStep DEF Start, database, IInv, TypeOK
<1>8. ASSUME NEW m \in Machines, Crash(m)
      PROVE  IInv' /\ version' = version
  <2>1. CandidatesOnly' /\ LeaseHeld' /\ VersionKnown' /\ ServingCurrent'
    BY <1>8 DEF Crash, database, IInv, TypeOK, LeaseHeld, Migrating,
                VersionKnown, ServingCurrent, CandidatesOnly
  <2>2. crashes' \in 0..MaxCrashes
    BY <1>8, MigrationAssumption DEF Crash, IInv, TypeOK
  <2> QED BY <1>8, <2>1, <2>2, QuietStep DEF Crash, database, IInv, TypeOK
<1>9. ASSUME NEW m \in Machines, Stop(m)
      PROVE  IInv' /\ version' = version
  <2>1. CandidatesOnly' /\ LeaseHeld' /\ VersionKnown' /\ ServingCurrent'
    BY <1>9 DEF Stop, database, IInv, TypeOK, LeaseHeld, Migrating,
                VersionKnown, ServingCurrent, CandidatesOnly
  <2> QED BY <1>9, <2>1, QuietStep DEF Stop, database, IInv, TypeOK
<1>10. CASE Edit
  BY <1>10, EditIInv
<1>11. CASE UNCHANGED vars
  <2>1. CandidatesOnly' /\ LeaseHeld' /\ VersionKnown' /\ ServingCurrent'
    BY <1>11 DEF vars, database, IInv, LeaseHeld, Migrating, VersionKnown,
                 ServingCurrent, CandidatesOnly
  <2> QED BY <1>11, <2>1, QuietStep DEF vars, database, IInv, TypeOK
<1> QED BY <1>1, <1>2, <1>3, <1>4, <1>5, <1>6, <1>7, <1>8, <1>9, <1>10, <1>11
        DEF Next, MachineStep
-----------------------------------------------------------------------------
(***************************************************************************)
(* The strengthened invariant holds in every reachable state.              *)
(***************************************************************************)
THEOREM MigrationInvariant ==
  ASSUME Failover = FALSE
  PROVE  Spec => []IInv
<1>1. IInv /\ [Next]_vars => IInv'
  BY NextIInv
<1> QED BY InitIInv, <1>1, PTL DEF Spec

(***************************************************************************)
(* The tables conform to the schema of their version, at every moment of   *)
(* every migration.                                                        *)
(***************************************************************************)
THEOREM MigrationTypeCorrect ==
  ASSUME Failover = FALSE
  PROVE  Spec => []TypeOK
<1>1. IInv => TypeOK
  BY DEF IInv
<1> QED BY MigrationInvariant, <1>1, PTL

(***************************************************************************)
(* Migrations keep every redirect and all of its data.                     *)
(***************************************************************************)
THEOREM MigrationPreserves ==
  ASSUME Failover = FALSE
  PROVE  Spec => MigrationKeepsData
<1>1. IInv /\ [Next]_vars => [version' # version => rows' = rows]_vars
  BY NextIInv
<1> QED BY MigrationInvariant, <1>1, PTL DEF Spec, MigrationKeepsData

(***************************************************************************)
(* The id of a deleted redirect is not used again.                         *)
(***************************************************************************)
THEOREM MigrationIdsNotReused ==
  ASSUME Failover = FALSE
  PROVE  Spec => []IdsNotReused
<1>1. IInv => IdsNotReused
  BY DEF IInv
<1> QED BY MigrationInvariant, <1>1, PTL

(***************************************************************************)
(* Whatever machine serves, the schema is the current one.                 *)
(***************************************************************************)
THEOREM MigrationServesCurrent ==
  ASSUME Failover = FALSE
  PROVE  Spec => []ServesCurrentSchema
<1>1. IInv => ServesCurrentSchema
  <2> SUFFICES ASSUME IInv, NEW m \in Machines, pc[m] = "serving"
               PROVE  Ready
    BY DEF ServesCurrentSchema
  <2>1. version = 5
    BY DEF IInv, ServingCurrent
  <2>2. columns = Columns
    BY <2>1, ColumnsByVersion DEF IInv, TypeOK
  <2>3. (version >= 5) = TRUE
    BY <2>1
  <2>4. missTable = TRUE
    BY <2>3, Zenon DEF IInv, TypeOK
  <2> QED BY <2>1, <2>2, <2>4 DEF Ready, currentSchemaVersion
<1> QED BY MigrationInvariant, <1>1, PTL
=============================================================================
