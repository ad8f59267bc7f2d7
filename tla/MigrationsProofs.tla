-------------------------- MODULE MigrationsProofs --------------------------
(* Theorems about Migrations, for any set of processes. *)
EXTENDS Migrations, TLAPS

\* A schema is that of one version.
LEMMA TablesFacts ==
  /\ Tables(0) = {} /\ Tables(1) = {"users"} /\ Tables(2) = {"users", "accounts"}
  /\ \A v \in Versions : Tables(v) \subseteq {"users", "accounts"}
BY DEF Tables, Versions, Latest

\* The invariant holds of an empty database.
LEMMA InitInv == Init => MigrationInv
<1> SUFFICES ASSUME Init PROVE MigrationInv
  OBVIOUS
<1>1. TypeOK
  <2>1. 0 \in Versions
    BY DEF Versions, Latest
  <2> QED BY <2>1 DEF Init, TypeOK
<1>2. Owned /\ Progress
  BY NoOneAssumption DEF Init, Owned, Progress, Holding
<1>3. tables = Tables(version) /\ version \in Versions /\ version - version = 0
  BY TablesFacts DEF Init, Versions, Latest
<1>4. DirtyIsNear
  BY <1>3 DEF DirtyIsNear
<1> QED BY <1>1, <1>2, <1>3, <1>4 DEF MigrationInv, CleanMeansWhole

\* Where a command starts from, it has a version to go to.
LEMMA TargetFacts ==
  ASSUME TypeOK, NEW m \in Migrator, at[m] # Goal(m)
  PROVE  /\ Target(m) \in Versions
         /\ Target(m) - at[m] \in {-1, 1}
         /\ command[m] = "up" => at[m] \in {0, 1} /\ Target(m) = at[m] + 1
         /\ command[m] # "up" => at[m] \in {1, 2} /\ Target(m) = at[m] - 1
BY DEF TypeOK, Goal, Target, Versions, Latest

\* A file turns the schema of one version into that of the next, and runs
\* wherever it is run.
LEMMA FileFacts ==
  ASSUME TypeOK, NEW m \in Migrator, at[m] # Goal(m), tables = Tables(at[m])
  PROVE  /\ FileRuns(m)
         /\ RunFile(m) => tables' = Tables(Target(m))
<1>1. CASE command[m] = "up" /\ at[m] = 0
  BY <1>1 DEF FileRuns, RunFile, UpRuns, Created, Target, Tables
<1>2. CASE command[m] = "up" /\ at[m] = 1
  BY <1>2 DEF FileRuns, RunFile, UpRuns, Created, Target, Tables
<1>3. CASE command[m] # "up" /\ at[m] = 1
  BY <1>3, TablesFacts DEF FileRuns, RunFile, DownRuns, Dropped, Created, Target
<1>4. CASE command[m] # "up" /\ at[m] = 2
  BY <1>4, TablesFacts DEF FileRuns, RunFile, DownRuns, Dropped, Created, Target
<1> QED BY <1>1, <1>2, <1>3, <1>4, TargetFacts

\* What a process that is at its statement may do to the schema.
Effect(m) ==
  \/ pc[m] = "mark" /\ MarkDirty(m)
  \/ pc[m] = "run" /\ FileRuns(m) /\ RunFile(m)
  \/ pc[m] = "clean" /\ MarkClean(m)

\* Each of the three statements leaves a schema that is near the recorded
\* version, and is it when that is clean.
LEMMA EffectSound ==
  ASSUME MigrationInv, NEW m \in Migrator, Effect(m)
  PROVE  /\ tables' \subseteq {"users", "accounts"}
         /\ version' \in Versions /\ dirty' \in BOOLEAN
         /\ CleanMeansWhole' /\ DirtyIsNear'
         /\ version' = Target(m)
         /\ pc[m] \in {"mark", "run"} => dirty'
         /\ pc[m] = "mark" => tables' = Tables(at[m])
         /\ pc[m] \in {"run", "clean"} => tables' = Tables(Target(m))
         /\ pc[m] = "clean" => ~dirty'
<1> USE DEF MigrationInv
<1>1. at[m] # Goal(m) /\ at[m] \in Versions
  BY DEF Effect, Progress, TypeOK
<1>2. Target(m) \in Versions /\ Target(m) - at[m] \in {-1, 1}
  BY <1>1, TargetFacts
<1>3. CASE pc[m] = "mark"
  <2>1. tables' = Tables(at[m]) /\ version' = Target(m) /\ dirty' = TRUE
    BY <1>3 DEF Effect, MarkDirty, Progress, CleanMeansWhole
  <2>2. at[m] - Target(m) \in {-1, 0, 1}
    BY <1>1, <1>2 DEF Versions, Latest
  <2>3. \E v \in Versions : tables' = Tables(v) /\ v - version' \in {-1, 0, 1}
    BY <1>1, <2>1, <2>2
  <2> QED BY <1>1, <1>2, <1>3, <2>1, <2>3, TablesFacts
          DEF CleanMeansWhole, DirtyIsNear, Tables
<1>4. CASE pc[m] = "run"
  <2>1. tables = Tables(at[m]) /\ version = Target(m) /\ dirty
    BY <1>4 DEF Progress
  <2>2. tables' = Tables(Target(m)) /\ version' = Target(m) /\ dirty' = TRUE
    BY <1>1, <1>4, <2>1, FileFacts DEF Effect, RunFile, TypeOK
  <2>3. \E v \in Versions : tables' = Tables(v) /\ v - version' \in {-1, 0, 1}
    BY <1>2, <2>2 DEF Versions, Latest
  <2> QED BY <1>2, <1>4, <2>2, <2>3, TablesFacts
          DEF CleanMeansWhole, DirtyIsNear, Tables
<1>5. CASE pc[m] = "clean"
  <2>1. tables' = Tables(Target(m)) /\ version' = Target(m) /\ dirty' = FALSE
    BY <1>5 DEF Effect, MarkClean, Progress
  <2>2. \E v \in Versions : tables' = Tables(v) /\ v - version' \in {-1, 0, 1}
    BY <1>2, <2>1 DEF Versions, Latest
  <2> QED BY <1>2, <1>5, <2>1, <2>2, TablesFacts
          DEF CleanMeansWhole, DirtyIsNear, Tables
<1> QED BY <1>3, <1>4, <1>5 DEF Effect

\* Who holds the lock is the only one that is past Lock.
LEMMA Alone ==
  ASSUME MigrationInv, NEW m \in Migrator, pc[m] \in Holding
  PROVE  lock = m /\ \A o \in Migrator : o # m => pc[o] \notin Holding
BY DEF MigrationInv, Owned

\* What a step of m has to establish for the schema, and what it leaves alone.
SchemaSound ==
  /\ tables' \subseteq {"users", "accounts"}
  /\ version' \in Versions /\ dirty' \in BOOLEAN
  /\ CleanMeansWhole' /\ DirtyIsNear'

OthersStay(m) ==
  \A o \in Migrator \ {m} :
    pc'[o] = pc[o] /\ at'[o] = at[o] /\ command'[o] = command[o]

PlacesTyped ==
  /\ pc' \in [Migrator -> {"idle", "open", "lock", "read", "mark", "run", "clean"}]
  /\ command' \in [Migrator -> {"up", "down"}]
  /\ at' \in [Migrator -> Versions]
  /\ told' \in [Migrator -> {"none", "ok", "failed"}]

\* A schema that does not move stays sound.
LEMMA SchemaStays == MigrationInv /\ UNCHANGED schema => SchemaSound
BY DEF MigrationInv, TypeOK, SchemaSound, CleanMeansWhole, DirtyIsNear, Tables, schema

\* A step after which its process does not hold the lock.
LEMMA StepWithout ==
  ASSUME MigrationInv, NEW m \in Migrator, SchemaSound, OthersStay(m), PlacesTyped,
         UNCHANGED schema \/ pc[m] \in Holding,
         pc'[m] \notin Holding,
         lock' = IF lock = m THEN NoOne ELSE lock
  PROVE  MigrationInv'
<1> USE NoOneAssumption
<1>1. TypeOK'
  BY DEF MigrationInv, TypeOK, SchemaSound, PlacesTyped
<1>2. Owned'
  BY DEF MigrationInv, Owned, TypeOK, OthersStay
<1>3. ASSUME NEW o \in Migrator, pc'[o] \in Holding
      PROVE  o # m /\ lock = o /\ pc[m] \notin Holding
  BY <1>3, Alone DEF OthersStay
<1>4. Progress'
  BY <1>3 DEF MigrationInv, Progress, Goal, Target, Holding, OthersStay, schema, Tables
<1> QED BY <1>1, <1>2, <1>4 DEF MigrationInv, SchemaSound

\* A step after which its process holds the lock, and is where it should be.
LEMMA StepWith ==
  ASSUME MigrationInv, NEW m \in Migrator, SchemaSound, OthersStay(m), PlacesTyped,
         lock \in {m, NoOne}, lock' = m, pc'[m] \in Holding,
         pc'[m] \in {"mark", "run", "clean"} => (at[m] # Goal(m))',
         pc'[m] = "mark" => ~dirty' /\ version' = at'[m],
         pc'[m] \in {"run", "clean"} => dirty' /\ version' = Target(m)',
         pc'[m] = "run" => tables' = Tables(at[m])',
         pc'[m] = "clean" => tables' = Tables(Target(m))'
  PROVE  MigrationInv'
<1> USE NoOneAssumption
<1>1. TypeOK'
  BY DEF MigrationInv, TypeOK, SchemaSound, PlacesTyped
<1>2. ASSUME NEW o \in Migrator, o # m
      PROVE  pc'[o] \notin Holding
  BY <1>2 DEF MigrationInv, Owned, OthersStay
<1>3. Owned'
  BY <1>2 DEF Owned
<1>4. Progress'
  BY <1>2 DEF Progress, Holding
<1> QED BY <1>1, <1>3, <1>4 DEF MigrationInv, SchemaSound

-----------------------------------------------------------------------------

\* A command ends, by itself or by force, whatever its process was at.
LEMMA EndStep ==
  ASSUME MigrationInv, NEW m \in Migrator, NEW err, SchemaSound,
         UNCHANGED schema \/ pc[m] \in Holding, End(m, err),
         lock' = IF lock = m THEN NoOne ELSE lock
  PROVE  MigrationInv'
<1>1. PlacesTyped /\ OthersStay(m) /\ pc'[m] = "idle"
  BY DEF MigrationInv, TypeOK, End, PlacesTyped, OthersStay
<1> QED BY <1>1, StepWithout DEF Holding

\* Every step keeps the invariant.
LEMMA NextInv == MigrationInv /\ [Next]_vars => MigrationInv'
<1> SUFFICES ASSUME MigrationInv, [Next]_vars PROVE MigrationInv'
  OBVIOUS
<1>0. CASE UNCHANGED vars
  BY <1>0 DEF vars, schema, MigrationInv, TypeOK, Owned, Progress, Goal, Target,
              CleanMeansWhole, DirtyIsNear, Tables, Holding
<1>1. ASSUME NEW m \in Migrator, NEW c \in {"up", "down"}, Migrate(m, c)
      PROVE  MigrationInv'
  <2>1. PlacesTyped /\ OthersStay(m) /\ pc'[m] = "open" /\ lock # m
    BY <1>1 DEF Migrate, MigrationInv, TypeOK, Owned, Holding, PlacesTyped, OthersStay
  <2> QED BY <1>1, <2>1, SchemaStays, StepWithout DEF Migrate, Holding
<1>2. ASSUME NEW m \in Migrator, Open(m)
      PROVE  MigrationInv'
  <2>1. PlacesTyped /\ OthersStay(m) /\ pc'[m] = "lock" /\ lock # m
    BY <1>2, NoOneAssumption
       DEF Open, GoTo, MigrationInv, TypeOK, PlacesTyped, OthersStay
  <2> QED BY <1>2, <2>1, SchemaStays, StepWithout DEF Open, Holding
<1>3. ASSUME NEW m \in Migrator, Lock(m)
      PROVE  MigrationInv'
  <2>1. CASE lock = NoOne /\ lock' = m /\ GoTo(m, "read") /\ UNCHANGED at
    <3>1. PlacesTyped /\ OthersStay(m) /\ pc'[m] = "read"
      BY <2>1 DEF GoTo, MigrationInv, TypeOK, PlacesTyped, OthersStay
    <3> QED BY <1>3, <2>1, <3>1, SchemaStays, StepWith DEF Lock, Holding
  <2>2. CASE UNCHANGED lock /\ End(m, "lock_timeout")
    <3>1. lock # m
      BY <1>3 DEF Lock, MigrationInv, Owned, Holding
    <3> QED BY <1>3, <2>2, <3>1, SchemaStays, EndStep DEF Lock
  <2> QED BY <1>3, <2>1, <2>2 DEF Lock
<1>4. ASSUME NEW m \in Migrator, ReadVersion(m)
      PROVE  MigrationInv'
  <2>0. lock = m
    BY <1>4, Alone DEF ReadVersion, Holding
  <2>1. CASE Release(m, "dirty")
    BY <1>4, <2>0, <2>1, SchemaStays, EndStep DEF ReadVersion, Release
  <2>2. CASE Release(m, "no_change")
    BY <1>4, <2>0, <2>2, SchemaStays, EndStep DEF ReadVersion, Release
  <2>3. CASE /\ ~dirty /\ version # Goal(m)
             /\ at' = [at EXCEPT ![m] = version]
             /\ GoTo(m, "mark") /\ UNCHANGED lock
    <3>1. /\ PlacesTyped /\ OthersStay(m) /\ pc'[m] = "mark"
          /\ at'[m] = version /\ Goal(m)' = Goal(m)
      BY <2>3 DEF GoTo, MigrationInv, TypeOK, PlacesTyped, OthersStay, Goal
    <3> QED BY <1>4, <2>0, <2>3, <3>1, SchemaStays, StepWith
            DEF ReadVersion, Holding, schema
  <2> QED BY <1>4, <2>1, <2>2, <2>3 DEF ReadVersion
<1>5. ASSUME NEW m \in Migrator, pc[m] \in {"mark", "run", "clean"}, Effect(m)
      PROVE  SchemaSound /\ at[m] # Goal(m) /\ lock = m
  BY <1>5, EffectSound, Alone DEF SchemaSound, MigrationInv, Progress, Holding
<1>6. ASSUME NEW m \in Migrator, Mark(m)
      PROVE  MigrationInv'
  <2>1. Effect(m)
    BY <1>6 DEF Mark, Effect
  <2>2. /\ PlacesTyped /\ OthersStay(m) /\ pc'[m] = "run" /\ at'[m] = at[m]
        /\ Goal(m)' = Goal(m) /\ Target(m)' = Target(m)
    BY <1>6 DEF Mark, GoTo, MigrationInv, TypeOK, PlacesTyped, OthersStay, Goal, Target
  <2>3. dirty' /\ version' = Target(m) /\ tables' = Tables(at[m])
    BY <1>6, <2>1, EffectSound DEF Mark
  <2>4. Tables(at[m])' = Tables(at[m])
    BY <2>2 DEF Tables, Mark
  <2> QED BY <1>5, <1>6, <2>1, <2>2, <2>3, <2>4, StepWith DEF Mark, Holding
<1>7. ASSUME NEW m \in Migrator, Run(m)
      PROVE  MigrationInv'
  <2>0. tables = Tables(at[m]) /\ at[m] # Goal(m)
    BY <1>7 DEF Run, MigrationInv, Progress
  <2>1. Effect(m)
    BY <1>7, <2>0, FileFacts DEF Run, Effect, MigrationInv
  <2>2. RunFile(m) /\ GoTo(m, "clean") /\ UNCHANGED <<lock, at>>
    BY <1>7, <2>0, FileFacts DEF Run, MigrationInv
  <2>3. /\ PlacesTyped /\ OthersStay(m) /\ pc'[m] = "clean" /\ at'[m] = at[m]
        /\ Goal(m)' = Goal(m) /\ Target(m)' = Target(m)
    BY <2>2 DEF GoTo, MigrationInv, TypeOK, PlacesTyped, OthersStay, Goal, Target
  <2>4. dirty' /\ version' = Target(m) /\ tables' = Tables(Target(m))
    BY <1>7, <2>1, EffectSound DEF Run
  <2>5. Tables(Target(m))' = Tables(Target(m))
    BY <2>3 DEF Tables
  <2> QED BY <1>5, <1>7, <2>1, <2>2, <2>3, <2>4, <2>5, StepWith DEF Run, Holding
<1>8. ASSUME NEW m \in Migrator, Clean(m)
      PROVE  MigrationInv'
  <2>1. Effect(m)
    BY <1>8 DEF Clean, Effect
  <2>2. ~dirty' /\ version' = Target(m) /\ SchemaSound /\ lock = m
    BY <1>5, <1>8, <2>1, EffectSound DEF Clean
  <2>3. CASE Release(m, "nil")
    BY <1>8, <2>2, <2>3, EndStep DEF Clean, Release, Holding
  <2>4. CASE /\ Target(m) # Goal(m)
             /\ at' = [at EXCEPT ![m] = Target(m)]
             /\ GoTo(m, "mark") /\ UNCHANGED lock
    <3>1. Target(m) \in Versions
      BY <1>5, <1>8, <2>1, TargetFacts DEF Clean, MigrationInv
    <3>2. /\ PlacesTyped /\ OthersStay(m) /\ pc'[m] = "mark"
          /\ at'[m] = Target(m) /\ Goal(m)' = Goal(m)
      BY <2>4, <3>1 DEF GoTo, MigrationInv, TypeOK, PlacesTyped, OthersStay, Goal
    <3> QED BY <2>2, <2>4, <3>2, StepWith DEF Holding
  <2> QED BY <1>8, <2>3, <2>4 DEF Clean
<1>9. ASSUME NEW m \in Migrator, Break(m)
      PROVE  MigrationInv'
  <2>1. UNCHANGED schema \/ Effect(m)
    BY <1>9 DEF Break, Effect
  <2>2. SchemaSound /\ (UNCHANGED schema \/ pc[m] \in Holding)
    BY <1>5, <2>1, SchemaStays DEF Effect, Holding
  <2> QED BY <1>9, <2>2, EndStep DEF Break
<1> QED BY <1>0, <1>1, <1>2, <1>3, <1>4, <1>6, <1>7, <1>8, <1>9
        DEF Next, Step, MigrateUp, MigrateDown

\* Whatever processes migrate in whichever direction, and wherever they die,
\* the invariant of Migrations holds.
THEOREM MigrationsInvariant == Spec => []MigrationInv
<1> QED BY InitInv, NextInv, PTL DEF Spec

\* A version that is recorded as clean is the schema that is there.
THEOREM CleanWhole == Spec => []CleanMeansWhole
<1>1. MigrationInv => CleanMeansWhole
  BY DEF MigrationInv
<1> QED BY <1>1, MigrationsInvariant, PTL

\* A dirty version is off by one at most.
THEOREM DirtyNear == Spec => []DirtyIsNear
<1>1. MigrationInv => DirtyIsNear
  BY DEF MigrationInv
<1> QED BY <1>1, MigrationsInvariant, PTL

\* What a broken command has left behind is not touched by any later one.
THEOREM DirtyStuck == Spec => DirtySticks
<1>1. MigrationInv /\ [Next]_vars => [Abandoned => UNCHANGED schema]_vars
  <2> SUFFICES ASSUME MigrationInv, Next, Abandoned PROVE UNCHANGED schema
    OBVIOUS
  <2>1. \A m \in Migrator : pc[m] \notin {"mark", "run", "clean"}
    BY DEF MigrationInv, Progress, Abandoned
  <2> QED BY <2>1 DEF Next, Step, MigrateUp, MigrateDown, Migrate, Open, Lock,
                      ReadVersion, Mark, Run, Clean, Break, Abandoned
<1> QED BY <1>1, MigrationsInvariant, PTL DEF Spec, DirtySticks

\* A command that reports success has left the database as it was asked to.
THEOREM SuccessTrue == Spec => SuccessTellsTruth
<1>1. ASSUME MigrationInv, [Next]_vars, NEW m \in Migrator,
             told[m] = "none", told'[m] = "ok"
      PROVE  tables' = Tables(Goal(m)) /\ ~dirty'
  <2>1. \A n \in Migrator : \A err : End(n, err) => n = m /\ Tolerated(err)
    BY <1>1 DEF End, MigrationInv, TypeOK
  <2>2. ~Tolerated("dirty") /\ ~Tolerated("lock_timeout") /\ ~Tolerated("failed")
        /\ ~Tolerated("broken")
    BY DEF Tolerated
  <2>3. told' # told
    BY <1>1
  <2>4. PICK n \in Migrator : ReadVersion(n) \/ Clean(n)
    BY <1>1, <2>1, <2>2, <2>3
       DEF Next, Step, MigrateUp, MigrateDown, Migrate, Open, Lock, Mark, Run, Break,
           GoTo, Release, vars, MigrationInv, TypeOK
  <2>5. n = m
    BY <2>1, <2>3, <2>4 DEF ReadVersion, Clean, Release, GoTo
  <2>6. CASE ReadVersion(m)
    <3>1. ~dirty /\ version = Goal(m) /\ UNCHANGED <<tables, dirty>>
      BY <2>1, <2>2, <2>3, <2>6 DEF ReadVersion, Release, GoTo, schema
    <3>2. tables = Tables(version)
      BY <1>1, <3>1 DEF MigrationInv, CleanMeansWhole
    <3> QED BY <3>1, <3>2
  <2>7. CASE Clean(m)
    <3>1. Target(m) = Goal(m) /\ pc[m] = "clean" /\ Effect(m)
      BY <2>3, <2>7 DEF Clean, Release, GoTo, Effect
    <3> QED BY <1>1, <3>1, EffectSound
  <2> QED BY <2>4, <2>5, <2>6, <2>7
<1>2. MigrationInv /\ [Next]_vars =>
        [\A m \in Migrator : told[m] = "none" /\ told'[m] = "ok"
           => tables' = Tables(Goal(m)) /\ ~dirty']_vars
  BY <1>1
<1> QED BY <1>2, MigrationsInvariant, PTL DEF Spec, SuccessTellsTruth
=============================================================================
