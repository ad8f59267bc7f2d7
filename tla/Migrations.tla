----------------------------- MODULE Migrations -----------------------------
(***************************************************************************)
(* "server migrate up" and "server migrate down", run by any number of     *)
(* processes against one database.  golang-migrate takes an advisory lock, *)
(* reads the recorded version and goes one file at a time: it records the  *)
(* target as dirty, runs the file and records the target as clean, each a  *)
(* transaction of its own.                                                 *)
(*                                                                         *)
(* A process may die and a connection break at any time.  The session and  *)
(* its advisory lock end when its backend is done with the statement it    *)
(* was at, so nobody else acts in between and the statement has had its    *)
(* effect or never will by the time the lock is free.                      *)
(***************************************************************************)
EXTENDS Integers

CONSTANTS
  Migrator,  \* bound: the processes that may migrate
  NoOne      \* nobody holds the advisory lock

ASSUME NoOneAssumption == NoOne \notin Migrator

VARIABLES
  tables,   \* the tables of the service
  version,  \* the recorded version, 0 for none
  dirty,    \* whether it is recorded as dirty
  lock,     \* who holds the advisory lock
  pc,       \* per process, the step it is at
  command,  \* per process, what it is asked for
  at,       \* per process, the version it has come to
  told      \* per process, how its last command ended, "none" while it runs

schema == <<tables, version, dirty>>
vars   == <<tables, version, dirty, lock, pc, command, at, told>>

Latest   == 2
Versions == 0..Latest

Init ==
  /\ tables = {}
  /\ version = 0
  /\ dirty = FALSE
  /\ lock = NoOne
  /\ pc = [m \in Migrator |-> "idle"]
  /\ command = [m \in Migrator |-> "up"]
  /\ at = [m \in Migrator |-> 0]
  /\ told = [m \in Migrator |-> "none"]

-----------------------------------------------------------------------------
(* The files. *)

\* CREATE TABLE fails when the table is there, REFERENCES users when users is
\* not.
Created(v) == IF v = 1 THEN "users" ELSE "accounts"
UpRuns(v)  == Created(v) \notin tables /\ (v = 2 => "users" \in tables)

\* DROP TABLE IF EXISTS fails when another table refers to the table.
DownRuns(v) == v = 1 => "accounts" \notin tables

\* Broken: the file names another table than the one made.
DropNothing(v) == {}
\* Broken: DROP TABLE users comes in the file of accounts as well.
DropAll(v) == {"users", "accounts"}
Dropped(v) == {Created(v)}

-----------------------------------------------------------------------------
(* One command. *)

Goal(m)   == IF command[m] = "up" THEN Latest ELSE 0
Target(m) == IF command[m] = "up" THEN at[m] + 1 ELSE at[m] - 1

GoTo(m, l) == pc' = [pc EXCEPT ![m] = l] /\ UNCHANGED <<command, told>>

\* Broken: every error of Up and Down is let pass.
ToleratedAlways(err) == TRUE
Tolerated(err) == err \in {"nil", "no_change"}

End(m, err) ==
  /\ pc' = [pc EXCEPT ![m] = "idle"]
  /\ told' = [told EXCEPT ![m] = IF Tolerated(err) THEN "ok" ELSE "failed"]
  /\ UNCHANGED <<command, at>>

\* Broken: the lock is kept when a command ends.
ReleaseKeeping(m, err) == UNCHANGED lock /\ End(m, err)
Release(m, err) == lock' = NoOne /\ End(m, err)

Migrate(m, c) ==
  /\ pc[m] = "idle"
  /\ pc' = [pc EXCEPT ![m] = "open"]
  /\ command' = [command EXCEPT ![m] = c]
  /\ told' = [told EXCEPT ![m] = "none"]
  /\ UNCHANGED <<schema, lock, at>>

MigrateUp(m)   == Migrate(m, "up")
MigrateDown(m) == Migrate(m, "down")

\* newMigrate makes the table of versions, under the lock.
Open(m) ==
  /\ pc[m] = "open"
  /\ lock = NoOne
  /\ GoTo(m, "lock")
  /\ UNCHANGED <<schema, lock, at>>

\* Only so long is the lock waited for.
Lock(m) ==
  /\ pc[m] = "lock"
  /\ \/ lock = NoOne /\ lock' = m /\ GoTo(m, "read") /\ UNCHANGED at
     \/ lock # NoOne /\ UNCHANGED lock /\ End(m, "lock_timeout")
  /\ UNCHANGED schema

\* Broken: a dirty version is taken for a clean one.
ReadVersionOnly(m) ==
  /\ pc[m] = "read"
  /\ \/ version = Goal(m) /\ Release(m, "no_change")
     \/ /\ version # Goal(m)
        /\ at' = [at EXCEPT ![m] = version]
        /\ GoTo(m, "mark")
        /\ UNCHANGED lock
  /\ UNCHANGED schema

ReadVersion(m) ==
  /\ pc[m] = "read"
  /\ \/ dirty /\ Release(m, "dirty")
     \/ ~dirty /\ version = Goal(m) /\ Release(m, "no_change")
     \/ /\ ~dirty
        /\ version # Goal(m)
        /\ at' = [at EXCEPT ![m] = version]
        /\ GoTo(m, "mark")
        /\ UNCHANGED lock
  /\ UNCHANGED schema

\* The three transactions of a file.
MarkDirty(m) == version' = Target(m) /\ dirty' = TRUE /\ UNCHANGED tables
MarkClean(m) == version' = Target(m) /\ dirty' = FALSE /\ UNCHANGED tables

FileRuns(m) == IF command[m] = "up" THEN UpRuns(Target(m)) ELSE DownRuns(at[m])
RunFile(m) ==
  /\ tables' = IF command[m] = "up" THEN tables \cup {Created(Target(m))}
               ELSE tables \ Dropped(at[m])
  /\ UNCHANGED <<version, dirty>>

Mark(m) ==
  /\ pc[m] = "mark"
  /\ MarkDirty(m)
  /\ GoTo(m, "run")
  /\ UNCHANGED <<lock, at>>

Run(m) ==
  /\ pc[m] = "run"
  /\ IF FileRuns(m) THEN RunFile(m) /\ GoTo(m, "clean") /\ UNCHANGED <<lock, at>>
     ELSE UNCHANGED schema /\ Release(m, "failed")

Clean(m) ==
  /\ pc[m] = "clean"
  /\ MarkClean(m)
  /\ IF Target(m) = Goal(m) THEN Release(m, "nil")
     ELSE /\ at' = [at EXCEPT ![m] = Target(m)]
          /\ GoTo(m, "mark")
          /\ UNCHANGED lock

Step(m) ==
  Open(m) \/ Lock(m) \/ ReadVersion(m) \/ Mark(m) \/ Run(m) \/ Clean(m)

\* The process dies or its connection breaks, before or after the statement it
\* is at has had its effect.
Break(m) ==
  /\ pc[m] # "idle"
  /\ \/ UNCHANGED schema
     \/ pc[m] = "mark" /\ MarkDirty(m)
     \/ pc[m] = "run" /\ FileRuns(m) /\ RunFile(m)
     \/ pc[m] = "clean" /\ MarkClean(m)
  /\ lock' = IF lock = m THEN NoOne ELSE lock
  /\ End(m, "broken")

Next ==
  \E m \in Migrator : MigrateUp(m) \/ MigrateDown(m) \/ Step(m) \/ Break(m)

\* A process goes on, and PostgreSQL hands the lock out in the order it was
\* asked for.  That a process breaks is never asked for.
Fairness ==
  \A m \in Migrator :
    WF_vars(Step(m)) /\ SF_vars(Open(m)) /\ SF_vars(Lock(m))

Spec == Init /\ [][Next]_vars /\ Fairness

-----------------------------------------------------------------------------
(* Properties. *)

TypeOK ==
  /\ tables \subseteq {"users", "accounts"}
  /\ version \in Versions
  /\ dirty \in BOOLEAN
  /\ lock \in Migrator \cup {NoOne}
  /\ pc \in [Migrator -> {"idle", "open", "lock", "read", "mark", "run", "clean"}]
  /\ command \in [Migrator -> {"up", "down"}]
  /\ at \in [Migrator -> Versions]
  /\ told \in [Migrator -> {"none", "ok", "failed"}]

\* The schema a version stands for.
Tables(v) ==
  (IF v >= 1 THEN {"users"} ELSE {}) \cup (IF v >= 2 THEN {"accounts"} ELSE {})

\* A version recorded as clean is the schema that is there, however many
\* processes migrate in both directions and wherever they die.
CleanMeansWhole == ~dirty => tables = Tables(version)

\* A dirty version is off by one at most: whoever repairs it by hand finds the
\* schema of the recorded version or of one next to it, never a mixture.
DirtyIsNear ==
  \E v \in Versions : tables = Tables(v) /\ v - version \in {-1, 0, 1}

\* A command that reports success has left the database as it was asked to,
\* although MigrateUp and MigrateDown let ErrNoChange pass.
SuccessTellsTruth ==
  [][\A m \in Migrator : told[m] = "none" /\ told'[m] = "ok"
       => tables' = Tables(Goal(m)) /\ ~dirty']_vars

\* What a broken command has left behind is not touched by any later one.
Abandoned   == dirty /\ \A m \in Migrator : pc[m] \notin {"run", "clean"}
DirtySticks == [][Abandoned => UNCHANGED schema]_vars

\* Every command comes to an end, whoever else migrates and dies.
CommandsEnd == \A m \in Migrator : pc[m] = "open" ~> pc[m] = "idle"

\* Who holds the lock, and what each of its steps has found and done: the
\* inductive strengthening of the safety properties.
Holding == {"read", "mark", "run", "clean"}

Owned == \A m \in Migrator : lock = m <=> pc[m] \in Holding

Progress ==
  \A m \in Migrator :
    /\ pc[m] \in {"mark", "run", "clean"} => at[m] # Goal(m)
    /\ pc[m] = "mark" => ~dirty /\ version = at[m]
    /\ pc[m] \in {"run", "clean"} => dirty /\ version = Target(m)
    /\ pc[m] = "run" => tables = Tables(at[m])
    /\ pc[m] = "clean" => tables = Tables(Target(m))

MigrationInv == TypeOK /\ Owned /\ Progress /\ CleanMeansWhole /\ DirtyIsNear
=============================================================================
