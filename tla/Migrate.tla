------------------------------- MODULE Migrate --------------------------------
(***************************************************************************)
(* Starting up (main.go): an instance connects to the database, applies the  *)
(* migrations that have not been (internal/db/db.go), and only then serves.  *)
(* Instances start at the same time when a deployment replaces one by        *)
(* another; any may die at any point, and a failed migration is fatal.       *)
(*                                                                         *)
(* External: a Postgres transaction takes effect when it commits or not at   *)
(* all, and the insert of a key waits for an uncommitted one of another and  *)
(* fails once that is there.                                                 *)
(***************************************************************************)
EXTENDS Integers

CONSTANTS
  Instances,
  Migrations,   \* how many migration files there are, in order of their names
  MaxDeaths     \* bound: processes that die

ASSUME MigrateAssumption == {Migrations, MaxDeaths} \subseteq Nat

VARIABLES
  proc,        \* per instance: where it is, and the migration it is at
  schema,      \* how often each migration has been run
  versions,    \* schema_migrations
  inserting,   \* per instance: the version it has inserted but not committed
  deaths

migrateVars == <<proc, schema, versions, inserting, deaths>>

Down == [pc |-> "down", next |-> 1]
Sits(i, pc) == proc[i].pc = pc
To(i, pc) == proc' = [proc EXCEPT ![i].pc = pc]

MigrateInit ==
  /\ proc = [i \in Instances |-> Down]
  /\ schema = [m \in 1..Migrations |-> 0] /\ versions = {}
  /\ inserting = [i \in Instances |-> 0]
  /\ deaths = 0

Launch(i) ==
  /\ Sits(i, "down") /\ To(i, "check")
  /\ UNCHANGED <<schema, versions, inserting, deaths>>

migrationApplied(m) == m \in versions

(* The next file that is not recorded is applied; after the last, it serves. *)
Check(i) ==
  /\ Sits(i, "check")
  /\ LET m == proc[i].next IN
     IF m > Migrations THEN To(i, "serving")
     ELSE IF migrationApplied(m) THEN proc' = [proc EXCEPT ![i].next = m + 1]
     ELSE To(i, "run")
  /\ UNCHANGED <<schema, versions, inserting, deaths>>

(* Mutant: the statements of the file commit on their own. *)
AutoCommit(m) == schema' = [schema EXCEPT ![m] = @ + 1]

InTransaction(m) == UNCHANGED schema

(* applyMigration: the file, *)
RunFile(i) ==
  /\ Sits(i, "run")
  /\ InTransaction(proc[i].next)
  /\ To(i, "insert")
  /\ UNCHANGED <<versions, inserting, deaths>>

(* then its record, *)
InsertVersion(i) ==
  /\ Sits(i, "insert")
  /\ proc[i].next \notin versions
  /\ \A j \in Instances \ {i} : inserting[j] # proc[i].next
  /\ inserting' = [inserting EXCEPT ![i] = proc[i].next]
  /\ To(i, "commit")
  /\ UNCHANGED <<schema, versions, deaths>>

(* and both at once. *)
Commit(i) ==
  /\ Sits(i, "commit")
  /\ schema' = [schema EXCEPT ![proc[i].next] = @ + 1]
  /\ versions' = versions \cup {inserting[i]}
  /\ inserting' = [inserting EXCEPT ![i] = 0]
  /\ proc' = [proc EXCEPT ![i] = [pc |-> "check", next |-> @.next + 1]]
  /\ UNCHANGED deaths

Exit(i) == proc' = [proc EXCEPT ![i] = Down] /\ inserting' = [inserting EXCEPT ![i] = 0]

(* The record is there already: the migration fails, and the instance ends. *)
Loses(i) ==
  /\ Sits(i, "insert") /\ proc[i].next \in versions
  /\ Exit(i)
  /\ UNCHANGED <<schema, versions, deaths>>

(* The process dies, or an error of the database ends it. *)
Dies(i) ==
  /\ deaths < MaxDeaths /\ ~Sits(i, "down")
  /\ deaths' = deaths + 1
  /\ Exit(i)
  /\ UNCHANGED <<schema, versions>>

MigrateNext ==
  \E i \in Instances :
    \/ Launch(i) \/ Check(i) \/ RunFile(i) \/ InsertVersion(i) \/ Commit(i)
    \/ Loses(i) \/ Dies(i)

MigrateSpec == MigrateInit /\ [][MigrateNext]_migrateVars

-----------------------------------------------------------------------------
(* Properties *)

MigrateTypeOK ==
  /\ \A i \in Instances :
       /\ proc[i].pc \in {"down", "check", "run", "insert", "commit", "serving"}
       /\ proc[i].next \in 1..Migrations + 1
  /\ schema \in [1..Migrations -> Nat] /\ versions \subseteq 1..Migrations
  /\ inserting \in [Instances -> 0..Migrations]
  /\ deaths \in 0..MaxDeaths

(* "Recorded in schema_migrations so it is applied at most once" (db.go:54):  *)
(* whichever instances start together or die half way, a migration has been  *)
(* run once if it is recorded and never otherwise, none without the ones      *)
(* before it, and whoever serves has all of them.                             *)
SchemaIsWhole ==
  /\ \A m \in 1..Migrations : schema[m] = IF m \in versions THEN 1 ELSE 0
  /\ \A m \in versions : 1..m \subseteq versions
  /\ (\E i \in Instances : Sits(i, "serving")) => versions = 1..Migrations
=============================================================================
