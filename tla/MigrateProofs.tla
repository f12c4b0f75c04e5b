---------------------------- MODULE MigrateProofs -----------------------------
(***************************************************************************)
(* The schema is whole for any number of instances, migrations and deaths.  *)
(*                                                                         *)
(* SchemaIsWhole is not inductive: that a commit runs its migration for the *)
(* first time rests on what inserting the version has established, and kept *)
(* since: nobody else is about to commit it, and it is not recorded.        *)
(***************************************************************************)
EXTENDS Migrate, TLAPS

Stages == {"down", "check", "run", "insert", "commit", "serving"}

MigrateShape ==
  /\ proc \in [Instances -> [pc : Stages, next : 1..Migrations + 1]]
  /\ schema \in [1..Migrations -> Nat] /\ versions \subseteq 1..Migrations
  /\ inserting \in [Instances -> 0..Migrations]
  /\ deaths \in 0..MaxDeaths

(* A migration counts once if it is recorded, and none is recorded without   *)
(* the ones before it.                                                       *)
Once   == \A m \in 1..Migrations : schema[m] = IF m \in versions THEN 1 ELSE 0
Prefix == \A m \in versions : 1..m \subseteq versions

(* An instance is past what is recorded, and at a migration there is. *)
Past ==
  \A i \in Instances :
    /\ 1..proc[i].next - 1 \subseteq versions
    /\ proc[i].pc \in {"run", "insert", "commit"} => proc[i].next <= Migrations
    /\ proc[i].pc = "serving" => proc[i].next = Migrations + 1

(* Whoever is about to commit is the only one to commit that version. *)
Alone ==
  \A i \in Instances :
    proc[i].pc = "commit" =>
      /\ inserting[i] = proc[i].next /\ proc[i].next \notin versions
      /\ \A j \in Instances \ {i} : proc[j].pc = "commit" => inserting[j] # inserting[i]

MigrateInv == MigrateShape /\ Once /\ Prefix /\ Past /\ Alone

LEMMA MigrateInitially == MigrateInit => MigrateInv
  BY MigrateAssumption
  DEF MigrateInit, MigrateInv, MigrateShape, Once, Prefix, Past, Alone, Stages, Down

LEMMA LaunchKeeps == ASSUME MigrateInv, NEW i \in Instances, Launch(i) PROVE MigrateInv'
<1> USE MigrateAssumption DEF MigrateInv, MigrateShape, Stages
<1>1. MigrateShape'
  BY DEF Launch, Sits, To
<1>2. Once' /\ Prefix'
  BY DEF Launch, Once, Prefix
<1>3. Past'
  BY DEF Launch, Sits, To, Past
<1>4. Alone'
  BY DEF Launch, Sits, To, Alone
<1> QED BY <1>1, <1>2, <1>3, <1>4

LEMMA CheckKeeps == ASSUME MigrateInv, NEW i \in Instances, Check(i) PROVE MigrateInv'
<1> USE MigrateAssumption DEF MigrateInv, MigrateShape, Stages
<1>1. MigrateShape'
  <2>1. CASE proc[i].next > Migrations
    BY <2>1, ZenonT(40) DEF Check, Sits, To
  <2>2. CASE ~(proc[i].next > Migrations) /\ migrationApplied(proc[i].next)
    <3>1. proc[i].next + 1 \in 1..Migrations + 1
      BY <2>2
    <3> QED BY <2>2, <3>1, ZenonT(40) DEF Check
  <2>3. CASE ~(proc[i].next > Migrations) /\ ~migrationApplied(proc[i].next)
    BY <2>3, ZenonT(40) DEF Check, Sits, To
  <2> QED BY <2>1, <2>2, <2>3
<1>2. Once' /\ Prefix'
  BY DEF Check, Once, Prefix
<1>3. Past'
  BY SMTT(30) DEF Check, Sits, To, migrationApplied, Past
<1>4. Alone'
  <2>1. proc'[i].pc # "commit" /\ \A j \in Instances \ {i} : proc'[j] = proc[j]
    BY DEF Check, Sits, To, migrationApplied
  <2>2. inserting' = inserting /\ versions' = versions
    BY DEF Check
  <2> QED BY <2>1, <2>2 DEF Alone
<1> QED BY <1>1, <1>2, <1>3, <1>4

LEMMA RunFileKeeps == ASSUME MigrateInv, NEW i \in Instances, RunFile(i) PROVE MigrateInv'
  BY MigrateAssumption
  DEF MigrateInv, MigrateShape, Once, Prefix, Past, Alone, Stages, RunFile, InTransaction, Sits, To

LEMMA InsertVersionKeeps ==
  ASSUME MigrateInv, NEW i \in Instances, InsertVersion(i) PROVE MigrateInv'
<1> USE MigrateAssumption DEF MigrateInv, MigrateShape, Stages
<1>1. MigrateShape'
  BY DEF InsertVersion, Sits, To, Past
<1>2. Once' /\ Prefix'
  BY DEF InsertVersion, Once, Prefix
<1>3. Past'
  BY DEF InsertVersion, Sits, To, Past
<1>4. Alone'
  BY DEF InsertVersion, Sits, To, Alone, Past
<1> QED BY <1>1, <1>2, <1>3, <1>4

LEMMA CommitKeeps == ASSUME MigrateInv, NEW i \in Instances, Commit(i) PROVE MigrateInv'
<1> USE MigrateAssumption DEF MigrateInv, MigrateShape, Stages
<1> DEFINE m == proc[i].next
<1>1. m \in 1..Migrations /\ m \notin versions /\ inserting[i] = m
  BY DEF Commit, Sits, Past, Alone
<1>2. versions' = versions \cup {m} /\ 1..m - 1 \subseteq versions
  BY <1>1 DEF Commit, Past
<1>3. MigrateShape'
  <2>1. [pc |-> "check", next |-> m + 1] \in [pc : Stages, next : 1..Migrations + 1]
    BY <1>1
  <2>2. proc' \in [Instances -> [pc : Stages, next : 1..Migrations + 1]]
    BY <2>1 DEF Commit
  <2>3. schema' \in [1..Migrations -> Nat]
    BY <1>1 DEF Commit
  <2>4. versions' \subseteq 1..Migrations
    BY <1>1, <1>2
  <2>5. inserting' \in [Instances -> 0..Migrations]
    BY DEF Commit
  <2>6. deaths' \in 0..MaxDeaths
    BY DEF Commit
  <2> QED BY <2>2, <2>3, <2>4, <2>5, <2>6
<1>4. Once'
  <2>1. \A n \in 1..Migrations : schema'[n] = IF n = m THEN schema[n] + 1 ELSE schema[n]
    BY DEF Commit
  <2> QED BY <1>1, <1>2, <2>1 DEF Once
<1>5. Prefix'
  <2>1. 1..m \subseteq versions \cup {m}
    BY <1>1, <1>2
  <2> QED BY <1>2, <2>1 DEF Prefix
<1>6. Past'
  <2>1. ASSUME NEW j \in Instances, j # i
        PROVE proc'[j] = proc[j]
    BY <2>1 DEF Commit
  <2>2. proc'[i] = [pc |-> "check", next |-> m + 1]
    BY DEF Commit
  <2>3. 1..(m + 1) - 1 \subseteq versions'
    BY <1>1, <1>2
  <2>4. SUFFICES ASSUME NEW j \in Instances
        PROVE /\ 1..proc'[j].next - 1 \subseteq versions'
              /\ proc'[j].pc \in {"run", "insert", "commit"} => proc'[j].next <= Migrations
              /\ proc'[j].pc = "serving" => proc'[j].next = Migrations + 1
    BY DEF Past
  <2>5. CASE j = i
    BY <2>2, <2>3, <2>5
  <2>6. CASE j # i
    BY <1>2, <2>1, <2>6 DEF Past
  <2> QED BY <2>5, <2>6
<1>7. Alone'
  BY <1>1, <1>2 DEF Commit, Sits, Alone
<1> QED BY <1>3, <1>4, <1>5, <1>6, <1>7

LEMMA ExitKeeps ==
  ASSUME MigrateInv, NEW i \in Instances, Exit(i), UNCHANGED <<schema, versions>>,
         deaths' \in 0..MaxDeaths
  PROVE MigrateInv'
<1> USE MigrateAssumption DEF MigrateInv, MigrateShape, Stages
<1>1. MigrateShape'
  BY DEF Exit, Down
<1>2. Once' /\ Prefix'
  BY DEF Once, Prefix
<1>3. Past'
  BY DEF Exit, Down, Past
<1>4. Alone'
  BY DEF Exit, Down, Alone
<1> QED BY <1>1, <1>2, <1>3, <1>4

LEMMA MigrateInductive == MigrateInv /\ [MigrateNext]_migrateVars => MigrateInv'
<1> SUFFICES ASSUME MigrateInv, [MigrateNext]_migrateVars PROVE MigrateInv'
  OBVIOUS
<1>1. CASE UNCHANGED migrateVars
  BY <1>1 DEF migrateVars, MigrateInv, MigrateShape, Once, Prefix, Past, Alone
<1>2. ASSUME NEW i \in Instances,
             \/ Launch(i) \/ Check(i) \/ RunFile(i) \/ InsertVersion(i)
             \/ Commit(i) \/ Loses(i) \/ Dies(i)
      PROVE  MigrateInv'
  <2>1. CASE Loses(i)
    BY <2>1, ExitKeeps DEF Loses, MigrateInv, MigrateShape
  <2>2. CASE Dies(i)
    <3>1. deaths' \in 0..MaxDeaths
      BY <2>2, MigrateAssumption DEF Dies, MigrateInv, MigrateShape
    <3> QED BY <2>2, <3>1, ExitKeeps DEF Dies
  <2> QED
    BY <1>2, <2>1, <2>2, LaunchKeeps, CheckKeeps, RunFileKeeps,
       InsertVersionKeeps, CommitKeeps
<1> QED BY <1>1, <1>2 DEF MigrateNext

LEMMA MigrateInvHolds == MigrateSpec => []MigrateInv
<1> QED BY MigrateInitially, MigrateInductive, PTL DEF MigrateSpec

(* Type correctness of the migrations (db.go:56). *)
THEOREM MigrationTypes == MigrateSpec => []MigrateTypeOK
<1>1. MigrateInv => MigrateTypeOK
  BY DEF MigrateInv, MigrateShape, Stages, MigrateTypeOK
<1> QED BY <1>1, MigrateInvHolds, PTL

(* However many instances start together or die half way, every migration    *)
(* takes effect exactly once, in order, and before anybody serves.           *)
THEOREM SchemaStaysWhole == MigrateSpec => []SchemaIsWhole
<1>1. MigrateInv => SchemaIsWhole
  <2> SUFFICES ASSUME MigrateInv PROVE SchemaIsWhole
    OBVIOUS
  <2>1. ASSUME NEW i \in Instances, Sits(i, "serving")
        PROVE versions = 1..Migrations
    <3>1. proc[i].next = Migrations + 1 /\ 1..proc[i].next - 1 \subseteq versions
      BY <2>1 DEF Sits, MigrateInv, Past
    <3>2. (Migrations + 1) - 1 = Migrations
      BY MigrateAssumption
    <3> QED BY <3>1, <3>2 DEF MigrateInv, MigrateShape
  <2> QED BY <2>1 DEF MigrateInv, Once, Prefix, SchemaIsWhole
<1> QED BY <1>1, MigrateInvHolds, PTL
=============================================================================
