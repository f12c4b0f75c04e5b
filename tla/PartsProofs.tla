------------------------------ MODULE PartsProofs ------------------------------
(***************************************************************************)
(* The run that explores the parts side by side says of each part what a    *)
(* run of its own would: the composition implements the specification of     *)
(* every part, whatever the values of their constants.  So what is proved of *)
(* a part holds of the composition.                                          *)
(***************************************************************************)
EXTENDS PartsMC, LoginProofs, MigrateProofs, SubmissionProofs, TLAPS

(* A step of the composition is one of a part, and the others stutter.        *)
LEMMA PartsMoveAlone ==
  ASSUME [PartsNext]_PartsVars
  PROVE  /\ [PagingNext]_pagingVars /\ [ClientNext]_clientVars /\ [AllowNext]_allowVars
         /\ [AuthNext]_authVars /\ [KeyNext]_keyVars /\ [TransformNext]_transformVars
         /\ [MigrateNext]_migrateVars
<1>1. CASE UNCHANGED PartsVars
  BY <1>1 DEF PartsVars
<1>2. CASE part = "paging" /\ PagingNext /\ OnlyMoves("paging")
  BY <1>2 DEF OnlyMoves
<1>3. CASE part = "client" /\ ClientNext /\ OnlyMoves("client")
  BY <1>3 DEF OnlyMoves
<1>4. CASE part = "allowlist" /\ AllowNext /\ OnlyMoves("allowlist")
  BY <1>4 DEF OnlyMoves
<1>5. CASE part = "login" /\ AuthNext /\ OnlyMoves("login")
  BY <1>5 DEF OnlyMoves
<1>6. CASE part = "keys" /\ KeyNext /\ OnlyMoves("keys")
  BY <1>6 DEF OnlyMoves
<1>7. CASE part = "transform" /\ TransformNext /\ OnlyMoves("transform")
  BY <1>7 DEF OnlyMoves
<1>8. CASE part = "migrate" /\ MigrateNext /\ OnlyMoves("migrate")
  BY <1>8 DEF OnlyMoves
<1> QED BY <1>1, <1>2, <1>3, <1>4, <1>5, <1>6, <1>7, <1>8 DEF PartsNext

(* Every behaviour of the composition is one of each part.                    *)
THEOREM PartsImplementTheirSpecs ==
  PartsSpec => /\ PagingSpec /\ ClientSpec /\ AllowSpec /\ AuthSpec /\ KeySpec
               /\ TransformSpec /\ MigrateSpec
<1>1. PartsInit => /\ PagingInit /\ ClientInit /\ AllowInit /\ AuthInit /\ KeyInit
                   /\ TransformInit /\ MigrateInit
  BY DEF PartsInit
<1>2. [PartsNext]_PartsVars =>
        /\ [PagingNext]_pagingVars /\ [ClientNext]_clientVars /\ [AllowNext]_allowVars
        /\ [AuthNext]_authVars /\ [KeyNext]_keyVars /\ [TransformNext]_transformVars
        /\ [MigrateNext]_migrateVars
  BY PartsMoveAlone
<1> QED BY <1>1, <1>2, PTL
        DEF PartsSpec, PagingSpec, ClientSpec, AllowSpec, AuthSpec, KeySpec, TransformSpec,
            MigrateSpec

(* Every part's variables stay in their types.                                *)
THEOREM PartsTypes == PartsSpec => []PartsTypeOK
<1>1. /\ PagingTypeOK /\ ClientTypeOK /\ AllowTypeOK /\ AuthTypeOK /\ KeyTypeOK
      /\ TransformTypeOK /\ MigrateTypeOK
      => PartsTypeOK
  BY DEF PartsTypeOK
<1> QED BY <1>1, PartsImplementTheirSpecs, PagingTypes, ClientTypes, AllowTypes, AuthTypes,
           KeyTypes, TransformTypes, MigrationTypes, PTL

(* Whatever the run `parts` checks of a part holds of the composition.        *)
THEOREM PartsKeepTheirPromises ==
  ASSUME Headroom
  PROVE  PartsSpec => /\ []CacheIsRecent /\ []FetchesAreSpaced
                      /\ []SessionWasEarned /\ []ActsAsShown
                      /\ []PublishedKeyIsFound /\ []SchemaIsWhole
                      /\ []WindowRespected /\ []RetryWaitsOutTheSecond
                      /\ []BatchHasNoRepeats /\ []MissedWasLateOrShifted
                      /\ []OnlyUnfitAnswersAreDropped /\ []StampsFindTheirRecords
BY PartsImplementTheirSpecs, CacheStaysRecent, FetchesKeepTheirDistance, SessionsAreEarned,
   FormsActForWhomTheyShow, OnlyLateResponsesHideAKey, SchemaStaysWhole, WindowIsRespected,
   RetriesAreSpaced, BatchesHaveNoRepeats, MissedIsAccountedFor, AnswersAreKept, RecordsAreFound,
   PTL
=============================================================================
