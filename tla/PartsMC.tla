-------------------------------- MODULE PartsMC -------------------------------
(***************************************************************************)
(* The parts of the program that share no state with the sync pollers, on   *)
(* small instances.  They share none with each other either, so one run      *)
(* explores them side by side: the initial state picks the part, and only    *)
(* that part moves.                                                          *)
(***************************************************************************)
EXTENDS Pagination, FilloutClient, Allowlist, AuthFlow, KeyCache, TransformMC, Migrate, TLC

CONSTANTS r1, r2, admin, author, other, t1, t2, u1, u2, c1, c2, c3, v1, v2, k1, k2, i1, i2, i3

(* Two submissions in one second, before and after the overlap. *)
Times == <<1, 2, 2, 5, 6>>

PageOf == admin :> 1 @@ author :> 1 @@ other :> 2

IDToken(k, exp) ==
  [kid |-> k, rs256 |-> TRUE, forged |-> FALSE, iss |-> "ours", aud |-> {"us", "them"},
   exp |-> exp, iat |-> 12, nonce |-> "n", expect |-> "n"]
IDTokens == {IDToken(k1, 10), IDToken(k2, 10), IDToken(k1, 9)}

(* Requests of a browser and users are interchangeable. *)
Alike == Permutations(Tabs) \cup Permutations(Users)

VARIABLE part

PartsVars == <<part, pagingVars, clientVars, allowVars, authVars, keyVars,
               transformVars, migrateVars>>

Parts == {"paging", "client", "allowlist", "login", "keys", "transform", "migrate"}

(* What the parts start from; those that do not move start in one way. *)
PartsInit ==
  /\ part \in Parts
  /\ PagingInit /\ ClientInit /\ AllowInit /\ AuthInit /\ KeyInit
  /\ TransformInit /\ MigrateInit
  /\ part # "paging" => posted = {}
  /\ part # "allowlist" => table = {}
  /\ part # "login" => admitted = {}
  /\ part # "keys" => published = Kids

OnlyMoves(p) ==
  /\ UNCHANGED part
  /\ p # "paging"    => UNCHANGED pagingVars
  /\ p # "client"    => UNCHANGED clientVars
  /\ p # "allowlist" => UNCHANGED allowVars
  /\ p # "login"     => UNCHANGED authVars
  /\ p # "keys"      => UNCHANGED keyVars
  /\ p # "transform" => UNCHANGED transformVars
  /\ p # "migrate"   => UNCHANGED migrateVars

PartsNext ==
  \/ part = "paging"    /\ PagingNext    /\ OnlyMoves("paging")
  \/ part = "client"    /\ ClientNext    /\ OnlyMoves("client")
  \/ part = "allowlist" /\ AllowNext     /\ OnlyMoves("allowlist")
  \/ part = "login"     /\ AuthNext      /\ OnlyMoves("login")
  \/ part = "keys"      /\ KeyNext       /\ OnlyMoves("keys")
  \/ part = "transform" /\ TransformNext /\ OnlyMoves("transform")
  \/ part = "migrate"   /\ MigrateNext   /\ OnlyMoves("migrate")

PartsSpec == PartsInit /\ [][PartsNext]_PartsVars

(* Every part's variables stay in their types. *)
PartsTypeOK ==
  /\ PagingTypeOK /\ ClientTypeOK /\ AllowTypeOK /\ AuthTypeOK /\ KeyTypeOK
  /\ TransformTypeOK /\ MigrateTypeOK
=============================================================================
