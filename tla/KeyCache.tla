------------------------------- MODULE KeyCache -------------------------------
(***************************************************************************)
(* Verifying ID tokens: hcauth/jwks.go and hcauth/idtoken.go.  The client is *)
(* safe for concurrent use: the cache of the provider's signing keys is read *)
(* and replaced under a mutex, but fetched outside it, so that fetches of    *)
(* several verifications overlap and land in any order.                      *)
(*                                                                         *)
(* External: the provider publishes new keys and retires old ones.           *)
(***************************************************************************)
EXTENDS Integers

CONSTANTS
  Verifiers,   \* goroutines that verify a token each
  Kids,        \* key ids
  Tokens,      \* the tokens they are given, parsed
  Moment,      \* the time of the verification, in minutes
  Skew,        \* clockSkew (2 min)
  MaxRotations \* bound: changes of the published set

ASSUME KeyCacheAssumption ==
  /\ \A t \in Tokens : t.kid \in Kids
  /\ {Skew, MaxRotations} \subseteq Nat

VARIABLES
  published,   \* the keys the provider serves
  rotations,
  jwksCache,
  vf,          \* per verifier: where it is, its token, the key set it fetched
  verdict,     \* per verifier: how its last verification ended
  \* history, per verifier, of the lookup under way
  steady,      \* its key has been published since the lookup began
  crossed      \* then a response without that key was on its way to another

keyVars == <<published, rotations, jwksCache, vf, verdict, steady, crossed>>

NotNow == [pc |-> "idle"]
Reach(v, pc) == vf[v].pc = pc
Ends(v, how) ==
  /\ vf' = [vf EXCEPT ![v] = NotNow]
  /\ verdict' = [verdict EXCEPT ![v] = how]

KeyInit ==
  /\ published \in SUBSET Kids \ {{}} /\ rotations = 0
  /\ jwksCache = {}
  /\ vf = [v \in Verifiers |-> NotNow]
  /\ verdict = [v \in Verifiers |-> "none"]
  /\ steady = [v \in Verifiers |-> FALSE] /\ crossed = [v \in Verifiers |-> FALSE]

Rotate ==
  /\ rotations < MaxRotations /\ rotations' = rotations + 1
  /\ published' \in SUBSET Kids \ {{}}
  /\ steady' = [v \in Verifiers |->
                  steady[v] /\ ~Reach(v, "idle") /\ vf[v].token.kid \in published']
  /\ UNCHANGED <<jwksCache, vf, verdict, crossed>>

(* VerifyIDToken once it has the key, in the order of its checks. *)
Claims(t) ==
  CASE t.forged                       -> "signature"
    [] t.iss # "ours"                 -> "issuer"
    [] "us" \notin t.aud              -> "audience"
    [] t.exp = 0                      -> "no exp"
    [] Moment > t.exp + Skew          -> "expired"
    [] t.iat # 0 /\ t.iat > Moment + Skew -> "issued in the future"
    [] t.expect # "" /\ t.nonce # t.expect -> "nonce"
    [] OTHER                          -> "accepted"

(* Mutant: a cache that has been filled once is final. *)
FetchIfEmpty(v, t) ==
  IF t.kid \in jwksCache THEN Ends(v, Claims(t))
  ELSE IF jwksCache # {} THEN Ends(v, "unknown key")
  ELSE vf' = [vf EXCEPT ![v] = [pc |-> "fetch", token |-> t, keys |-> {}]] /\ UNCHANGED verdict

(* publicKey: a cached key is used, any other makes it fetch the set. *)
FetchIfUnknown(v, t) ==
  IF t.kid \in jwksCache THEN Ends(v, Claims(t))
  ELSE vf' = [vf EXCEPT ![v] = [pc |-> "fetch", token |-> t, keys |-> {}]] /\ UNCHANGED verdict

Verify(v, t) ==
  /\ Reach(v, "idle")
  /\ IF t.rs256
       THEN FetchIfUnknown(v, t)
       ELSE Ends(v, "algorithm")
  /\ steady' = [steady EXCEPT ![v] = t.kid \in published]
  /\ crossed' = [crossed EXCEPT ![v] =
       \E w \in Verifiers \ {v} : Reach(w, "store") /\ t.kid \notin vf[w].keys]
  /\ UNCHANGED <<published, rotations, jwksCache>>

(* refreshJWKS: the provider answers with the keys of this moment, *)
Served(v) ==
  /\ Reach(v, "fetch")
  /\ vf' = [vf EXCEPT ![v].pc = "store", ![v].keys = published]
  /\ UNCHANGED <<published, rotations, jwksCache, verdict, steady, crossed>>

(* or the fetch fails, or there is no usable key in the answer. *)
Unserved(v) ==
  /\ vf[v].pc \in {"fetch", "store"}
  /\ Ends(v, "fetch failed")
  /\ UNCHANGED <<published, rotations, jwksCache, steady, crossed>>

(* The response, when it comes, replaces the whole cache. *)
Store(v) ==
  /\ Reach(v, "store")
  /\ jwksCache' = vf[v].keys
  /\ vf' = [vf EXCEPT ![v].pc = "recheck"]
  /\ UNCHANGED <<published, rotations, verdict, steady, crossed>>

Recheck(v) ==
  /\ Reach(v, "recheck")
  /\ LET t == vf[v].token
     IN  Ends(v, IF t.kid \in jwksCache THEN Claims(t) ELSE "unknown key")
  /\ UNCHANGED <<published, rotations, jwksCache, steady, crossed>>

KeyNext ==
  \/ Rotate
  \/ \E v \in Verifiers :
       \/ \E t \in Tokens : Verify(v, t)
       \/ Served(v) \/ Unserved(v) \/ Store(v) \/ Recheck(v)

KeySpec == KeyInit /\ [][KeyNext]_keyVars

-----------------------------------------------------------------------------
(* Properties *)

KeyTypeOK ==
  /\ published \cup jwksCache \subseteq Kids
  /\ \A v \in Verifiers :
       /\ vf[v].pc \in {"idle", "fetch", "store", "recheck"}
       /\ ~Reach(v, "idle") => vf[v].token \in Tokens /\ vf[v].keys \subseteq Kids
       /\ steady[v] \in BOOLEAN /\ crossed[v] \in BOOLEAN

(* "Re-fetching once if the key is not already cached ... covers key         *)
(* rotation" (jwks.go:29): a key that is published all along is found,       *)
(* unless the fetch fails.  The code keeps this but for one race: a response *)
(* from before the key was published, on its way to another verification     *)
(* when this one began, may replace the cache between its two looks.         *)
PublishedKeyIsFound ==
  \A v \in Verifiers : verdict[v] = "unknown key" /\ Reach(v, "idle") /\ steady[v] => crossed[v]
=============================================================================
