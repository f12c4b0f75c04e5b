------------------------------ MODULE LoginProofs -----------------------------
(***************************************************************************)
(* What stands between a browser and the dashboard, for any number of tabs,  *)
(* users, addresses and keys: the author list, the login and the sessions,   *)
(* the keys that identity tokens are checked with.                           *)
(***************************************************************************)
EXTENDS Allowlist, AuthFlow, KeyCache, TLAPS

-----------------------------------------------------------------------------
(***************************************************************************)
(* How recent the author list is and how often it is fetched, for any number *)
(* of requests and addresses, any lifetimes and any pace of the table.       *)
(***************************************************************************)

Moments == Never..MaxTime

AllowShape ==
  /\ now \in 0..MaxTime /\ edits \in 0..MaxEdits
  /\ table \subseteq Emails \ Static /\ cache \subseteq Emails \ Static
  /\ got \subseteq Emails \ Static
  /\ cached \in BOOLEAN /\ failing \in BOOLEAN
  /\ validUntil \in Nat /\ began \in Nat /\ page \in Nat \ {0}
  /\ mu \in Requests \cup {NoOne}
  /\ DOMAIN ask = Requests
  /\ mu # NoOne => Asked(mu) /\ ask[mu].email \notin Static
  /\ \A r \in Requests : /\ ask[r].pc \in {"none", "asked", "told"}
                         /\ Asked(r) => ask[r].email \in Emails
  /\ lastIn \in [Emails -> Moments] /\ lastOut \in [Emails -> Moments]
  /\ goodStart \in Moments /\ lastEnd \in Moments

(* Whoever is in the table is so now; whoever is not is out of it now. *)
Seen ==
  \A e \in Emails :
    /\ lastIn[e] <= now /\ lastOut[e] <= now
    /\ e \in table => lastIn[e] = now
    /\ e \notin table => lastOut[e] = now

(* What a set of addresses, read since a moment, says of the addresses on the *)
(* pages read.                                                               *)
Reads(set, since, upTo) ==
  \A e \in Emails \ Static :
    /\ e \in set => lastIn[e] >= since
    /\ e \notin set /\ TablePage[e] < upTo => lastOut[e] >= since

(* A fetch has read the pages so far, and is not too old. *)
Fetching ==
  mu # NoOne =>
    /\ began <= now /\ now <= began + FetchTimeout
    /\ Reads(got, began, page)

(* The cache stems from the last fetch that succeeded. *)
Cached ==
  /\ goodStart # Never =>
       \A e \in Emails \ Static : /\ e \in cache => lastIn[e] >= goodStart
                                  /\ e \notin cache => lastOut[e] >= goodStart
  /\ goodStart = Never => cache = {}
  /\ cached /\ ~failing => validUntil <= goodStart + FetchTimeout + TTL
  /\ cached /\ ~failing => goodStart # Never

(* Whatever ended a fetch left a cache that is valid for a while. *)
Spaced ==
  /\ lastEnd # Never => cached /\ validUntil >= lastEnd + ErrTTL
  /\ FetchesAreSpaced

AllowInv == AllowShape /\ Seen /\ Fetching /\ Cached /\ Spaced

LEMMA AllowInitially == AllowInit => AllowInv
<1> SUFFICES ASSUME AllowInit PROVE AllowInv
  OBVIOUS
<1> USE AllowlistAssumption DEF AllowInit
<1>1. AllowShape
  <2>1. /\ now \in 0..MaxTime /\ edits \in 0..MaxEdits
        /\ table \subseteq Emails \ Static /\ cache \subseteq Emails \ Static
        /\ got \subseteq Emails \ Static
    OBVIOUS
  <2>2. validUntil \in Nat /\ began \in Nat /\ page \in Nat \ {0}
    BY ONLY AllowInit DEF AllowInit
  <2>3. /\ cached \in BOOLEAN /\ failing \in BOOLEAN
        /\ mu \in Requests \cup {NoOne} /\ ~(mu # NoOne) /\ DOMAIN ask = Requests
    OBVIOUS
  <2>4. \A r \in Requests : ask[r].pc \in {"none", "asked", "told"} /\ ~Asked(r)
    BY DEF Asked
  <2>5. Never \in Moments
    BY DEF Moments, Never
  <2>6. /\ goodStart \in Moments /\ lastEnd \in Moments
        /\ lastIn \in [Emails -> Moments] /\ lastOut \in [Emails -> Moments]
    BY <2>5 DEF Moments, Never
  <2> QED BY ONLY <2>1, <2>2, <2>3, <2>4, <2>6 DEF AllowShape
<1>2. Seen
  BY DEF Seen, Never
<1>3. Fetching /\ Cached /\ Spaced
  BY DEF Fetching, Cached, Spaced, FetchesAreSpaced
<1> QED BY <1>1, <1>2, <1>3 DEF AllowInv

(* What the cache and a fetch rest on only gets more recent. *)
LEMMA GrowingHistoryKeeps ==
  ASSUME AllowInv, AllowShape', now <= now', mu # NoOne => now' <= began + FetchTimeout,
         UNCHANGED <<cacheVars, fetch, record>>,
         \A e \in Emails : lastIn'[e] >= lastIn[e] /\ lastOut'[e] >= lastOut[e]
  PROVE  Fetching' /\ Cached' /\ Spaced'
<1> USE DEF AllowInv, cacheVars, fetch, record
<1>1. \A e \in Emails : /\ lastIn[e] \in Int /\ lastIn'[e] \in Int
                        /\ lastOut[e] \in Int /\ lastOut'[e] \in Int
  BY AllowlistAssumption DEF AllowShape, Moments, Never
<1>2. began \in Int /\ now \in Int /\ now' \in Int /\ goodStart \in Int
  BY AllowlistAssumption DEF AllowShape, Moments, Never
<1>3. Fetching'
  BY <1>1, <1>2 DEF Fetching, Reads
<1>4. Cached'
  BY <1>1, <1>2 DEF Cached
<1>5. Spaced'
  BY DEF Spaced, FetchesAreSpaced
<1> QED BY <1>3, <1>4, <1>5

LEMMA TickKeeps == ASSUME AllowInv, Tick PROVE AllowInv'
<1> USE DEF AllowInv
<1>1. /\ now' = now + 1 /\ now \in 0..MaxTime /\ now' \in 0..MaxTime
      /\ mu # NoOne => now < began + FetchTimeout
      /\ UNCHANGED <<table, edits, cacheVars, fetch, ask, record>>
  BY AllowlistAssumption DEF Tick, AllowShape
<1>2. ASSUME NEW e \in Emails
      PROVE  /\ lastIn'[e] = IF e \in table THEN now' ELSE lastIn[e]
             /\ lastOut'[e] = IF e \in table THEN lastOut[e] ELSE now'
             /\ lastIn[e] \in Moments /\ lastOut[e] \in Moments
  BY DEF Tick, AllowShape
<1>3. \A e \in Emails : lastIn'[e] >= lastIn[e] /\ lastOut'[e] >= lastOut[e]
  BY <1>1, <1>2, AllowlistAssumption DEF Seen, Moments, Never
<1>4. AllowShape'
  <2>1. lastIn' \in [Emails -> Moments] /\ lastOut' \in [Emails -> Moments]
    BY <1>1, <1>2, AllowlistAssumption DEF Tick, Moments, Never
  <2> QED BY <1>1, <2>1 DEF AllowShape, Asked, cacheVars, fetch, record
<1>5. Seen'
  BY <1>1, <1>2, AllowlistAssumption DEF Seen, Moments, Never
<1>6. Fetching' /\ Cached' /\ Spaced'
  <2>1. mu # NoOne => now' <= began + FetchTimeout
    BY <1>1, AllowlistAssumption DEF AllowShape
  <2> QED BY <1>1, <1>3, <1>4, <2>1, GrowingHistoryKeeps
<1> QED BY <1>4, <1>5, <1>6

LEMMA EditTableKeeps == ASSUME AllowInv, NEW e \in Emails, EditTable(e) PROVE AllowInv'
<1> USE DEF AllowInv
<1>1. /\ now \in 0..MaxTime /\ edits' \in 0..MaxEdits /\ e \notin Static
      /\ table' = IF e \in table THEN table \ {e} ELSE table \cup {e}
      /\ UNCHANGED <<now, cacheVars, fetch, ask, record>>
  BY AllowlistAssumption DEF EditTable, AllowShape
<1>2. ASSUME NEW f \in Emails
      PROVE  /\ lastIn'[f] = IF f = e THEN now ELSE lastIn[f]
             /\ lastOut'[f] = IF f = e THEN now ELSE lastOut[f]
             /\ lastIn[f] \in Moments /\ lastOut[f] \in Moments
  BY DEF EditTable, AllowShape
<1>3. \A f \in Emails : lastIn'[f] >= lastIn[f] /\ lastOut'[f] >= lastOut[f]
  BY <1>1, <1>2, AllowlistAssumption DEF Seen, Moments, Never
<1>4. AllowShape'
  <2>1. lastIn' \in [Emails -> Moments] /\ lastOut' \in [Emails -> Moments]
    BY <1>1, AllowlistAssumption DEF EditTable, AllowShape, Moments, Never
  <2> QED BY <1>1, <2>1 DEF AllowShape, Asked, cacheVars, fetch, record
<1>5. Seen'
  BY <1>1, <1>2 DEF Seen
<1>6. Fetching' /\ Cached' /\ Spaced'
  BY <1>1, <1>3, <1>4, GrowingHistoryKeeps DEF Fetching
<1> QED BY <1>4, <1>5, <1>6

(* A request that asks, or is answered without a fetch. *)
LEMMA AskingKeeps ==
  ASSUME AllowInv, NEW r \in Requests,
         \/ \E e \in Emails : Ask(r, e)
         \/ AnswerStatic(r) \/ AnswerCached(r)
  PROVE  AllowInv'
<1> USE AllowlistAssumption DEF AllowInv
<1>1. UNCHANGED <<now, origin, cacheVars, fetch, record>>
  BY DEF Ask, AnswerStatic, AnswerCached
<1>2. DOMAIN ask' = Requests /\ \A q \in Requests : q # r => ask'[q] = ask[q]
  BY DEF Ask, AnswerStatic, AnswerCached, Told, AllowShape
<1>3. ask'[r].pc \in {"asked", "told"} /\ (Asked(r)' => ask'[r].email \in Emails)
  BY DEF Ask, AnswerStatic, AnswerCached, Told, AllowShape, Asked
<1>4. r # mu
  BY DEF Ask, AnswerStatic, AnswerCached, Enters, AllowShape
<1>5. AllowShape'
  BY <1>1, <1>2, <1>3, <1>4 DEF AllowShape, Asked, origin, cacheVars, fetch, record
<1>6. Seen' /\ Fetching' /\ Cached' /\ Spaced'
  BY <1>1 DEF Seen, Fetching, Reads, Cached, Spaced, FetchesAreSpaced, origin,
              cacheVars, fetch, record
<1> QED BY <1>5, <1>6

LEMMA BeginFetchKeeps == ASSUME AllowInv, NEW r \in Requests, BeginFetch(r) PROVE AllowInv'
<1> USE AllowlistAssumption DEF AllowInv
<1>1. /\ mu' = r /\ began' = now /\ page' = 1 /\ got' = {} /\ r # NoOne
      /\ Asked(r) /\ ask[r].email \notin Static /\ ~Valid /\ mu = NoOne
      /\ UNCHANGED <<now, origin, cacheVars, ask, record>>
  BY DEF BeginFetch, Enters
<1>2. now \in Nat /\ validUntil \in Nat /\ lastEnd \in Int
  BY DEF AllowShape, Moments, Never
<1>3. AllowShape'
  BY <1>1, <1>2 DEF AllowShape, Asked, origin, cacheVars, record
<1>4. Seen' /\ Cached'
  BY <1>1 DEF Seen, Cached, origin, cacheVars, record
<1>5. Fetching'
  <2>1. \A e \in Emails : ~(TablePage[e] < 1)
    OBVIOUS
  <2> QED BY <1>1, <1>2, <2>1 DEF Fetching, Reads
<1>6. Spaced'
  BY <1>1, <1>2 DEF Spaced, FetchesAreSpaced, Valid, cacheVars, record
<1> QED BY <1>3, <1>4, <1>5, <1>6

LEMMA ReadPageKeeps == ASSUME AllowInv, ReadPage PROVE AllowInv'
<1> USE AllowlistAssumption DEF AllowInv
<1>1. /\ mu # NoOne /\ page' = page + 1
      /\ got' = got \cup {e \in table : TablePage[e] = page}
      /\ UNCHANGED <<now, origin, cacheVars, mu, began, ask, record>>
  BY DEF ReadPage
<1>2. AllowShape'
  BY <1>1 DEF AllowShape, Asked, origin, cacheVars, record
<1>3. Seen' /\ Cached' /\ Spaced'
  BY <1>1 DEF Seen, Cached, Spaced, FetchesAreSpaced, origin, cacheVars, record
<1>4. Fetching'
  <2>1. page \in Nat /\ began <= now
    BY <1>1 DEF AllowShape, Fetching
  <2>2. ASSUME NEW e \in Emails \ Static
        PROVE  /\ e \in got' => lastIn[e] >= began
               /\ e \notin got' /\ TablePage[e] < page + 1 => lastOut[e] >= began
    <3>1. TablePage[e] \in Nat
      OBVIOUS
    <3>2. CASE TablePage[e] = page
      BY <1>1, <2>1, <3>2 DEF Seen, Fetching, Reads
    <3>3. CASE TablePage[e] # page
      BY <1>1, <2>1, <3>1, <3>3 DEF Fetching, Reads
    <3> QED BY <3>2, <3>3
  <2> QED BY <1>1, <2>2 DEF Fetching, Reads, origin
<1> QED BY <1>2, <1>3, <1>4

(* The end of a fetch releases the mutex and answers the request. *)
LEMMA ReleaseKeepsShape ==
  ASSUME AllowInv, NEW ok, mu # NoOne, Told(mu, ok), Release, UNCHANGED <<now, origin>>,
         cache' \subseteq Emails \ Static, cached' \in BOOLEAN, failing' \in BOOLEAN,
         validUntil' \in Nat, goodStart' \in Moments, lastEnd' = now
  PROVE  AllowShape' /\ Seen' /\ Fetching'
<1> USE AllowlistAssumption DEF AllowInv, Told, Release, origin
<1>1. mu \in Requests /\ mu' = NoOne
  BY DEF AllowShape
<1>2. /\ DOMAIN ask' = Requests
      /\ \A q \in Requests : ask'[q] = IF q = mu THEN [pc |-> "told", ok |-> ok] ELSE ask[q]
  BY <1>1 DEF AllowShape
<1>3. AllowShape'
  BY <1>1, <1>2 DEF AllowShape, Asked, Moments, Never
<1> QED BY <1>1, <1>3 DEF Seen, Fetching

LEMMA FetchDoneKeeps == ASSUME AllowInv, FetchDone PROVE AllowInv'
<1> USE AllowlistAssumption DEF AllowInv
<1>1. /\ mu # NoOne /\ page \notin Pages /\ Told(mu, ask[mu].email \in got) /\ Release
      /\ cached' = TRUE /\ cache' = got /\ validUntil' = now + TTL
      /\ goodStart' = began /\ failing' = FALSE /\ lastEnd' = now
      /\ UNCHANGED <<now, origin>>
  BY DEF FetchDone
<1>2. now \in 0..MaxTime /\ began \in Nat /\ began <= now /\ now <= began + FetchTimeout
  BY <1>1 DEF AllowShape, Fetching
<1>3. AllowShape' /\ Seen' /\ Fetching'
  <2>1. got \subseteq Emails \ Static /\ now + TTL \in Nat /\ began \in Moments
    BY <1>2 DEF AllowShape, Moments, Never
  <2> QED BY <1>1, <2>1, ReleaseKeepsShape
<1>4. \A e \in Emails : TablePage[e] < page
  <2> SUFFICES ASSUME NEW e \in Emails, ~(TablePage[e] < page) PROVE FALSE
    OBVIOUS
  <2>1. page \in 1..TablePage[e]
    BY DEF AllowShape
  <2>2. PICK f \in Emails : TablePage[f] = page
    BY <2>1
  <2> QED BY <2>2, <1>1 DEF Pages
<1>5. Cached'
  <2>1. ASSUME NEW e \in Emails \ Static
        PROVE  /\ e \in got => lastIn[e] >= began
               /\ e \notin got => lastOut[e] >= began
    BY <1>1, <1>4 DEF Fetching, Reads
  <2>2. validUntil' <= began + FetchTimeout + TTL /\ began # Never
    BY <1>1, <1>2 DEF Never
  <2> QED BY <1>1, <2>1, <2>2 DEF Cached, origin
<1>6. Spaced'
  BY <1>1, <1>2 DEF Spaced, FetchesAreSpaced, Release
<1> QED BY <1>3, <1>5, <1>6

LEMMA FetchBreaksKeeps == ASSUME AllowInv, FetchBreaks PROVE AllowInv'
<1> USE AllowlistAssumption DEF AllowInv
<1>1. /\ mu # NoOne /\ Told(mu, ask[mu].email \in cache) /\ Release
      /\ cached' = TRUE /\ UNCHANGED cache /\ validUntil' = now + ErrTTL
      /\ failing' = TRUE /\ lastEnd' = now
      /\ UNCHANGED <<now, origin, goodStart>>
  BY DEF FetchBreaks, KeepLastGood
<1>2. now \in 0..MaxTime
  BY DEF AllowShape
<1>3. AllowShape' /\ Seen' /\ Fetching'
  <2>1. cache \subseteq Emails \ Static /\ now + ErrTTL \in Nat /\ goodStart \in Moments
    BY <1>2 DEF AllowShape
  <2> QED BY <1>1, <2>1, ReleaseKeepsShape
<1>4. Cached'
  BY <1>1 DEF Cached, origin
<1>5. Spaced'
  BY <1>1, <1>2 DEF Spaced, FetchesAreSpaced, Release
<1> QED BY <1>3, <1>4, <1>5

-----------------------------------------------------------------------------
LEMMA AllowInvHolds == AllowSpec => []AllowInv
<1>1. AllowInit => AllowInv
  BY AllowInitially
<1>2. AllowInv /\ [AllowNext]_allowVars => AllowInv'
  <2> SUFFICES ASSUME AllowInv, [AllowNext]_allowVars PROVE AllowInv'
    OBVIOUS
  <2>1. CASE UNCHANGED allowVars
    BY <2>1 DEF allowVars, origin, cacheVars, fetch, record, AllowInv, AllowShape, Asked, Seen,
                Fetching, Reads, Cached, Spaced, FetchesAreSpaced
  <2>2. ASSUME NEW e \in Emails, EditTable(e) PROVE AllowInv'
    BY <2>2, EditTableKeeps
  <2>3. ASSUME NEW r \in Requests,
               (\E e \in Emails : Ask(r, e)) \/ AnswerStatic(r) \/ AnswerCached(r)
        PROVE  AllowInv'
    BY <2>3, AskingKeeps
  <2>4. ASSUME NEW r \in Requests, BeginFetch(r) PROVE AllowInv'
    BY <2>4, BeginFetchKeeps
  <2>5. CASE Tick \/ ReadPage \/ FetchDone \/ FetchBreaks
    BY <2>5, TickKeeps, ReadPageKeeps, FetchDoneKeeps, FetchBreaksKeeps
  <2> QED BY <2>1, <2>2, <2>3, <2>4, <2>5 DEF AllowNext
<1> QED BY <1>1, <1>2, PTL DEF AllowSpec

(* The cache and the request that holds its lock stay in their types.          *)
THEOREM AllowTypes == AllowSpec => []AllowTypeOK
<1>1. AllowInv => AllowTypeOK
  BY DEF AllowInv, AllowShape, AllowTypeOK, Moments
<1> QED BY <1>1, AllowInvHolds, PTL

(* However the table changes between two pages and whatever fails: what the    *)
(* cache says of an author was true at a moment since the fetch it stems from  *)
(* began, and it is not used for longer than allowlist.go:23 says.             *)
THEOREM CacheStaysRecent == AllowSpec => []CacheIsRecent
<1>1. AllowInv => CacheIsRecent
  BY AllowlistAssumption DEF AllowInv, Cached, CacheIsRecent, Valid, AllowShape, Moments, Never
<1> QED BY <1>1, AllowInvHolds, PTL

(* However many requests come in, Airtable is not asked again before a while   *)
(* has passed since a fetch ended (allowlist.go:26).                           *)
THEOREM FetchesKeepTheirDistance == AllowSpec => []FetchesAreSpaced
<1>1. AllowInv => FetchesAreSpaced
  BY DEF AllowInv, Spaced
<1> QED BY <1>1, AllowInvHolds, PTL

-----------------------------------------------------------------------------
(***************************************************************************)
(* Whose session a login sets up and what a form may do, for any number of  *)
(* requests in flight, users, logins and lifetimes.                          *)
(***************************************************************************)

AuthShape ==
  /\ clock \in Nat /\ logins \in Nat
  /\ DOMAIN rq = Tabs

(* A verified address, for which the provider exchanged a code it had granted *)
(* to a login begun here.                                                     *)
Earned(e, codes) == \E g \in codes : g.email = e /\ g.verified /\ g.login # 0

(* A login is that of this browser from the cookie to the session. *)
LoginsAreOurs ==
  /\ pending # NoCookie => pending.login \in 1..logins
  /\ \A r \in Tabs :
       /\ At(r, "exchange") => rq[r].login \in 1..logins
       /\ At(r, "admit") => Earned(rq[r].email, used)
  /\ session # NoCookie => Earned(session.email, used)

(* The token in a page is that of the user it was rendered for. *)
Honest(pg) == pg.token # NoToken => pg.token.email = pg.shown

PagesAreHonest ==
  /\ Honest(form)
  /\ \A r \in Tabs : At(r, "guard") => Honest(rq[r].page)
  /\ ~strayed

AuthInv == AuthShape /\ LoginsAreOurs /\ PagesAreHonest

LEMMA AuthInitially == AuthInit => AuthInv
<1> SUFFICES ASSUME AuthInit PROVE AuthInv
  OBVIOUS
<1> USE DEF AuthInit
<1>1. AuthShape
  BY DEF AuthShape
<1>2. \A r \in Tabs : rq[r].pc = "idle"
  BY DEF Idle
<1>3. LoginsAreOurs
  BY <1>2 DEF LoginsAreOurs, At
<1>4. PagesAreHonest
  BY <1>2 DEF PagesAreHonest, Honest, NoForm, At
<1> QED BY <1>1, <1>3, <1>4 DEF AuthInv

(* What the other requests and the earned sessions rest on stays. *)
LEMMA Monotone ==
  ASSUME AuthInv, logins' \in Nat, logins' >= logins, used \subseteq used'
  PROVE  /\ \A e : Earned(e, used) => Earned(e, used')
         /\ \A l \in 1..logins : l \in 1..logins'
<1>1. \A e : Earned(e, used) => Earned(e, used')
  BY DEF Earned
<1>2. \A l \in 1..logins : l \in 1..logins'
  BY DEF AuthInv, AuthShape
<1> QED BY <1>1, <1>2

(* A step that moves at most one request, to where it is allowed to be. *)
LEMMA OneMoves ==
  ASSUME AuthInv, NEW r \in Tabs,
         DOMAIN rq' = Tabs, \A o \in Tabs : o # r => rq'[o] = rq[o],
         rq'[r].pc = "exchange" => rq'[r].login \in 1..logins',
         rq'[r].pc = "admit" => Earned(rq'[r].email, used'),
         rq'[r].pc = "guard" => Honest(rq'[r].page),
         clock' \in Nat, logins' \in Nat, logins' >= logins, used \subseteq used',
         pending' # NoCookie => pending' = pending,
         session' # NoCookie => session' = session \/ Earned(session'.email, used'),
         Honest(form)', ~strayed'
  PROVE  AuthInv'
<1>1. /\ \A e : Earned(e, used) => Earned(e, used')
      /\ \A l \in 1..logins : l \in 1..logins'
  BY Monotone
<1>2. AuthShape'
  BY DEF AuthShape
<1>3. LoginsAreOurs'
  <2>1. pending' # NoCookie => pending'.login \in 1..logins'
    BY <1>1 DEF AuthInv, LoginsAreOurs
  <2>2. session' # NoCookie => Earned(session'.email, used')
    BY <1>1 DEF AuthInv, LoginsAreOurs
  <2>3. ASSUME NEW o \in Tabs
        PROVE  /\ rq'[o].pc = "exchange" => rq'[o].login \in 1..logins'
               /\ rq'[o].pc = "admit" => Earned(rq'[o].email, used')
    BY <1>1 DEF AuthInv, LoginsAreOurs, At
  <2> QED BY <2>1, <2>2, <2>3 DEF LoginsAreOurs, At, Earned, NoCookie
<1>4. PagesAreHonest'
  <2>1. ASSUME NEW o \in Tabs, rq'[o].pc = "guard" PROVE Honest(rq'[o].page)
    BY <2>1 DEF AuthInv, PagesAreHonest, At
  <2> QED BY <2>1 DEF PagesAreHonest, At, Honest, NoToken
<1> QED BY <1>2, <1>3, <1>4 DEF AuthInv

LEMMA GoesMovesOne ==
  ASSUME AuthInv, NEW r \in Tabs, NEW q, Goes(r, q)
  PROVE  /\ DOMAIN rq' = Tabs /\ rq'[r] = q
         /\ \A o \in Tabs : o # r => rq'[o] = rq[o]
BY DEF AuthInv, AuthShape, Goes

(* A step that moves no request. *)
LEMMA NoneMoves ==
  ASSUME AuthInv, UNCHANGED <<rq, form, strayed>>,
         clock' \in Nat, logins' \in Nat, logins' >= logins, used \subseteq used',
         pending' # NoCookie => pending' = pending \/ pending'.login \in 1..logins',
         session' # NoCookie => session' = session
  PROVE  AuthInv'
<1>1. /\ \A e : Earned(e, used) => Earned(e, used')
      /\ \A l \in 1..logins : l \in 1..logins'
  BY Monotone
<1>2. AuthShape'
  BY DEF AuthInv, AuthShape
<1>3. LoginsAreOurs'
  BY <1>1 DEF AuthInv, LoginsAreOurs, At, NoCookie
<1>4. PagesAreHonest'
  BY DEF AuthInv, PagesAreHonest, Honest, At, NoToken
<1> QED BY <1>2, <1>3, <1>4 DEF AuthInv

LEMMA BrowserKeeps ==
  ASSUME AuthInv,
         \/ AuthTick \/ Login \/ Logout
         \/ \E l \in 0..logins, e \in Users, v \in BOOLEAN : Grant(l, e, v)
  PROVE  AuthInv'
<1> USE DEF AuthInv, AuthShape, world, browser, provider
<1>1. CASE AuthTick
  BY <1>1, NoneMoves DEF AuthTick
<1>2. CASE Login
  <2>1. pending'.login \in 1..logins'
    BY <1>2 DEF Login
  <2> QED BY <1>2, <2>1, NoneMoves DEF Login
<1>3. CASE Logout
  BY <1>3, NoneMoves DEF Logout
<1>4. CASE \E l \in 0..logins, e \in Users, v \in BOOLEAN : Grant(l, e, v)
  BY <1>4, NoneMoves DEF Grant
<1> QED BY <1>1, <1>2, <1>3, <1>4

LEMMA CallbackKeeps ==
  ASSUME AuthInv, NEW r \in Tabs, NEW l \in 0..logins, NEW g \in grants, Callback(r, l, g)
  PROVE  AuthInv'
<1>1. pending.login \in 1..logins
  <2>1. pending # NoCookie
    BY DEF Callback, Live, NoCookie, AuthInv, AuthShape
  <2> QED BY <2>1 DEF AuthInv, LoginsAreOurs
<1>2. /\ logins \in Nat /\ clock \in Nat /\ Honest(form) /\ ~strayed
      /\ UNCHANGED <<clock, logins, used, session, form, strayed>>
  BY DEF Callback, AuthInv, AuthShape, PagesAreHonest, world, provider
<1>3. CASE l = pending.login
  <2> DEFINE q == [pc |-> "exchange", login |-> pending.login, code |-> g]
  <2>1. Goes(r, q) /\ UNCHANGED pending
    BY <1>3 DEF Callback
  <2>2. /\ DOMAIN rq' = Tabs /\ \A o \in Tabs : o # r => rq'[o] = rq[o]
        /\ rq'[r] = q
    BY <2>1, GoesMovesOne
  <2>3. q.pc = "exchange" /\ q.login \in 1..logins'
    BY <1>1, <1>2
  <2> QED BY <1>2, <2>1, <2>2, <2>3, OneMoves DEF Honest, NoToken
<1>4. CASE l # pending.login
  BY <1>2, <1>4, NoneMoves DEF Callback
<1> QED BY <1>3, <1>4

LEMMA ExchangeKeeps == ASSUME AuthInv, NEW r \in Tabs, Exchange(r) PROVE AuthInv'
<1> DEFINE g == rq[r].code
<1>1. /\ g.login = rq[r].login /\ used' = used \cup {g} /\ rq[r].login # 0
      /\ UNCHANGED <<clock, logins, session, form, strayed>>
      /\ clock \in Nat /\ logins \in Nat /\ Honest(form) /\ ~strayed
  BY DEF Exchange, AuthInv, AuthShape, LoginsAreOurs, PagesAreHonest, At, world
<1>2. Honest(form)'
  BY <1>1 DEF Honest, NoToken
<1>3. CASE EmailVerified(g)
  <2> DEFINE q == [pc |-> "admit", email |-> g.email]
  <2>1. Goes(r, q) /\ UNCHANGED pending
    BY <1>3 DEF Exchange
  <2>2. /\ DOMAIN rq' = Tabs /\ \A o \in Tabs : o # r => rq'[o] = rq[o]
        /\ rq'[r] = q
    BY <2>1, GoesMovesOne
  <2>3. q.pc = "admit" /\ Earned(q.email, used')
    BY <1>1, <1>3 DEF Earned, EmailVerified
  <2> HIDE DEF q
  <2> QED BY <1>1, <1>2, <2>1, <2>2, <2>3, OneMoves
<1>4. CASE ~EmailVerified(g)
  <2>1. Goes(r, Idle) /\ pending' = NoCookie
    BY <1>4 DEF Exchange
  <2>2. /\ DOMAIN rq' = Tabs /\ \A o \in Tabs : o # r => rq'[o] = rq[o]
        /\ rq'[r].pc = "idle"
    BY <2>1, GoesMovesOne DEF Idle
  <2> QED BY <1>1, <1>2, <2>1, <2>2, OneMoves
<1> QED BY <1>3, <1>4

(* The request is over, and the pending login with it. *)
LEMMA LoginFailsKeeps == ASSUME AuthInv, NEW r \in Tabs, LoginFails(r) PROVE AuthInv'
<1>1. /\ pending' = NoCookie /\ used \subseteq used'
      /\ UNCHANGED <<clock, logins, session, form, strayed>>
      /\ clock \in Nat /\ logins \in Nat /\ Honest(form) /\ ~strayed
  BY DEF LoginFails, AuthInv, AuthShape, PagesAreHonest, world
<1>2. /\ DOMAIN rq' = Tabs /\ \A o \in Tabs : o # r => rq'[o] = rq[o]
      /\ rq'[r].pc = "idle"
  BY GoesMovesOne DEF LoginFails, Idle
<1>3. Honest(form)'
  BY <1>1 DEF Honest, NoToken
<1> QED BY <1>1, <1>2, <1>3, OneMoves

LEMMA AdmitKeeps == ASSUME AuthInv, NEW r \in Tabs, Admit(r) PROVE AuthInv'
<1>1. /\ pending' = NoCookie
      /\ UNCHANGED <<clock, logins, used, form, strayed>>
      /\ clock \in Nat /\ logins \in Nat /\ Honest(form) /\ ~strayed
  BY DEF Admit, AuthInv, AuthShape, PagesAreHonest, world, provider
<1>2. /\ DOMAIN rq' = Tabs /\ \A o \in Tabs : o # r => rq'[o] = rq[o]
      /\ rq'[r].pc = "idle"
  BY GoesMovesOne DEF Admit, Idle
<1>3. session' = session \/ Earned(session'.email, used')
  BY <1>1 DEF Admit, AuthInv, LoginsAreOurs, At
<1>4. Honest(form)'
  BY <1>1 DEF Honest, NoToken
<1> QED BY <1>1, <1>2, <1>3, <1>4, OneMoves

(* Requests with a session: the token sent is that of a page shown. *)
LEMMA RequestKeeps ==
  ASSUME AuthInv, NEW r \in Tabs, NEW m, NEW pg \in {form, NoForm}, Request(r, m, pg)
  PROVE  AuthInv'
<1> DEFINE q == [pc |-> "guard", sess |-> session, method |-> m, page |-> pg]
<1>1. /\ UNCHANGED <<clock, logins, used, pending, session, form, strayed>>
      /\ clock \in Nat /\ logins \in Nat /\ Honest(form) /\ ~strayed
  BY DEF Request, AuthInv, AuthShape, PagesAreHonest, world, browser, provider
<1>2. Goes(r, q)
  BY DEF Request
<1>3. /\ DOMAIN rq' = Tabs /\ \A o \in Tabs : o # r => rq'[o] = rq[o]
      /\ rq'[r] = q
  BY <1>2, GoesMovesOne
<1>4. q.pc = "guard" /\ Honest(q.page)
  BY <1>1 DEF Honest, NoForm
<1>5. Honest(form)'
  BY <1>1 DEF Honest, NoToken
<1> QED BY <1>1, <1>3, <1>4, <1>5, OneMoves

LEMMA ThroughKeeps == ASSUME AuthInv, NEW r \in Tabs, Through(r) PROVE AuthInv'
<1> DEFINE q == [pc |-> "render", sess |-> rq[r].sess]
<1>1. /\ UNCHANGED <<clock, logins, used, pending, session, form>>
      /\ clock \in Nat /\ logins \in Nat /\ Honest(form)
  BY DEF Through, AuthInv, AuthShape, PagesAreHonest, world, browser, provider
<1>2. Goes(r, q) \/ Goes(r, Idle)
  BY DEF Through
<1>3. q.pc = "render" /\ Idle.pc = "idle"
  BY DEF Idle
<1>4. /\ DOMAIN rq' = Tabs /\ \A o \in Tabs : o # r => rq'[o] = rq[o]
      /\ rq'[r].pc \in {"render", "idle"}
  BY <1>2, <1>3, GoesMovesOne
<1>5. ~strayed'
  BY DEF Through, AuthInv, PagesAreHonest, Honest, ValidCSRF, csrfToken, At
<1>6. Honest(form)'
  BY <1>1 DEF Honest, NoToken
<1> QED BY <1>1, <1>4, <1>5, <1>6, OneMoves

LEMMA TurnedAwayKeeps == ASSUME AuthInv, NEW r \in Tabs, TurnedAway(r) PROVE AuthInv'
<1>1. /\ UNCHANGED <<clock, logins, used, pending, session, form, strayed>>
      /\ clock \in Nat /\ logins \in Nat /\ Honest(form) /\ ~strayed
  BY DEF TurnedAway, AuthInv, AuthShape, PagesAreHonest, world, browser, provider
<1>2. /\ DOMAIN rq' = Tabs /\ \A o \in Tabs : o # r => rq'[o] = rq[o]
      /\ rq'[r].pc = "idle"
  BY GoesMovesOne DEF TurnedAway, Idle
<1>3. Honest(form)'
  BY <1>1 DEF Honest, NoToken
<1> QED BY <1>1, <1>2, <1>3, OneMoves

LEMMA RenderKeeps == ASSUME AuthInv, NEW r \in Tabs, Render(r) PROVE AuthInv'
<1>1. /\ UNCHANGED <<clock, logins, used, pending, session, strayed>>
      /\ clock \in Nat /\ logins \in Nat /\ ~strayed
  BY DEF Render, AuthInv, AuthShape, PagesAreHonest, world, provider
<1>2. /\ DOMAIN rq' = Tabs /\ \A o \in Tabs : o # r => rq'[o] = rq[o]
      /\ rq'[r].pc = "idle"
  BY GoesMovesOne DEF Render, Idle
<1>3. Honest(form)'
  BY DEF Render, Honest, csrfToken, NoToken
<1> QED BY <1>1, <1>2, <1>3, OneMoves

LEMMA AuthInvHolds == AuthSpec => []AuthInv
<1>1. AuthInit => AuthInv
  BY AuthInitially
<1>2. AuthInv /\ [AuthNext]_authVars => AuthInv'
  <2> SUFFICES ASSUME AuthInv, [AuthNext]_authVars PROVE AuthInv'
    OBVIOUS
  <2>1. CASE UNCHANGED authVars
    BY <2>1, NoneMoves DEF authVars, world, browser, provider, AuthInv, AuthShape
  <2>2. CASE \/ AuthTick \/ Login \/ Logout
             \/ \E l \in 0..logins, e \in Users, v \in BOOLEAN : Grant(l, e, v)
    BY <2>2, BrowserKeeps
  <2>3. ASSUME NEW r \in Tabs, NEW l \in 0..logins, NEW g \in grants, Callback(r, l, g)
        PROVE  AuthInv'
    BY <2>3, CallbackKeeps
  <2>4. ASSUME NEW r \in Tabs, Exchange(r) \/ LoginFails(r) \/ Admit(r) PROVE AuthInv'
    BY <2>4, ExchangeKeeps, LoginFailsKeeps, AdmitKeeps
  <2>5. ASSUME NEW r \in Tabs,
               \/ Request(r, "GET", NoForm)
               \/ \E pg \in {form, NoForm} : Request(r, "POST", pg)
               \/ Through(r) \/ TurnedAway(r) \/ Render(r)
        PROVE  AuthInv'
    BY <2>5, RequestKeeps, ThroughKeeps, TurnedAwayKeeps, RenderKeeps
  <2> QED BY <2>1, <2>2, <2>3, <2>4, <2>5 DEF AuthNext
<1> QED BY <1>1, <1>2, PTL DEF AuthSpec

(* A callback carries a code that was granted, to a user; a session is the      *)
(* last one set up.                                                           *)
AuthTyped ==
  /\ AuthTypeOK /\ logins \in Nat /\ seeds \in Nat /\ DOMAIN rq = Tabs
  /\ \A g \in grants : g.email \in Users
  /\ \A r \in Tabs : /\ At(r, "exchange") => rq[r].code \in grants
                     /\ At(r, "admit") => rq[r].email \in Users

(* One request moves on, to a handler's next step or to its end.               *)
LEMMA StepIsTyped ==
  ASSUME AuthTyped, NEW r \in Tabs, NEW to, Goes(r, to), grants' = grants,
         to.pc \in {"idle", "exchange", "admit", "guard", "render"},
         to.pc = "exchange" => to.code \in grants,
         to.pc = "admit" => to.email \in Users
  PROVE  /\ DOMAIN rq' = Tabs
         /\ \A q \in Tabs : /\ rq'[q].pc \in {"idle", "exchange", "admit", "guard", "render"}
                            /\ rq'[q].pc = "exchange" => rq'[q].code \in grants
                            /\ rq'[q].pc = "admit" => rq'[q].email \in Users
<1>1. DOMAIN rq' = Tabs /\ rq'[r] = to /\ \A q \in Tabs : q # r => rq'[q] = rq[q]
  BY DEF Goes, AuthTyped
<1>2. ASSUME NEW q \in Tabs
      PROVE  /\ rq'[q].pc \in {"idle", "exchange", "admit", "guard", "render"}
             /\ rq'[q].pc = "exchange" => rq'[q].code \in grants
             /\ rq'[q].pc = "admit" => rq'[q].email \in Users
  <2>1. CASE q = r
    BY <1>1, <2>1
  <2>2. CASE q # r
    BY <1>1, <2>2 DEF AuthTyped, AuthTypeOK, At
  <2> QED BY <2>1, <2>2
<1> QED BY <1>1, <1>2

LEMMA BrowserIsTyped ==
  ASSUME AuthTyped,
         \/ AuthTick \/ Login \/ Logout
         \/ \E l \in 0..logins, e \in Users, v \in BOOLEAN : Grant(l, e, v)
  PROVE  AuthTyped'
<1> USE AuthFlowAssumption
<1>1. CASE AuthTick
  BY <1>1 DEF AuthTick, AuthTyped, AuthTypeOK, browser, provider, At
<1>2. CASE Login
  <2>1. pending' # NoCookie => pending'.login \in 1..logins' /\ pending'.exp <= MaxClock + PendingTTL
    BY <1>2 DEF Login, AuthTyped, AuthTypeOK, world
  <2> QED BY <1>2, <2>1 DEF Login, AuthTyped, AuthTypeOK, world, At
<1>3. CASE Logout
  BY <1>3 DEF Logout, AuthTyped, AuthTypeOK, world, provider, At
<1>4. ASSUME NEW l \in 0..logins, NEW e \in Users, NEW v \in BOOLEAN, Grant(l, e, v)
      PROVE  AuthTyped'
  <2>1. /\ grants' = grants \cup {[login |-> l, email |-> e, verified |-> v]}
        /\ UNCHANGED <<clock, admitted, pending, session, logins, used, seeds, rq>>
    BY <1>4 DEF Grant, world, browser
  <2>2. grants \subseteq grants' /\ \A g \in grants' : g.email \in Users
    BY <2>1 DEF AuthTyped
  <2> QED BY <2>1, <2>2 DEF AuthTyped, AuthTypeOK, At
<1> QED BY <1>1, <1>2, <1>3, <1>4

LEMMA LoginIsTyped ==
  ASSUME AuthTyped, NEW r \in Tabs,
         \/ \E l \in 0..logins, g \in grants : Callback(r, l, g)
         \/ Exchange(r) \/ LoginFails(r) \/ Admit(r)
  PROVE  AuthTyped'
<1>1. ASSUME NEW l \in 0..logins, NEW g \in grants, Callback(r, l, g) PROVE AuthTyped'
  <2>1. CASE l = pending.login
    <3>1. /\ Goes(r, [pc |-> "exchange", login |-> pending.login, code |-> g])
          /\ UNCHANGED <<clock, admitted, pending, session, logins, grants, used, seeds>>
      BY <1>1, <2>1 DEF Callback, world, provider
    <3> QED BY <3>1, StepIsTyped DEF AuthTyped, AuthTypeOK, At
  <2>2. CASE l # pending.login
    BY <1>1, <2>2 DEF Callback, world, provider, AuthTyped, AuthTypeOK, At
  <2> QED BY <2>1, <2>2
<1>2. CASE Exchange(r)
  <2>1. /\ rq[r].code \in grants /\ rq[r].code.email \in Users
        /\ used' = used \cup {rq[r].code} /\ pending' \in {pending, NoCookie}
        /\ \/ Goes(r, [pc |-> "admit", email |-> rq[r].code.email])
           \/ Goes(r, Idle)
        /\ UNCHANGED <<clock, admitted, session, logins, grants, seeds>>
    BY <1>2 DEF Exchange, AuthTyped, world
  <2> QED BY <2>1, StepIsTyped DEF AuthTyped, AuthTypeOK, At, Idle
<1>3. CASE LoginFails(r)
  <2>1. /\ rq[r].code \in grants /\ used' \subseteq used \cup {rq[r].code}
        /\ pending' = NoCookie /\ Goes(r, Idle)
        /\ UNCHANGED <<clock, admitted, session, logins, grants, seeds>>
    BY <1>3 DEF LoginFails, AuthTyped, world
  <2> QED BY <2>1, StepIsTyped DEF AuthTyped, AuthTypeOK, At, Idle
<1>4. CASE Admit(r)
  <2>1. /\ rq[r].email \in Users /\ seeds \in Nat
        /\ pending' = NoCookie /\ Goes(r, Idle)
        /\ \/ seeds' = seeds + 1 /\ session'.email = rq[r].email /\ session'.seed = seeds'
           \/ UNCHANGED <<seeds, session>>
        /\ UNCHANGED <<clock, admitted, logins, grants, used>>
    BY <1>4 DEF Admit, AuthTyped, world, provider
  <2>2. seeds' \in Nat /\ (session' # NoCookie => session'.email \in Users /\ session'.seed \in 1..seeds')
    BY <2>1 DEF AuthTyped, AuthTypeOK
  <2> QED BY <2>1, <2>2, StepIsTyped DEF AuthTyped, AuthTypeOK, At, Idle
<1> QED BY <1>1, <1>2, <1>3, <1>4

LEMMA RequestIsTyped ==
  ASSUME AuthTyped, NEW r \in Tabs,
         \/ Request(r, "GET", NoForm)
         \/ \E pg \in {form, NoForm} : Request(r, "POST", pg)
         \/ Through(r) \/ TurnedAway(r) \/ Render(r)
  PROVE  AuthTyped'
<1>1. /\ UNCHANGED <<clock, admitted, pending, session, logins, grants, used, seeds>>
      /\ \E to : /\ Goes(r, to) /\ to.pc \in {"idle", "guard", "render"}
  <2>1. ASSUME NEW method, NEW pg, Request(r, method, pg)
        PROVE  /\ UNCHANGED <<clock, admitted, pending, session, logins, grants, used, seeds>>
               /\ \E to : Goes(r, to) /\ to.pc \in {"idle", "guard", "render"}
    BY <2>1 DEF Request, world, browser, provider
  <2>2. CASE Through(r)
    BY <2>2 DEF Through, world, browser, provider, Idle
  <2>3. CASE TurnedAway(r)
    BY <2>3 DEF TurnedAway, world, browser, provider, Idle
  <2>4. CASE Render(r)
    BY <2>4 DEF Render, world, provider, Idle
  <2> QED BY <2>1, <2>2, <2>3, <2>4
<1>2. PICK to : Goes(r, to) /\ to.pc \in {"idle", "guard", "render"}
  BY <1>1
<1> QED BY <1>1, <1>2, StepIsTyped DEF AuthTyped, AuthTypeOK, At

(* The cookies, the provider's codes and the handlers stay in their types: no  *)
(* callback brings a code that was not granted.                               *)
THEOREM AuthTypes == AuthSpec => []AuthTypeOK
<1>1. AuthInit => AuthTyped
  BY AuthFlowAssumption DEF AuthInit, AuthTyped, AuthTypeOK, At, Idle
<1>2. AuthTyped /\ [AuthNext]_authVars => AuthTyped'
  <2> SUFFICES ASSUME AuthTyped, [AuthNext]_authVars PROVE AuthTyped'
    OBVIOUS
  <2>1. CASE UNCHANGED authVars
    BY <2>1 DEF authVars, world, browser, provider, AuthTyped, AuthTypeOK, At
  <2> QED BY <2>1, BrowserIsTyped, LoginIsTyped, RequestIsTyped DEF AuthNext
<1>3. AuthTyped => AuthTypeOK
  BY DEF AuthTyped
<1> QED BY <1>1, <1>2, <1>3, PTL DEF AuthSpec

(* The session is that of an address the provider has verified, for a code it *)
(* granted to a login begun in this browser (auth.go:124), whatever logins and *)
(* callbacks are in flight together.                                          *)
THEOREM SessionsAreEarned == AuthSpec => []SessionWasEarned
<1>1. AuthInv => SessionWasEarned
  BY DEF AuthInv, LoginsAreOurs, Earned, SessionWasEarned
<1> QED BY <1>1, AuthInvHolds, PTL

(* Nothing is done in the name of one user by the form rendered for another   *)
(* (auth.go:206).                                                             *)
THEOREM FormsActForWhomTheyShow == AuthSpec => []ActsAsShown
<1>1. AuthInv => ActsAsShown
  BY DEF AuthInv, PagesAreHonest, ActsAsShown
<1> QED BY <1>1, AuthInvHolds, PTL

-----------------------------------------------------------------------------
(***************************************************************************)
(* The one race of the key cache is the only way to miss a published key,   *)
(* for any number of verifications, keys and rotations.                      *)
(***************************************************************************)

Lookups == [pc : {"fetch", "store", "recheck"}, token : Tokens, keys : SUBSET Kids]

KeyShape ==
  /\ published \subseteq Kids /\ jwksCache \subseteq Kids
  /\ DOMAIN vf = Verifiers /\ DOMAIN verdict = Verifiers
  /\ \A v \in Verifiers : Reach(v, "idle") \/ vf[v] \in Lookups
  /\ steady \in [Verifiers -> BOOLEAN] /\ crossed \in [Verifiers -> BOOLEAN]

(* The lookup under way whose key every response since will have. *)
Safe(v) == ~Reach(v, "idle") /\ steady[v] /\ ~crossed[v]
Key(v) == vf[v].token.kid

(* Whatever may still replace the cache has the key, and once its own        *)
(* response has, the cache has it.                                           *)
Found(v) ==
  Safe(v) =>
    /\ Key(v) \in published
    /\ \A w \in Verifiers : Reach(w, "store") => Key(v) \in vf[w].keys
    /\ Reach(v, "recheck") => Key(v) \in jwksCache

KeyInv == KeyShape /\ (\A v \in Verifiers : Found(v)) /\ PublishedKeyIsFound

LEMMA KeyInitially == KeyInit => KeyInv
BY DEF KeyInit, KeyInv, KeyShape, Found, Safe, PublishedKeyIsFound, Reach, NotNow

LEMMA RotateKeeps == ASSUME KeyInv, Rotate PROVE KeyInv'
<1>1. /\ UNCHANGED <<jwksCache, vf, verdict, crossed>>
      /\ \A v \in Verifiers :
           steady'[v] <=> steady[v] /\ ~Reach(v, "idle") /\ Key(v) \in published'
      /\ steady' \in [Verifiers -> BOOLEAN] /\ published' \subseteq Kids
  BY DEF Rotate, Key, KeyInv, KeyShape
<1>2. KeyShape'
  BY <1>1 DEF KeyInv, KeyShape, Reach
<1>3. ASSUME NEW v \in Verifiers PROVE Found(v)'
  BY <1>1 DEF KeyInv, Found, Safe, Key, Reach
<1>4. PublishedKeyIsFound'
  BY <1>1 DEF PublishedKeyIsFound, Reach
<1> QED BY <1>2, <1>3, <1>4 DEF KeyInv

(* A step of one verification that does not end it, leaves the history alone, *)
(* and fetches or stores nothing without the keys others wait for.            *)
LEMMA OthersKeep ==
  ASSUME KeyInv, NEW v \in Verifiers, NEW u \in Verifiers, u # v,
         \A w \in Verifiers : w # v => vf'[w] = vf[w],
         steady'[u] = steady[u], crossed'[u] = crossed[u],
         UNCHANGED published,
         Safe(u) /\ Reach(v, "store")' => Key(u) \in vf'[v].keys,
         Safe(u) /\ Reach(u, "recheck") => Key(u) \in jwksCache'
  PROVE  Found(u)'
<1>1. vf'[u] = vf[u] /\ (Safe(u)' <=> Safe(u)) /\ Key(u)' = Key(u)
  BY DEF Safe, Key, Reach
<1>2. SUFFICES ASSUME Safe(u) PROVE Found(u)'
  BY <1>1 DEF Found
<1>3. Found(u) /\ Key(u) \in published'
  BY <1>2 DEF KeyInv, Found
<1>4. ASSUME NEW w \in Verifiers, Reach(w, "store")' PROVE Key(u) \in vf'[w].keys
  BY <1>2, <1>3, <1>4 DEF Found, Reach
<1>5. Reach(u, "recheck")' => Key(u) \in jwksCache'
  BY <1>1, <1>2 DEF Reach
<1> QED BY <1>1, <1>3, <1>4, <1>5 DEF Found

(* A verification that ends. *)
LEMMA EndKeeps ==
  ASSUME KeyInv, NEW v \in Verifiers, NEW how, Ends(v, how),
         UNCHANGED <<published, jwksCache>>,
         steady' \in [Verifiers -> BOOLEAN], crossed' \in [Verifiers -> BOOLEAN],
         \A u \in Verifiers : u # v => steady'[u] = steady[u] /\ crossed'[u] = crossed[u],
         how = "unknown key" /\ steady'[v] => crossed'[v]
  PROVE  KeyInv'
<1>1. /\ \A w \in Verifiers : w # v => vf'[w] = vf[w] /\ verdict'[w] = verdict[w]
      /\ vf'[v].pc = "idle" /\ verdict'[v] = how
  BY DEF Ends, KeyInv, KeyShape, NotNow
<1>2. Found(v)'
  BY <1>1 DEF Found, Safe, Reach
<1>3. ASSUME NEW u \in Verifiers, u # v PROVE Found(u)'
  <2>1. ~Reach(v, "store")'
    BY <1>1 DEF Reach
  <2>2. Safe(u) /\ Reach(u, "recheck") => Key(u) \in jwksCache'
    BY DEF KeyInv, Found
  <2> QED BY <1>1, <1>3, <2>1, <2>2, OthersKeep
<1>4. PublishedKeyIsFound'
  BY <1>1 DEF KeyInv, PublishedKeyIsFound, Reach
<1>5. KeyShape'
  BY <1>1 DEF KeyInv, KeyShape, Ends, Reach
<1> QED BY <1>2, <1>3, <1>4, <1>5 DEF KeyInv

(* One that goes on. *)
LEMMA GoesOnKeeps ==
  ASSUME KeyInv, NEW v \in Verifiers, KeyShape', UNCHANGED <<published, verdict>>,
         \A w \in Verifiers : w # v => vf'[w] = vf[w] /\ steady'[w] = steady[w]
                                                      /\ crossed'[w] = crossed[w],
         vf'[v].pc # "idle", Found(v)',
         \A u \in Verifiers : u # v /\ Safe(u) =>
           /\ Reach(v, "store")' => Key(u) \in vf'[v].keys
           /\ Reach(u, "recheck") => Key(u) \in jwksCache'
  PROVE  KeyInv'
<1>1. ASSUME NEW u \in Verifiers PROVE Found(u)'
  BY OthersKeep
<1>2. PublishedKeyIsFound'
  BY DEF KeyInv, PublishedKeyIsFound, Reach
<1> QED BY <1>1, <1>2 DEF KeyInv

LEMMA VerdictsAreNotUnknown == \A t : Claims(t) # "unknown key"
BY DEF Claims

LEMMA VerifyKeeps == ASSUME KeyInv, NEW v \in Verifiers, NEW t \in Tokens, Verify(v, t) PROVE KeyInv'
<1>1. /\ UNCHANGED <<published, jwksCache>>
      /\ \A u \in Verifiers : u # v => steady'[u] = steady[u] /\ crossed'[u] = crossed[u]
      /\ steady'[v] => t.kid \in published
      /\ ~crossed'[v] => \A w \in Verifiers \ {v} : Reach(w, "store") => t.kid \in vf[w].keys
      /\ steady' \in [Verifiers -> BOOLEAN] /\ crossed' \in [Verifiers -> BOOLEAN]
  <2> DEFINE late == \E w \in Verifiers \ {v} : Reach(w, "store") /\ t.kid \notin vf[w].keys
  <2>1. steady' = [steady EXCEPT ![v] = t.kid \in published] /\ crossed' = [crossed EXCEPT ![v] = late]
        /\ UNCHANGED <<published, jwksCache>>
    BY DEF Verify
  <2>2. late \in BOOLEAN
    OBVIOUS
  <2>3. ~late => \A w \in Verifiers \ {v} : Reach(w, "store") => t.kid \in vf[w].keys
    OBVIOUS
  <2> HIDE DEF late
  <2>4. /\ steady' \in [Verifiers -> BOOLEAN] /\ (steady'[v] <=> t.kid \in published)
        /\ \A u \in Verifiers : u # v => steady'[u] = steady[u]
    <3> DEFINE there == t.kid \in published
    <3>1. there \in BOOLEAN /\ steady' = [steady EXCEPT ![v] = there]
      BY <2>1
    <3> HIDE DEF there
    <3>2. /\ steady' \in [Verifiers -> BOOLEAN] /\ (steady'[v] <=> there)
          /\ \A u \in Verifiers : u # v => steady'[u] = steady[u]
      BY <3>1 DEF KeyInv, KeyShape
    <3> QED BY <3>2 DEF there
  <2>5. /\ crossed' \in [Verifiers -> BOOLEAN] /\ (crossed'[v] <=> late)
        /\ \A u \in Verifiers : u # v => crossed'[u] = crossed[u]
    BY <2>1, <2>2 DEF KeyInv, KeyShape
  <2> QED BY <2>1, <2>3, <2>4, <2>5
<1>2. ASSUME NEW how, Ends(v, how), how # "unknown key" PROVE KeyInv'
  BY <1>1, <1>2, EndKeeps
<1>3. ASSUME vf' = [vf EXCEPT ![v] = [pc |-> "fetch", token |-> t, keys |-> {}]],
             UNCHANGED verdict
      PROVE  KeyInv'
  <2>1. /\ vf'[v].pc = "fetch" /\ Key(v)' = t.kid
        /\ \A w \in Verifiers : w # v => vf'[w] = vf[w]
    BY <1>3 DEF Key, KeyInv, KeyShape
  <2>2. KeyShape'
    BY <1>1, <1>3, <2>1 DEF KeyInv, KeyShape, Lookups, Reach
  <2>3. Found(v)'
    BY <1>1, <2>1 DEF Found, Safe, Reach
  <2>4. \A u \in Verifiers : u # v /\ Safe(u) =>
           /\ Reach(v, "store")' => Key(u) \in vf'[v].keys
           /\ Reach(u, "recheck") => Key(u) \in jwksCache'
    BY <1>1, <2>1 DEF Reach, KeyInv, Found
  <2> QED BY <1>1, <1>3, <2>1, <2>2, <2>3, <2>4, GoesOnKeeps
<1> QED
  <2>1. CASE t.rs256
    BY <1>2, <1>3, <2>1, VerdictsAreNotUnknown DEF Verify, FetchIfUnknown
  <2>2. CASE ~t.rs256
    BY <1>2, <2>2 DEF Verify
  <2> QED BY <2>1, <2>2

LEMMA ServedKeeps == ASSUME KeyInv, NEW v \in Verifiers, Served(v) PROVE KeyInv'
<1>1. /\ vf' = [vf EXCEPT ![v].pc = "store", ![v].keys = published] /\ vf[v].pc = "fetch"
      /\ UNCHANGED <<published, jwksCache, verdict, steady, crossed>>
  BY DEF Served, Reach
<1>2. /\ \A w \in Verifiers : w # v => vf'[w] = vf[w]
      /\ vf'[v].pc = "store" /\ vf'[v].keys = published /\ vf'[v].token = vf[v].token
      /\ KeyShape'
  BY <1>1 DEF KeyInv, KeyShape, Lookups, Reach
<1>3. Found(v)'
  <2> SUFFICES ASSUME Safe(v)' PROVE Found(v)'
    BY DEF Found
  <2>1. Safe(v) /\ Key(v)' = Key(v)
    BY <1>1, <1>2 DEF Safe, Reach, Key
  <2> QED BY <1>1, <1>2, <2>1 DEF KeyInv, Found, Reach
<1>4. \A u \in Verifiers : u # v /\ Safe(u) =>
        /\ Reach(v, "store")' => Key(u) \in vf'[v].keys
        /\ Reach(u, "recheck") => Key(u) \in jwksCache'
  BY <1>1, <1>2 DEF KeyInv, Found, Reach
<1> QED BY <1>1, <1>2, <1>3, <1>4, GoesOnKeeps

LEMMA UnservedKeeps == ASSUME KeyInv, NEW v \in Verifiers, Unserved(v) PROVE KeyInv'
BY EndKeeps DEF Unserved, KeyInv, KeyShape

LEMMA StoreKeeps == ASSUME KeyInv, NEW v \in Verifiers, Store(v) PROVE KeyInv'
<1>1. /\ vf' = [vf EXCEPT ![v].pc = "recheck"] /\ vf[v].pc = "store" /\ jwksCache' = vf[v].keys
      /\ UNCHANGED <<published, verdict, steady, crossed>>
  BY DEF Store, Reach
<1>2. /\ \A w \in Verifiers : w # v => vf'[w] = vf[w]
      /\ vf'[v].pc = "recheck" /\ vf'[v].keys = vf[v].keys /\ vf'[v].token = vf[v].token
      /\ KeyShape'
  BY <1>1 DEF KeyInv, KeyShape, Lookups, Reach
<1>3. Found(v)'
  <2> SUFFICES ASSUME Safe(v)' PROVE Found(v)'
    BY DEF Found
  <2>1. Safe(v) /\ Key(v)' = Key(v)
    BY <1>1, <1>2 DEF Safe, Reach, Key
  <2> QED BY <1>1, <1>2, <2>1 DEF KeyInv, Found, Reach
<1>4. \A u \in Verifiers : u # v /\ Safe(u) =>
        /\ Reach(v, "store")' => Key(u) \in vf'[v].keys
        /\ Reach(u, "recheck") => Key(u) \in jwksCache'
  BY <1>1, <1>2 DEF KeyInv, Found, Reach
<1> QED BY <1>1, <1>2, <1>3, <1>4, GoesOnKeeps

LEMMA RecheckKeeps == ASSUME KeyInv, NEW v \in Verifiers, Recheck(v) PROVE KeyInv'
<1> DEFINE how == IF vf[v].token.kid \in jwksCache THEN Claims(vf[v].token) ELSE "unknown key"
<1>1. /\ Reach(v, "recheck") /\ Ends(v, how)
      /\ UNCHANGED <<published, jwksCache, steady, crossed>>
  BY DEF Recheck
<1>2. how = "unknown key" => Key(v) \notin jwksCache
  BY VerdictsAreNotUnknown DEF Key
<1>3. how = "unknown key" /\ steady'[v] => crossed'[v]
  BY <1>1, <1>2 DEF KeyInv, Found, Safe, Reach
<1> HIDE DEF how
<1> QED BY <1>1, <1>3, EndKeeps DEF KeyInv, KeyShape

LEMMA KeyInvHolds == KeySpec => []KeyInv
<1>1. KeyInit => KeyInv
  BY KeyInitially
<1>2. KeyInv /\ [KeyNext]_keyVars => KeyInv'
  <2> SUFFICES ASSUME KeyInv, [KeyNext]_keyVars PROVE KeyInv'
    OBVIOUS
  <2>1. CASE UNCHANGED keyVars
    BY <2>1 DEF keyVars, KeyInv, KeyShape, Found, Safe, Key, PublishedKeyIsFound, Reach
  <2>2. CASE Rotate
    BY <2>2, RotateKeeps
  <2>3. ASSUME NEW v \in Verifiers, NEW t \in Tokens, Verify(v, t) PROVE KeyInv'
    BY <2>3, VerifyKeeps
  <2>4. ASSUME NEW v \in Verifiers, Served(v) \/ Unserved(v) \/ Store(v) \/ Recheck(v)
        PROVE  KeyInv'
    BY <2>4, ServedKeeps, UnservedKeeps, StoreKeeps, RecheckKeeps
  <2> QED BY <2>1, <2>2, <2>3, <2>4 DEF KeyNext
<1> QED BY <1>1, <1>2, PTL DEF KeySpec

(* The cache and the lookups under way stay in their types.                    *)
THEOREM KeyTypes == KeySpec => []KeyTypeOK
<1>1. KeyInv => KeyTypeOK
  <2> SUFFICES ASSUME KeyInv PROVE KeyTypeOK
    OBVIOUS
  <2>1. ASSUME NEW v \in Verifiers
        PROVE  /\ vf[v].pc \in {"idle", "fetch", "store", "recheck"}
               /\ ~Reach(v, "idle") => vf[v].token \in Tokens /\ vf[v].keys \subseteq Kids
    <3>1. CASE Reach(v, "idle")
      BY <3>1 DEF Reach
    <3>2. CASE vf[v] \in Lookups
      BY <3>2 DEF Lookups
    <3> QED BY <3>1, <3>2 DEF KeyInv, KeyShape
  <2>2. \A v \in Verifiers : steady[v] \in BOOLEAN /\ crossed[v] \in BOOLEAN
    BY DEF KeyInv, KeyShape
  <2> QED BY <2>1, <2>2 DEF KeyInv, KeyShape, KeyTypeOK
<1> QED BY <1>1, KeyInvHolds, PTL

(* "Re-fetching once ... covers key rotation" (jwks.go:29), but for a response *)
(* without the key that was on its way to another verification when this one   *)
(* began, and then whatever the provider and the other verifications do.       *)
THEOREM OnlyLateResponsesHideAKey == KeySpec => []PublishedKeyIsFound
<1>1. KeyInv => PublishedKeyIsFound
  BY DEF KeyInv
<1> QED BY <1>1, KeyInvHolds, PTL
=============================================================================
