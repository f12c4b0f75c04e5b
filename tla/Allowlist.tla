------------------------------ MODULE Allowlist ------------------------------
(***************************************************************************)
(* Who may log in: internal/auth/allowlist.go.  A static list, and the      *)
(* e-mail addresses of the YSWS Authors table in Airtable, which are cached *)
(* for a while and fetched, page by page, by the request that finds the     *)
(* cache stale, while it holds the mutex that every other request needs.    *)
(*                                                                         *)
(* Authors come and go in the table at any time, and fetches fail.          *)
(***************************************************************************)
EXTENDS Integers

CONSTANTS
  Requests,      \* goroutines that serve a request each
  Emails,        \* addresses, normalised
  Static,        \* ALLOWED_EMAILS
  TablePage,     \* the page of the listing each author's row is on
  TTL,           \* authorRefreshTTL (5 min)
  ErrTTL,        \* authorErrorTTL (30 s)
  FetchTimeout,  \* authorFetchTimeout (10 s)
  MaxTime,       \* bound: end of time
  MaxEdits       \* bound: changes of the table

NoOne == "no one"      \* holds the mutex

ASSUME AllowlistAssumption ==
  /\ NoOne \notin Requests
  /\ Static \subseteq Emails
  /\ TablePage \in [Emails -> Nat \ {0}]
  /\ \A e \in Emails : \A n \in 1..TablePage[e] : \E f \in Emails : TablePage[f] = n
  /\ {TTL, ErrTTL, FetchTimeout, MaxTime, MaxEdits} \subseteq Nat
  /\ ErrTTL <= TTL

Never == -1

VARIABLES
  now,
  table,       \* authors in the Airtable table
  edits,
  cached,      \* l.cache is not nil
  cache,       \* l.cache
  validUntil,  \* l.validUntil
  mu,          \* the request that holds l.mu across a fetch, or NoOne
  began,       \* when that fetch began
  page, got,   \* the next page to read, authors read so far
  ask,         \* what each request has asked Allowed, and the answer
  \* history
  lastIn,      \* when each author was last in the table
  lastOut,     \* when each was last not in it
  goodStart,   \* when the last fetch that succeeded began
  failing,     \* a fetch has failed since
  lastEnd      \* when the last fetch ended

origin  == <<table, edits, lastIn, lastOut>>
fetch   == <<mu, began, page, got>>
cacheVars == <<cached, cache, validUntil>>
record  == <<goodStart, failing, lastEnd>>
allowVars == <<now, origin, cacheVars, fetch, ask, record>>

Told(r, ok) == ask' = [ask EXCEPT ![r] = [pc |-> "told", ok |-> ok]]
Asked(r) == ask[r].pc = "asked"

AllowInit ==
  /\ now = 0
  /\ table \in SUBSET (Emails \ Static) /\ edits = 0
  /\ cached = FALSE /\ cache = {} /\ validUntil = 0
  /\ mu = NoOne /\ began = 0 /\ page = 1 /\ got = {}
  /\ ask = [r \in Requests |-> [pc |-> "none"]]
  /\ lastIn  = [e \in Emails |-> IF e \in table THEN 0 ELSE Never]
  /\ lastOut = [e \in Emails |-> IF e \in table THEN Never ELSE 0]
  /\ goodStart = Never /\ failing = FALSE /\ lastEnd = Never

(* A fetch is cut off after its timeout. *)
Tick ==
  /\ now < MaxTime
  /\ mu # NoOne => now < began + FetchTimeout
  /\ now' = now + 1
  /\ lastIn'  = [e \in Emails |-> IF e \in table THEN now' ELSE lastIn[e]]
  /\ lastOut' = [e \in Emails |-> IF e \in table THEN lastOut[e] ELSE now']
  /\ UNCHANGED <<table, edits, cacheVars, fetch, ask, record>>

(* Somebody adds or removes an author. *)
EditTable(e) ==
  /\ edits < MaxEdits /\ e \notin Static
  /\ edits' = edits + 1
  /\ table' = IF e \in table THEN table \ {e} ELSE table \cup {e}
  /\ lastIn'  = [lastIn EXCEPT ![e] = now]
  /\ lastOut' = [lastOut EXCEPT ![e] = now]
  /\ UNCHANGED <<now, cacheVars, fetch, ask, record>>

(* Allowed is called, *)
Ask(r, e) ==
  /\ ~Asked(r)
  /\ ask' = [ask EXCEPT ![r] = [pc |-> "asked", email |-> e]]
  /\ UNCHANGED <<now, origin, cacheVars, fetch, record>>

(* and answers from the static list without the mutex. *)
AnswerStatic(r) ==
  /\ Asked(r) /\ ask[r].email \in Static
  /\ Told(r, TRUE)
  /\ UNCHANGED <<now, origin, cacheVars, fetch, record>>

(* Mutant: once fetched, always valid. *)
NeverStale == cached

Valid == cached /\ now < validUntil

Enters(r) == Asked(r) /\ ask[r].email \notin Static /\ mu = NoOne

AnswerCached(r) ==
  /\ Enters(r) /\ Valid
  /\ Told(r, ask[r].email \in cache)
  /\ UNCHANGED <<now, origin, cacheVars, fetch, record>>

BeginFetch(r) ==
  /\ Enters(r) /\ ~Valid
  /\ mu' = r /\ began' = now /\ page' = 1 /\ got' = {}
  /\ UNCHANGED <<now, origin, cacheVars, ask, record>>

Pages == {TablePage[e] : e \in Emails}

(* ListRecords follows the pages; the table may change between two of them. *)
ReadPage ==
  /\ mu # NoOne /\ page \in Pages
  /\ got' = got \cup {e \in table : TablePage[e] = page}
  /\ page' = page + 1
  /\ UNCHANGED <<now, origin, cacheVars, mu, began, ask, record>>

Release == mu' = NoOne /\ began' = 0 /\ page' = 1 /\ got' = {}

FetchDone ==
  /\ mu # NoOne /\ page \notin Pages
  /\ cached' = TRUE /\ cache' = got /\ validUntil' = now + TTL
  /\ Told(mu, ask[mu].email \in got)
  /\ Release
  /\ goodStart' = began /\ failing' = FALSE /\ lastEnd' = now
  /\ UNCHANGED <<now, origin>>

(* Mutant: only a cache that exists is kept for a while. *)
KeepIfCached ==
  /\ UNCHANGED <<cached, cache>>
  /\ validUntil' = IF cached THEN now + ErrTTL ELSE validUntil

(* The last good set is kept, or an empty one if there never was one. *)
KeepLastGood ==
  /\ cached' = TRUE /\ UNCHANGED cache
  /\ validUntil' = now + ErrTTL

FetchBreaks ==
  /\ mu # NoOne
  /\ KeepLastGood
  /\ Told(mu, ask[mu].email \in cache)
  /\ Release
  /\ failing' = TRUE /\ lastEnd' = now
  /\ UNCHANGED <<now, origin, goodStart>>

AllowNext ==
  \/ Tick \/ \E e \in Emails : EditTable(e)
  \/ \E r \in Requests :
       \/ \E e \in Emails : Ask(r, e)
       \/ AnswerStatic(r) \/ AnswerCached(r) \/ BeginFetch(r)
  \/ ReadPage \/ FetchDone \/ FetchBreaks

AllowSpec == AllowInit /\ [][AllowNext]_allowVars

-----------------------------------------------------------------------------
(* Properties *)

AllowTypeOK ==
  /\ now \in 0..MaxTime /\ edits \in 0..MaxEdits
  /\ table \cup cache \cup got \subseteq Emails \ Static
  /\ cached \in BOOLEAN /\ failing \in BOOLEAN
  /\ validUntil \in Nat /\ began \in Nat /\ page \in Nat
  /\ mu \in Requests \cup {NoOne}
  /\ mu # NoOne => Asked(mu)
  /\ \A r \in Requests : /\ ask[r].pc \in {"none", "asked", "told"}
                         /\ Asked(r) => ask[r].email \in Emails
  /\ lastIn \in [Emails -> Never..MaxTime] /\ lastOut \in [Emails -> Never..MaxTime]
  /\ goodStart \in Never..MaxTime /\ lastEnd \in Never..MaxTime

(* "Adding or removing an author takes up to this long to take effect"       *)
(* (allowlist.go:23): whoever is in the cache was in the table, and whoever  *)
(* is not was out of it, at some moment since the fetch it stems from began; *)
(* and while it is used that is not longer ago than a lifetime and the time  *)
(* a fetch takes, unless fetches have been failing since (allowlist.go:105). *)
CacheIsRecent ==
  /\ goodStart # Never =>
       \A e \in Emails \ Static :
         /\ e \in cache => lastIn[e] >= goodStart
         /\ e \notin cache => lastOut[e] >= goodStart
  /\ goodStart = Never => cache = {}
  /\ Valid /\ ~failing => now - goodStart < TTL + FetchTimeout

(* "A transient outage is retried soon without hammering the API"            *)
(* (allowlist.go:26): whatever requests come in, a fetch does not begin      *)
(* before a while has passed since the last one ended.                       *)
FetchesAreSpaced ==
  mu # NoOne /\ lastEnd # Never => began >= lastEnd + ErrTTL
=============================================================================
