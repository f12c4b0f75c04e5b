------------------------------ MODULE AuthFlow -------------------------------
(***************************************************************************)
(* "Log in with Hack Club": internal/auth/auth.go over cookie.go.  One        *)
(* browser with several requests in flight, whose two cookies are the whole  *)
(* state of a login: what a handler decides is decided on the cookies its    *)
(* request carried, and what it sets arrives with its response.  Who is      *)
(* allowed is the injected function "allowed", whose answers change          *)
(* (Allowlist.tla says how).                                                  *)
(*                                                                         *)
(* A signed cookie is its payload, since only sign makes one that unsign     *)
(* takes.  A login's state, nonce and PKCE verifier are its number; login 0  *)
(* was begun in another browser.  The identity provider grants a code for a  *)
(* login to whoever is signed in there, and exchanges it once, for the       *)
(* verifier of that login.                                                   *)
(***************************************************************************)
EXTENDS Integers, FiniteSets

CONSTANTS
  Tabs,          \* requests in flight
  Users,         \* addresses
  PendingTTL,    \* pendingTTL (10 min)
  SessionTTL,    \* sessionTTL (7 days)
  MaxLogins,     \* bound: logins begun in this browser
  MaxGrants,     \* bound: codes granted
  MaxClock       \* bound: end of time

ASSUME AuthFlowAssumption ==
  {PendingTTL, SessionTTL, MaxLogins, MaxGrants, MaxClock} \subseteq Nat

VARIABLES
  clock,
  admitted,    \* the addresses allowed says yes to
  pending,     \* the hc_oauth cookie
  session,     \* the hc_session cookie
  logins,      \* logins begun here
  grants,      \* codes the provider has granted
  used,        \* the ones it has exchanged
  seeds,       \* sessions set up so far
  rq,          \* the handler of each request
  form,        \* the page the browser shows: its token, and for whom it was rendered
  strayed      \* history: something was done in the name of one user by a form
               \* rendered for another

browser  == <<pending, session, form>>
provider == <<logins, grants, used>>
world    == <<clock, admitted>>
authVars == <<world, browser, provider, seeds, rq, strayed>>

Nobody   == "nobody"
NoCookie == [exp |-> -1]
NoToken  == [exp |-> -1]
NoForm   == [token |-> NoToken, shown |-> Nobody]
Idle     == [pc |-> "idle"]

Live(cookie) == cookie.exp >= clock
Free(r) == rq[r] = Idle
At(r, pc) == rq[r].pc = pc
Goes(r, to) == rq' = [rq EXCEPT ![r] = to]

AuthInit ==
  /\ clock = 0 /\ admitted \in SUBSET Users
  /\ pending = NoCookie /\ session = NoCookie
  /\ logins = 0 /\ grants = {} /\ used = {} /\ seeds = 0
  /\ rq = [r \in Tabs |-> Idle]
  /\ form = NoForm
  /\ strayed = FALSE

(* Time passes, and authors come and go. *)
AuthTick ==
  /\ clock < MaxClock /\ clock' = clock + 1
  /\ admitted' \in SUBSET Users
  /\ UNCHANGED <<browser, provider, seeds, rq, strayed>>

Login ==
  /\ logins < MaxLogins
  /\ logins' = logins + 1
  /\ pending' = [login |-> logins', exp |-> clock + PendingTTL]
  /\ UNCHANGED <<world, session, form, grants, used, seeds, rq, strayed>>

(* The provider sends whoever is signed in there back with a code. *)
Grant(l, e, verified) ==
  /\ Cardinality(grants) < MaxGrants
  /\ grants' = grants \cup {[login |-> l, email |-> e, verified |-> verified]}
  /\ UNCHANGED <<world, browser, logins, used, seeds, rq, strayed>>

(* A missing or expired login changes nothing; a state that is not the       *)
(* pending login's, or no code, ends the pending login.                      *)
Callback(r, state, code) ==
  /\ Free(r)
  /\ Live(pending)
  /\ IF state = pending.login
       THEN /\ Goes(r, [pc |-> "exchange", login |-> pending.login, code |-> code])
            /\ UNCHANGED pending
       ELSE pending' = NoCookie /\ UNCHANGED rq
  /\ UNCHANGED <<world, session, form, provider, seeds, strayed>>

(* Mutant: whatever address the profile names is taken. *)
AnyAddress(g) == TRUE

EmailVerified(g) == g.verified

(* Exchange and UserInfo; the code has to be one granted for this verifier. *)
Exchange(r) ==
  /\ At(r, "exchange")
  /\ LET g == rq[r].code
     IN  /\ g \notin used /\ g.login = rq[r].login
         /\ used' = used \cup {g}
         /\ IF EmailVerified(g)
              THEN Goes(r, [pc |-> "admit", email |-> g.email]) /\ UNCHANGED pending
              ELSE Goes(r, Idle) /\ pending' = NoCookie
  /\ UNCHANGED <<world, session, form, logins, grants, seeds, strayed>>

(* The provider refuses the code, or one of the two calls fails on the way. *)
LoginFails(r) ==
  /\ At(r, "exchange")
  /\ pending' = NoCookie /\ Goes(r, Idle)
  /\ used' \in {used, used \cup {g \in {rq[r].code} : g.login = rq[r].login}}
  /\ UNCHANGED <<world, session, form, logins, grants, seeds, strayed>>

(* The response of the callback clears the pending login, whichever login    *)
(* that is by now.                                                           *)
Admit(r) ==
  /\ At(r, "admit")
  /\ pending' = NoCookie /\ Goes(r, Idle)
  /\ IF rq[r].email \in admitted
       THEN /\ seeds' = seeds + 1
            /\ session' = [email |-> rq[r].email, exp |-> clock + SessionTTL, seed |-> seeds']
       ELSE UNCHANGED <<seeds, session>>
  /\ UNCHANGED <<world, form, provider, strayed>>

Logout ==
  /\ session' = NoCookie
  /\ UNCHANGED <<world, pending, form, provider, seeds, rq, strayed>>

(* Mutant: one token for everybody. *)
OneToken(s) == [exp |-> 0]

(* The MAC of the session's address, expiry and seed. *)
csrfToken(s) == s

(* A request with the session cookie; a POST sends the form of the page       *)
(* shown, or one without a token.                                            *)
Request(r, method, page) ==
  /\ Free(r) /\ Live(session)
  /\ Goes(r, [pc |-> "guard", sess |-> session, method |-> method, page |-> page])
  /\ UNCHANGED <<world, browser, provider, seeds, strayed>>

CurrentSession(s) == Live(s) /\ s.email \in admitted
ValidCSRF(q) == q.page.token # NoToken /\ q.page.token = csrfToken(q.sess)

(* RequireUser lets the request through to the handler, which changes         *)
(* something and redirects, or renders a page (the preview is a POST, too).   *)
Through(r) ==
  /\ At(r, "guard") /\ CurrentSession(rq[r].sess)
  /\ LET q == rq[r]
     IN  IF q.method = "GET"
           THEN Goes(r, [pc |-> "render", sess |-> q.sess]) /\ UNCHANGED strayed
           ELSE /\ ValidCSRF(q)
                /\ strayed' = (strayed \/ q.sess.email # q.page.shown)
                /\ \/ Goes(r, Idle)
                   \/ Goes(r, [pc |-> "render", sess |-> q.sess])
  /\ UNCHANGED <<world, browser, provider, seeds>>

(* The request is redirected to /login, or refused for its token. *)
TurnedAway(r) ==
  /\ At(r, "guard")
  /\ \/ ~CurrentSession(rq[r].sess)
     \/ rq[r].method = "POST" /\ ~ValidCSRF(rq[r])
  /\ Goes(r, Idle)
  /\ UNCHANGED <<world, browser, provider, seeds, strayed>>

(* The page comes with CSRFToken, which looks at the session once more. *)
Render(r) ==
  /\ At(r, "render")
  /\ LET s == rq[r].sess
     IN  form' = [token |-> IF CurrentSession(s) THEN csrfToken(s) ELSE NoToken,
                  shown |-> s.email]
  /\ Goes(r, Idle)
  /\ UNCHANGED <<world, pending, session, provider, seeds, strayed>>

AuthNext ==
  \/ AuthTick \/ Login \/ Logout
  \/ \E l \in 0..logins, e \in Users, v \in BOOLEAN : Grant(l, e, v)
  \/ \E r \in Tabs :
       \/ \E l \in 0..logins, g \in grants : Callback(r, l, g)
       \/ Exchange(r) \/ LoginFails(r) \/ Admit(r)
       \/ Request(r, "GET", NoForm)
       \/ \E page \in {form, NoForm} : Request(r, "POST", page)
       \/ Through(r) \/ TurnedAway(r) \/ Render(r)

AuthSpec == AuthInit /\ [][AuthNext]_authVars

-----------------------------------------------------------------------------
(* Properties *)

AuthTypeOK ==
  /\ clock \in 0..MaxClock /\ admitted \subseteq Users
  /\ pending # NoCookie => pending.login \in 1..logins /\ pending.exp <= MaxClock + PendingTTL
  /\ session # NoCookie => session.email \in Users /\ session.seed \in 1..seeds
  /\ used \subseteq grants
  /\ \A r \in Tabs : rq[r].pc \in {"idle", "exchange", "admit", "guard", "render"}

(* "The email is the sole identity ... it must be one the provider confirms   *)
(* the user controls" (auth.go:124): however logins of several tabs,          *)
(* callbacks and answers of the provider cross, the session is that of a      *)
(* verified address which the provider granted a code for, and exchanged it,  *)
(* to a login begun in this browser.                                          *)
SessionWasEarned ==
  session # NoCookie =>
    \E g \in used : g.email = session.email /\ g.verified /\ g.login # 0

(* "Any form rendered during the session stays valid" (auth.go:206), and no   *)
(* other: nothing is ever done in the name of one user by the form rendered   *)
(* for another, however pages are left open across logouts and logins.        *)
ActsAsShown == ~strayed
=============================================================================
