----------------------------- MODULE WebSession -----------------------------
(* The session of a browser: several tabs of the web application over one    *)
(* local storage (api/client.ts, auth/tokenStorage.ts, auth/AuthContext.tsx) *)
(* and the server's refresh tokens and rate limit.  A tab renews an expired  *)
(* access token once for all its requests that wait for it; tabs do not know *)
(* of each other.  Script runs to completion: what happens between two       *)
(* awaits is one step.  The server answers a refresh or a sign-out in one    *)
(* step (what happens inside is the subject of RefreshTokens), or never.     *)
(*                                                                           *)
(* The access and the refresh token of one answer are stored, read and       *)
(* cleared together; both go by one number.  A family is named by the number *)
(* of the sign-in that opened it.                                            *)
EXTENDS RateLimit, FiniteSetsExt

CONSTANTS
  Tabs, Requests, Null,
  MaxTokens, MaxSends, MaxTime   \* bounds: tokens issued, requests sent, ticks

Refused == 0
Tokens == 1 .. MaxTokens

\* a request of a page, and a sign-out on its way
Pending ==
  [tab : Tabs, at : {"sent", "waiting", "refreshing", "resent"},
   token : Tokens \cup {Null}, presented : Tokens \cup {Null},
   answer : Tokens \cup {Refused, Null}]
SigningOut == [token : Tokens, served : BOOLEAN, alone : BOOLEAN]

ASSUME BoundsAssumption == {MaxTokens, MaxSends, MaxTime} \subseteq Nat
ASSUME NullAssumption == Null \notin Int \cup Pending \cup SigningOut

VARIABLES
  storage,   \* the tokens in the local storage, or Null
  shown,     \* per tab: the family it signed in with, as AuthContext's user; or Null
  leaving,   \* per tab: the sign-out in progress, or Null
  req,       \* the requests of the pages, or Null
  family,    \* the family of every token issued
  active,    \* refresh:active, per family
  expired,   \* the tokens whose access token has expired
  key, now,  \* the counter of refreshes of this client's address; the clock
  calls,     \* history: the refreshes the server counted
  torn,      \* history: has the store failed between INCR and EXPIRE
  reached,   \* history: the tokens that have been in the storage
  excused,   \* history: families that something has ended, or may have
  left,      \* history: families signed out with no refresh on its way
  sends      \* requests sent, a bound
server == <<family, active, expired>>
limiter == <<key, now, calls, torn>>
vars == <<storage, shown, leaving, req, server, limiter, reached, excused, left, sends>>

FamilyOf(j) == IF j = Null THEN {} ELSE {family[j]}
Of(t) == {p \in Requests : req[p] # Null /\ req[p].tab = t}
At(p, at) == req[p] # Null /\ req[p].at = at
Refreshing == {p \in Requests : At(p, "refreshing")}

Init ==
  /\ storage = Null /\ shown = [t \in Tabs |-> Null] /\ leaving = [t \in Tabs |-> Null]
  /\ req = [p \in Requests |-> Null]
  /\ family = <<>> /\ active = [f \in Tokens |-> Null] /\ expired = {}
  /\ key = NoKey /\ now = 0 /\ calls = <<>> /\ torn = FALSE
  /\ reached = {} /\ excused = {} /\ left = {} /\ sends = 0

\* setTokens and clearTokens
SetTokens(j) == storage' = j /\ reached' = reached \cup {j}
ClearTokens == storage' = Null /\ UNCHANGED reached

-----------------------------------------------------------------------------
(* Signing in and out, and reloading the page.                               *)

\* login, answered at once; it replaces the session another tab may have stored
SignIn(t) ==
  LET j == Len(family) + 1
  IN  /\ shown[t] = Null /\ j <= MaxTokens
      /\ family' = Append(family, j) /\ active' = [active EXCEPT ![j] = j]
      /\ SetTokens(j) /\ shown' = [shown EXCEPT ![t] = j]
      /\ excused' = excused \cup FamilyOf(storage)
      /\ UNCHANGED <<leaving, req, expired, limiter, left, sends>>

\* Mutant: the tokens are cleared before the server is told.
SignOutForgets(t) ==
  /\ shown[t] # Null /\ leaving[t] = Null
  /\ leaving' = IF storage = Null THEN leaving
       ELSE [leaving EXCEPT ![t] = [token |-> storage, served |-> TRUE, alone |-> Refreshing = {}]]
  /\ shown' = IF storage = Null THEN [shown EXCEPT ![t] = Null] ELSE shown
  /\ excused' = excused \cup FamilyOf(storage)
  /\ UNCHANGED <<storage, req, server, limiter, reached, left, sends>>
\* logout: the refresh token is posted while it is still in the storage
SignOut(t) ==
  /\ shown[t] # Null /\ leaving[t] = Null
  /\ leaving' = IF storage = Null THEN leaving
       ELSE [leaving EXCEPT ![t] = [token |-> storage, served |-> FALSE, alone |-> Refreshing = {}]]
  /\ shown' = IF storage = Null THEN [shown EXCEPT ![t] = Null] ELSE shown
  /\ excused' = excused \cup FamilyOf(storage)
  /\ UNCHANGED <<storage, req, server, limiter, reached, left, sends>>

\* auth_service.logout
ServeSignOut(t) ==
  /\ leaving[t] # Null /\ ~leaving[t].served
  /\ LET j == leaving[t].token
     IN  active' = IF active[family[j]] = j THEN [active EXCEPT ![family[j]] = Null] ELSE active
  /\ leaving' = [leaving EXCEPT ![t].served = TRUE]
  /\ UNCHANGED <<storage, shown, req, family, expired, limiter, reached, excused, left, sends>>

\* the answer, or the failure that is caught: "local session is always cleared"
SignedOut(t) ==
  /\ leaving[t] # Null
  /\ ClearTokens /\ shown' = [shown EXCEPT ![t] = Null] /\ leaving' = [leaving EXCEPT ![t] = Null]
  /\ excused' = excused \cup FamilyOf(storage)
  /\ left' = IF leaving[t].served /\ leaving[t].alone THEN left \cup FamilyOf(leaving[t].token) ELSE left
  /\ UNCHANGED <<req, server, limiter, sends>>

\* the page is loaded again, or opened: what was on its way to it is lost
Reload(t) ==
  /\ shown' = [shown EXCEPT ![t] = IF storage = Null THEN Null ELSE family[storage]]
  /\ excused' = excused \cup {family[req[p].presented] : p \in Refreshing \cap Of(t)}
  /\ req' = [p \in Requests |-> IF p \in Of(t) THEN Null ELSE req[p]]
  /\ leaving' = [leaving EXCEPT ![t] = Null]
  /\ UNCHANGED <<storage, server, limiter, reached, left, sends>>

-----------------------------------------------------------------------------
(* A request of a page, and the refresh it may start or join.                *)

Send(p, t) ==
  /\ shown[t] # Null /\ req[p] = Null /\ sends < MaxSends
  /\ sends' = sends + 1
  /\ req' = [req EXCEPT ![p] = [tab |-> t, at |-> "sent", token |-> storage,
                                presented |-> Null, answer |-> Null]]
  /\ UNCHANGED <<storage, shown, leaving, server, limiter, reached, excused, left>>

Rejected(p) == req[p].token = Null \/ req[p].token \in expired

Succeed(p) ==
  /\ At(p, "sent") \/ At(p, "resent")
  /\ ~Rejected(p)
  /\ req' = [req EXCEPT ![p] = Null]
  /\ UNCHANGED <<storage, shown, leaving, server, limiter, reached, excused, left, sends>>

\* a second 401 goes to the page as an error (_retried)
FailAgain(p) ==
  /\ At(p, "resent") /\ Rejected(p)
  /\ req' = [req EXCEPT ![p] = Null]
  /\ UNCHANGED <<storage, shown, leaving, server, limiter, reached, excused, left, sends>>

\* 401 while the tab's refreshPromise is pending
Join(p) ==
  /\ At(p, "sent") /\ Rejected(p) /\ Refreshing \cap Of(req[p].tab) # {}
  /\ req' = [req EXCEPT ![p].at = "waiting"]
  /\ UNCHANGED <<storage, shown, leaving, server, limiter, reached, excused, left, sends>>

\* Mutant: every 401 starts a refresh of its own.
MayStartAlways(p) == At(p, "sent") /\ Rejected(p)
MayStart(p) == At(p, "sent") /\ Rejected(p) /\ Refreshing \cap Of(req[p].tab) = {}

\* 401 with no refresh pending; two tabs that present one token end the session between them
StartRefresh(p) ==
  /\ MayStart(p) /\ storage # Null
  /\ req' = [req EXCEPT ![p].at = "refreshing", ![p].presented = storage]
  /\ leaving' = [t \in Tabs |-> IF leaving[t] = Null THEN Null ELSE [leaving[t] EXCEPT !.alone = FALSE]]
  /\ excused' = IF \E q \in Refreshing : req[q].tab # req[p].tab /\ req[q].presented = storage
                THEN excused \cup FamilyOf(storage) ELSE excused
  /\ UNCHANGED <<storage, shown, server, limiter, reached, left, sends>>

\* 401 and no refresh token: onAuthExpired shows the sign-in page
NothingToRefresh(p) ==
  /\ MayStart(p) /\ storage = Null
  /\ req' = [req EXCEPT ![p] = Null] /\ shown' = [shown EXCEPT ![req[p].tab] = Null]
  /\ UNCHANGED <<storage, leaving, server, limiter, reached, excused, left, sends>>

Count(admitted) == calls' = Append(calls, [at |-> now, admitted |-> admitted])
Answer(p, j) == req' = [req EXCEPT ![p].answer = j]
Unanswered(p) == At(p, "refreshing") /\ req[p].answer = Null
Untouched == UNCHANGED <<storage, shown, leaving, expired, now, reached, left, sends>>

\* over the limit: 429, which the client takes for the end of the session
ServeLimited(p) ==
  /\ Unanswered(p) /\ key' = Incr(key, now) /\ Exceeded(key') /\ Count(FALSE)
  /\ Answer(p, Refused) /\ excused' = excused \cup FamilyOf(req[p].presented)
  /\ UNCHANGED <<family, active, torn>> /\ Untouched

\* validate_and_rotate of the current token of a family
ServeRotated(p) ==
  LET f == family[req[p].presented]
      j == Len(family) + 1
  IN  /\ Unanswered(p) /\ key' = Incr(key, now) /\ ~Exceeded(key') /\ Count(TRUE)
      /\ active[f] = req[p].presented /\ j <= MaxTokens
      /\ family' = Append(family, f) /\ active' = [active EXCEPT ![f] = j] /\ Answer(p, j)
      /\ UNCHANGED <<torn, excused>> /\ Untouched

\* of a token that was replaced: the family ends
ServeReused(p) ==
  LET f == family[req[p].presented]
  IN  /\ Unanswered(p) /\ key' = Incr(key, now) /\ ~Exceeded(key') /\ Count(TRUE)
      /\ active[f] # req[p].presented
      /\ active' = [active EXCEPT ![f] = Null] /\ Answer(p, Refused)
      /\ UNCHANGED <<family, torn, excused>> /\ Untouched

\* the store fails between INCR and EXPIRE of a new counter
ServeTorn(p) ==
  /\ Unanswered(p) /\ Purged(key, now).count = 0 /\ key' = IncrTorn(key, now) /\ torn' = TRUE
  /\ Answer(p, Refused) /\ excused' = excused \cup FamilyOf(req[p].presented)
  /\ UNCHANGED <<family, active, calls>> /\ Untouched

\* the requests the refresh was for
Together(p) == {q \in Of(req[p].tab) : q = p \/ At(q, "waiting")}

\* Mutant: the renewed access token is used, the rotated refresh token is not stored.
RefreshedKeepsOld(p) ==
  /\ At(p, "refreshing") /\ req[p].answer \notin {Null, Refused}
  /\ req' = [q \in Requests |-> IF q \in Together(p)
                THEN [req[q] EXCEPT !.at = "resent", !.token = req[p].answer] ELSE req[q]]
  /\ UNCHANGED <<storage, shown, leaving, server, limiter, reached, excused, left, sends>>
Refreshed(p) ==
  /\ At(p, "refreshing") /\ req[p].answer \notin {Null, Refused}
  /\ SetTokens(req[p].answer)
  /\ req' = [q \in Requests |-> IF q \in Together(p)
                THEN [req[q] EXCEPT !.at = "resent", !.token = req[p].answer] ELSE req[q]]
  /\ excused' = excused \cup (FamilyOf(storage) \ FamilyOf(req[p].presented))
  /\ UNCHANGED <<shown, leaving, server, limiter, left, sends>>

\* refused, or the answer is lost: tokens cleared, onAuthExpired, and every request fails
RefreshFailed(p) ==
  /\ At(p, "refreshing")
  /\ ClearTokens /\ shown' = [shown EXCEPT ![req[p].tab] = Null]
  /\ req' = [q \in Requests |-> IF q \in Together(p) THEN Null ELSE req[q]]
  /\ excused' = excused \cup (FamilyOf(storage) \ FamilyOf(req[p].presented))
       \cup (IF req[p].answer = Refused THEN {} ELSE FamilyOf(req[p].presented))
  /\ UNCHANGED <<leaving, server, limiter, left, sends>>

-----------------------------------------------------------------------------
\* the tokens a request carries or will carry; no other is sent again
InUse == ({storage} \cup {req[p].token : p \in {q \in Requests : req[q] # Null}}) \ {Null}
Expire(j) ==
  /\ j \notin expired /\ expired' = expired \cup {j}
  /\ UNCHANGED <<storage, shown, leaving, req, family, active, limiter, reached, excused, left, sends>>

\* an administrator ends the sessions of the user (revoke_all_for_user)
Revoke ==
  /\ active' = [f \in DOMAIN active |-> Null] /\ active' # active
  /\ excused' = excused \cup {family[j] : j \in DOMAIN family}
  /\ UNCHANGED <<storage, shown, leaving, req, family, expired, limiter, reached, left, sends>>

Tick ==
  /\ now < MaxTime /\ now' = now + 1
  /\ UNCHANGED <<storage, shown, leaving, req, server, key, calls, torn, reached, excused, left, sends>>

Next ==
  \/ Revoke \/ Tick \/ \E j \in InUse : Expire(j)
  \/ \E t \in Tabs : SignIn(t) \/ SignOut(t) \/ ServeSignOut(t) \/ SignedOut(t) \/ Reload(t)
  \/ \E p \in Requests :
       \/ (\E t \in Tabs : Send(p, t)) \/ Succeed(p) \/ FailAgain(p)
       \/ Join(p) \/ StartRefresh(p) \/ NothingToRefresh(p)
       \/ ServeLimited(p) \/ ServeRotated(p) \/ ServeReused(p) \/ ServeTorn(p)
       \/ Refreshed(p) \/ RefreshFailed(p)

Spec == Init /\ [][Next]_vars

-----------------------------------------------------------------------------
(* Properties.                                                               *)

\* A session nothing has ended is the one in the storage, and its token is the one the server
\* will exchange: any number of requests and of renewals, in one tab or in tabs that renew one
\* after the other, keep it alive.  What ends a session: signing out or in, a revocation, an
\* answer that is lost or refused for the limit, two tabs that present one token.
SessionKept ==
  Refreshing = {} =>
    \A f \in {family[j] : j \in DOMAIN family} \ excused :
      /\ storage # Null
      /\ family[storage] = f /\ active[f] = storage

\* After a sign-out the server has answered no token a tab ever stored of that session can be
\* exchanged, and none comes back into the storage; it takes a sign-out no refresh overlaps.
SignOutEnds ==
  \A f \in left : active[f] \notin reached /\ f \notin FamilyOf(storage)

\* The refreshes of one address are refused for cause and admitted within twice the limit, as
\* long as the store has not failed in the middle of an increment.
RefreshesLimited == ~torn => LessThanTwice(calls) /\ RefusedForCause(calls)
=============================================================================
