------------------------------- MODULE Session -------------------------------
(***************************************************************************)
(* Browser sessions of one user: the rotation of refresh tokens (the API's *)
(* auth.py) against the web application's refresh (lib/api/session.ts), in *)
(* the tabs of several browsers.  A browser's tabs share its cookies and   *)
(* its Web Lock; in a tab, concurrent 401s share one refresh, so a tab has *)
(* at most one.  The login page tries a refresh of its own, outside the    *)
(* lock.                                                                   *)
(*                                                                         *)
(* A request carries the cookie its browser holds when it is sent.         *)
(* /auth/refresh reads the token in one statement and commits what it      *)
(* decides in another; other requests touch the database once.  Requests   *)
(* and replies may be lost.                                                *)
(***************************************************************************)
EXTENDS Sessions, Sequences

vars == <<tokens, jar, lock, tab, reused, causes, left>>

NoTab == 0     \* tabs are numbered from 1

Idle == [pc |-> "idle"]
At(pc) == [pc |-> pc]

\* /auth/refresh on its way, from session.ts under the lock or from the login page.
Refreshing(t)    == tab[t].pc \in {"sent", "read", "answered"}
SigningOut(t)    == tab[t].pc \in {"leaving", "left"}
Others(t)        == {u \in AllTabs : u[1] = t[1] /\ u # t}
HoldsLock(t)     == lock[t[1]] = t[2]
Unlocked_Never(t) == lock
Unlocked(t)      == IF HoldsLock(t) THEN [lock EXCEPT ![t[1]] = NoTab] ELSE lock
Spend(what)      == left[what] > 0 /\ left' = [left EXCEPT ![what] = @ - 1]

Init ==
    /\ tokens = [n \in 1 .. Cardinality(Browsers) |-> "live"]
    /\ jar \in [Browsers -> [refresh : DOMAIN tokens, access : {TRUE}]]
    /\ \A a, b \in Browsers : a # b => jar[a].refresh # jar[b].refresh
    /\ lock = [b \in Browsers |-> NoTab]
    /\ tab = [t \in AllTabs |-> Idle]
    /\ reused = FALSE
    /\ causes = {}
    /\ left = [expiries |-> MaxExpiries, events |-> MaxEvents]
-----------------------------------------------------------------------------
(* Time *)

\* The access token's 15 minutes are over.
AccessExpires(b) ==
    /\ jar[b].access
    /\ Spend("expiries")
    /\ jar' = [jar EXCEPT ![b].access = FALSE]
    /\ UNCHANGED <<tokens, lock, tab, reused, causes>>

\* A browser unused for 30 days: its refresh token has expired too.
RefreshExpires(b) ==
    /\ ~jar[b].access /\ jar[b].refresh # 0
    /\ tokens[jar[b].refresh] = "live"
    /\ \A t \in AllTabs : t[1] = b => ~Refreshing(t)
    /\ Spend("expiries")
    /\ tokens' = [tokens EXCEPT ![jar[b].refresh] = "expired"]
    /\ UNCHANGED <<jar, lock, tab, reused, causes>>
-----------------------------------------------------------------------------
(* session.ts *)

\* A request is answered 401: sessionFetch wants a refresh.
Unauthorized(t) ==
    /\ tab[t].pc = "idle"
    /\ ~jar[t[1]].access
    /\ tab' = [tab EXCEPT ![t] = At("refused")]
    /\ UNCHANGED <<tokens, jar, lock, reused, causes, left>>

CanLock_Always(t) == TRUE
CanLock(t) == lock[t[1]] = NoTab

TakeLock(t) ==
    /\ tab[t].pc = "refused"
    /\ CanLock(t)
    /\ lock' = [lock EXCEPT ![t[1]] = t[2]]
    /\ tab' = [tab EXCEPT ![t] = At("probing")]
    /\ UNCHANGED <<tokens, jar, reused, causes, left>>

\* The POST to /auth/refresh leaves, with the cookie of that moment; silent on
\* the login page.  What else is on its way from this browser is recorded.
Send(t, silent) ==
    /\ tab' = [tab EXCEPT ![t] = [pc |-> "sent", cookie |-> jar[t[1]].refresh, silent |-> silent]]
    /\ causes' = causes
         \cup {c \in {"login page"} :
                 \E u \in Others(t) : Refreshing(u) /\ (silent \/ tab[u].silent)}
         \cup {c \in {"sign-out"} : \E u \in Others(t) : SigningOut(u)}

\* GET /auth/me succeeds: another tab has refreshed, and the request is retried.
ProbeSucceeds(t) ==
    /\ tab[t].pc = "probing"
    /\ jar[t[1]].access
    /\ tab' = [tab EXCEPT ![t] = Idle]
    /\ lock' = Unlocked(t)
    /\ UNCHANGED <<tokens, jar, reused, causes, left>>

\* It is not ok: the access token has expired, or (a fault) a gateway answered.
ProbeFails(t) ==
    /\ tab[t].pc = "probing"
    /\ IF jar[t[1]].access THEN Spend("events") ELSE UNCHANGED left
    /\ Send(t, FALSE)
    /\ UNCHANGED <<tokens, jar, lock, reused>>

\* It throws: so does the request, with no refresh.
ProbeThrows(t) ==
    /\ tab[t].pc = "probing"
    /\ Spend("events")
    /\ tab' = [tab EXCEPT ![t] = Idle]
    /\ lock' = Unlocked(t)
    /\ UNCHANGED <<tokens, jar, reused, causes>>
-----------------------------------------------------------------------------
(* POST /auth/refresh *)

Status(cookie) == IF cookie = 0 THEN "unknown" ELSE tokens[cookie]

ReadToken(t) ==
    /\ tab[t].pc = "sent"
    /\ tab' = [tab EXCEPT ![t] =
           [pc |-> "read", cookie |-> @.cookie, silent |-> @.silent, seen |-> Status(@.cookie)]]
    /\ UNCHANGED <<tokens, jar, lock, reused, causes, left>>

Answered(t, token) == [pc |-> "answered", silent |-> tab[t].silent, issued |-> token]

\* A live token is revoked, whatever it has become since it was read, and a new
\* one is issued (_start_session).
Rotated_KeepingOld(cookie) == Append(tokens, "live")
Rotated(cookie) == Append([tokens EXCEPT ![cookie] = "revoked"], "live")

Rotate(t) ==
    /\ tab[t].pc = "read" /\ tab[t].seen = "live"
    /\ tokens' = Rotated(tab[t].cookie)
    /\ tab' = [tab EXCEPT ![t] = Answered(t, Len(tokens) + 1)]
    /\ UNCHANGED <<jar, lock, reused, causes, left>>

\* A revoked one is a reuse: every unrevoked token of the user is revoked.
RevokeAll(t) ==
    /\ tab[t].pc = "read" /\ tab[t].seen = "revoked"
    /\ tokens' = [n \in DOMAIN tokens |-> "revoked"]
    /\ reused' = TRUE
    /\ tab' = [tab EXCEPT ![t] = Answered(t, 0)]
    /\ UNCHANGED <<jar, lock, causes, left>>

Refuse(t) ==
    /\ tab[t].pc = "read" /\ tab[t].seen \in {"unknown", "expired"}
    /\ tab' = [tab EXCEPT ![t] = Answered(t, 0)]
    /\ UNCHANGED <<tokens, jar, lock, reused, causes, left>>

\* The reply sets the cookies and the request is retried (or the page opens).
Refreshed(t) ==
    /\ tab[t].pc = "answered" /\ tab[t].issued # 0
    /\ jar' = [jar EXCEPT ![t[1]] = [refresh |-> tab[t].issued, access |-> TRUE]]
    /\ tab' = [tab EXCEPT ![t] = Idle]
    /\ lock' = Unlocked(t)
    /\ UNCHANGED <<tokens, reused, causes, left>>

\* A 401 leaves the cookies alone: onExpired loads /login, which shows its form
\* only when its own refresh is refused as well.
Expired(t) ==
    /\ tab[t].pc = "answered" /\ tab[t].issued = 0
    /\ tab' = [tab EXCEPT ![t] = IF tab[t].silent THEN At("form") ELSE At("login")]
    /\ lock' = Unlocked(t)
    /\ UNCHANGED <<tokens, jar, reused, causes, left>>

\* The request is lost before it commits, or the reply after, and fetch throws or a
\* gateway answers with a 5xx.  In session.ts the first fails the request that was
\* refused, and the second counts as a refused refresh.  On the login page the
\* second shows the form, and nothing catches the first: the page keeps its
\* skeleton, and sends nothing any more.
Lose(t) ==
    /\ Refreshing(t)
    /\ Spend("events")
    /\ causes' = causes \cup
           {c \in {"lost reply"} : tab[t].pc = "answered" /\ tab[t].issued # 0}
    /\ \E next \in IF tab[t].silent THEN {"skeleton", "form"} ELSE {"idle", "login"} :
          tab' = [tab EXCEPT ![t] = At(next)]
    /\ lock' = Unlocked(t)
    /\ UNCHANGED <<tokens, jar, reused>>
-----------------------------------------------------------------------------
(* The login page, signing in and out *)

\* A link from another site: the proxy, which does not see the Strict cookie,
\* sends the tab to /login.
Visit(t) ==
    /\ tab[t].pc = "idle" /\ ~jar[t[1]].access
    /\ Spend("events")
    /\ tab' = [tab EXCEPT ![t] = At("login")]
    /\ UNCHANGED <<tokens, jar, lock, reused, causes>>

\* The user loads a page again that shows its skeleton, and need not.
Reload(t) ==
    /\ tab[t].pc = "skeleton"
    /\ tab' = [tab EXCEPT ![t] = At("login")]
    /\ UNCHANGED <<tokens, jar, lock, reused, causes, left>>

SilentRefresh(t) ==
    /\ tab[t].pc = "login"
    /\ Send(t, TRUE)
    /\ UNCHANGED <<tokens, jar, lock, reused, left>>

\* The user may do so although another tab has signed in meanwhile.
SignIn(t) ==
    /\ tab[t].pc = "form"
    /\ tokens' = Append(tokens, "live")
    /\ jar' = [jar EXCEPT ![t[1]] = [refresh |-> Len(tokens) + 1, access |-> TRUE]]
    /\ tab' = [tab EXCEPT ![t] = Idle]
    /\ causes' = causes \cup
           {c \in {"sign-in"} : \/ Status(jar[t[1]].refresh) = "live"
                                \/ \E u \in Others(t) : Refreshing(u) \/ SigningOut(u)}
    /\ UNCHANGED <<lock, reused, left>>

SignOut(t) ==
    /\ tab[t].pc = "idle" /\ jar[t[1]].refresh # 0
    /\ Spend("events")
    /\ tab' = [tab EXCEPT ![t] = [pc |-> "leaving", cookie |-> jar[t[1]].refresh]]
    /\ causes' = causes \cup {c \in {"sign-out"} : \E u \in Others(t) : Refreshing(u)}
    /\ UNCHANGED <<tokens, jar, lock, reused>>

Logout(t) ==
    /\ tab[t].pc = "leaving"
    /\ tokens' = [tokens EXCEPT ![tab[t].cookie] = "revoked"]
    /\ tab' = [tab EXCEPT ![t] = At("left")]
    /\ UNCHANGED <<jar, lock, reused, causes, left>>

\* The reply clears the cookies, and the page loads /login.
SignedOut(t) ==
    /\ tab[t].pc = "left"
    /\ jar' = [jar EXCEPT ![t[1]] = [refresh |-> 0, access |-> FALSE]]
    /\ tab' = [tab EXCEPT ![t] = At("login")]
    /\ UNCHANGED <<tokens, lock, reused, causes, left>>

\* A sign-out is lost on its way, or its reply is: one event with the sign-out.
\* The page loads /login all the same, unless fetch throws.
LoseSignOut(t) ==
    /\ SigningOut(t)
    /\ causes' = causes \cup {c \in {"lost reply"} : tab[t].pc = "left"}
    /\ \E next \in {"idle", "login"} : tab' = [tab EXCEPT ![t] = At(next)]
    /\ UNCHANGED <<tokens, jar, lock, reused, left>>
-----------------------------------------------------------------------------
Answer(t) ==
    \/ ProbeSucceeds(t) \/ ProbeFails(t) \/ ReadToken(t) \/ Rotate(t) \/ RevokeAll(t)
    \/ Refuse(t) \/ Refreshed(t) \/ Expired(t) \/ Logout(t) \/ SignedOut(t)

TabStep(t) ==
    \/ Answer(t) \/ Unauthorized(t) \/ TakeLock(t) \/ ProbeThrows(t) \/ Lose(t)
    \/ Visit(t) \/ Reload(t) \/ SilentRefresh(t) \/ SignIn(t) \/ SignOut(t) \/ LoseSignOut(t)

Next ==
    \/ \E b \in Browsers : AccessExpires(b) \/ RefreshExpires(b)
    \/ \E t \in AllTabs : TabStep(t)

\* The API answers what reaches it, a page runs its own code, and the browser
\* grants a free lock to a tab that waits for it.  The user is not assumed to do
\* anything.
Fairness ==
    \A t \in AllTabs :
        WF_vars(Answer(t)) /\ WF_vars(SilentRefresh(t)) /\ WF_vars(TakeLock(t))

Spec == Init /\ [][Next]_vars

FairSpec == Spec /\ Fairness
=============================================================================
