------------------------------ MODULE Sessions ------------------------------
(***************************************************************************)
(* The browser sessions of one user as they can be seen at any moment: the *)
(* refresh tokens the API has issued, each browser's cookies and Web Lock, *)
(* and what its tabs are doing; and what is promised of them.  How they    *)
(* change is Session.                                                      *)
(*                                                                         *)
(* A refresh token is its index in tokens.                                 *)
(***************************************************************************)
EXTENDS Naturals, FiniteSets

CONSTANTS
    Browsers,
    AllTabs,        \* their tabs: pairs of a browser and a name
    MaxExpiries,    \* bound: access tokens (or, later, refresh tokens) that expire
    MaxEvents       \* bound: sign-outs (lost or not), visits of the login page from another site,
                    \* and faults (a request or reply lost, or a gateway's error)

ASSUME Tabs == AllTabs \subseteq Browsers \X (Nat \ {0})

ASSUME Bounds == IsFiniteSet(Browsers) /\ {MaxExpiries, MaxEvents} \subseteq Nat

VARIABLES
    tokens,     \* status of every refresh token issued
    jar,        \* each browser's cookies: its refresh token, 0 for none, and
                \* whether it has a valid access token
    lock,       \* the tab that holds each browser's Web Lock
    tab,        \* what each tab is doing
    reused,     \* history: the API has seen a reuse and revoked every session
    causes,     \* history: what has happened that may break single use
    left        \* what is left of each bound
-----------------------------------------------------------------------------
\* session.ts promises that /auth/refresh is called once per expiry, because a
\* second call with a rotated token revokes every session of the user.  With the
\* lock, whatever tabs and browsers do, the API sees no reuse unless a reply was
\* lost, the login page refreshed beside a tab, or a sign-out or sign-in raced a
\* refresh.
\* Failing or slow probes, lost requests, expiries and other browsers never do.
ReuseHasACause == reused => causes # {}

\* Rotation leaves no session behind that no browser holds: one that nobody can
\* sign out lives for 30 days.
NoOrphanSession ==
    causes = {} =>
        \A n \in DOMAIN tokens : tokens[n] = "live" =>
            \/ \E b \in Browsers : jar[b].refresh = n
            \/ \E t \in AllTabs : tab[t].pc = "answered" /\ tab[t].issued = n

\* A refused request is retried, or fails, or its tab shows the login form: no tab
\* waits for ever for a lock that another left held, nor goes round between
\* session.ts and the login page.  The one other end is the login page's skeleton,
\* where a refresh of its own was lost that nothing catches (login/page.tsx).
RefreshEnds ==
    \A t \in AllTabs :
        tab[t].pc = "refused" ~> tab[t].pc \in {"idle", "form", "skeleton"}
=============================================================================
