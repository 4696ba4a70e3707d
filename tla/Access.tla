-------------------------------- MODULE Access --------------------------------
(***************************************************************************)
(* Who may read and change what: accounts, sessions, project API keys,     *)
(* stream tokens and share links, as concurrent transactions of the API    *)
(* (auth.py, projects.py, share.py, security.py, and the owned_* queries   *)
(* of runs.py, results.py, suites.py and agents.py).                       *)
(*                                                                         *)
(* As in Workspace each request is one session of db.get_db, cut at its    *)
(* queries.  Its answer is on its way from the step that commits it,       *)
(* except in start_run and cancel_run, which commit before they tell the   *)
(* queue.  What a request creates has the request's name, and every        *)
(* project has one suite, one agent and one run, named as the project.     *)
(* Passwords, hashes and signatures are abstracted to what checking them   *)
(* yields; a 429 of the rate limiters (TokenBucket) is a request refused.  *)
(* A session's cookies and their rotation are Session.                     *)
(***************************************************************************)
EXTENDS Naturals, FiniteSets

CONSTANTS
    Requests,   \* the requests, each served once
    First,      \* what exists at the start: an account, its project and run, a key
    Second,     \* and its second project and run
    Other,      \* and another account, with a session and nothing else
    None,
    MaxOpen,    \* requests served at a time
    Slots,      \* ARGON2_SLOTS
    SignupCap,  \* MAX_SIGNUPS_PER_DAY
    ProjectCap  \* MAX_PROJECTS_PER_USER

VARIABLES
    accounts,  \* users: a set of [id, email, recent]
    sessions,  \* the accounts somebody is signed in to
    projects,  \* projects: a set of [id, owner]
    keys,      \* api_keys: a set of [id, project, of, live]
    tokens,    \* stream tokens: a set of [id, run, of, live]
    links,     \* runs' share columns: a set of [run, token, of, live], one per run
    req        \* each request: where it is, what it asks and by what right

vars == <<accounts, sessions, projects, keys, tokens, links, req>>
tables == <<accounts, sessions, projects, keys, tokens, links>>

------------------------------------------------------------------------------
(* Credentials.  `of` is history: the account that was behind the request    *)
(* that handed the key, token or link out.                                   *)

Credentials ==
    [kind : {"session"}, id : sessions]
        \cup [kind : {"key"}, id : {k.id : k \in keys}]
        \cup [kind : {"stream"}, id : {t.id : t \in tokens}]
        \cup [kind : {"link"}, id : {l.token : l \in links}]

UserOnly == {"createProject", "createKey", "revokeKey", "streamToken"}
KeyOnly == {"report"}
Either == {"list", "read", "stream", "share", "unshare", "trace", "suite", "agent",
           "start", "cancel"}
Ops == UserOnly \cup KeyOnly \cup Either \cup {"shared"}

Key(by) == CHOOSE k \in keys : k.id = by.id
Token(by) == CHOOSE t \in tokens : t.id = by.id
ProjectOf(p) == CHOOSE r \in projects : r.id = p

\* The account a request acts for, and the project its key is limited to.
User(by) == IF by.kind = "key" THEN ProjectOf(Key(by).project).owner
            ELSE IF by.kind = "stream" THEN Token(by).of ELSE by.id
Scope(by) == IF by.kind = "key" THEN Key(by).project ELSE None

\* decode_token: a token opens only what its type is for.
RightType(by, op) == (by.kind = "stream") => (op = "stream")

\* stream_principal: and only its own run's stream, for 60 seconds.
StreamPrincipal(by, on) == (by.kind = "stream") => (Token(by).live /\ Token(by).run = on)

\* Mutant: an API key reaches every project of its account.
OwnedRun_AnyProject(by, r) == \E p \in projects : p.id = r /\ p.owner = User(by)

\* owned_run: the run's project is the account's, and not another than the key's.
OwnedRun(by, r) ==
    \E p \in projects : p.id = r /\ p.owner = User(by) /\ Scope(by) \in {None, p.id}

\* The same of a suite and of an agent, each in a query of its own, and of an
\* attempt's result by way of its run.
OwnedSuite(by, s) ==
    \E p \in projects : /\ p.id = s /\ p.owner = User(by)
                        /\ (Scope(by) # None => Scope(by) = p.id)
OwnedAgent(by, a) ==
    \E p \in projects : /\ p.id = a /\ p.owner = User(by)
                        /\ (Scope(by) # None => Scope(by) = p.id)
OwnedResult(by, r) == OwnedRun(by, r)

OwnedProject(by, p) ==
    /\ Scope(by) \in {None, p}
    /\ \E r \in projects : r.id = p /\ r.owner = User(by)

FindSharedRun(by, r) == \E l \in links : l.token = by.id /\ l.run = r /\ l.live

\* limits.py: the account may have one more project.
ProjectsLeft(user) == Cardinality({p \in projects : p.owner = user}) < ProjectCap

------------------------------------------------------------------------------
(* Requests *)

At(q, place) == req[q].at = place
Goto(q, place) == req' = [req EXCEPT ![q].at = place]
Answer(q) == req' = [req EXCEPT ![q] = [at |-> "done"]]
Open == {q \in Requests : req[q].at \notin {"idle", "done"}}
Arrive(q) == At(q, "idle") /\ Cardinality(Open) < MaxOpen

\* Whether the owner of run or project `on` wanted this credential to reach it
\* by this operation, as things are when the request arrives.
Entitled(by, op, on) ==
    LET owner == ProjectOf(on).owner
    IN  \/ by.kind = "session" /\ by.id = owner
        \/ \E k \in keys : by = [kind |-> "key", id |-> k.id] /\ op \notin UserOnly
                           /\ k.of = owner /\ k.project = on /\ k.live
        \/ \E t \in tokens : by = [kind |-> "stream", id |-> t.id] /\ op = "stream"
                             /\ t.of = owner /\ t.run = on /\ t.live
        \/ \E l \in links : by = [kind |-> "link", id |-> l.token] /\ op = "shared"
                            /\ l.of = owner /\ l.run = on /\ l.live

\* get_principal and the dependencies on it.  A session or a stream token is
\* verified without a query, so a request they do not open ends here; a share
\* link is looked up by the endpoint itself.
GetPrincipal(q, by, op, on) ==
    /\ Arrive(q)
    /\ IF by.kind = "link" THEN op = "shared"
       ELSE /\ op # "shared"
            /\ by.kind # "key" => op \notin KeyOnly /\ RightType(by, op)
                                  /\ StreamPrincipal(by, on)
    /\ req' = [req EXCEPT ![q] = [at |-> IF by.kind = "key" THEN "authKey" ELSE "find",
                                  by |-> by, op |-> op, on |-> on,
                                  entitled |-> Entitled(by, op, on)]]
    /\ UNCHANGED tables

\* Mutant: authentication reads the key and does not write it.
Locked_Never(k) == FALSE

\* The key's row is locked from the UPDATE that authenticated a request to the
\* request's commit; not while a request that has committed tells the queue.
Locked(k) == \E p \in Requests : /\ req[p].at \in {"find", "commit"}
                                 /\ req[p].by = [kind |-> "key", id |-> k]

\* UPDATE api_keys ... WHERE revoked_at IS NULL RETURNING, the key's rate limit,
\* then require_user.
ApiKeyPrincipal(q) ==
    /\ At(q, "authKey") /\ ~Locked(req[q].by.id)
    /\ \/ Key(req[q].by).live /\ req[q].op \notin UserOnly /\ Goto(q, "find")
       \/ Answer(q)
    /\ UNCHANGED tables

\* The endpoint's first query: the run, the project or the key it is about.
Find(q) ==
    /\ At(q, "find")
    /\ LET by == req[q].by
           on == req[q].on
           found == CASE req[q].op = "shared" -> FindSharedRun(by, on)
                      [] req[q].op = "createProject" -> ProjectsLeft(by.id)
                      [] req[q].op \in {"list", "createKey", "revokeKey", "report"} ->
                            OwnedProject(by, on)
                      [] req[q].op = "trace" -> OwnedResult(by, on)
                      [] req[q].op \in {"suite", "start"} -> OwnedSuite(by, on)
                      [] req[q].op = "agent" -> OwnedAgent(by, on)
                      [] OTHER -> OwnedRun(by, on)
       IN  IF found THEN Goto(q, "commit") ELSE Answer(q)
    /\ UNCHANGED tables

Commits(q, op) == At(q, "commit") /\ req[q].op = op /\ Answer(q)

\* GET of what a project has; of a run, its results and exports; the stream; the
\* share page; POST /ci/report, whose rows are CiJob's; and a run that may not be
\* started (limits.py, or no such agent) or is over already.
Reply(q) ==
    /\ At(q, "commit") /\ req[q].op \in {"list", "read", "stream", "shared", "report",
                                          "trace", "suite", "agent", "start", "cancel"}
    /\ Answer(q)
    /\ UNCHANGED tables

\* start_run and cancel_run commit the run they insert or cancel (Workspace).
CommitRun(q) ==
    /\ At(q, "commit") /\ req[q].op \in {"start", "cancel"}
    /\ Goto(q, "committed")
    /\ UNCHANGED tables

\* The queue is told, and of a cancelled run, read again, its followers are; the
\* request is answered whether or not one of these fails.
TellQueue(q) ==
    /\ At(q, "committed")
    /\ Answer(q)
    /\ UNCHANGED tables

CreateProject(q) ==
    /\ Commits(q, "createProject")
    /\ projects' = projects \cup {[id |-> q, owner |-> User(req[q].by)]}
    /\ UNCHANGED <<accounts, sessions, keys, tokens, links>>

CreateApiKey(q) ==
    /\ Commits(q, "createKey")
    /\ keys' = keys \cup {[id |-> q, project |-> req[q].on, of |-> User(req[q].by), live |-> TRUE]}
    /\ UNCHANGED <<accounts, sessions, projects, tokens, links>>

\* The UPDATE waits for the requests that hold the key's row.
RevokeApiKey(q) ==
    /\ Commits(q, "revokeKey")
    /\ \E k \in keys : k.project = req[q].on /\ ~Locked(k.id)
                       /\ keys' = (keys \ {k}) \cup {[k EXCEPT !.live = FALSE]}
    /\ UNCHANGED <<accounts, sessions, projects, tokens, links>>

\* Revoking a key the project does not have: 404.
RevokeUnknownKey(q) ==
    /\ Commits(q, "revokeKey") /\ \A k \in keys : k.project # req[q].on
    /\ UNCHANGED tables

StreamToken(q) ==
    /\ Commits(q, "streamToken")
    /\ tokens' = tokens \cup {[id |-> q, run |-> req[q].on, of |-> User(req[q].by), live |-> TRUE]}
    /\ UNCHANGED <<accounts, sessions, projects, keys, links>>

\* Two requests that write the share columns at once may leave the expiry of the
\* one with the token of the other, so any link may expire (Expire).
CreateShare(q) ==
    /\ Commits(q, "share")
    /\ links' = {l \in links : l.run # req[q].on}
                    \cup {[run |-> req[q].on, token |-> q, of |-> User(req[q].by), live |-> TRUE]}
    /\ UNCHANGED <<accounts, sessions, projects, keys, tokens>>

RevokeShare(q) ==
    /\ Commits(q, "unshare")
    /\ links' = {l \in links : l.run # req[q].on}
    /\ UNCHANGED <<accounts, sessions, projects, keys, tokens>>

\* A token's 60 seconds, or a link's days, are over.
Expire ==
    /\ \/ \E t \in tokens : t.live /\ tokens' = (tokens \ {t}) \cup {[t EXCEPT !.live = FALSE]}
                            /\ UNCHANGED links
       \/ \E l \in links : l.live /\ links' = (links \ {l}) \cup {[l EXCEPT !.live = FALSE]}
                           /\ UNCHANGED tokens
    /\ UNCHANGED <<accounts, sessions, projects, keys, req>>

------------------------------------------------------------------------------
(* Registration and login *)

Recent == {a \in accounts : a.recent}
Account(email) == {a \in accounts : a.email = email}
Hashing == {q \in Requests : At(q, "hashing")}

\* limits.py: one more account may register within the 24 hours.
SignupsLeft == Cardinality(Recent) < SignupCap

Ask(q, op, email) ==
    req' = [req EXCEPT ![q] = [at |-> "argon2", by |-> None, op |-> op, on |-> email]]

\* The origin, the rate limits, the allowlist and the cap let it through.
Register(q, email) ==
    /\ Arrive(q)
    /\ SignupsLeft
    /\ Ask(q, "register", email)
    /\ UNCHANGED tables

\* The account is read; for an unknown email a dummy hash is verified.
Login(q, email) ==
    /\ Arrive(q)
    /\ Ask(q, IF Account(email) = {} THEN "unknown" ELSE "login", email)
    /\ UNCHANGED tables

Argon2(q) ==
    /\ At(q, "argon2") /\ Cardinality(Hashing) < Slots
    /\ Goto(q, "hashing")
    /\ UNCHANGED tables

\* A login with the wrong password, or for no account, ends here.
Argon2Done(q) ==
    /\ At(q, "hashing")
    /\ \/ req[q].op \in {"register", "login"} /\ Goto(q, req[q].op)
       \/ req[q].op \in {"login", "unknown"} /\ Answer(q)
    /\ UNCHANGED tables

\* Mutant: the insert asks the table and not the index.
EmailIsFree_Committed(q) == TRUE

\* The unique index makes an insert wait for the other insert of its email.
EmailIsFree(q) == \A p \in Requests \ {q} : At(p, "started") => req[p].on # req[q].on

\* INSERT ... ON CONFLICT DO NOTHING; a row with this email: 409.
InsertUser(q) ==
    /\ At(q, "register") /\ EmailIsFree(q)
    /\ IF Account(req[q].on) = {} THEN Goto(q, "started") ELSE Answer(q)
    /\ UNCHANGED tables

StartRegistered(q) ==
    /\ At(q, "started") /\ Answer(q)
    /\ accounts' = accounts \cup {[id |-> q, email |-> req[q].on, recent |-> TRUE]}
    /\ sessions' = sessions \cup {q}
    /\ UNCHANGED <<projects, keys, tokens, links>>

StartSession(q) ==
    /\ At(q, "login") /\ Answer(q)
    /\ sessions' = sessions \cup {a.id : a \in Account(req[q].on)}
    /\ UNCHANGED <<accounts, projects, keys, tokens, links>>

DayPasses ==
    /\ Recent # {}
    /\ accounts' = {[a EXCEPT !.recent = FALSE] : a \in accounts}
    /\ UNCHANGED <<sessions, projects, keys, tokens, links, req>>

------------------------------------------------------------------------------

Init ==
    /\ accounts = {[id |-> First, email |-> First, recent |-> FALSE],
                   [id |-> Other, email |-> Other, recent |-> FALSE]}
    /\ sessions = {First, Other}
    /\ projects = {[id |-> First, owner |-> First], [id |-> Second, owner |-> First]}
    /\ keys = {[id |-> First, project |-> First, of |-> First, live |-> TRUE]}
    /\ tokens = {} /\ links = {}
    /\ req = [q \in Requests |-> [at |-> "idle"]]

AccessNext(q) ==
    \/ \E by \in Credentials, op \in Ops, p \in projects : GetPrincipal(q, by, op, p.id)
    \/ ApiKeyPrincipal(q) \/ Find(q) \/ Reply(q) \/ CommitRun(q) \/ TellQueue(q)
    \/ CreateProject(q) \/ CreateApiKey(q) \/ RevokeApiKey(q) \/ RevokeUnknownKey(q)
    \/ StreamToken(q) \/ CreateShare(q) \/ RevokeShare(q)

AccountNext(q) ==
    \/ \E email \in {First, Second} : Register(q, email) \/ Login(q, email)
    \/ Argon2(q) \/ Argon2Done(q) \/ InsertUser(q) \/ StartRegistered(q) \/ StartSession(q)

Next == (\E q \in Requests : AccessNext(q) \/ AccountNext(q)) \/ Expire \/ DayPasses

Spec == Init /\ [][Next]_vars

------------------------------------------------------------------------------
(* Properties *)

\* A request that gets as far as an answer about a run or a project presented
\* a credential its owner had handed out for it, and not taken back by then:
\* not the owner's other key, the token of another run, a replaced, withdrawn
\* or expired link, nor a stream token in the place of a session (ADR 0009).
OnlyOwnersAreAnswered ==
    \A q \in Requests : At(q, "commit") /\ req[q].op # "createProject" => req[q].entitled

\* Once the revocation of an API key is committed, and so once it is answered,
\* nothing is looked up, refused or committed by the right of that key, as
\* _api_key_principal's UPDATE holds the revocation back until then.  What may still
\* follow is of a request that has committed: its answer, and before that, of a
\* start_run or a cancel_run, what the queue is told of the run.
RevokedIsOver ==
    [][\A q \in Requests :
        /\ req[q].at \in {"find", "commit"} /\ req[q].by.kind = "key"
        /\ req'[q] # req[q]
        => Key(req[q].by).live]_vars

\* However registrations race, an email has one account, and the caps on the
\* accounts of a day and on the projects of an account are overshot by no more
\* than the other requests served at the moment (register, limits.py).
AccountsHold ==
    /\ \A a, b \in accounts : a.email = b.email => a = b
    /\ Cardinality(Recent) <= SignupCap + MaxOpen - 1
    /\ \A a \in accounts :
         Cardinality({p \in projects : p.owner = a.id}) <= ProjectCap + MaxOpen - 1

==============================================================================
