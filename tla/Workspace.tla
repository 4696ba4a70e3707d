------------------------------ MODULE Workspace ------------------------------
(***************************************************************************)
(* Requests of one account on its suite, agents, secrets and runs, as      *)
(* concurrent transactions of the API (suites.py, agents.py, runs.py and   *)
(* limits.py over models.py).                                              *)
(*                                                                         *)
(* Each request is one session of db.get_db: its queries read what others  *)
(* have committed (READ COMMITTED), its writes are visible when it commits *)
(* and a row it has written stays locked until then.  An action is one     *)
(* query, or a write and the commit that follows it.  What a request       *)
(* creates (a run, an agent, a secret, a text of a suite) has the          *)
(* request's name, so Requests bounds them all; MaxOpen bounds how many    *)
(* requests the API serves at a time.  The queue that runs the runs is     *)
(* RedisRun and InlineRun; here it is LoadPlan and EndRun.                 *)
(***************************************************************************)
EXTENDS Naturals, FiniteSets

CONSTANTS
    Requests,   \* the requests, each served once
    First,      \* what exists at the start: one agent, its secret, a suite
    None,
    Names,      \* agent names
    SuiteAgent, \* the name the suite's YAML gives its agent
    MaxOpen,    \* requests served at a time
    RunCap,     \* MAX_RUNS_PER_USER_PER_DAY
    AgentCap,   \* MAX_AGENTS_PER_USER
    LiveCap     \* the live runs that LLM_GLOBAL_USD_PER_DAY pays for

ASSUME WorkspaceAssumption ==
    /\ SuiteAgent \in Names
    /\ {First, None} \cap Requests = {} /\ First # None
    /\ MaxOpen \in Nat \ {0}
    /\ RunCap \in Nat /\ LiveCap \in Nat
    /\ AgentCap \in Nat \ {0}    \* the agent there is at the start is within the cap

VARIABLES
    suite,     \* the suite's row: [version, yaml]
    versions,  \* suite_versions: a set of [version, yaml]
    agents,    \* agents: a set of [id, name, secret]
    secrets,   \* secrets: a set of ids
    runs,      \* runs: a set of rows; a deleted one keeps status "gone"
    req        \* each request: where it is and what it has read

vars == <<suite, versions, agents, secrets, runs, req>>

Live == {"queued", "running"}

------------------------------------------------------------------------------
(* Tables *)

Existing == {r \in runs : r.status # "gone"}
RecentRuns == {r \in Existing : r.recent}
RecentLiveRuns == {r \in RecentRuns : r.live}

\* limits.py: the count has reached the cap.
Full(rows, cap) == Cardinality(rows) >= cap

\* make_snapshot and the Run row of start_run.  `overtaken` is history: the
\* secret of the snapshot is already deleted, or about to be by a request that
\* has looked for the runs that use it.
NewRun(q, overtaken) ==
    [id |-> q, status |-> "queued", version |-> req[q].version, yaml |-> req[q].yaml,
     agent |-> req[q].agent, secret |-> req[q].secret, live |-> req[q].live,
     recent |-> TRUE, overtaken |-> overtaken]

WithStatus(r, status) == (runs \ {r}) \cup {[r EXCEPT !.status = status]}

\* ON DELETE CASCADE from agents to runs.
Cascade(a) == {IF r.agent = a THEN [r EXCEPT !.status = "gone"] ELSE r : r \in runs}

------------------------------------------------------------------------------
(* Requests *)

At(q, place) == req[q].at = place
Goto(q, place) == req' = [req EXCEPT ![q].at = place]
Answer(q) == req' = [req EXCEPT ![q] = [at |-> "done"]]
Open == {q \in Requests : req[q].at \notin {"idle", "done"}}

\* A request arrives.
Arrive(q) == At(q, "idle") /\ Cardinality(Open) < MaxOpen

\* The agent row is locked by a request that has written it and not committed.
HasLocked(q, a) == req[q].at \in {"inUse", "commitAgent"} /\ req[q].agent = a
AgentLocked(a) == \E q \in Requests : HasLocked(q, a)
DeleteUnderWay(a) == \E q \in Requests : HasLocked(q, a) /\ req[q].deletes

------------------------------------------------------------------------------
(* POST /suites/{id}/runs *)

StartRun(q, live) ==
    /\ Arrive(q)
    /\ req' = [req EXCEPT ![q] = [at |-> "findAgent", live |-> live,
                                  version |-> suite.version, yaml |-> suite.yaml]]
    /\ UNCHANGED <<suite, versions, agents, secrets, runs>>

FindAgent(q) ==
    /\ At(q, "findAgent")
    /\ \/ \E a \in agents :
            /\ a.name = SuiteAgent
            /\ req' = [req EXCEPT ![q] = [at |-> "countRuns", live |-> @.live,
                            version |-> @.version, yaml |-> @.yaml,
                            agent |-> a.id, secret |-> a.secret]]
       \/ (\A a \in agents : a.name # SuiteAgent) /\ Answer(q)
    /\ UNCHANGED <<suite, versions, agents, secrets, runs>>

CheckRuns(q) ==
    /\ At(q, "countRuns")
    /\ IF Full(RecentRuns, RunCap) THEN Answer(q) ELSE Goto(q, "countLive")
    /\ UNCHANGED <<suite, versions, agents, secrets, runs>>

CheckLiveBudget(q) ==
    /\ At(q, "countLive")
    /\ IF req[q].live /\ Cardinality(RecentLiveRuns) + 1 > LiveCap
       THEN Answer(q) ELSE Goto(q, "insertRun")
    /\ UNCHANGED <<suite, versions, agents, secrets, runs>>

\* The insert waits for a delete of the agent under way, then fails on the
\* foreign key if the agent is gone; otherwise it is committed and enqueued.
InsertRun(q) ==
    /\ At(q, "insertRun") /\ ~DeleteUnderWay(req[q].agent)
    /\ runs' = IF \E a \in agents : a.id = req[q].agent
               THEN runs \cup {NewRun(q,
                      \/ req[q].secret \notin secrets
                      \/ \E p \in Requests : At(p, "commitAgent") /\ req[p].old = req[q].secret)}
               ELSE runs
    /\ Answer(q)
    /\ UNCHANGED <<suite, versions, agents, secrets>>

\* The queue rebuilds a run from its snapshot, at its start or a resume.
LoadPlan(r) ==
    /\ r.status \in Live
    /\ runs' = WithStatus(r, IF r.secret \in secrets \cup {None} THEN "running" ELSE "failed")
    /\ UNCHANGED <<suite, versions, agents, secrets, req>>

\* A run ends, or POST /runs/{id}/cancel ends it.
EndRun(r) ==
    /\ r.status \in Live
    /\ runs' = WithStatus(r, "ended")
    /\ UNCHANGED <<suite, versions, agents, secrets, req>>

\* 24 hours pass: limits._since leaves every run behind.
DayPasses ==
    /\ \E r \in runs : r.recent
    /\ runs' = {[r EXCEPT !.recent = FALSE] : r \in runs}
    /\ UNCHANGED <<suite, versions, agents, secrets, req>>

------------------------------------------------------------------------------
(* PUT /suites/{id} *)

\* The uploaded text is new, or the one stored: then there is nothing to do.
UpdateSuite(q) ==
    /\ Arrive(q)
    /\ req' = [req EXCEPT ![q] = [at |-> "flushSuite", version |-> suite.version + 1]]
    /\ UNCHANGED <<suite, versions, agents, secrets, runs>>

\* UPDATE suites: the row is locked from here to the commit.
FlushSuite(q) ==
    /\ At(q, "flushSuite")
    /\ \A p \in Requests : ~At(p, "addVersion")
    /\ Goto(q, "addVersion")
    /\ UNCHANGED <<suite, versions, agents, secrets, runs>>

Numbers == {v.version : v \in versions}

\* Mutant: a version is written over the one another request has just saved.
AddVersion_Upsert(q) ==
    /\ At(q, "addVersion")
    /\ suite' = [version |-> req[q].version, yaml |-> q]
    /\ versions' = {v \in versions : v.version # req[q].version} \cup {suite'}
    /\ Answer(q)
    /\ UNCHANGED <<agents, secrets, runs>>

\* _add_version and the commit; the primary key of suite_versions refuses a
\* version that is there already, and the transaction is rolled back.
AddVersion(q) ==
    /\ At(q, "addVersion")
    /\ \/ /\ \A v \in versions : v.version # req[q].version
          /\ suite' = [version |-> req[q].version, yaml |-> q]
          /\ versions' = versions \cup {suite'}
       \/ /\ \E v \in versions : v.version = req[q].version
          /\ UNCHANGED <<suite, versions>>
    /\ Answer(q)
    /\ UNCHANGED <<agents, secrets, runs>>

\* GET /suites/{id}/versions asks three times: which versions have cases (they
\* are written with the version), which have runs, which have their text.
ListVersions(q) ==
    /\ Arrive(q)
    /\ req' = [req EXCEPT ![q] = [at |-> "countByVersion", cases |-> Numbers]]
    /\ UNCHANGED <<suite, versions, agents, secrets, runs>>

CountByVersion(q) ==
    /\ At(q, "countByVersion")
    /\ req' = [req EXCEPT ![q] = [at |-> "readSaved", cases |-> @.cases,
                                  counted |-> {r.version : r \in Existing}]]
    /\ UNCHANGED <<suite, versions, agents, secrets, runs>>

ReadSaved(q) ==
    /\ At(q, "readSaved")
    /\ req' = [req EXCEPT ![q] = [at |-> "listed", counted |-> @.counted,
                                  listed |-> @.cases \cup Numbers]]
    /\ UNCHANGED <<suite, versions, agents, secrets, runs>>

------------------------------------------------------------------------------
(* Agents and their auth headers *)

CreateAgent(q, name) ==
    /\ Arrive(q)
    /\ IF Full(agents, AgentCap) THEN Answer(q)
       ELSE req' = [req EXCEPT ![q] = [at |-> "insertAgent", name |-> name]]
    /\ UNCHANGED <<suite, versions, agents, secrets, runs>>

InsertAgent(q) ==
    /\ At(q, "insertAgent")
    /\ \/ /\ \A a \in agents : a.name # req[q].name
          /\ agents' = agents \cup {[id |-> q, name |-> req[q].name, secret |-> q]}
          /\ secrets' = secrets \cup {q}
       \/ /\ \E a \in agents : a.name = req[q].name
          /\ UNCHANGED <<agents, secrets>>
    /\ Answer(q)
    /\ UNCHANGED <<suite, versions, runs>>

\* PUT: a new header, or none any more.  DELETE reads the same row.
UpdateAgent(q, a, new) ==
    /\ Arrive(q)
    /\ a.secret # new
    /\ req' = [req EXCEPT ![q] = [at |-> "flushAgent", agent |-> a.id, old |-> a.secret,
                                  new |-> new, deletes |-> FALSE, keep |-> FALSE]]
    /\ UNCHANGED <<suite, versions, agents, secrets, runs>>

DeleteAgent(q, a) ==
    /\ Arrive(q)
    /\ req' = [req EXCEPT ![q] = [at |-> "flushAgent", agent |-> a.id, old |-> a.secret,
                                  new |-> None, deletes |-> TRUE, keep |-> FALSE]]
    /\ UNCHANGED <<suite, versions, agents, secrets, runs>>

\* UPDATE or DELETE of the row; an UPDATE of a row that is gone fails.
FlushAgent(q) ==
    /\ At(q, "flushAgent") /\ ~AgentLocked(req[q].agent)
    /\ IF ~req[q].deletes /\ \A a \in agents : a.id # req[q].agent THEN Answer(q)
       ELSE Goto(q, IF req[q].old = None THEN "commitAgent" ELSE "inUse")
    /\ UNCHANGED <<suite, versions, agents, secrets, runs>>

\* Mutant: a queued run does not count as using its secret.
InUse_RunningOnly(q) == \E r \in runs : /\ r.status = "running" /\ r.secret = req[q].old
                                        /\ ~(req[q].deletes /\ r.agent = req[q].agent)

\* _drop_secret: a committed run, not one this request deletes, still reads it.
InUse(q) == \E r \in runs : /\ r.status \in Live /\ r.secret = req[q].old
                            /\ ~(req[q].deletes /\ r.agent = req[q].agent)

DropSecret(q) ==
    /\ At(q, "inUse")
    /\ req' = [req EXCEPT ![q].at = "commitAgent", ![q].keep = InUse(q)]
    /\ UNCHANGED <<suite, versions, agents, secrets, runs>>

CommitAgent(q) ==
    /\ At(q, "commitAgent")
    /\ agents' = IF req[q].deletes
                 THEN {a \in agents : a.id # req[q].agent}
                 ELSE {IF a.id = req[q].agent THEN [a EXCEPT !.secret = req[q].new] ELSE a
                         : a \in agents}
    /\ runs' = IF req[q].deletes THEN Cascade(req[q].agent) ELSE runs
    /\ secrets' = (secrets \cup ({req[q].new} \ {None}))
                    \ (IF req[q].keep THEN {} ELSE {req[q].old})
    /\ Answer(q)
    /\ UNCHANGED <<suite, versions>>

\* POST /agents/{id}/test reads the agent, and then the header to send.
TestAgent(q, a) ==
    /\ Arrive(q)
    /\ a.secret # None
    /\ req' = [req EXCEPT ![q] = [at |-> "readSecret", secret |-> a.secret]]
    /\ UNCHANGED <<suite, versions, agents, secrets, runs>>

\* The probe itself, or the answer that the header is missing.
ReadSecret(q) ==
    /\ At(q, "readSecret")
    /\ req' = [req EXCEPT ![q] = [at |-> "probed", secret |-> @.secret,
                                  missing |-> @.secret \notin secrets]]
    /\ UNCHANGED <<suite, versions, agents, secrets, runs>>

\* What has been read is answered.
Reply(q) ==
    /\ At(q, "listed") \/ At(q, "probed")
    /\ Answer(q)
    /\ UNCHANGED <<suite, versions, agents, secrets, runs>>

------------------------------------------------------------------------------

Init ==
    /\ suite = [version |-> 1, yaml |-> First]
    /\ versions = {suite}
    /\ agents = {[id |-> First, name |-> SuiteAgent, secret |-> First]}
    /\ secrets = {First}
    /\ runs = {}
    /\ req = [q \in Requests |-> [at |-> "idle"]]

RunNext(q) ==
    \/ \E live \in BOOLEAN : StartRun(q, live)
    \/ FindAgent(q) \/ CheckRuns(q) \/ CheckLiveBudget(q) \/ InsertRun(q)

SuiteNext(q) ==
    \/ UpdateSuite(q) \/ FlushSuite(q) \/ AddVersion(q)
    \/ ListVersions(q) \/ CountByVersion(q) \/ ReadSaved(q)

AgentNext(q) ==
    \/ \E name \in Names : CreateAgent(q, name)
    \/ \E a \in agents : \/ DeleteAgent(q, a) \/ TestAgent(q, a)
                        \/ \E new \in {q, None} : UpdateAgent(q, a, new)
    \/ ReadSecret(q) \/ Reply(q)
    \/ InsertAgent(q) \/ FlushAgent(q) \/ DropSecret(q) \/ CommitAgent(q)

Next ==
    \/ \E q \in Requests : RunNext(q) \/ SuiteNext(q) \/ AgentNext(q)
    \/ \E r \in runs : LoadPlan(r) \/ EndRun(r)
    \/ DayPasses

Spec == Init /\ [][Next]_vars

------------------------------------------------------------------------------
(* Properties *)

\* What a run tested can be read back from its version number, whoever edited
\* the suite while it started: the snapshot's text is the one kept under that
\* version, the suite's text is its current version's, versions are numbered
\* without a gap and none has two texts (start_run, update_suite, ADR 0038).
\* And a history of the suite, read in three queries while it is edited and run,
\* has no gap and lists the version of every run it has counted.
RunsAreReproducible ==
    /\ \A r \in runs \cup {suite} : [version |-> r.version, yaml |-> r.yaml] \in versions
    /\ \A v, w \in versions : v.version = w.version => v = w
    /\ Numbers = 1..suite.version
    /\ \A q \in Requests : At(q, "listed") =>
          /\ req[q].counted \subseteq req[q].listed
          /\ \E last \in Numbers : req[q].listed = 1..last

\* The caps count before they insert, so requests served together overshoot
\* them, but by no more than the others served at that moment (limits.py).
CapOvershootBounded ==
    /\ Cardinality(RecentRuns) <= RunCap + MaxOpen - 1
    /\ Cardinality(RecentLiveRuns) <= LiveCap + MaxOpen - 1
    /\ Cardinality(agents) <= AgentCap + MaxOpen - 1

\* No request deletes the auth header of a run that was there when it looked:
\* a live run has lost its secret only if it was inserted after the look, with
\* what it had read of the agent before (_drop_secret, load_plan, ADR 0017).  And
\* a probe misses the header of an agent only if it was replaced meanwhile.
SecretHeld ==
    /\ \A r \in runs :
          r.status \in Live /\ r.secret # None /\ r.secret \notin secrets => r.overtaken
    /\ \A q \in Requests : At(q, "probed") /\ req[q].missing =>
          \A a \in agents : a.secret # req[q].secret
==============================================================================
