------------------------------- MODULE Schema -------------------------------
(***************************************************************************)
(* A database under migration (apps/api/migrations over models.py): the    *)
(* revisions of Tables applied and taken back, the rows they copy and      *)
(* delete, and the API that writes rows meanwhile, at the code of an       *)
(* earlier revision until it is deployed.                                  *)
(*                                                                         *)
(* env.py runs the revisions of a command in one transaction: what the     *)
(* database refuses leaves everything as it was, so a refused revision is  *)
(* not a step.  A command may take one revision, so the API may see each.  *)
(***************************************************************************)
EXTENDS Models, FiniteSets

CONSTANTS
    Suites, Agents, Names, Branches,
    None,
    MaxRuns,      \* bound: runs ever inserted
    MaxVersion,   \* bound: versions of a suite
    Identities    \* the ids a baseline may draw; uuid4 gives them no order in time

VARIABLES
    revision,  \* alembic_version
    code,      \* the revision that the deployed API was written for
    schema,    \* the items of Tables
    keys,      \* whether api_keys has a row
    agents,    \* the agents that exist
    runs,      \* rows [id, suite, agent, name]
    baselines, \* rows [id, branch, run, suite, agent, name]
    version,   \* suites.version
    versions,  \* suite_versions: pairs <<suite, version>>
    overtaken, \* history: suites saved by code older than revision 5 on revision 5
    stranded    \* history: a downgrade has gone below the revision of rows it kept

vars == <<revision, code, schema, keys, agents, runs, baselines, version, versions,
          overtaken, stranded>>
rows == <<keys, agents, runs, baselines, version, versions, overtaken>>

Newest == 5

Init ==
    /\ revision = 0 /\ code = 0 /\ schema = {}
    /\ keys = FALSE /\ agents = Agents /\ runs = {} /\ baselines = {}
    /\ version = [s \in Suites |-> 1] /\ versions = {}
    /\ overtaken = {} /\ stranded = FALSE

------------------------------------------------------------------------------
(* Rows *)

RunOf(b) == CHOOSE r \in runs : r.id = b.run
OldKey(b) == b.branch
NewKey(b) == <<b.suite, b.branch, b.agent, b.name>>
IsUnique(bs, K(_)) == \A b1, b2 \in bs : K(b1) = K(b2) => b1 = b2
OneIsSet(row) == (row.agent = None) # (row.name = None)
FreeIds == Identities \ {b.id : b \in baselines}

\* UPDATE baselines SET ... FROM runs, of 0004.
Backfilled(b) == [b EXCEPT !.suite = RunOf(b).suite, !.agent = RunOf(b).agent]

\* What 0004 keeps on the way down.
Registered == {b \in baselines : b.agent # None}

\* Mutant: duplicates are not deleted.
Kept_Registered == Registered

\* Mutant: of two duplicates, both are deleted.
Kept_Single == {b \in Registered : \A o \in Registered : OldKey(o) = OldKey(b) => b = o}

\* The baselines with the lowest id of their (project, branch).
Kept == {b \in Registered : \A o \in Registered : OldKey(o) = OldKey(b) => b.id <= o.id}

\* The columns 0004 drops from them.
WithoutKey(b) == [b EXCEPT !.suite = None, !.agent = None]

OfRuns == {"runs", "run_results", "judgments", "run_case_summaries"}
NonEmpty(t) ==
    \/ t = "api_keys" /\ keys
    \/ t \in OfRuns /\ runs # {}

\* The new columns that existing rows have no value for.
Unfilled(old, new) ==
    {i \in new \ old : /\ i[1] = "column" /\ i[4] = "not null"
                      /\ <<"default", Table(i), i[3], "">> \notin new
                      /\ <<"column", Table(i), i[3], "null">> \notin old}

UpgradedBaselines(r) ==
    IF r = 4 THEN {Backfilled(b) : b \in baselines} ELSE baselines
UpgradedVersions(r) ==
    IF r = 5 THEN {<<s, version[s]>> : s \in Suites} ELSE versions

AcceptsUpgrade(r) ==
    LET new == Upgraded(r, schema) IN
    /\ Upgraded(r, {}) \cap schema \subseteq Nullable("runs", {"agent_id"})  \* nothing exists yet
    /\ HasTargets(new)
    /\ \A i \in Unfilled(schema, new) : ~NonEmpty(Table(i))
    /\ r = 4 => /\ \A b \in UpgradedBaselines(4) : b.suite # None /\ OneIsSet(b)
                /\ \A run \in runs : OneIsSet(run)
                /\ IsUnique(UpgradedBaselines(4), NewKey)

AcceptsDowngrade(r) ==
    /\ Downgraded(r, schema) # Refused
    /\ r = 4 => IsUnique(Kept, OldKey)

------------------------------------------------------------------------------
(* Migrations *)

Upgrade ==
    /\ revision < Newest /\ AcceptsUpgrade(revision + 1)
    /\ revision' = revision + 1
    /\ schema' = Upgraded(revision + 1, schema)
    /\ baselines' = UpgradedBaselines(revision + 1)
    /\ versions' = UpgradedVersions(revision + 1)
    /\ UNCHANGED <<code, keys, agents, runs, version, overtaken, stranded>>

\* The API is stopped, and comes back with the code of that revision.
Downgrade ==
    /\ revision > 0 /\ AcceptsDowngrade(revision)
    /\ revision' = revision - 1 /\ code' = revision - 1
    /\ schema' = Downgraded(revision, schema)
    /\ runs' = CASE revision = 1 -> {}
                 [] revision = 4 -> {r \in runs : r.agent # None}
                 [] OTHER -> runs
    /\ baselines' = CASE revision = 1 -> {}
                      [] revision = 4 -> {WithoutKey(b) : b \in Kept}
                      [] OTHER -> baselines
    /\ keys' = (keys /\ revision # 1)
    /\ versions' = IF revision = 5 THEN {} ELSE versions
    /\ overtaken' = IF revision = 5 THEN {} ELSE overtaken
    /\ stranded' = /\ revision # 1
                   /\ stranded \/ (revision = 3 /\ runs # {}) \/ (revision = 2 /\ keys)
    /\ UNCHANGED <<agents, version>>

\* The deploy that follows the migration.
Deploy ==
    /\ code < revision
    /\ code' = revision
    /\ UNCHANGED <<revision, schema, stranded, rows>>

------------------------------------------------------------------------------
(* The API *)

CreateApiKey ==
    /\ code >= 2 /\ ~keys
    /\ keys' = TRUE
    /\ UNCHANGED <<revision, code, schema, agents, runs, baselines, version, versions,
                   overtaken, stranded>>

InsertRun(suite, agent, name) ==
    /\ Cardinality(runs) < MaxRuns
    /\ LET id == CHOOSE n \in 1 .. MaxRuns : \A r \in runs : r.id # n
       IN  runs' = runs \cup {[id |-> id, suite |-> suite, agent |-> agent, name |-> name]}
    /\ UNCHANGED <<revision, code, schema, keys, agents, baselines, version, versions,
                   overtaken, stranded>>

\* A run of a registered agent.
StartRun(suite, agent) == code >= 3 /\ agent \in agents /\ InsertRun(suite, agent, None)

\* A pushed run of an agent that the server has no row for.
PushRun(suite, name) == code >= 4 /\ InsertRun(suite, None, name)

WriteBaseline(new) ==
    /\ baselines' = new
    /\ UNCHANGED <<revision, code, schema, keys, agents, runs, version, versions,
                   overtaken, stranded>>

\* Before 0004 a baseline was one row per branch; on 0004 its insert is refused,
\* as it names no suite.
SetBaselineOld(branch, run) ==
    /\ code = 3 /\ revision = 3
    /\ \E id \in FreeIds :
         WriteBaseline({b \in baselines : b.branch # branch}
            \cup {[id |-> id, branch |-> branch, run |-> run.id,
                   suite |-> None, agent |-> None, name |-> None]})

\* Mutant: the conflict is on the key of before 0004.
Upserted_OldKey(old, row) ==
    IF \E b \in old : OldKey(b) = OldKey(row)
    THEN {IF OldKey(b) = OldKey(row) THEN [b EXCEPT !.run = row.run] ELSE b : b \in old}
    ELSE old \cup {row}

\* INSERT ... ON CONFLICT (the key) DO UPDATE SET run_id.
Upserted(old, row) ==
    IF \E b \in old : NewKey(b) = NewKey(row)
    THEN {IF NewKey(b) = NewKey(row) THEN [b EXCEPT !.run = row.run] ELSE b : b \in old}
    ELSE old \cup {row}

SetBaseline(branch, run) ==
    /\ code >= 4
    /\ \E id \in FreeIds :
         WriteBaseline(Upserted(baselines,
            [id |-> id, branch |-> branch, run |-> run.id,
             suite |-> run.suite, agent |-> run.agent, name |-> run.name]))

\* update_suite; code before 0005 saves no row of suite_versions.
UpdateSuite(s) ==
    /\ code >= 1 /\ version[s] < MaxVersion
    /\ version' = [version EXCEPT ![s] = @ + 1]
    /\ versions' = IF code = 5 THEN versions \cup {<<s, version[s] + 1>>} ELSE versions
    /\ overtaken' = IF code = 5 THEN overtaken \ {s}
                    ELSE IF revision = 5 THEN overtaken \cup {s} ELSE overtaken
    /\ UNCHANGED <<revision, code, schema, keys, agents, runs, baselines, stranded>>

\* delete_agent: its runs and their baselines cascade.
DeleteAgent(a) ==
    /\ code >= 1 /\ a \in agents
    /\ agents' = agents \ {a}
    /\ runs' = {r \in runs : r.agent # a}
    /\ baselines' = {b \in baselines : \E r \in runs' : r.id = b.run}
    /\ UNCHANGED <<revision, code, schema, keys, version, versions, overtaken, stranded>>

ApiStep ==
    \/ CreateApiKey
    \/ \E s \in Suites, a \in Agents : StartRun(s, a)
    \/ \E s \in Suites, n \in Names : PushRun(s, n)
    \/ \E branch \in Branches, run \in runs : SetBaselineOld(branch, run)
    \/ \E branch \in Branches, run \in runs : SetBaseline(branch, run)
    \/ \E s \in Suites : UpdateSuite(s)
    \/ \E a \in Agents : DeleteAgent(a)

Next == Upgrade \/ Downgrade \/ Deploy \/ ApiStep

Spec == Init /\ [][Next]_vars

------------------------------------------------------------------------------
(* Properties *)

\* However it was reached, the schema at the head is the one models.py
\* describes, checks, defaults and deletion rules included, and at the base
\* nothing is left.  (test_migrations compares tables, columns and keys only.)
HeadIsModels ==
    /\ revision = Newest => schema = Metadata
    /\ revision = 0 => schema = {}

\* No revision is refused, in either direction, whatever rows the API has
\* written: the backfill and the deletions of 0004 make them fit both keys.
\* The exception is a database with runs or API keys that was taken below the
\* revision that added their columns, which 0002 and 0003 suppose are empty.
MigrationsApply ==
    /\ revision < Newest => AcceptsUpgrade(revision + 1) \/ stranded
    /\ revision > 0 => AcceptsDowngrade(revision)

\* What the schema keeps twice agrees: a baseline's key is its run's suite and
\* agent, one baseline to a key, and the current version of a suite has its
\* YAML, unless code older than 0005 saved it after the migration and before
\* the deploy.
CopiesAgree ==
    /\ revision >= 4 =>
         /\ IsUnique(baselines, NewKey)
         /\ \A b \in baselines :
              LET run == RunOf(b)
              IN  b.suite = run.suite /\ b.agent = run.agent /\ b.name = run.name
    /\ revision = 5 => \A s \in Suites \ overtaken : <<s, version[s]>> \in versions

\* Nothing that is written twice, in the schema or in its rows, has two values.
SchemaAgrees == HeadIsModels /\ CopiesAgree

\* A downgrade takes no more than the old schema cannot hold: a branch that
\* had the baseline of a registered agent still has one.
DowngradeKeepsABaseline ==
    [][\A branch \in Branches :
        /\ revision' = 3 /\ revision = 4 /\ \E b \in Registered : b.branch = branch
        => \E b \in baselines' : b.branch = branch]_vars
=============================================================================
