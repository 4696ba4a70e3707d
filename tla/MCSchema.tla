------------------------------ MODULE MCSchema ------------------------------
(***************************************************************************)
(* Schema for checking and for proofs: its parameters are sets of rows,    *)
(* with None for a reference to no row.                                    *)
(***************************************************************************)
EXTENDS Naturals

CONSTANTS Suites, Agents, Names, Branches, None, MaxRuns, MaxVersion, Identities

VARIABLES
    revision, code, schema, keys, agents, runs, baselines, version, versions,
    overtaken, stranded

DB == INSTANCE Schema

ASSUME SchemaAssumption ==
    /\ None \notin Suites \cup Agents \cup Names
    /\ MaxRuns \in Nat /\ MaxVersion \in Nat \ {0} /\ Identities \subseteq Nat

\* What the revisions leave, one after another from an empty database.
Left[r \in 0 .. DB!Newest] == IF r = 0 THEN {} ELSE DB!Upgraded(r, Left[r - 1])

\* The revisions are five given lists of operations, whose effect on a given
\* schema can be computed: from revision to revision they create no item twice
\* and refer to no table that is not there, taking one back leaves what was
\* there before it, and the head is models.py.  Only 0002 demands a value that
\* the rows of api_keys do not have, and only 0003 one of a run's rows.
ASSUME RevisionsFit ==
    /\ Left[0] = {} /\ Left[DB!Newest] = DB!Metadata
    /\ \A r \in 1 .. DB!Newest :
         /\ Left[r] = DB!Upgraded(r, Left[r - 1]) /\ DB!HasTargets(Left[r])
         /\ DB!Upgraded(r, {}) \cap Left[r - 1] \subseteq DB!Nullable("runs", {"agent_id"})
         /\ DB!Downgraded(r, Left[r]) = Left[r - 1] /\ Left[r - 1] # DB!Refused
         /\ \A i \in DB!Unfilled(Left[r - 1], Left[r]) :
               /\ DB!Table(i) = "api_keys" => r <= 2
               /\ DB!Table(i) \in DB!OfRuns => r <= 3

SchemaSpec == DB!Spec

\* What the database keeps twice agrees: the head with models.py, a baseline
\* with its run, a suite's version with its YAML.
SchemaAgrees == DB!SchemaAgrees

\* No revision is refused in either direction, unless a downgrade went below the
\* revision of the rows it kept.
MigrationsApply == DB!MigrationsApply

\* The downgrade of 0004 leaves a branch a baseline of a registered agent.
DowngradeKeepsABaseline == DB!DowngradeKeepsABaseline
=============================================================================
