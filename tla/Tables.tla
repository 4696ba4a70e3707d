------------------------------- MODULE Tables -------------------------------
(***************************************************************************)
(* The database's schema, written down twice as in the code: by the        *)
(* revisions of apps/api/migrations (operations one after another) and by  *)
(* models.py (the tables the API believes in).                             *)
(*                                                                         *)
(* A schema is a set of items <<kind, table, columns, detail>>: columns,   *)
(* defaults, primary, unique and foreign keys, checks and indexes.  Types  *)
(* are left out, and so are the extension and the bodies of the checks.    *)
(***************************************************************************)
EXTENDS Naturals, Sequences, SequencesExt

Table(item) == item[2]
Uses(item, t, c) == Table(item) = t /\ \E i \in DOMAIN item[3] : item[3][i] = c
IsForeignKey(item) == item[1] \in {"cascade", "set null"}

NotNull(t, cs) == {<<"column", t, <<c>>, "not null">> : c \in cs}
Nullable(t, cs) == {<<"column", t, <<c>>, "null">> : c \in cs}
Default(t, c) == {<<"default", t, <<c>>, "">>}
Key(t, cs) == {<<"primary key", t, cs, "">>}
Unique(t, cs) == {<<"unique", t, cs, "">>}
Index(t, cs) == {<<"index", t, cs, "">>}
Check(t, cs, name) == {<<"check", t, cs, name>>}
ForeignKey(t, c, target) == {<<"cascade", t, <<c>>, target>>}
SetNull(t, c, target) == {<<"set null", t, <<c>>, target>>}

\* A column of its own table's rows that names their owner, with its index.
Owned(t, c, target) == NotNull(t, {c}) \cup ForeignKey(t, c, target) \cup Index(t, <<c>>)
Id(t) == NotNull(t, {"id"}) \cup Key(t, <<"id">>)
CreatedAt(t) == NotNull(t, {"created_at"}) \cup Default(t, "created_at")

------------------------------------------------------------------------------
(* 0001: the initial schema *)

AccountTables ==
    Id("users") \cup NotNull("users", {"email", "password_hash"}) \cup CreatedAt("users")
    \cup Unique("users", <<"email">>)
    \cup Id("projects") \cup NotNull("projects", {"name"}) \cup Nullable("projects", {"description"})
    \cup Owned("projects", "user_id", "users")
    \cup Id("api_keys") \cup NotNull("api_keys", {"key_hash", "label"})
    \cup Nullable("api_keys", {"last_used_at"}) \cup Unique("api_keys", <<"key_hash">>)
    \cup Owned("api_keys", "project_id", "projects")
    \cup Id("secrets") \cup NotNull("secrets", {"ciphertext"}) \cup CreatedAt("secrets")
    \cup Owned("secrets", "project_id", "projects")

SuiteTables ==
    Id("suites") \cup NotNull("suites", {"project_id", "name", "yaml_source", "version"})
    \cup CreatedAt("suites") \cup ForeignKey("suites", "project_id", "projects")
    \cup Unique("suites", <<"project_id", "name">>)
    \cup Id("agents") \cup NotNull("agents", {"project_id", "name", "adapter_type", "config"})
    \cup Nullable("agents", {"secret_ref"}) \cup Check("agents", <<"adapter_type">>, "adapter_type")
    \cup ForeignKey("agents", "project_id", "projects") \cup SetNull("agents", "secret_ref", "secrets")
    \cup Unique("agents", <<"project_id", "name">>) \cup Index("agents", <<"secret_ref">>)
    \cup Id("test_cases") \cup NotNull("test_cases", {"suite_id", "suite_version", "case_key", "expectations"})
    \cup Nullable("test_cases", {"input", "attack_type", "context", "call"})
    \cup ForeignKey("test_cases", "suite_id", "suites")
    \cup Unique("test_cases", <<"suite_id", "suite_version", "case_key">>)

RunTables ==
    Id("runs") \cup CreatedAt("runs") \cup Check("runs", <<"status">>, "status")
    \cup NotNull("runs", {"suite_id", "suite_version", "status", "runs_per_case", "mock_mode", "config_snapshot"})
    \cup Nullable("runs", {"git_sha", "branch", "pr_number", "model", "error", "started_at",
                           "finished_at", "pass_rate", "total_cost", "total_tokens",
                           "judge_cost_usd", "share_token_hash", "share_expires_at"})
    \cup Owned("runs", "agent_id", "agents") \cup ForeignKey("runs", "suite_id", "suites")
    \cup Unique("runs", <<"share_token_hash">>) \cup Index("runs", <<"suite_id", "created_at">>)
    \cup Id("baselines") \cup NotNull("baselines", {"project_id", "branch"})
    \cup ForeignKey("baselines", "project_id", "projects") \cup Owned("baselines", "run_id", "runs")
    \cup Unique("baselines", <<"project_id", "branch">>)
    \cup Id("findings") \cup NotNull("findings", {"cluster_label", "summary", "member_result_ids"})
    \cup Nullable("findings", {"suggested_fix", "embedding"}) \cup Owned("findings", "run_id", "runs")

ResultTables ==
    NotNull("run_case_summaries", {"run_id", "attempts", "passes", "pass_rate", "label"})
    \cup Nullable("run_case_summaries", {"mean_score", "consistency_score", "mean_latency_ms", "total_cost"})
    \cup Check("run_case_summaries", <<"label">>, "label")
    \cup Check("run_case_summaries", <<"passes", "attempts">>, "passes")
    \cup Owned("run_case_summaries", "case_id", "test_cases")
    \cup ForeignKey("run_case_summaries", "run_id", "runs")
    \cup Key("run_case_summaries", <<"run_id", "case_id">>)
    \cup Id("run_results") \cup NotNull("run_results", {"run_id", "attempt", "status"})
    \cup Nullable("run_results", {"output", "latency_ms", "tokens", "cost"})
    \cup Check("run_results", <<"status">>, "status")
    \cup Owned("run_results", "case_id", "test_cases") \cup ForeignKey("run_results", "run_id", "runs")
    \cup Unique("run_results", <<"run_id", "case_id", "attempt">>)

JudgmentTables ==
    Id("judgments") \cup NotNull("judgments", {"judge_type", "passed"})
    \cup Nullable("judgments", {"run_result_id", "run_id", "case_id", "score", "reason"})
    \cup Check("judgments", <<"run_result_id", "run_id", "case_id">>, "one_scope")
    \cup ForeignKey("judgments", "run_result_id", "run_results")
    \cup ForeignKey("judgments", "run_id", "runs") \cup ForeignKey("judgments", "case_id", "test_cases")
    \cup UNION {Index("judgments", <<c>>) : c \in {"run_result_id", "run_id", "case_id"}}
    \cup Id("traces") \cup NotNull("traces", {"run_result_id", "steps"})
    \cup ForeignKey("traces", "run_result_id", "run_results") \cup Unique("traces", <<"run_result_id">>)

\* Creation order; dropped in reverse.
CreationOrder ==
    <<"users", "projects", "api_keys", "secrets", "suites", "agents", "test_cases", "runs",
      "baselines", "findings", "run_case_summaries", "run_results", "judgments", "traces">>

------------------------------------------------------------------------------
(* Operations of a revision *)

Without(schema, t, c) == {i \in schema : ~Uses(i, t, c)}
WithoutAll(schema, t, cs) == {i \in schema : ~\E c \in cs : Uses(i, t, c)}
WithoutTable(schema, t) == {i \in schema : Table(i) # t}

\* A table that another one refers to cannot be dropped.
Droppable(schema, t) ==
    ~\E i \in schema : IsForeignKey(i) /\ i[4] = t /\ Table(i) # t

Refused == {<<"refused", "", <<>>, "">>}

DropTable(t, schema) == IF Droppable(schema, t) THEN WithoutTable(schema, t) ELSE Refused

\* A foreign key needs its target.
HasTargets(schema) ==
    \A i \in schema : IsForeignKey(i) => <<"primary key", i[4], <<"id">>, "">> \in schema

KeyColumns == <<"project_id", "suite_id", "branch", "agent_id", "agent_name">>
OneAgent(t) == Check(t, <<"agent_id", "agent_name">>, "one_agent")

Upgrade1(schema) ==
    schema \cup AccountTables \cup SuiteTables \cup RunTables \cup ResultTables \cup JudgmentTables

Downgrade1(schema) == FoldRight(DropTable, CreationOrder, schema)

Upgrade2(schema) ==
    schema \cup NotNull("api_keys", {"last4"}) \cup CreatedAt("api_keys")
    \cup Nullable("api_keys", {"revoked_at"})
    \cup Id("refresh_tokens") \cup NotNull("refresh_tokens", {"token_hash", "expires_at"})
    \cup Nullable("refresh_tokens", {"revoked_at"}) \cup CreatedAt("refresh_tokens")
    \cup Owned("refresh_tokens", "user_id", "users") \cup Unique("refresh_tokens", <<"token_hash">>)

Downgrade2(schema) ==
    WithoutAll(DropTable("refresh_tokens", schema), "api_keys", {"revoked_at", "created_at", "last4"})

Upgrade3(schema) ==
    schema \cup NotNull("runs", {"attempts_total", "attempts_done"}) \cup Default("runs", "attempts_done")
    \cup Nullable("runs", {"heartbeat_at", "ci_lower", "ci_upper"}) \cup Index("runs", <<"status">>)
    \cup Nullable("run_results", {"error_kind", "score", "judge_cost_usd"})
    \cup NotNull("run_results", {"retries", "detail"}) \cup Default("run_results", "retries")
    \cup Check("run_results", <<"error_kind">>, "error_kind")
    \cup NotNull("judgments", {"status", "evidence"}) \cup Default("judgments", "evidence")
    \cup Check("judgments", <<"status">>, "status")
    \cup NotNull("run_case_summaries", {"errors"}) \cup Default("run_case_summaries", "errors")

Downgrade3(schema) ==
    LET noSummary == Without(schema, "run_case_summaries", "errors")
        noJudgment == WithoutAll(noSummary, "judgments", {"evidence", "status"})
        noResult == WithoutAll(noJudgment, "run_results",
                        {"detail", "retries", "judge_cost_usd", "score", "error_kind"})
    IN  WithoutAll(noResult \ Index("runs", <<"status">>), "runs",
            {"ci_upper", "ci_lower", "heartbeat_at", "attempts_done", "attempts_total"})

Upgrade4(schema) ==
    (schema \ (NotNull("runs", {"agent_id"}) \cup Unique("baselines", <<"project_id", "branch">>)))
    \cup Nullable("runs", {"agent_id", "agent_name"}) \cup OneAgent("runs")
    \cup Owned("baselines", "suite_id", "suites")
    \cup Nullable("baselines", {"agent_id", "agent_name"})
    \cup ForeignKey("baselines", "agent_id", "agents") \cup Index("baselines", <<"agent_id">>)
    \cup Unique("baselines", KeyColumns) \cup OneAgent("baselines")

Downgrade4(schema) ==
    LET oldKey == schema \cup Unique("baselines", <<"project_id", "branch">>)
        noCopies == WithoutAll(oldKey, "baselines", {"agent_name", "agent_id", "suite_id"})
        noName == Without(noCopies, "runs", "agent_name")
    IN  (noName \ Nullable("runs", {"agent_id"})) \cup NotNull("runs", {"agent_id"})

Upgrade5(schema) ==
    schema \cup NotNull("suite_versions", {"suite_id", "version", "yaml_source"})
    \cup Nullable("suite_versions", {"created_at"}) \cup Default("suite_versions", "created_at")
    \cup ForeignKey("suite_versions", "suite_id", "suites")
    \cup Key("suite_versions", <<"suite_id", "version">>)

Downgrade5(schema) == DropTable("suite_versions", schema)

\* What revision r applies to a schema.
Upgraded(r, schema) ==
    CASE r = 1 -> Upgrade1(schema) [] r = 2 -> Upgrade2(schema) [] r = 3 -> Upgrade3(schema)
      [] r = 4 -> Upgrade4(schema) [] r = 5 -> Upgrade5(schema)

Downgraded(r, schema) ==
    CASE r = 1 -> Downgrade1(schema) [] r = 2 -> Downgrade2(schema) [] r = 3 -> Downgrade3(schema)
      [] r = 4 -> Downgrade4(schema) [] r = 5 -> Downgrade5(schema)
=============================================================================
