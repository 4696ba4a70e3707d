------------------------------- MODULE Models -------------------------------
(***************************************************************************)
(* The tables of models.py, in the items of Tables: what the API expects   *)
(* of the database it runs on.                                             *)
(***************************************************************************)
EXTENDS Tables

\* _fk(target, index=, nullable=): a foreign key that cascades.
Fk(t, c, target, indexed, nullable) ==
    (IF nullable THEN Nullable(t, {c}) ELSE NotNull(t, {c}))
    \cup ForeignKey(t, c, target) \cup (IF indexed THEN Index(t, <<c>>) ELSE {})

User == Id("users") \cup NotNull("users", {"email", "password_hash"})
        \cup Unique("users", <<"email">>) \cup CreatedAt("users")

Project == Id("projects") \cup Fk("projects", "user_id", "users", TRUE, FALSE)
           \cup NotNull("projects", {"name"}) \cup Nullable("projects", {"description"})

ApiKey == Id("api_keys") \cup Fk("api_keys", "project_id", "projects", TRUE, FALSE)
          \cup NotNull("api_keys", {"key_hash", "last4", "label"}) \cup CreatedAt("api_keys")
          \cup Unique("api_keys", <<"key_hash">>) \cup Nullable("api_keys", {"last_used_at", "revoked_at"})

RefreshToken == Id("refresh_tokens") \cup Fk("refresh_tokens", "user_id", "users", TRUE, FALSE)
                \cup NotNull("refresh_tokens", {"token_hash", "expires_at"})
                \cup Unique("refresh_tokens", <<"token_hash">>)
                \cup Nullable("refresh_tokens", {"revoked_at"}) \cup CreatedAt("refresh_tokens")

Secret == Id("secrets") \cup Fk("secrets", "project_id", "projects", TRUE, FALSE)
          \cup NotNull("secrets", {"ciphertext"}) \cup CreatedAt("secrets")

Agent == Id("agents") \cup Fk("agents", "project_id", "projects", FALSE, FALSE)
         \cup NotNull("agents", {"name", "adapter_type", "config"}) \cup Nullable("agents", {"secret_ref"})
         \cup SetNull("agents", "secret_ref", "secrets") \cup Index("agents", <<"secret_ref">>)
         \cup Unique("agents", <<"project_id", "name">>) \cup Check("agents", <<"adapter_type">>, "adapter_type")

Suite == Id("suites") \cup Fk("suites", "project_id", "projects", FALSE, FALSE)
         \cup NotNull("suites", {"name", "yaml_source", "version"})
         \cup Unique("suites", <<"project_id", "name">>) \cup CreatedAt("suites")

SuiteVersion == Fk("suite_versions", "suite_id", "suites", FALSE, FALSE)
                \cup NotNull("suite_versions", {"version", "yaml_source"})
                \cup Key("suite_versions", <<"suite_id", "version">>)
                \cup Nullable("suite_versions", {"created_at"}) \cup Default("suite_versions", "created_at")

TestCase == Id("test_cases") \cup Fk("test_cases", "suite_id", "suites", FALSE, FALSE)
            \cup NotNull("test_cases", {"suite_version", "case_key", "expectations"})
            \cup Nullable("test_cases", {"input", "attack_type", "context", "call"})
            \cup Unique("test_cases", <<"suite_id", "suite_version", "case_key">>)

Run == Id("runs") \cup Fk("runs", "suite_id", "suites", FALSE, FALSE)
       \cup Fk("runs", "agent_id", "agents", TRUE, TRUE)
       \cup NotNull("runs", {"suite_version", "status", "runs_per_case", "mock_mode",
                             "config_snapshot", "attempts_total", "attempts_done"})
       \cup Nullable("runs", {"agent_name", "git_sha", "branch", "pr_number", "model", "error",
                "heartbeat_at", "started_at", "finished_at", "pass_rate", "ci_lower", "ci_upper",
                "total_cost", "total_tokens", "judge_cost_usd", "share_token_hash", "share_expires_at"})
       \cup Index("runs", <<"status">>) \cup Index("runs", <<"suite_id", "created_at">>)
       \cup Check("runs", <<"status">>, "status") \cup OneAgent("runs")
       \cup Default("runs", "attempts_done") \cup CreatedAt("runs") \cup Unique("runs", <<"share_token_hash">>)

RunResult == Id("run_results") \cup Fk("run_results", "run_id", "runs", FALSE, FALSE)
             \cup Fk("run_results", "case_id", "test_cases", TRUE, FALSE)
             \cup NotNull("run_results", {"attempt", "status", "retries", "detail"})
             \cup Nullable("run_results", {"output", "latency_ms", "tokens", "cost", "error_kind",
                                           "score", "judge_cost_usd"})
             \cup Unique("run_results", <<"run_id", "case_id", "attempt">>)
             \cup Check("run_results", <<"status">>, "status")
             \cup Check("run_results", <<"error_kind">>, "error_kind") \cup Default("run_results", "retries")

Trace == Id("traces") \cup ForeignKey("traces", "run_result_id", "run_results")
         \cup NotNull("traces", {"run_result_id", "steps"}) \cup Unique("traces", <<"run_result_id">>)

Judgment == Id("judgments") \cup Fk("judgments", "run_result_id", "run_results", TRUE, TRUE)
            \cup Fk("judgments", "run_id", "runs", TRUE, TRUE)
            \cup Fk("judgments", "case_id", "test_cases", TRUE, TRUE)
            \cup NotNull("judgments", {"judge_type", "status", "passed", "evidence"})
            \cup Nullable("judgments", {"score", "reason"}) \cup Default("judgments", "evidence")
            \cup Check("judgments", <<"run_result_id", "run_id", "case_id">>, "one_scope")
            \cup Check("judgments", <<"status">>, "status")

RunCaseSummary == Fk("run_case_summaries", "run_id", "runs", FALSE, FALSE)
                  \cup Fk("run_case_summaries", "case_id", "test_cases", TRUE, FALSE)
                  \cup Key("run_case_summaries", <<"run_id", "case_id">>)
                  \cup NotNull("run_case_summaries", {"attempts", "passes", "errors", "pass_rate", "label"})
                  \cup Nullable("run_case_summaries", {"mean_score", "consistency_score",
                                                       "mean_latency_ms", "total_cost"})
                  \cup Check("run_case_summaries", <<"label">>, "label")
                  \cup Check("run_case_summaries", <<"passes", "attempts">>, "passes")
                  \cup Default("run_case_summaries", "errors")

Finding == Id("findings") \cup Fk("findings", "run_id", "runs", TRUE, FALSE)
           \cup NotNull("findings", {"cluster_label", "summary", "member_result_ids"})
           \cup Nullable("findings", {"suggested_fix", "embedding"})

Baseline == Id("baselines") \cup Fk("baselines", "project_id", "projects", FALSE, FALSE)
            \cup Fk("baselines", "suite_id", "suites", TRUE, FALSE)
            \cup Fk("baselines", "agent_id", "agents", TRUE, TRUE) \cup Fk("baselines", "run_id", "runs", TRUE, FALSE)
            \cup NotNull("baselines", {"branch"}) \cup Nullable("baselines", {"agent_name"})
            \cup Unique("baselines", KeyColumns) \cup OneAgent("baselines")

Metadata ==
    UNION {User, Project, ApiKey, RefreshToken, Secret, Agent, Suite, SuiteVersion, TestCase, Run,
           RunResult, Trace, Judgment, RunCaseSummary, Finding, Baseline}
=============================================================================
