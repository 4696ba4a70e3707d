------------------------------- MODULE Attempt -------------------------------
(***************************************************************************)
(* One worker of core's run_suite and everything an attempt goes through:  *)
(* the three adapters (adapters/http.py, mcp.py, python.py) behind the     *)
(* target guard (ssrf.py), their retries inside the retries of             *)
(* execute_with_retries, the judges in order (judges/), the two time       *)
(* limits, and a cancellation that may arrive at any await.                *)
(*                                                                         *)
(* InlineRun and RedisRun take an attempt for one step with an outcome;    *)
(* this module says which outcomes there are and when.  What the agent,    *)
(* the resolver and the judging model answer is nondeterministic.          *)
(***************************************************************************)
EXTENDS Integers, Sequences, FiniteSets

CONSTANTS
    Adapters,       \* a subset of {"http", "mcp", "python"}
    NumAttempts,    \* the attempts in this worker's queue
    MaxRetries,     \* RunOptions.max_retries
    AdapterRetries, \* the adapter's own max_retries
    MaxRedirects,   \* http.py's MAX_REDIRECTS
    Samples         \* the samples of an llm_rubric judge

ASSUME Parameters ==
    /\ Adapters \subseteq {"http", "mcp", "python"}
    /\ NumAttempts \in Nat
    /\ MaxRetries \in Nat
    /\ AdapterRetries \in Nat
    /\ MaxRedirects \in Nat
    /\ Samples \in Nat \ {0}
-----------------------------------------------------------------------------
\* What can stand in a case's expect, by how its verdict comes about.
Plain   == "plain"      \* contains, contains_any, not_contains, max_length,
                        \* latency_under
Pattern == "pattern"    \* regex and json_schema, which may be unable to judge
Tools   == "tools"      \* judges over the tool calls the agent reported
Rubric  == "llm_rubric"
JudgeKinds == {Plain, Pattern, Tools, Rubric}

Verdicts    == {"pass", "fail", "error"}
InfraErrors == {"unreachable", "budget", "internal"}
Errors      == InfraErrors \cup {"timeout", "agent", "judge"}
Outcomes    == {"passed", "failed"} \cup Errors

\* Classes of addresses, and whether the agent's allow_private and the
\* server's policy permit the private ones.
Classes == {"public", "private", "blocked"}

Calling == {"connect", "answer", "backoff"}     \* under agent_timeout_s
Judging == {"judge", "sample"}
Points  == Calling \cup Judging \cup {"next", "retry", "deliver", "end"}

VARIABLES
    \* the configuration of the run
    adapter,    \* the adapter of the agent under test
    byCall,     \* the case has `call`, not `input`
    expect,     \* its judges, the case-level consistency left out
    config,     \* the agent's and the server's options
    \* the worker
    todo,       \* attempts still in the queue
    pc,
    hops,       \* redirects followed by this request
    secret,     \* the request carries the auth headers
    origin,     \* where the request goes
    tries,      \* retries of the adapter
    retries,    \* retries of execute_with_retries
    reported,   \* the response's tool_calls_reported
    verdicts,   \* judgments so far
    votes,      \* the samples of the rubric being judged
    repairing,  \* its reply was garbled and it was asked again
    outcome,    \* status, or error kind, of the attempt
    results,    \* outcomes delivered so far
    cancelled,  \* task.cancel() was called
    \* history
    acted       \* a request of this attempt reached the agent, and the agent
                \* did not answer it with a redirect or "try again"

run     == <<adapter, byCall, expect, config>>
request == <<hops, secret, origin>>
judging == <<reported, verdicts, votes, repairing>>
worker  == <<todo, tries, retries, outcome, results>>
vars    == <<run, pc, request, judging, worker, cancelled, acted>>

TypeOK ==
    /\ adapter \in Adapters
    /\ expect \in Seq(JudgeKinds)
    /\ todo \in 0 .. NumAttempts
    /\ pc \in Points
    /\ hops \in 0 .. MaxRedirects
    /\ {secret, reported, repairing, cancelled, acted, byCall} \subseteq BOOLEAN
    /\ origin \in {"home", "elsewhere"}
    /\ tries \in 0 .. AdapterRetries
    /\ retries \in 0 .. MaxRetries
    /\ verdicts \in Seq(Verdicts) /\ Len(verdicts) <= Len(expect)
    /\ votes \in Seq({"pass", "fail"}) /\ Len(votes) < Samples
    /\ outcome \in Outcomes \cup {"none"}
    /\ results \in Seq(Outcomes) /\ Len(results) <= NumAttempts - todo

Init ==
    /\ adapter \in Adapters
    /\ byCall \in BOOLEAN
    /\ expect \in {<<Plain, Pattern>>, <<Tools, Rubric>>}
    /\ config \in [private : BOOLEAN, redirects : BOOLEAN, llm : BOOLEAN]
    /\ todo = NumAttempts
    /\ pc = "next"
    /\ hops = 0 /\ secret = TRUE /\ origin = "home"
    /\ tries = 0 /\ retries = 0
    /\ reported = FALSE /\ verdicts = <<>> /\ votes = <<>> /\ repairing = FALSE
    /\ outcome = "none" /\ results = <<>>
    /\ cancelled = FALSE
    /\ acted = FALSE
-----------------------------------------------------------------------------
(* An attempt's end, and the retries around it *)

\* A fresh request of the configured URL with the configured headers.
FreshRequest == hops' = 0 /\ secret' = TRUE /\ origin' = "home"

\* execute_attempt has a result.  Only `unreachable` is retried, and retries
\* of execute_with_retries start from a fresh execute_attempt.
Retryable(o)       == o = "unreachable"

Result(o) ==
    IF Retryable(o) /\ retries < MaxRetries
    THEN pc' = "retry" /\ UNCHANGED outcome
    ELSE pc' = "deliver" /\ outcome' = o

\* The adapter answers with an error: `retryable` tells the two kinds apart.
AdapterError(transient) == Result(IF transient THEN "unreachable" ELSE "agent")

\* with_backoff inside the adapter: a _Transient failure is tried again.  A
\* Retry-After above MAX_RETRY_AFTER_S ends the retries at once.
LastTry      == tries = AdapterRetries

TryFails(transient) ==
    \/ /\ transient /\ ~LastTry
       /\ pc' = "backoff"
       /\ UNCHANGED outcome
    \/ AdapterError(transient)

Reached    == acted' = TRUE
NotReached == UNCHANGED acted

\* run_suite's worker pops the next (case, attempt); an adapter that cannot
\* take the case refuses it without a request.
Supports == adapter = "mcp" <=> byCall

StartAttempt ==
    /\ pc = "next"
    /\ IF todo = 0
       THEN pc' = "end" /\ UNCHANGED <<todo, outcome>>
       ELSE /\ todo' = todo - 1
            /\ IF Supports THEN pc' = "connect" /\ outcome' = "none"
                           ELSE pc' = "deliver" /\ outcome' = "agent"
    /\ FreshRequest
    /\ verdicts' = <<>> /\ reported' = FALSE
    /\ tries' = 0 /\ retries' = 0
    /\ acted' = FALSE
    /\ UNCHANGED <<run, votes, repairing, results, cancelled>>

Another_Uncounted(n) == n
Another(n)           == n + 1

\* clock.sleep is over: the adapter builds its request again.
TryAgain ==
    /\ pc = "backoff"
    /\ tries' = Another(tries)
    /\ FreshRequest
    /\ pc' = "connect"
    /\ UNCHANGED <<run, judging, todo, retries, outcome, results, cancelled,
                   acted>>

Retry ==
    /\ pc = "retry"
    /\ retries' = Another(retries)
    /\ tries' = 0
    /\ FreshRequest
    /\ pc' = "connect"
    /\ UNCHANGED <<run, judging, todo, outcome, results, cancelled, acted>>
-----------------------------------------------------------------------------
(* A request *)

\* resolve_target: every address must be public, or private and permitted.
Permitted(addresses) ==
    \A class \in addresses :
        class = "public" \/ (class = "private" /\ config.private)

\* The guard resolves once, checks every address and connects to those only;
\* a blocked target is not tried again, an unresolvable one is.
Guarded(connected) ==
    \E addresses \in SUBSET Classes :
        IF addresses = {} THEN TryFails(TRUE)
        ELSE IF Permitted(addresses) THEN connected
        ELSE TryFails(FALSE)

\* httpx: a connection that fails is worth a retry, a bad certificate is not.
ConnectHttp ==
    /\ pc = "connect"
    /\ adapter = "http"
    /\ Guarded(\/ TryFails(TRUE)
               \/ TryFails(FALSE)
               \/ pc' = "answer" /\ UNCHANGED outcome)
    /\ UNCHANGED <<run, request, judging, todo, tries, retries, results,
                   cancelled, acted>>

\* httpx2 behind the same guard, and the MCP handshake, which may fail too.
ConnectMcp ==
    /\ pc = "connect"
    /\ adapter = "mcp"
    /\ Guarded(\/ TryFails(TRUE)
               \/ TryFails(FALSE)
               \/ pc' = "answer" /\ UNCHANGED outcome)
    /\ UNCHANGED <<run, request, judging, todo, tries, retries, results,
                   cancelled, acted>>

\* The user's callable: it is entered at once.
CallPython ==
    /\ pc = "connect"
    /\ adapter = "python"
    /\ pc' = "answer"
    /\ UNCHANGED <<run, request, judging, worker, cancelled, acted>>

\* _next_hop: auth headers leave with the origin, and do not come back.
StillSecret_LastHop(next) == next = origin
StillSecret(next)         == secret /\ next = origin

Redirect ==
    /\ pc = "answer"
    /\ adapter = "http"
    /\ \/ /\ config.redirects /\ hops < MaxRedirects
          /\ hops' = hops + 1
          /\ \E next \in {"home", "elsewhere"} :
                secret' = StillSecret(next) /\ origin' = next
          /\ pc' = "connect"
          /\ UNCHANGED outcome
       \/ \* redirects are off, a scheme that is not http, or one hop too many
          /\ TryFails(FALSE)
          /\ UNCHANGED request
    /\ UNCHANGED <<run, judging, todo, tries, retries, results, cancelled,
                   acted>>

\* 429, 502, 503 or 504.
AskedToRetry ==
    /\ pc = "answer"
    /\ adapter = "http"
    /\ TryFails(TRUE)
    /\ UNCHANGED <<run, request, judging, todo, tries, retries, results,
                   cancelled, acted>>

\* The request was sent and there is no usable answer: no response, another
\* status, too large, not JSON, output or tool calls not where response says,
\* an MCP protocol error, an exception of the callable.
LostIsTransient_Yes == TRUE
LostIsTransient     == FALSE

AnswerFails ==
    /\ pc = "answer"
    /\ Reached
    /\ TryFails(LostIsTransient)
    /\ UNCHANGED <<run, request, judging, todo, tries, retries, results,
                   cancelled>>

\* tool_calls_reported: MCP always, HTTP when the mapping has tool_calls,
\* Python when the callable returned steps.
Reports == [http |-> BOOLEAN, mcp |-> {TRUE}, python |-> BOOLEAN]

Answer ==
    /\ pc = "answer"
    /\ Reached
    /\ reported' \in Reports[adapter]
    /\ pc' = "judge"
    /\ UNCHANGED <<run, request, verdicts, votes, repairing, worker,
                   cancelled>>

\* The adapter's own time limit: never retried.  MCP's covers call_tool only.
AdapterTimeout ==
    /\ pc \in {"connect", "answer"}
    /\ adapter = "mcp" => pc = "answer"
    /\ acted' = (acted \/ pc = "answer")
    /\ AdapterError(FALSE)
    /\ UNCHANGED <<run, request, judging, todo, tries, retries, results,
                   cancelled>>

AdapterRaises ==
    /\ pc \in {"connect", "answer"}
    /\ adapter = "http"
    /\ acted' = (acted \/ pc = "answer")
    /\ Result("internal")
    /\ UNCHANGED <<run, request, judging, todo, tries, retries, results,
                   cancelled>>

\* mcp.py catches BaseException around its session, cancellation included.
Swallows == adapter = "mcp" /\ pc \in {"connect", "answer"}

\* agent_timeout_s cancels the adapter.  One that swallows the cancellation
\* returns an error response, and asyncio.timeout then raises nothing.
AgentTimeout ==
    /\ pc \in Calling
    /\ acted' = (acted \/ pc = "answer")
    /\ IF Swallows THEN AdapterError(FALSE) ELSE Result("timeout")
    /\ UNCHANGED <<run, request, judging, todo, tries, retries, results,
                   cancelled>>
-----------------------------------------------------------------------------
(* Judging *)

\* Every judge has a verdict: a judge that could not judge makes an error of
\* the attempt, whatever the others say.
Judged_FailFirst(vs) ==
    IF "fail" \in vs THEN "failed" ELSE IF "error" \in vs THEN "judge" ELSE "passed"
Judged(vs) ==
    IF "error" \in vs THEN "judge" ELSE IF "fail" \in vs THEN "failed" ELSE "passed"

Verdict(v) ==
    /\ verdicts' = Append(verdicts, v)
    /\ votes' = <<>> /\ repairing' = FALSE
    /\ pc' = "judge"
    /\ UNCHANGED <<reported, outcome>>

AllJudged == Len(verdicts) = Len(expect)
Current     == expect[Len(verdicts) + 1]

FinishJudging ==
    /\ pc = "judge"
    /\ AllJudged
    /\ Result(Judged({verdicts[i] : i \in DOMAIN verdicts}))
    /\ UNCHANGED <<run, request, judging, todo, tries, retries, results,
                   cancelled, acted>>

PlainVerdicts == {"pass", "fail"}

\* regex: nested too deep, a flag unknown, not a pattern, too large, or too
\* slow is an error; json_schema: a bad schema is, bad JSON is a fail.
PatternVerdicts == {"pass", "fail", "error"}

\* A judge over tool calls that were not reported cannot judge.
ToolVerdicts == IF reported THEN {"pass", "fail"} ELSE {"error"}

JudgeRule ==
    /\ pc = "judge"
    /\ ~AllJudged
    /\ \/ Current = Plain /\ \E v \in PlainVerdicts : Verdict(v)
       \/ Current = Pattern /\ \E v \in PatternVerdicts : Verdict(v)
       \/ Current = Tools /\ \E v \in ToolVerdicts : Verdict(v)
       \/ Current = Rubric /\ ~config.llm /\ Verdict("error")
       \/ /\ Current = Rubric /\ config.llm
          /\ pc' = "sample"
          /\ UNCHANGED <<judging, outcome>>
    /\ UNCHANGED <<run, request, todo, tries, retries, results, cancelled,
                   acted>>

\* The strict majority of the samples; a tie fails.
Majority(vs) ==
    IF Cardinality({i \in DOMAIN vs : vs[i] = "pass"}) * 2 > Len(vs)
    THEN "pass" ELSE "fail"

\* One reply of the judging model: a vote; garbled, and asked for once more; or
\* blocked, garbled twice, too late (judge_timeout_s) or an exception, which is
\* the judge's error.
Sample ==
    /\ pc = "sample"
    /\ \/ \E vote \in {"pass", "fail"} :
            LET all == Append(votes, vote) IN
            IF Len(all) = Samples THEN Verdict(Majority(all))
            ELSE /\ votes' = all /\ repairing' = FALSE
                 /\ UNCHANGED <<pc, verdicts, reported, outcome>>
       \/ /\ ~repairing
          /\ repairing' = TRUE
          /\ UNCHANGED <<pc, verdicts, votes, reported, outcome>>
       \/ Verdict("error")
    /\ UNCHANGED <<run, request, todo, tries, retries, results, cancelled,
                   acted>>

\* BudgetExceeded or QuotaExhausted: the attempt ends with what was judged.
BudgetUsedUp ==
    /\ pc = "sample"
    /\ votes' = <<>> /\ repairing' = FALSE
    /\ Result("budget")
    /\ UNCHANGED <<run, request, reported, verdicts, todo, tries, retries,
                   results, cancelled, acted>>
-----------------------------------------------------------------------------
(* Delivery and cancellation *)

\* The result is listed and on_result called; the delivery is shielded.
Deliver ==
    /\ pc = "deliver"
    /\ results' = Append(results, outcome)
    /\ pc' = "next"
    /\ UNCHANGED <<run, request, judging, todo, tries, retries, outcome,
                   cancelled, acted>>

\* run_suite cancels its workers once: `cancel` was set (by cancel_run, or by
\* the command line after an infrastructure error) or it was itself cancelled.
Cancel ==
    /\ ~cancelled
    /\ cancelled' = TRUE
    /\ pc \notin {"end", "next", "deliver"}
    /\ IF Swallows
       THEN /\ acted' = (acted \/ pc = "answer")
            /\ AdapterError(FALSE)
       ELSE pc' = "end" /\ UNCHANGED <<outcome, acted>>
    /\ UNCHANGED <<run, request, judging, todo, tries, retries, results>>

\* The worker is cancelled while it waits for a delivery, which goes on.
CancelDelivering ==
    /\ ~cancelled
    /\ pc = "deliver"
    /\ cancelled' = TRUE
    /\ results' = Append(results, outcome)
    /\ pc' = "end"
    /\ UNCHANGED <<run, request, judging, todo, tries, retries, outcome,
                   acted>>
-----------------------------------------------------------------------------
Step ==
    \/ StartAttempt \/ TryAgain \/ Retry
    \/ ConnectHttp \/ ConnectMcp \/ CallPython \/ Redirect \/ AskedToRetry \/ AnswerFails
    \/ Answer \/ AdapterTimeout \/ AdapterRaises \/ AgentTimeout
    \/ FinishJudging \/ JudgeRule \/ Sample \/ BudgetUsedUp
    \/ Deliver

Next == Step \/ Cancel \/ CancelDelivering

Spec == Init /\ [][Next]_vars

\* Every await of an attempt has a time limit, and the event loop goes on.
FairSpec == Spec /\ WF_vars(Step)
-----------------------------------------------------------------------------
(* Properties *)

\* execute_with_retries: "Nothing the agent may have acted on is retried".
\* Through both layers of retries, whatever times out or is cancelled, no
\* request follows one that the agent may have acted on.
NothingActedOnIsRetried ==
    pc \in {"connect", "backoff", "retry"} => ~acted

\* What is reported of an attempt is what happened: an unreachable agent (an
\* infrastructure error, which fails the run) was never reached by this
\* attempt; a pass or a fail has every judge's verdict; a judge that could not
\* judge, like one of tool calls nobody reported, never becomes either.
ResultIsEarned ==
    /\ TypeOK
    /\ pc = "deliver" =>
        /\ outcome = "unreachable" => ~acted
        /\ outcome \in {"passed", "failed"} =>
              /\ acted /\ AllJudged
              /\ \A i \in DOMAIN verdicts : verdicts[i] # "error"
              /\ outcome = "passed" <=> \A i \in DOMAIN verdicts : verdicts[i] = "pass"
        /\ \A i \in DOMAIN verdicts :
              expect[i] = Tools /\ ~reported => verdicts[i] = "error"

\* The auth headers of a request that has followed redirects go to the
\* configured origin only, also after a detour.
SecretStaysHome == secret => origin = "home"

\* The worker empties its queue or is cancelled, whatever the agent, the
\* network and the judging model do.
WorkerEnds == <>(pc = "end")
=============================================================================
