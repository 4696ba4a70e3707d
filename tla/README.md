# AgentProbe: a TLA+ model

AgentProbe runs a suite of test cases against an LLM agent several times each,
judges every answer, and compares the statistics of a run with those of a
baseline. A server runs suites and keeps their records, a command line and a
GitHub action run them in CI, a web application shows them. This directory
models what decides whether a run can be trusted: TLA+ modules, the TLC
configurations that check them on small instances, and TLAPS proofs about them.
`PROJECT.json` maps every definition to the source lines it models, lists what
is hard to test in this code (`hazards`) with the properties that cover it, and
gives each property a mutant of the code that it catches.

Paths below are relative to the repository; `api` stands for
`apps/api/src/agentprobe_api`, `core` for `packages/core/src/agentprobe_core`.

## 1. The system

### Components, their state, and how they interact

| component | code | state | operations | modules |
|---|---|---|---|---|
| run store | `api/runstore.py`, `models.py` | rows of `runs`, `run_results`, `run_case_summaries`, `judgments` | `claim`, `save_attempt`, `finish`, `save_summary`, `load_plan`, `stale_runs`; ingestion, export | `RunLifecycle`, `RedisRun`, `InlineRun`, `RunRecord` |
| Redis queue | `api/queue.py`, `worker.py` | messages of a stream, jobs inside workers | jobs `start_run`, `run_attempt`, `finalize`; `enqueue`, `cancel`, `recover` | `RedisRun` |
| inline queue, suite runner | `api/queue.py`, `core/runner.py` | one task and one cancel event per run; attempts, results, deliveries under way | `enqueue`, `execute_inline`, `cancel`, `recover`; `run_suite` | `InlineRun` |
| attempts, adapters, judges | `core/runner.py`, `adapters/`, `judges/`, `ssrf.py` | the locals of a worker, a chain of redirects, verdicts so far | `execute_with_retries`, `execute_attempt`, `call`, `judge` | `Attempt` |
| LLM client | `core/llm/` | the run's budget, the model's window, the quota file, the cache | `complete`, `embed`, `acquire`, `reserve_call`, `with_backoff` | `LlmClient`, `DailyQuota`, `QuotaFiles`, `QuotaFile` |
| statistics, clustering | `core/stats/`, `core/suite/`, `core/findings.py` | the budget of false alarms: the suite's, then the flags' | `parse_suite_yaml`, `override`, `compare_runs`, `cluster_failures` | `Regression`, `FailureClusters` |
| suites, agents, run admission | `api/suites.py`, `agents.py`, `runs.py`, `limits.py` | suites and their versions, agents and their auth headers, the caps | `start_run`, `update_suite`, `create_agent`, `update_agent`, `delete_agent`, probe | `Workspace` |
| accounts and access | `api/auth.py`, `projects.py`, `share.py`, `security.py` | accounts, sessions, API keys, stream tokens, share links | register, login, keys, `create_share`, the `owned_*` queries | `Access` |
| sessions | `api/auth.py`, `web/.../session.ts` | refresh tokens, a browser's cookies and Web Lock, a tab's single flight | login, refresh, logout, reuse detection | `Session` |
| rate limits | `api/ratelimit.py` | token buckets in memory or Redis | `acquire`, pruning, `Retry-After` | `TokenBucket` |
| a request's shell | `api/main.py`, `errors.py`, `db.py` | a session with uncommitted writes, the response under way | middleware, error handlers, `get_db` | `Request` |
| progress | `api/progress.py`, `runs.py`, `web/.../use-run-stream.ts`, the run page | subscribers, the browser's timers and connection, the page's run | publish, subscribe, reconnect, poll, resync | `RunStream` |
| reading a record | `api/share.py`, `results.py`, `runstore.py`, `htmlexport.py` | none of its own | public page, list of results, trace, export | `RunRecord` |
| CI | `packages/cli`, `api/ci.py`, `baselines.py`, `action/` | local and server baselines, the pull request's comments | `run`, push, report, set baseline, comment | `CiJob` |
| database schema | `apps/api/migrations`, `models.py` | tables, keys, rows | five revisions up and down, deploys | `Tables`, `Models`, `Schema` |
| waking hosts, web rendering, demos and scripts | | | | not modelled (section 6) |

The API commits a queued run with a snapshot of its suite and hands its id to
the queue backend. The backend executes the run's plan, every (case, attempt)
pair, by calling the agent and the judges, saves each attempt in a transaction
of its own and publishes it on the progress bus, and finally summarizes the run
and clusters its failures. A page follows the run over the bus. CI runs a suite
in its own process and pushes the whole run in one request. Meanwhile users
cancel runs, edit suites, replace headers, revoke keys, and any process may die
at any await.

### What is hard

* *Interleaving*: jobs of one run execute in several workers; requests of the
  API interleave between their queries; tabs share cookies; CI jobs share a pull
  request.
* *Atomicity*: saving an attempt, failing the run because of it, and kicking
  finalize are three steps; a cap is counted and then used; a header is looked
  up and then deleted.
* *Delivery*: a job message may be delivered twice, retried or never sent; an
  event may be lost; a push may be stored and its reply lost.
* *Recovery*: a restart resumes every live run from what it finds saved; the
  quota file is what a dead process left.
* *Cancellation* interrupts agent calls but must not interrupt saves.
* *Numbers*: a step-down whose family shrinks, a matrix that is renumbered at
  each merge, a bucket that is dropped at the age it has refilled.
* *Two copies of one truth*: the schema in migrations and in `models.py`, the
  text of a suite in its run, its row and its versions, a summary computed when
  a run ends and again when it is exported.

## 2. The modules

| module | models | composed with |
|---|---|---|
| `RunLifecycle` | abstract: how status, saved attempts and summary of a run may change, strictly (`Spec`) and with a summary from memory (`InMemorySpec`) | |
| `RedisRun` | workers, stream, API handlers and faults of the Redis backend | implements `RunLifecycle` (`saved <- SavedRows`) |
| `InlineRun` | `InlineQueue`, `execute_inline` and `run_suite` in one event loop | implements `RunLifecycle` as `InMemorySpec` (`saved <- SavedRows`) |
| `Attempt` | a worker of `run_suite`: adapters, retries, judges, time limits | what `InlineRun` and `RedisRun` take for one step |
| `LlmClient` | the concurrent calls of one LLM client and all of its limits | |
| `DailyQuota` | abstract: an atomic counter per day | |
| `QuotaFiles` | the quota file, its temporary file, the processes that share them and what is promised of them | implements `DailyQuota` (`count <- Counted`) |
| `QuotaFile` | how the processes read, change and replace it | steps of `QuotaFiles` |
| `Sorting` | `sorted()`: an element comes where as many are before it as come before it | used by `Regression`, `RunRecord` |
| `Regression` | `compare_runs`, exactly, and the `StatisticsConfig` it is given | |
| `FailureClusters` | the merges of single linkage on the shrinking matrix | |
| `RunRecord` | a run's rows and those who read them | |
| `MCAnalysis` | `Regression`, `FailureClusters`, `RunRecord` as parts of one instance | extends them |
| `Sessions`, `Session`, `MCSession` | refresh rotation against tabs and browsers: what is shared and promised, and the steps | |
| `Workspace` | suites, agents, headers, runs, caps as concurrent transactions | |
| `Access` | accounts, keys, tokens, links as concurrent transactions | |
| `TokenBucket` | the limiter of both backends | |
| `Request` | one request through middleware, error handlers and session | |
| `MCWorkspace` | the four above as parts of one instance | extends or instantiates them |
| `RunStream` | bus, event stream, hook and page | |
| `CiJobs`, `CiJob` | CLI, ingestion, baselines, action: what can be seen and is promised, and the steps | |
| `Tables`, `Models` | the operations of the migrations; the tables of `models.py` | |
| `Schema`, `MCSchema` | a database under migration, with an API that writes; its instance | extends both |
| `Workspace_proofs` | theorems about the four parts of `MCWorkspace` and their composition | extends `MCWorkspace`, TLAPS |
| `Clients_proofs` | theorems about `RunStream`, `Session` and `CiJob` | extends `RunStream`, `Sessions`, `CiJobs`, TLAPS; instantiates `Session`, `CiJob` |
| `Data_proofs` | theorems about `FailureClusters`, `RunRecord` and `Schema` | extends `MCAnalysis`, `MCSchema`, TLAPS |
| the other `*_proofs` | theorems about the module they are named after | extend it and TLAPS |

An action is what the code does between two awaits (or, in a browser, two
callbacks); a database transaction, or a query of one, is one step as Postgres
makes it one. Data is what the properties tell apart: a text, an agent or an
answer is a name. Where a component is several parts that share no state, one MC
module holds them as parts of one instance, of which a behaviour takes one.

**RedisRun.** A worker has a point in its handler (`pc`), the message it executes
(`msg`) and the locals it carries across an await (`rows`, `result`, `doomed`).
`start_run` is `Claim`, `LoadStart`, `ReadSaved`, `KickAttempt`; `run_attempt` is
`LoadPlan`, `CheckSaved`, `CallAgent`, `SaveAttempt`, and perhaps `FailRun`,
`KickFinalize`; `finalize` is `LoadFinal`, `ReadResults`, `SaveSummary`,
`Cluster`, `ClusterCommit`. `stream` counts the copies of every message; order
does not matter since any worker may be slower than any other. `Crash`,
`JobFails` and `Redeliver` may hit a worker at any point, `ApiCrash` a handler
between its commit and its message; `EarlySweep` is a recovery that takes a slow
run for a dead one, `Sweep` that of a run on which nothing works any more. A
result is "ok" or "infra" (a kind in `INFRA_ERRORS`); a summary is the set of
attempts it covers. A queued run whose secret is gone already is an initial state
(`SecretHeld` of `Workspace` says when that happens). Publishing changes no row;
that it may raise is `JobFails`.

**InlineRun.** One task (`pc`), `run_suite`'s attempts (`phase`), its in-memory
`results` and the run's cancel event. `DeliveryRaises` and `TaskRaises` are
database calls that raise; `CrashAndRestart` is a death of the process and the
`recover()` of the next, whose environment may not be able to build the agent.
`SuiteBreaks` is the path on which the task group's exception leaves `run_suite`
before the deliveries are waited for.

**Attempt.** The program counter of one worker from its queue to the delivery of
a result: address resolution and the target guard, a request, redirects (`origin`,
`secret`), the adapter's own retries inside those of `execute_with_retries`, the
judges in order with a rubric's samples, and the two timeouts. `acted` is history:
the agent may have acted on a request that was sent.

**LlmClient.** A call is at a point of `Client._call`: reserved in the budget and
waiting for the semaphore, waiting for the limiter's lock, in `acquire`'s loop,
about to reserve the day's request, at the provider, backing off, or over.
`CheckWindow` and `SendRequest` are two steps since the code reads the clock
twice. `Cancel` may hit a call at every await. `requests` is a history of what
was really sent; `window` is what the limiter knows of it. A time is an age of at
most `Window` ticks, so time needs no bound and liveness means something. Tokens
and USD are one amount.

**QuotaFile, QuotaFiles.** `reserve_request` and `add_usd` are `Load`, `Open` (which
truncates), `Write` and `Replace`. Paths name inodes and an open file stays its
inode, which is what makes a shared temporary file dangerous. A file that is
empty or not JSON is `Torn`, and `_load` takes it, like another day's, for a new
day. A behaviour is one of processes that overlap or, `overlap` being false, that
follow each other.

**Regression, FailureClusters.** Fisher's test, the Tarone-Holm step-down, the
sign-flip test, the minimal drop and the transitions, with p-values as natural
numbers over a common denominator, as the code's are fractions. `config` is the
budget of a suite that was parsed (`ParseSuite`) and overridden by flags, of `run`
and again of `compare`. And the merges on
a matrix that shrinks. `MCAnalysis` compares them with definitions that share
nothing with the code: sums of probabilities over all outcomes, the step-down
over all orders, connected components.

**RunRecord.** A live run saves attempts, is cancelled or fails, and is
summarized, or is uploaded whole; readers ask the database one query at a time.
`sorted()` is `Ordered` of `Sorting`. A query without an ORDER BY returns the rows in one of `Orders`.

**Session.** A refresh token is its index in `tokens`, a request carries the
cookie its browser held when it was sent. A tab's refresh takes the Web Lock,
probes, refreshes, and leaves it; the login page's does not take it. Requests and
replies may be lost (`Lose`, `LoseSignOut`): `fetch` rejects, or a gateway answers
with a 5xx, and what the page makes of it depends on which and where. A login page
whose own refresh rejects is left at "skeleton", from where only the user's `Reload`
leads on. `causes` is history: which of the named races happened.

**Workspace, Access.** Each request is a session of `db.get_db` cut at its
queries under READ COMMITTED; its writes show when it commits, and a written row
stays locked until then. `overtaken` (a run inserted after the look for users of
its header), `entitled` (a credential that was good when it was looked at) are
history. Names of what a request creates are the request's. In `Access` the step
that commits a request also sends its answer, as `get_db` has nothing in between, except
in `start_run` and `cancel_run`: `CommitRun` commits, which unlocks the key's row, and
`TellQueue` tells the queue and answers, while anything else may happen.

**TokenBucket.** A bucket keeps its age; tokens are counted in parts of
1/`Window`, so the arithmetic is exact. `level` is history: the bucket that is
never dropped. `promise` is the time left of an announced `Retry-After`.

**Request.** `at` is where the request is: read under the cap, in the endpoint
inside `get_db`'s session, raised, answering, sending, logged. A commit may fail
before or after it reached the database (`stored` has "unknown" then). `sent`,
`lost` are history.

**RunStream.** The run's status, the stream of one connection (a queue of events
that may be lost or late), the hook's fields, and the page with its two kinds of
fetches (`resyncs`), each answered, failed or rejected after a read that may be
stale by then. `abandoned` says that a fetch was rejected inside `fail()`.

**CiJob.** A job is the CLI's process and the action's steps after it; its push
is one transaction of the API, which goes on when the CLI has given up. A run is
how good it is, whether below its threshold, and whether cut short.

**Tables, Models, Schema.** A schema is a set of items (columns, defaults, keys,
checks, indexes). Revisions are sequences of operations on it, with the rows they
copy and delete; `models.py` is written a second time, independently. The API
writes rows at the code of an earlier revision until it is deployed.

## 3. What is checked

| run | instance | properties |
|---|---|---|
| `RedisRun` | 2 attempts, 2 workers of which one cannot build the agent, 1 retry, 1 fault | `RecordHolds`: counter, saved attempts, status and summary agree; `ImplementsLifecycle`; `EveryRunEnds`; `JobsDrain` |
| `InlineRun` | 3 attempts, concurrency 2, 1 restart, 2 failing database calls | `RunHolds`: a completed run is whole, its summary is of what is saved unless it was cancelled, an infrastructure error fails it (`VerdictHolds`), nothing is in flight behind the summary, nothing saved is called again (`CallsHold`); `ImplementsLifecycle`; `RunAndTaskEnd` |
| `Attempt` | 3 adapters, 2 attempts, 1 retry in each layer, 2 redirects, 2 samples | `NothingActedOnIsRetried`, `ResultIsEarned`, `SecretStaysHome`, `WorkerEnds` |
| `LlmClient` | 3 calls, 2 slots, 2 requests per 2 ticks, 5 a day less what others used, 1 retry | `RpmHolds`, `RequestsHold` (the day's count and the bound on requests per run), `ConcurrencyHolds`, `EveryCallEnds` |
| `QuotaFile` | 2 processes that overlap or follow each other, dying anywhere, cap 3, 2 midnights | `QuotaHolds`: torn only while processes overlap and one is writing, the cap holds when they do not; `ImplementsQuota` |
| `Analysis` | all comparisons of up to 3 cases run 3 times, under every budget set and overridden; all clusterings of up to 4 outputs; a record of 2 cases run twice | `FalseAlarmsBounded`, `TestsAreExact` (the step-down and the sign-flip test), `FindingsAreChains`, `PagesAreWhole`, `ExportIsTheRecord`, `VerdictsAreAnchored` |
| `RecordDrift` | a record whose run had another judge than the server's suite | **violated**: `VerdictsAreAnchored` |
| `Session` | a browser with 2 tabs, another with 1, 2 expiries, 1 other event | `ReuseHasACause`, `NoOrphanSession`, `RefreshEnds` |
| `Workspace` | 3 requests at a time, caps of 1; 2 at a time on accounts and access; 2 clients of a limiter of 2 requests per 5 ticks, 2 ticks a second; a request of up to 4 parts under a cap of 2 | `RunsAreReproducible`, `QuotasHold`, `SecretHeld`; `OnlyOwnersAreAnswered`, `RevokedIsOver`; `LimiterIsFair`; `AnswersAreTrue` |
| `RunStream` | 3 failures before polling, 2 attempts, 2 failing fetches | `OneDriver`, `PageSettles` |
| `CiJob` | 2 jobs, one of which pushes, any earlier baselines | `GreenIsEarned`, `OneComment` |
| `Schema` | 1 suite, 2 agents, 1 unregistered name, 2 branches, 2 runs, 2 versions | `SchemaAgrees`, `MigrationsApply`, `DowngradeKeepsABaseline` |

Each property is stated in words above its definition. `RunHolds` and
`ResultIsEarned` include their modules' type invariants; the proofs of the other
modules carry one each.

### Bounds

* `RedisRun`: two attempts are the smallest plan in which one attempt is not the
  last, two workers the smallest pool in which save meets save, save finalize and
  finalize finalize. One fault with one retry already gives second deliveries
  during and after the first, and a sweep on top of a live job. The theorems hold
  for any numbers.
* `InlineRun`: with three attempts, two in flight, one is still queued when the
  suite is stopped; two errors let the failure of a call be followed by that of
  the `fail_run` that should report it.
* `Attempt`: a second attempt shows what is left over from the first; one retry
  in each layer lets the layers multiply; two redirects leave home and come back.
* `LlmClient`: three calls against two slots and two requests put one call in
  each of the three queues, and with one retry a call passes the window twice.
* `QuotaFile`: sharing takes two processes; three requests a day let one follow a
  torn state, and two midnights let a write of yesterday land today, and twice.
* `Analysis`: with three attempts a case may be untestable, testable and never
  significant, or significant, and three cases let the family fall twice; four
  outputs are the fewest on which a matrix renumbered wrongly shows. The two
  budgets and the shares are such that a split is within one budget and over the
  other, and that a budget spent too far flags a table it must not. `Orders` has
  the plan's order and its reverse, in which every two rows come either way; the
  theorems hold for any.
* `Session`: two tabs race for a lock, a browser of its own shows what "revoke
  every session" does to others, a second expiry lets the late reply of the first
  refresh meet it.
* `Workspace`: at caps of one, three requests overshoot by two. A race of a
  start, a replacement and a deletion takes three. Five ticks to a window of two
  requests make refills fractional, two ticks to a second make the rounding of
  `Retry-After` matter. A body of four parts under a cap of two passes the cap in
  one message, or only with its last.
* `RunStream`: three failures are the hook's; two faults let a resync fail inside
  `fail()` and again while polling.
* `CiJob`, `Schema`: two jobs race for a comment, a push and a baseline being set
  take two; two branches and two identities are what the keys of 0004 and 0003
  tell apart.

`CHECK_DEADLOCK FALSE` is set where the system stops: a run, an attempt, an
analysis, a set of requests or a page is a finite piece of work. Deadlock is
checked for `LlmClient` and `QuotaFile`, which never stop (time passes).

### Fairness

* `RedisRun`: a worker that can take a step does (the pool is never idle while
  messages wait, calls of agents have timeouts, a database call answers or
  raises), an API handler goes on, and a worker or API process is started once a
  live run has gone quiet. The last one is a property of the deployment: the code
  has no timer that sweeps, only the startup hook, and without it `EveryRunEnds`
  fails after a crash between the last save and the finalize message.
* `InlineRun`: the event loop and the timeouts of calls. No restart is assumed,
  so `EveryRunEnds` excuses a run both of whose error paths failed.
* `Attempt`: the worker's steps; every await in it is under a timeout.
* `LlmClient`: time passes, what can run runs, the provider answers or times out.
  Nobody is assumed to be served in order.
* `Session`: the API answers (or its reply is lost), a page runs its code, the
  browser grants a free lock. No user is assumed to reload a page, sign in or out.
* `RunStream`: the run ends, timers fire, a connection is made or fails, a fetch
  is answered, refused or rejected. That an event arrives is not assumed.

The other runs check safety only.

### Where the code and its documentation differ

`RecordDrift` is a finding: the trace of an attempt is computed from the server's
copy of a suite, which need not be the one a CI job ran; `PROJECT.json` quotes the
promise. The following are disagreements or surprises met while modelling; the
models contain them, and the properties are stated so as to hold with them.

* An infrastructure error is saved in one transaction and fails the run in another
  (`api/queue.py:100`), so another Redis worker can complete the run in between;
  `queue.py:12` and ADR 0017 say the first one fails it. `InfraErrorFailsRun` is
  stated of the inline queue, where it holds between restarts.
* Two finalize jobs clustering at once both leave findings (`api/findings.py:104`;
  its docstring says repeating is idempotent).
* A failed run is never summarized when its agent's header was replaced before
  finalize decrypts it (`worker.py:158`; ADR 0017 says a summary is still written).
* The summary of a cancelled inline run may cover an attempt whose save was dropped
  (`queue.py:179`): `SummaryMatchesUnlessCancelled` excuses it.
* Token and USD caps are checked before the semaphore (`llm/client.py:126`), so
  every call that waits may overshoot; ADR 0011 speaks of one call.
* A process may rename the temporary quota file that another just emptied, and the
  day's count is lost; `limits.py:73` says "undercount by a few".
* `McpAdapter._call` catches `BaseException`, so a cancellation during an MCP call
  is swallowed (`mcp.py:235`) and the worker goes on.
* The login page refreshes outside the Web Lock (`login/page.tsx:32`), although
  `session.ts` says refreshes are serialized: one of the `causes` of a reuse.
* That refresh has no `catch`, and `wake.ts:130` rethrows for a POST: when it is lost,
  `checkingSession` stays true and the page keeps its skeleton until it is reloaded,
  although ADR 0029 has it tried "before showing the form" and the comment above it
  (`login/page.tsx:30`) "before asking to sign in again". `RefreshEnds` counts the
  skeleton as an end.
* Deleting an agent deletes its runs' rows, so the day's and the live budget are
  admitted again. Two concurrent updates of one header leave an orphan secret.
* `resync` of the run page rejects on a network failure where the hook expects null
  (`use-run-stream.ts:32`): nothing drives the hook any more (`abandoned`).
* Two concurrent `create_share` both answer 201; only the last token works. A
  stream opened with a key goes on after the key's revocation, and access tokens
  live until they expire: `RevokedIsOver` speaks of requests.
* `start_run` and `cancel_run` commit, and so unlock the key's row, before they tell
  the queue and answer (`runs.py:199`, `runs.py:317`): a revocation can be answered in
  between, and the key's request after it. `RevokedIsOver` therefore speaks of what is
  looked up and committed by right of a key, not of when an answer arrives; what these
  two still do was decided before, and `cancel_run` reads its run again
  (`runs.py:318`).
* `start_run` and `cancel_run` commit before they tell the queue, so a request
  answered 500 may have stored its run (`stored` has "endpoint" in `Request`); the
  next start-up's sweep finds it.
* A pushed run that an infrastructure error cut short is stored as completed and
  may become a baseline; registering an agent later splits its baselines; pushing
  again after a lost reply duplicates the run.
* With rows in `runs` or `api_keys`, a downgrade below 0003 or 0002 cannot be taken
  back, although the comments say that the tables have no rows yet
  (`0003:24`, `0002:20`): `stranded`. Code older than 0005 between the
  migration and its deploy saves versions without their YAML (`overtaken`).

## 4. What is proved

Every listed theorem holds for all values of the constants that satisfy the
assumptions of its module (`Parameters`, `Bounds`, `...Assumption`): finite sets,
positive limits, names that do not clash. TLC evaluates each assumption in the run
of that module. Three say more, because the properties do: `AgentCap` is positive
and `ProjectCap` at least 2, since the models start with one agent and the first
account with two projects, which the caps must have admitted (`docs/DEPLOY.md` sets
5 and 3, and a cap that is not set is none); and there are finitely many browsers.

All invariants and action properties that the passing runs check are theorems, and
so are the three refinements (`RedisRun` and `InlineRun` of `RunLifecycle`,
`QuotaFile` of `DailyQuota`).

**RedisRun.** `TypeCorrect`, `CounterCorrect`, `CompletionCorrect`,
`SummaryCorrect`, `FinalizeCorrect`, together `RecordCorrect`; and `Refinement`,
that it implements `RunLifecycle`. That a summary matches what is saved is not
inductive: what keeps it from becoming stale is that finalize exists only for a
run that is `Frozen`, over or with every attempt saved, and freezing is stable.
`IInv` adds `FinalizeIsLast`, `PointOfJob` (a worker is at a point of its own
job's handler) and `ReadIsSaved` (rows read are still the saved ones);
`DoneCountsSaved` and the lemma `AllSaved` give that `done >= total` means whole.

**InlineRun.** `VerdictCorrect`, `CallsCorrect`, together `RunCorrect`. The invariant says, for every
point of the task, what the workers, the saves under way, the in-memory results
and the rows have to do with each other, and that after a restart nothing of the
dead process is left. `Refinement`: the inline backend implements `RunLifecycle`
as `InMemorySpec`, which lets a run that is over be summarized over more than was
saved (`SummarizeInMemory`). It does not implement `Spec`: a cancelled run is
summarized from memory although the save of an attempt was dropped (section 3). The
one step that is not read off an action, `SaveSummary`, needs `MemoryInv`: what is in
memory when the summary is written covers what is saved, and a run that completes has
all of it.

**Attempt.** `RetriesCorrect`, `ResultCorrect`, `SecretCorrect`. Until an answer
is in, nothing was acted on and nothing judged (`Unsettled`); from then on the
verdicts are of the judges so far (`Settled`).

**LlmClient.** `TypeCorrect`, `RpmCorrect`, `QuotaCorrect`, `ConcurrencyCorrect`,
`RequestsCorrect`. `RpmHolds` speaks of requests sent, of which the limiter
remembers only some, so the invariant says that the deque is the tail of the
requests and that what was dropped is a minute old (`WindowIsTail`), that there is
room while a call that found some holds the lock (`WindowHasRoom`, `LockIsHeld`),
and that the semaphore's value plus the calls inside is its capacity
(`SlotsBalance`). `RequestsHold` bounds all requests by the calls reserved. A sum
over the calls would need induction; instead `EveryRequestIsATry` says that there
is a set of pairs (reserved call, number of the try), as many as requests were
sent, in which no call has a try it has not made: the pairs are part of a product
of two finite sets, whose size is the bound.

**Workspace_proofs** is about the four parts of `MCWorkspace`, each an invariant of
its own, and ends with the composition: `PartsCorrect` says that a behaviour of
`MCSpec` is one of each part's `Spec`, since a step of one part is a stutter of the
others, so every theorem about a part carries over.

* `ReproducibleCorrect`, from `VInv`: what each request has read of the suite agrees
  with the versions kept (`Sound`). `SecretCorrect`, from `SInv`: names of headers
  are fresh (`Taken`), and a request about to delete one has looked at every live
  run that was not `overtaken` (`Held`).
* `QuotasCorrect` (`QuotasHold`, of `CapsCorrect` and accounts). That the rows
  exceed a cap by at most the other requests served is not inductive: rows, plus
  requests that have counted and not inserted yet, are at most the cap plus
  `MaxOpen` - 1 (`Within`, in `CapInv` for runs, live runs and agents, in
  `AccountInv` for signups and for each user's projects). A request that counts
  starts from fewer rows than the cap, and all that have counted are served at this
  moment (`Passes`); afterwards a row replaces its request. No account is made twice
  because an email that is inserted and not committed is locked (`EmailsAreUnique`).
* `AccessCorrect` (`OnlyOwnersAreAnswered`) and `RevocationCorrect` (the action
  property `RevokedIsOver`), from `AccessInv`: whoever handed a key, a token or a
  link out owned what it is for (`HandedOut`); and a request being served is
  `Rightful`, by the kind of its credential and by what it has read so far. A key's
  row stays locked from the authentication to the commit, so the key is live as long
  as a request looks something up or is about to commit by right of it (`ByKey`), which
  is what revocation waits for. After the commit of `start_run` and `cancel_run` the
  invariant says nothing of the key, and `TellQueue` needs nothing of it
  (`RunCommitted`). A link or a session is looked up once, and `entitled` remembers
  what was true then.
* `LimiterCorrect` (`LimiterIsFair`), from `BucketInv`: a bucket that was dropped
  would be full (`PrunedIsFull`), and the rest of every announced wait refills what
  is missing of a token (`WaitsAreEnough`), for any limit, window and clock.
* `AnswersCorrect` (`AnswersAreTrue`), from `RequestInv`: nothing is settled before
  the body is read, one answer is sent, and it is one that what is stored allows,
  a commit of unknown outcome allowing a 500 only.

**Clients_proofs** is about clients of one shared thing, components which share no
name: their state and their promises are modules that it extends (`RunStream`,
`Sessions`, `CiJobs`, `QuotaFiles`), and the steps of the last three are instances.
`OneDriverCorrect` (`RunStream`), from `HookInv`: which timers, connections and
fetches can be pending together, tied to the hook's fields. `ReuseCorrect` and
`OrphansCorrect` (`Session`), from `SessionInv`: no two browsers, nor requests of
two, have a token (`Owned`), whoever probes or refreshes with the lock has it
(`LockHeld`), and as long as none of the named causes has happened the session is
`Sane`: one refresh of a browser under way and none beside a sign-out (`Flight`), a
browser's token is revoked only while its replacement is on the way (`Fresh`,
`Current`), and every live token is one that a browser has or is about to be given.
`GreenCorrect` and `CommentCorrect` (`CiJob`): a job's verdict is followed from its
exit code (`Fine`) over its request (`Answered`, `Ordered`) to the run the server
committed (`Pushed_OK`).

`QuotaCorrect` and `QuotaRefinement` of `DailyQuota` (`QuotaFile`), from `QuotaInv`.
Two paths name different inodes and what both name is whole or being written
(`PathsInv`); a process that follows another has the files for itself (`AloneInv`);
what it is about to save counts what was sent (`CountInv`). There is always a free
inode, by the pigeonhole lemma `OneIsFree`.

**Regression_proofs.** `TestsCorrect` (`TestsAreExact`) and `FalseAlarmsCorrect`
(`FalseAlarmsBounded`), for any number of cases and attempts and any budgets; the
second from `AlarmsCorrect`, which has the bound for totals in any order. The
invariant is small: `ConfigInv` says that a report is of an outcome which the totals
allow, by the settings, and that these are within the budget (`override` refuses what
is not). All else is about what the operators compute, and follows the statistics:

* Folds. `Sum`, `Product`, `Choose`, the binary search and the counts of the
  sign-flip test are recursions over data. Each is pinned down by an equation that
  its defining recursion satisfies and by a least counterexample (`SumIs`,
  `ProductIs`, `ChooseIs`, `SearchFinds`, `SignedSumsAre`).
* The step-down. The binary search finds the least family size that no more
  hypotheses can reach (`FamilySizeIs`), which grows with the hypotheses
  (`FamilyGrows`). So what is rejected can be said without an order: the hypotheses
  with every p-value up to theirs within alpha over the family of those not below
  it (`Passing`, `RejectedIs`). Independence of the order and of the cases that
  could never be significant, and the comparison with Holm's, are read off that.
* The suite test. A value after the other, the counts are those of the sign
  assignments with each sum (`WithSumIs`), and a delta of zero doubles them
  (`ZerosDouble`).
* False alarms of the cases. The tables that a total allows weigh `Tables`
  (`WeightsAddUp`, which is Vandermonde's identity), and the chance of what one case
  does is independent of the others (`BoxIs`, `ChanceOfSide`). If any case is
  flagged, one is with its p-value within alpha / K, where K is the family of all
  cases: it depends on the totals alone (`FlaggedByOne`). At most K cases can have a
  p-value that small, each with chance at most alpha / K (`TailIsSmall`,
  `UnionBound`).
* False alarms of the suite. Swapping baseline and candidate of some cases leaves an
  outcome as likely as it was (`FlipIs`). Of the flips of one outcome at most a share
  alpha are among the alarming ones (`FewAlarm`); the pairs of flips and outcomes,
  counted in both ways, bound the chance (`LandingsBySign`, `LandingsByOutcome`).
* Both chances add up to at most the budget, which `WithinBudget` says of the shares
  (`SharesAddUp`).

The theorems are about `Regression`'s own `Spec`; the part "compare" of `MCAnalysis`
is its instance, and the other parts leave its variables alone.

**Data_proofs.** `FindingsCorrect` (`FindingsAreChains`) is proved for any number
of outputs, any distances and any threshold, from `ClustersInv`. Its heart is that the
renumbered matrix keeps the meaning of single linkage, which the code nowhere states:
an entry is the least distance between an output of the one cluster and one of the
other (`GapsAreMinimal`, `MergeEffect`), the clusters partition the outputs
(`Partition`), and each is inside what its outputs reach (`Chained`). When the nearest
pair is beyond the threshold each cluster is left by no near pair, so it is all that
they reach. The minima need least elements, from well-foundedness of `<` (`Least`).
`VerdictsCorrect` (`VerdictsAreAnchored`), from `RecordInv`: the verdicts of a saved
result are of the first of its case's judges, in order, so the trace's pairing ends
with the verdicts. Its hypothesis `SameJudges`, that a CI job judges each case as
the server's copy of the suite does, is what `RecordDrift` violates. `AnalysisParameters`
says of the judges left without the consistency judge that they are a list: the
prover cannot unfold `SelectSeq`, TLC evaluates it.

`PagesCorrect` (`PagesAreWhole`) and `ExportCorrect` (`ExportIsTheRecord`), from
`SummaryInv`, for any number of cases and attempts and any set of orders: a summary is
written only when the rows have stopped changing, so each case of it counts all rows of
the case (`Summed`), and a page between its queries shows no summary, or that of rows
which are final (`SharedFits`). That the summary does not depend on the order in which
the database returns the rows is `SummaryIs`: in a finite strict order every place is
taken once (`Ranks`), so what `Ordered` makes of a case's rows is the same for every
order they are read in (`OfCaseIs`). The sums of the export are folds over sets; as no
induction over an operator is available, `FoldCounts` pins the fold's recursion down by
its closed form, the number of elements of the union of disjoint sets, and a least
counterexample. `AnalysisParameters` says of `Orders` that no two pairs of the plan are
in one place, as no two rows of a result set are.

`AgreementCorrect` (`SchemaAgrees`), `MigrationsCorrect` (`MigrationsApply`) and
`DowngradeCorrect` (`DowngradeKeepsABaseline`), from `SchemaInv`, are about `Schema`
with any suites, agents, branches and rows. `RowsInv` says what the rows of a revision
look like, which the constraints of that revision alone do not: before 0004 no run is
of an unregistered agent and no branch has two baselines, so the backfill finds each
baseline's run (`BackfilledIs`) and the new key holds; from 0004 on a baseline repeats
its run, so what the downgrade keeps, the lowest id of each branch, has no two of a
branch and leaves no branch without (`KeptIsUnique`); and below 0002 and 0003 the
tables whose new columns have no default are empty unless rows were `stranded`. The
schema itself is a given value at each revision: `SchemaInv` says that it is what the
revisions leave one after another, in whatever order they were taken and taken back.
What five fixed lists of operations do to these six values is computed by TLC
(`RevisionsFit` in `MCSchema`, an assumption without parameters) and not proved.

### What is only model-checked

* Liveness (fairness and ENABLED are out of the prover's reach): `EveryRunEnds`,
  `JobsDrain`, `RunAndTaskEnd`, `WorkerEnds`, `EveryCallEnds`, `RefreshEnds`,
  `PageSettles`.
* The equations between the six schemas of `RevisionsFit`, two of them sets of some
  two hundred items: TLC evaluates them in the run of `Schema`.

## 5. Abstractions to keep in mind

* The queues take an attempt for one step with an outcome, `Attempt` says which
  outcomes there are; `Workspace` takes a run for `LoadPlan` and `EndRun`,
  `RunStream` for its end. The compositions are by these shared vocabularies, not
  by one large module.
* `TokenBucket` is exact where the code's numbers are floating point, and a
  process's memory is one bucket: with N API processes the memory backend's limit
  is N times as high.
* `finalize_run`'s agreement of judges is left out of the queue modules.
* `Workspace` takes `Requests` for the requests ever made, each once. `overtaken` is
  set whichever way the request that looked for users goes on, also when it keeps the
  header, so `SecretHeld` excuses a little more than the race.
* `CiJob` leaves out a job with both `--push` and `--baseline`, which the action never
  passes, and that the search for the comment stops after 2,000
  (`action/post_comment.py:45`).
* `RunStream` has one fetch of each kind under way, where two polls of the page's
  `setInterval` may overlap.
* In `Attempt` the await on a delivery always ends; in the code it has no timeout of its
  own, and a delivery ends as its database call does.

## 6. Not modelled, and what is next

Not modelled: waking sleeping hosts (bounded waits; what the browser remembers of
them only words a banner), the web application's rendering, demo agents and
measurement scripts. Of the API shell only a request's path is (not configuration,
logging and start-up), of suite files only what sets the budget of false alarms. They compute data from data or move it. The parts of modelled components
that are left out are in the notes of `PROJECT.json`.

Next, in order:

1. The origin check and cookie scopes with `Session`; several models on one
   `LlmClient`.
2. An abstract specification of a CI check that `CiJob` with `Workspace` implements.
