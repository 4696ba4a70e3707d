------------------------------- MODULE RedisRun -------------------------------
(***************************************************************************)
(* One run on the Redis queue backend: the three jobs of                   *)
(* apps/api/src/agentprobe_api/worker.py, the shared policy of queue.py,   *)
(* the transactions of runstore.py, and the two API handlers that start    *)
(* and cancel a run (runs.py).                                             *)
(*                                                                         *)
(* Workers take job messages off a Redis stream.  Every handler is split   *)
(* where it awaits the database, the broker or the agent, so any two jobs  *)
(* interleave there, and a job may be abandoned there: its process dies    *)
(* (the message is delivered again), it raises (Taskiq retries it a few    *)
(* times, then gives it up), or it takes so long that the broker hands the *)
(* same message to a second worker.  A database transaction is one step.   *)
(*                                                                         *)
(* Progress events are not part of this module: publishing one changes no  *)
(* row, and a publish that raises is a job that raises.                    *)
(***************************************************************************)
EXTENDS Integers, FiniteSets

CONSTANTS
    Attempts,       \* every (case, attempt) pair of the run's plan
    Workers,        \* the executors of jobs: worker processes x their slots
    Misconfigured,  \* the workers whose environment cannot build the agent
                    \* adapter or the LLM client (plan.adapter, plan.llm)
    MaxRetries,     \* how often Taskiq retries a job that raised
    MaxFaults       \* bound: faults of the environment in one behaviour

ASSUME Parameters ==
    /\ IsFiniteSet(Attempts)
    /\ Attempts # {}
    /\ Attempts \cap {"start", "finalize"} = {}
    /\ Misconfigured \subseteq Workers
    /\ MaxRetries \in Nat
    /\ MaxFaults \in Nat
-----------------------------------------------------------------------------
Live     == {"queued", "running"}
Terminal == {"completed", "failed", "cancelled"}
Statuses == Live \cup Terminal \cup {"gone"}   \* "gone": the row was deleted

NoSummary == {"no summary"}

\* A run_attempt job is named by its attempt; the other two have one instance.
Jobs     == Attempts \cup {"start", "finalize"}
Messages == [job : Jobs, tries : 0 .. MaxRetries]

NotSaved == "none"
Results  == {"ok", "infra"}    \* "infra": an error kind in INFRA_ERRORS

Points ==
    {"idle", "claim", "load_start", "read_saved", "kick_attempts",
     "load_plan", "check_saved", "call", "save", "fail", "kick_finalize",
     "load_final", "read_results", "save_summary", "cluster",
     "cluster_commit"}

VARIABLES
    \* the database
    status,     \* runs.status
    saved,      \* run_results: the outcome saved for each attempt
    done,       \* runs.attempts_done
    summary,    \* run_case_summaries and the run's totals: attempts covered
    secret,     \* the snapshot's secret still exists and can be decrypted
    findings,   \* the sets of findings rows, named by the worker that wrote them
    \* the broker
    stream,     \* how many copies of each message wait for a worker
    \* the workers
    pc,         \* where each worker is in its handler
    msg,        \* the message it executes
    rows,       \* the attempts it read (or must still kick)
    doomed,     \* the findings its open transaction deletes
    result,     \* the attempt result it holds
    \* the API process
    starter,    \* the start_run handler, between commit and enqueue
    canceller,  \* the cancel_run handler, between commit and queue.cancel
    \* the environment
    faults      \* faults so far

db      == <<status, saved, done, summary, secret, findings>>
workers == <<pc, msg, rows, doomed, result>>
api     == <<starter, canceller>>
vars    == <<db, stream, workers, api, faults>>

SavedRows == {a \in Attempts : saved[a] # NotSaved}

TypeOK ==
    /\ status \in Statuses
    /\ saved \in [Attempts -> Results \cup {NotSaved}]
    /\ done \in Nat
    /\ summary \in (SUBSET Attempts) \cup {NoSummary}
    /\ secret \in BOOLEAN
    /\ findings \in SUBSET Workers
    /\ stream \in [Messages -> Nat]
    /\ pc \in [Workers -> Points]
    /\ msg \in [Workers -> Messages]
    /\ rows \in [Workers -> SUBSET Attempts]
    /\ doomed \in [Workers -> SUBSET Workers]
    /\ result \in [Workers -> Results]
    /\ starter \in {"enqueue", "done"}
    /\ canceller \in {"none", "kick", "done"}
    /\ faults \in 0 .. MaxFaults

\* runs.py's start_run has committed the queued run and not enqueued it yet.
\* The secret may be gone already: the handler read the agent before the
\* update that replaced its auth header, which saw no run using the old one.
Init ==
    /\ status = "queued"
    /\ saved = [a \in Attempts |-> NotSaved]
    /\ done = 0
    /\ summary = NoSummary
    /\ secret \in BOOLEAN
    /\ findings = {}
    /\ stream = [m \in Messages |-> 0]
    /\ pc = [w \in Workers |-> "idle"]
    /\ msg = [w \in Workers |-> [job |-> "start", tries |-> 0]]
    /\ rows = [w \in Workers |-> {}]
    /\ doomed = [w \in Workers |-> {}]
    /\ result = [w \in Workers |-> "ok"]
    /\ starter = "enqueue"
    /\ canceller = "none"
    /\ faults = 0
-----------------------------------------------------------------------------
(* Helpers of the handlers *)

Goto(w, point) == pc' = [pc EXCEPT ![w] = point]
At(w, point)   == pc[w] = point

\* task.kiq(...): a fresh message at the end of the stream.
Kick(job) ==
    stream' = [stream EXCEPT ![[job |-> job, tries |-> 0]] = @ + 1]

\* A handler that raises: the retry middleware kicks the message again, until
\* its retries are used up; either way this delivery is acknowledged.
Raise(w) ==
    /\ Goto(w, "idle")
    /\ IF msg[w].tries < MaxRetries
       THEN stream' = [stream EXCEPT
                ![[job |-> msg[w].job, tries |-> msg[w].tries + 1]] = @ + 1]
       ELSE UNCHANGED stream

\* Where each job's handler begins.
Entry(job) ==
    IF job = "start" THEN "claim"
    ELSE IF job = "finalize" THEN "load_final"
    ELSE "load_plan"

Waiting(m) == stream[m] > 0

Take(w, m) ==
    /\ At(w, "idle")
    /\ Waiting(m)
    /\ stream' = [stream EXCEPT ![m] = @ - 1]
    /\ msg' = [msg EXCEPT ![w] = m]
    /\ Goto(w, Entry(m.job))
    /\ UNCHANGED <<db, rows, doomed, result, api, faults>>
-----------------------------------------------------------------------------
(* start_run *)

\* runstore.claim: queued or running becomes running; a run that is over, or
\* gone, is left alone.
Claim(w) ==
    /\ At(w, "claim")
    /\ IF status \in Live
       THEN status' = "running" /\ Goto(w, "load_start")
       ELSE UNCHANGED status /\ Goto(w, "idle")
    /\ UNCHANGED <<saved, done, summary, secret, findings, stream, msg, rows,
                   doomed, result, api, faults>>

\* load_plan, plan.llm, plan.adapter: an Unrecoverable fails the run now.
LoadStart(w) ==
    /\ At(w, "load_start")
    /\ Goto(w, IF status = "gone" THEN "idle"
               ELSE IF secret /\ w \notin Misconfigured THEN "read_saved"
               ELSE "fail")
    /\ UNCHANGED <<db, stream, msg, rows, doomed, result, api, faults>>

\* load_attempts: one job per attempt of the plan not saved yet, or finalize.
ReadSaved(w) ==
    /\ At(w, "read_saved")
    /\ rows' = [rows EXCEPT ![w] = Attempts \ SavedRows]
    /\ Goto(w, IF SavedRows = Attempts THEN "kick_finalize"
               ELSE "kick_attempts")
    /\ UNCHANGED <<db, stream, msg, doomed, result, api, faults>>

KickAttempt(w) ==
    /\ At(w, "kick_attempts")
    /\ \E a \in rows[w] :
        /\ Kick(a)
        /\ rows' = [rows EXCEPT ![w] = @ \ {a}]
        /\ Goto(w, IF rows[w] = {a} THEN "idle" ELSE "kick_attempts")
    /\ UNCHANGED <<db, msg, doomed, result, api, faults>>
-----------------------------------------------------------------------------
(* run_attempt *)

\* load_plan raises before the status is looked at.
LoadPlan(w) ==
    /\ At(w, "load_plan")
    /\ Goto(w, IF status # "gone" /\ ~secret THEN "fail"
               ELSE IF status = "running" THEN "check_saved"
               ELSE "idle")
    /\ UNCHANGED <<db, stream, msg, rows, doomed, result, api, faults>>

\* A redelivered job whose attempt is saved ends here, and kicks nothing.
CheckSaved(w) ==
    /\ At(w, "check_saved")
    /\ Goto(w, IF saved[msg[w].job] # NotSaved THEN "idle"
               ELSE IF w \in Misconfigured THEN "fail"
               ELSE "call")
    /\ UNCHANGED <<db, stream, msg, rows, doomed, result, api, faults>>

\* execute_with_retries: the agent is called and its answer judged.
CallAgent(w) ==
    /\ At(w, "call")
    /\ \E r \in Results : result' = [result EXCEPT ![w] = r]
    /\ Goto(w, "save")
    /\ UNCHANGED <<db, stream, msg, rows, doomed, api, faults>>

\* The conflict check of the insert, and the status check of the update.
CanSave_Late(a)  == saved[a] = NotSaved
CanSave(a)       == saved[a] = NotSaved /\ status = "running"

\* The insert comes first; a run that is over then undoes it.
RolledBack(a, r)     == saved

\* The attempt that brings attempts_done to n was the last one.
Complete(n)       == n >= Cardinality(Attempts)

\* runstore.save_attempt in one transaction, and record_attempt's verdict on
\* it: dropped, saved, complete, or (an infrastructure error) failed.
SaveAttempt(w) ==
    LET a == msg[w].job IN
    /\ At(w, "save")
    /\ \/ \* the run is gone: the insert violates its foreign key
          /\ status = "gone"
          /\ Raise(w)
          /\ UNCHANGED <<saved, done>>
       \/ \* already saved, or the run is over: keep nothing
          /\ status # "gone"
          /\ ~CanSave(a)
          /\ saved' = RolledBack(a, result[w])
          /\ Goto(w, "idle")
          /\ UNCHANGED <<done, stream>>
       \/ /\ status # "gone"
          /\ CanSave(a)
          /\ saved' = [saved EXCEPT ![a] = result[w]]
          /\ done' = done + 1
          /\ Goto(w, IF result[w] = "infra" THEN "fail"
                     ELSE IF Complete(done + 1) THEN "kick_finalize"
                     ELSE "idle")
          /\ UNCHANGED stream
    /\ result' = [result EXCEPT ![w] = "ok"]    \* the local is dead now
    /\ UNCHANGED <<status, summary, secret, findings, msg, rows, doomed,
                   api, faults>>

\* runstore.finish: only a queued or running run fails.
Failed(s)            == IF s \in Live THEN "failed" ELSE s

\* After fail_run, run_attempt kicks finalize; start_run and finalize return.
AfterFail_Always(job) == "kick_finalize"
AfterFail(job)        == IF job \in Attempts THEN "kick_finalize" ELSE "idle"

FailRun(w) ==
    /\ At(w, "fail")
    /\ status' = Failed(status)
    /\ Goto(w, AfterFail(msg[w].job))
    /\ UNCHANGED <<saved, done, summary, secret, findings, stream, msg, rows,
                   doomed, result, api, faults>>

KickFinalize(w) ==
    /\ At(w, "kick_finalize")
    /\ Kick("finalize")
    /\ Goto(w, "idle")
    /\ UNCHANGED <<db, msg, rows, doomed, result, api, faults>>
-----------------------------------------------------------------------------
(* finalize *)

LoadFinal(w) ==
    /\ At(w, "load_final")
    /\ Goto(w, IF status = "gone" THEN "idle"
               ELSE IF secret THEN "read_results" ELSE "fail")
    /\ UNCHANGED <<db, stream, msg, rows, doomed, result, api, faults>>

ReadResults(w) ==
    /\ At(w, "read_results")
    /\ rows' = [rows EXCEPT ![w] = SavedRows]
    /\ Goto(w, "save_summary")
    /\ UNCHANGED <<db, stream, msg, doomed, result, api, faults>>

\* save_summary completes a live run and leaves any other status alone.
Completed_Always(s) == "completed"
Completed(s)        == IF s \in Live THEN "completed" ELSE s

\* runstore.save_summary in one transaction: the summary of the attempts that
\* were read, and a live run completes.
SaveSummary(w) ==
    /\ At(w, "save_summary")
    /\ \/ \* gone: summaries violate their foreign key; none, no row matches
          /\ status = "gone"
          /\ IF rows[w] # {} THEN Raise(w) ELSE Goto(w, "idle") /\ UNCHANGED stream
          /\ UNCHANGED <<status, summary>>
       \/ /\ status # "gone"
          /\ summary' = rows[w]
          /\ status' = Completed(status)
          /\ Goto(w, IF status' = "completed" THEN "cluster" ELSE "idle")
          /\ UNCHANGED stream
    /\ rows' = [rows EXCEPT ![w] = {}]          \* the local is dead now
    /\ UNCHANGED <<saved, done, secret, findings, msg, doomed, result,
                   api, faults>>

\* cluster_run: its transaction deletes the findings it can see.  A clustering
\* failure is logged and nothing is written.
Cluster(w) ==
    /\ At(w, "cluster")
    /\ \/ /\ doomed' = [doomed EXCEPT ![w] = findings]
          /\ Goto(w, "cluster_commit")
       \/ UNCHANGED doomed /\ Goto(w, "idle")
    /\ UNCHANGED <<db, stream, msg, rows, result, api, faults>>

\* The new findings and the delete are committed (not if the run is gone).
ClusterCommit(w) ==
    /\ At(w, "cluster_commit")
    /\ findings' = IF status = "gone" THEN findings
                   ELSE (findings \ doomed[w]) \cup {w}
    /\ doomed' = [doomed EXCEPT ![w] = {}]      \* the local is dead now
    /\ Goto(w, "idle")
    /\ UNCHANGED <<status, saved, done, summary, secret, stream, msg, rows,
                   result, api, faults>>
-----------------------------------------------------------------------------
(* The API *)

\* start_run's last step.
Enqueue ==
    /\ starter = "enqueue"
    /\ Kick("start")
    /\ starter' = "done"
    /\ UNCHANGED <<db, workers, canceller, faults>>

\* cancel_run: the conditional update commits, then finalize is kicked.
Cancel ==
    /\ canceller = "none"
    /\ status \in Live
    /\ status' = "cancelled"
    /\ canceller' = "kick"
    /\ UNCHANGED <<saved, done, summary, secret, findings, stream, workers,
                   starter, faults>>

KickCancelled ==
    /\ canceller = "kick"
    /\ Kick("finalize")
    /\ canceller' = "done"
    /\ UNCHANGED <<db, workers, starter, faults>>

\* agents.py's _drop_secret, which keeps the secret of a live run.
DropSecret ==
    /\ secret
    /\ status \notin Live
    /\ secret' = FALSE
    /\ UNCHANGED <<status, saved, done, summary, findings, stream, workers,
                   api, faults>>

\* delete_agent: the run and everything that hangs on it are deleted, and the
\* secret too, unless the agent has another one by now.
DeleteRun ==
    /\ status # "gone"
    /\ secret' \in {secret, FALSE}
    /\ status' = "gone"
    /\ saved' = [a \in Attempts |-> NotSaved]
    /\ done' = 0
    /\ summary' = NoSummary
    /\ findings' = {}
    /\ UNCHANGED <<stream, workers, api, faults>>
-----------------------------------------------------------------------------
(* The environment *)

Fault == faults < MaxFaults /\ faults' = faults + 1

Requeue(w) ==
    stream' = [stream EXCEPT ![msg[w]] = @ + 1]

\* A worker process dies: its unacknowledged message is delivered again.
Crash(w) ==
    /\ Fault
    /\ ~At(w, "idle")
    /\ Requeue(w)
    /\ Goto(w, "idle")
    /\ UNCHANGED <<db, msg, rows, doomed, result, api>>

\* The broker or the database refuses a call and the handler raises.
JobFails(w) ==
    /\ Fault
    /\ ~At(w, "idle")
    /\ Raise(w)
    /\ UNCHANGED <<db, msg, rows, doomed, result, api>>

\* A job outlives the idle timeout: its message is delivered a second time.
Redeliver(w) ==
    /\ Fault
    /\ ~At(w, "idle")
    /\ Requeue(w)
    /\ UNCHANGED <<db, workers, api>>

\* The API process dies between a handler's commit and its message.
ApiCrash ==
    /\ Fault
    /\ \/ starter = "enqueue" /\ starter' = "done" /\ UNCHANGED canceller
       \/ canceller = "kick" /\ canceller' = "done" /\ UNCHANGED starter
    /\ UNCHANGED <<db, stream, workers>>

\* runstore.stale_runs takes up queued and running runs alike.
Stale_QueuedOnly == status = "queued"
Stale            == status \in Live

\* RedisQueue.recover in a process that starts while the run is only slow.
EarlySweep ==
    /\ Fault
    /\ Stale
    /\ Kick("start")
    /\ UNCHANGED <<db, workers, api>>

\* RedisQueue.recover once nothing works on a live run any more.
Quiet ==
    /\ \A m \in Messages : stream[m] = 0
    /\ \A w \in Workers : At(w, "idle")
    /\ starter = "done"
    /\ canceller # "kick"

Sweep ==
    /\ Quiet
    /\ Stale
    /\ Kick("start")
    /\ UNCHANGED <<db, workers, api, faults>>
-----------------------------------------------------------------------------
Step(w) ==
    \/ \E m \in Messages : Take(w, m)
    \/ Claim(w) \/ LoadStart(w) \/ ReadSaved(w) \/ KickAttempt(w)
    \/ LoadPlan(w) \/ CheckSaved(w) \/ CallAgent(w) \/ SaveAttempt(w)
    \/ FailRun(w) \/ KickFinalize(w)
    \/ LoadFinal(w) \/ ReadResults(w) \/ SaveSummary(w)
    \/ Cluster(w) \/ ClusterCommit(w)

Api == Enqueue \/ Cancel \/ KickCancelled \/ DropSecret \/ DeleteRun

Environment ==
    \/ \E w \in Workers : Crash(w) \/ JobFails(w) \/ Redeliver(w)
    \/ ApiCrash
    \/ EarlySweep
    \/ Sweep

Next == (\E w \in Workers : Step(w)) \/ Api \/ Environment

Spec == Init /\ [][Next]_vars

\* The worker pool keeps working, a handler that began goes on, and once a
\* live run has gone quiet a worker or API process is eventually started.
FairSpec ==
    /\ Spec
    /\ \A w \in Workers : WF_vars(Step(w))
    /\ WF_vars(Enqueue)
    /\ WF_vars(KickCancelled)
    /\ WF_vars(Sweep)
-----------------------------------------------------------------------------
(* Properties *)

\* runs.attempts_done equals the number of saved attempts: redelivered jobs,
\* second start jobs and dropped results never make the counter drift, so the
\* test done >= total of record_attempt means what it says.
DoneCountsSaved == done = Cardinality(SavedRows)

\* A completed run has a saved result for every attempt of its plan and a
\* summary over all of them, whatever finalize job completed it and when.
CompletedIsWhole ==
    status = "completed" => SavedRows = Attempts /\ summary = Attempts

\* A summary is only ever written over the final set of results: whenever
\* there is one, the run is over and the summary covers what is saved, even
\* when several finalize jobs read and write at different times.
SummaryMatchesSaved ==
    summary # NoSummary => status \in Terminal /\ summary = SavedRows

\* The rows, the counter, the status and the summary of a run tell one story,
\* in every state that jobs in any number and order may leave them in.
RecordHolds == DoneCountsSaved /\ CompletedIsWhole /\ SummaryMatchesSaved

\* finalize is only on its way (kicked, waiting or executing) for a run whose
\* results are frozen: no later save_attempt can add to what it summarizes.
Frozen == status \notin Live \/ SavedRows = Attempts

FinalizeIsLast ==
    \/ Frozen
    \/ /\ \A m \in Messages : m.job = "finalize" => stream[m] = 0
       /\ \A w \in Workers :
            ~At(w, "idle") => msg[w].job # "finalize" /\ ~At(w, "kick_finalize")
       /\ canceller # "kick"

\* What makes these hold whatever happens next, checked here and
\* proved in RedisRun_proofs: a worker is only at a point of the handler of its
\* job, and the rows finalize has read are still the saved ones.
PointOfJob ==
    \A w \in Workers :
        /\ pc[w] \in {"claim", "load_start", "read_saved", "kick_attempts"}
              => msg[w].job = "start"
        /\ pc[w] \in {"load_plan", "check_saved", "call", "save"}
              => msg[w].job \in Attempts
        /\ pc[w] \in {"load_final", "read_results", "save_summary", "cluster",
                       "cluster_commit"}
              => msg[w].job = "finalize"

ReadIsSaved ==
    \A w \in Workers :
        pc[w] = "save_summary" => status = "gone" \/ rows[w] = SavedRows

IInv ==
    /\ TypeOK
    /\ DoneCountsSaved
    /\ CompletedIsWhole
    /\ SummaryMatchesSaved
    /\ FinalizeIsLast
    /\ PointOfJob
    /\ ReadIsSaved

\* The backend implements what AgentProbe promises of a run.
Lifecycle == INSTANCE RunLifecycle WITH saved <- SavedRows
ImplementsLifecycle == Lifecycle!Spec

\* A run that was started ends, although jobs crash, raise, are delivered
\* twice or are lost between a commit and the message that should follow it.
EveryRunEnds == status \in Live ~> status \notin Live

\* The jobs of a run do not keep each other alive: in the end nothing of the
\* run waits in the stream and no worker is busy with it.
JobsDrain ==
    <>[](/\ \A m \in Messages : stream[m] = 0
         /\ \A w \in Workers : At(w, "idle"))
=============================================================================
