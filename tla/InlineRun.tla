------------------------------ MODULE InlineRun ------------------------------
(***************************************************************************)
(* One run on the inline queue backend: InlineQueue and execute_inline     *)
(* (apps/api/src/agentprobe_api/queue.py) around core's run_suite          *)
(* (packages/core/src/agentprobe_core/runner.py), with the transactions of *)
(* runstore.py and the cancel handler of runs.py.                          *)
(*                                                                         *)
(* Everything runs in the API process, on one event loop: a step is what   *)
(* happens between two awaits.  The process may die at any of them; the    *)
(* next one resumes every live run from the attempts it finds saved.       *)
(* The other runs of the process only delay this one at its slot.          *)
(***************************************************************************)
EXTENDS Integers, FiniteSets

CONSTANTS
    Attempts,       \* every (case, attempt) pair of the run's plan
    Concurrency,    \* RUN_CONCURRENCY: attempts in flight at once
    MaxCrashes,     \* bound: deaths of the process in one behaviour
    MaxErrors       \* bound: database calls that raise, in one behaviour

ASSUME Parameters ==
    /\ IsFiniteSet(Attempts)
    /\ Attempts # {}
    /\ Concurrency \in Nat \ {0}
    /\ MaxCrashes \in Nat
    /\ MaxErrors \in Nat
-----------------------------------------------------------------------------
Live     == {"queued", "running"}
Terminal == {"completed", "failed", "cancelled"}
Statuses == Live \cup Terminal \cup {"gone"}   \* "gone": the row was deleted

NoSummary == {"no summary"}
NotSaved  == "none"
Results   == {"ok", "infra"}    \* "infra": an error kind in INFRA_ERRORS

Points ==
    {"none",            \* no task
     "slot", "claim", "load", "fail", "prepare",
     "crash",           \* in _run's except: fail_run with "internal error"
     "suite",           \* in run_suite, until its workers are done or stopped
     "stopping",        \* in its finally: waiting for unfinished deliveries
     "save_results",    \* completed: save_summary of the results in memory
     "read_saved", "save_saved",    \* cancelled: finalize over saved attempts
     "cluster"}

\* An attempt inside run_suite: in its queue, its agent being called, its
\* result being saved by on_result, failing the run in on_result, or over.
Phases == {"out", "queued", "call", "save", "fail_run", "over"}

VARIABLES
    \* the database
    status, saved, done, summary,
    findings,   \* the run has its findings rows
    \* the process
    buildable,  \* load_plan, plan.llm and plan.adapter succeed in this process
    starter,    \* the start_run handler, between commit and enqueue
    canceller,  \* the cancel_run handler, between commit and queue.cancel
    cancel,     \* the run's entry in InlineQueue._cancels: its event
    pc,         \* where the run's task is
    phase,      \* the attempts inside run_suite
    results,    \* the attempts in run_suite's list of results
    result,     \* what executing an attempt returned
    covered,    \* the attempts the summary about to be saved covers
    aborted,    \* an on_result raised
    \* the environment
    crashes, errors

db      == <<status, saved, done, summary, findings>>
suite   == <<phase, results, result, aborted>>
handler == <<starter, canceller>>
bounds  == <<crashes, errors>>
vars    == <<db, buildable, handler, cancel, pc, suite, covered, bounds>>

SavedRows == {a \in Attempts : saved[a] # NotSaved}
In(p)     == {a \in Attempts : phase[a] = p}
Delivering == In("save") \cup In("fail_run")

TypeOK ==
    /\ status \in Statuses
    /\ saved \in [Attempts -> Results \cup {NotSaved}]
    /\ done \in 0 .. Cardinality(Attempts)
    /\ summary \in (SUBSET Attempts) \cup {NoSummary}
    /\ findings \in BOOLEAN
    /\ buildable \in BOOLEAN
    /\ starter \in {"enqueue", "done"}
    /\ canceller \in {"none", "set", "done"}
    /\ cancel \in {"none", "clear", "set"}
    /\ pc \in Points
    /\ phase \in [Attempts -> Phases]
    /\ Cardinality(In("call") \cup Delivering) \in 0 .. Concurrency
    /\ results \subseteq Attempts
    /\ result \in [Attempts -> Results]
    /\ covered \subseteq Attempts
    /\ aborted \in BOOLEAN
    /\ crashes \in 0 .. MaxCrashes
    /\ errors \in 0 .. MaxErrors

Outside == [a \in Attempts |-> "out"]

\* runs.py's start_run has committed the queued run and not enqueued it yet.
Init ==
    /\ status = "queued"
    /\ saved = [a \in Attempts |-> NotSaved]
    /\ done = 0
    /\ summary = NoSummary
    /\ findings = FALSE
    /\ buildable \in BOOLEAN
    /\ starter = "enqueue"
    /\ canceller = "none"
    /\ cancel = "none"
    /\ pc = "none"
    /\ phase = Outside
    /\ results = {}
    /\ result = [a \in Attempts |-> "ok"]
    /\ covered = {}
    /\ aborted = FALSE
    /\ crashes = 0
    /\ errors = 0
-----------------------------------------------------------------------------
(* InlineQueue *)

\* InlineQueue.enqueue: a task, and a cancel event unless it has one.
Enqueue ==
    /\ starter = "enqueue"
    /\ starter' = "done"
    /\ cancel' = "clear"
    /\ pc' = "slot"
    /\ UNCHANGED <<db, buildable, canceller, suite, covered, bounds>>

\* _run gets one of the INLINE_MAX_RUNS slots.
GetSlot ==
    /\ pc = "slot"
    /\ pc' = "claim"
    /\ UNCHANGED <<db, buildable, handler, cancel, suite, covered, bounds>>

\* The end of _run: the task is over and its cancel event forgotten.
Leave == pc' = "none" /\ cancel' = "none"

\* cancel_run's conditional update commits ...
Cancel ==
    /\ canceller = "none"
    /\ status \in Live
    /\ status' = "cancelled"
    /\ canceller' = "set"
    /\ UNCHANGED <<saved, done, summary, findings, buildable, starter, cancel,
                   pc, suite, covered, bounds>>

\* ... and after it has read the run back, the event is set, if there is one.
SetCancel ==
    /\ canceller = "set"
    /\ canceller' = "done"
    /\ \/ /\ cancel' = IF cancel = "none" THEN "none" ELSE "set"
          /\ UNCHANGED errors
       \/ \* reading the run back raises: the event is never set
          /\ errors < MaxErrors
          /\ errors' = errors + 1
          /\ UNCHANGED cancel
    /\ UNCHANGED <<db, buildable, starter, pc, suite, covered, crashes>>
-----------------------------------------------------------------------------
(* execute_inline, up to run_suite *)

Claim ==
    /\ pc = "claim"
    /\ \/ /\ status \in Live
          /\ status' = "running"
          /\ pc' = "load"
          /\ UNCHANGED cancel
       \/ \* cancelled while it waited for its slot, or gone
          /\ status \notin Live
          /\ Leave
          /\ UNCHANGED status
    /\ UNCHANGED <<saved, done, summary, findings, buildable, handler, suite,
                   covered, bounds>>

Load ==
    /\ pc = "load"
    /\ \/ status = "gone" /\ Leave
       \/ status # "gone" /\ buildable /\ pc' = "prepare" /\ UNCHANGED cancel
       \/ status # "gone" /\ ~buildable /\ pc' = "fail" /\ UNCHANGED cancel
    /\ UNCHANGED <<db, buildable, handler, suite, covered, bounds>>

\* runstore.finish: only a queued or running run fails.
Failed(s)            == IF s \in Live THEN "failed" ELSE s

\* fail_run, of an Unrecoverable or of _run's "internal error".
FailRun ==
    /\ pc \in {"fail", "crash"}
    /\ status' = Failed(status)
    /\ Leave
    /\ UNCHANGED <<saved, done, summary, findings, buildable, handler, suite,
                   covered, bounds>>

\* A database call of execute_inline raises, into _run.  If fail_run raises
\* there too, the task is over and the run is as live as before.
TaskRaises ==
    /\ pc \in {"claim", "load", "fail", "prepare", "save_results",
               "read_saved", "save_saved", "crash"}
    /\ errors < MaxErrors
    /\ errors' = errors + 1
    /\ IF pc = "crash" THEN Leave ELSE pc' = "crash" /\ UNCHANGED cancel
    /\ UNCHANGED <<db, buildable, handler, suite, covered, crashes>>

\* What run_suite resumes with: the results it is given, the rest queued.
ToRun(completed)     == Attempts \ completed

Prepare ==
    /\ pc = "prepare"
    /\ pc' = "suite"
    /\ results' = SavedRows
    /\ phase' = [a \in Attempts |->
                    IF a \in ToRun(SavedRows) THEN "queued" ELSE "over"]
    /\ aborted' = FALSE
    /\ UNCHANGED <<db, buildable, handler, cancel, result, covered, bounds>>
-----------------------------------------------------------------------------
(* run_suite: its workers *)

Move(a, p) == phase' = [phase EXCEPT ![a] = p]

\* A worker delivering a result is as busy as one calling the agent.
FreeWorker == Cardinality(In("call") \cup Delivering) < Concurrency

\* A worker without an attempt takes the next one and calls the agent.
StartAttempt(a) ==
    /\ pc = "suite"
    /\ ~aborted
    /\ phase[a] = "queued"
    /\ FreeWorker
    /\ Move(a, "call")
    /\ UNCHANGED <<db, buildable, handler, cancel, pc, results, result,
                   aborted, covered, bounds>>

\* execute_with_retries returned: the result is listed, its delivery begins.
AttemptReturns(a) ==
    /\ pc = "suite"
    /\ ~aborted
    /\ phase[a] = "call"
    /\ \E r \in Results : result' = [result EXCEPT ![a] = r]
    /\ results' = results \cup {a}
    /\ Move(a, "save")
    /\ UNCHANGED <<db, buildable, handler, cancel, pc, aborted, covered,
                   bounds>>

\* The conflict check of the insert, and the status check of the update.
CanSave_Late(a)  == saved[a] = NotSaved
CanSave(a)       == saved[a] = NotSaved /\ status = "running"

\* on_result: save_attempt's transaction, in a delivery cancelling cannot
\* interrupt.  A dropped or ordinary result is all; an infrastructure error
\* goes on to fail the run.
SaveAttempt(a) ==
    /\ phase[a] = "save"
    /\ status # "gone"
    /\ \/ /\ CanSave(a)
          /\ saved' = [saved EXCEPT ![a] = result[a]]
          /\ done' = done + 1
          /\ Move(a, IF result[a] = "infra" THEN "fail_run" ELSE "over")
       \/ /\ ~CanSave(a)
          /\ Move(a, "over")
          /\ UNCHANGED <<saved, done>>
    /\ UNCHANGED <<status, summary, findings, buildable, handler, cancel, pc,
                   results, result, aborted, covered, bounds>>

\* The save raises, as the run's rows are gone, or a database call of the
\* delivery fails.  on_result raises with it, and one failed worker makes the
\* task group stop the others.
DeliveryRaises(a) ==
    /\ a \in Delivering
    /\ \/ phase[a] = "save" /\ status = "gone" /\ UNCHANGED errors
       \/ errors < MaxErrors /\ errors' = errors + 1
    /\ Move(a, "over")
    /\ aborted' = TRUE
    /\ UNCHANGED <<db, buildable, handler, cancel, pc, results, result,
                   covered, crashes>>

\* record_attempt fails the run; on_result then sets the run's cancel event,
\* which matters as long as the task is there.
FailFromAttempt(a) ==
    /\ phase[a] = "fail_run"
    /\ status' = Failed(status)
    /\ cancel' = IF cancel = "none" THEN "none" ELSE "set"
    /\ Move(a, "over")
    /\ UNCHANGED <<saved, done, summary, findings, buildable, handler, pc,
                   results, result, aborted, covered, bounds>>
-----------------------------------------------------------------------------
(* run_suite: its end *)

\* Every worker is done before anything stopped them: status "completed".
SuiteCompletes ==
    /\ pc = "suite"
    /\ cancel # "set"
    /\ ~aborted
    /\ \A a \in Attempts : phase[a] = "over"
    /\ covered' = results
    /\ pc' = "save_results"
    /\ UNCHANGED <<db, buildable, handler, cancel, suite, bounds>>

\* What ends the wait before every worker is done.
Stopped_CancelOnly == cancel = "set"
Stopped            == cancel = "set" \/ aborted

\* The event, or a failed worker: calls in flight are interrupted and queued
\* attempts dropped; deliveries are not.
SuiteStops ==
    /\ pc = "suite"
    /\ Stopped
    /\ phase' = [a \in Attempts |->
                    IF a \in Delivering THEN phase[a] ELSE "over"]
    /\ pc' = "stopping"
    /\ UNCHANGED <<db, buildable, handler, cancel, results, result, aborted,
                   covered, bounds>>

\* The event is set while a failed worker makes the task group stop the others:
\* the group's exception escapes from the finally before it has waited for the
\* deliveries, which go on by themselves.
SuiteBreaks ==
    /\ pc = "suite"
    /\ cancel = "set" /\ aborted
    /\ phase' = [a \in Attempts |->
                    IF a \in Delivering THEN phase[a] ELSE "over"]
    /\ pc' = "crash"
    /\ UNCHANGED <<db, buildable, handler, cancel, results, result, aborted,
                   covered, bounds>>

\* The finally waits for the deliveries; an on_result that raised is raised
\* again, into _run; otherwise the summary's status is "cancelled".
Delivered_Early == TRUE
Delivered       == Delivering = {}

SuiteStopped ==
    /\ pc = "stopping"
    /\ Delivered
    /\ pc' = IF aborted THEN "crash" ELSE "read_saved"
    /\ UNCHANGED <<db, buildable, handler, cancel, suite, covered, bounds>>

\* finalize: load_attempts, not the results run_suite has in memory.
ReadSaved ==
    /\ pc = "read_saved"
    /\ covered' = SavedRows
    /\ pc' = "save_saved"
    /\ UNCHANGED <<db, buildable, handler, cancel, suite, bounds>>

\* save_summary completes a live run and leaves any other status alone.
Completed(s) == IF s \in Live THEN "completed" ELSE s

\* save_summary in one transaction, then clustering if the run is completed.
SaveSummary ==
    /\ pc \in {"save_results", "save_saved"}
    /\ \/ /\ status = "gone"
          /\ IF covered # {} THEN pc' = "crash" /\ UNCHANGED cancel ELSE Leave
          /\ UNCHANGED <<status, summary>>
       \/ /\ status # "gone"
          /\ summary' = covered
          /\ status' = Completed(status)
          /\ IF status' = "completed" THEN pc' = "cluster" /\ UNCHANGED cancel
             ELSE Leave
    /\ UNCHANGED <<saved, done, findings, buildable, handler, suite, covered,
                   bounds>>

\* cluster_findings: logged and forgotten if it fails, or if the run is gone.
Cluster ==
    /\ pc = "cluster"
    /\ findings' \in {findings, status # "gone"}
    /\ Leave
    /\ UNCHANGED <<status, saved, done, summary, buildable, handler, suite,
                   covered, bounds>>
-----------------------------------------------------------------------------
(* The rest of the system *)

\* delete_agent: the run and everything that hangs on it are deleted.
DeleteRun ==
    /\ status # "gone"
    /\ status' = "gone"
    /\ saved' = [a \in Attempts |-> NotSaved]
    /\ done' = 0
    /\ summary' = NoSummary
    /\ findings' = FALSE
    /\ UNCHANGED <<buildable, handler, cancel, pc, suite, covered, bounds>>

\* InlineQueue.recover takes up queued and running runs alike.
Stale            == status \in Live

\* The process dies, handlers, tasks and events with it, and the next one
\* starts: recover enqueues the run if it is live.  Its environment (keys,
\* LLM provider, target policy) may differ.
CrashAndRestart ==
    /\ crashes < MaxCrashes
    /\ crashes' = crashes + 1
    /\ starter' = "done"
    /\ canceller' = IF canceller = "set" THEN "done" ELSE canceller
    /\ buildable' \in BOOLEAN
    /\ IF Stale THEN pc' = "slot" /\ cancel' = "clear" ELSE Leave
    /\ phase' = Outside
    /\ results' = {}
    /\ result' = [a \in Attempts |-> "ok"]
    /\ covered' = {}
    /\ aborted' = FALSE
    /\ UNCHANGED <<db, errors>>
-----------------------------------------------------------------------------
Task ==
    \/ GetSlot \/ Claim \/ Load \/ FailRun \/ TaskRaises \/ Prepare
    \/ SuiteCompletes \/ SuiteStops \/ SuiteBreaks \/ SuiteStopped
    \/ ReadSaved \/ SaveSummary \/ Cluster

Worker(a) ==
    \/ StartAttempt(a) \/ AttemptReturns(a)
    \/ SaveAttempt(a) \/ DeliveryRaises(a) \/ FailFromAttempt(a)

Next ==
    \/ Task
    \/ \E a \in Attempts : Worker(a)
    \/ Enqueue \/ Cancel \/ SetCancel
    \/ DeleteRun
    \/ CrashAndRestart

Spec == Init /\ [][Next]_vars

\* The event loop runs every ready task, the agent call ends (it has a
\* timeout), and a run waiting for a slot gets one, since runs end.
FairSpec ==
    /\ Spec
    /\ WF_vars(Task)
    /\ \A a \in Attempts : WF_vars(Worker(a))
    /\ WF_vars(Enqueue)
    /\ WF_vars(SetCancel)
-----------------------------------------------------------------------------
(* Properties *)

\* A completed run has a result for every attempt and a summary over all of
\* them, although what completes it is a summary built in memory.
CompletedIsWhole ==
    status = "completed" => SavedRows = Attempts /\ summary = Attempts

\* Unless the user cancelled it, the summary covers exactly what is saved.
SummaryMatchesUnlessCancelled ==
    summary # NoSummary /\ status # "cancelled" => summary = SavedRows

\* The first infrastructure error fails the run: without a restart between
\* the error and the verdict, a run with one never completes.
InfraErrorFailsRun ==
    status = "completed" /\ crashes = 0
        => \A a \in Attempts : saved[a] # "infra"

\* What a run is said to be, and what its summary covers, it has earned.
VerdictHolds ==
    /\ TypeOK
    /\ CompletedIsWhole
    /\ SummaryMatchesUnlessCancelled
    /\ InfraErrorFailsRun

\* run_suite returns only when no delivery is under way: what is summarized
\* is not still being written.  (When it raises, one may still be.)
NothingInFlight ==
    pc \in {"save_results", "read_saved", "save_saved", "cluster"}
        => In("call") \cup Delivering = {}

\* A resumed run never calls the agent for an attempt it has saved.
SavedNotCalledAgain == \A a \in In("call") : saved[a] = NotSaved

\* No call and no save of the run is out of its control: none goes on behind
\* the summary, and none is repeated by a restart.
CallsHold == NothingInFlight /\ SavedNotCalledAgain

\* What the run's row says, and what its calls and saves do, at every moment.
RunHolds == VerdictHolds /\ CallsHold

\* queue.py: the two backends share one run policy.  Every step of the inline
\* backend is a step that RunLifecycle allows a run, or none: no await, restart
\* or error takes a run where Redis could not have, but for what the summary of
\* a cancelled run may count.
Lifecycle == INSTANCE RunLifecycle WITH saved <- SavedRows
ImplementsLifecycle == Lifecycle!InMemorySpec

\* Every run ends, even if it is cancelled, resumed or its results are refused
\* under way.  Two errors in a row, in the task and again in the fail_run that
\* should report it, leave it live: then only a restart takes it up.
EveryRunEnds == status \in Live ~> status \notin Live \/ errors >= 2

\* The task that executes a run ends and frees its slot, whatever happens to
\* the run's rows and to its cancel event meanwhile.
TaskEnds == pc # "none" ~> pc = "none"

RunAndTaskEnd == EveryRunEnds /\ TaskEnds
=============================================================================
