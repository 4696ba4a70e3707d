----------------------------- MODULE RunLifecycle -----------------------------
(***************************************************************************)
(* What AgentProbe promises of one server-side run, whichever queue        *)
(* backend executes it: the rows of `runs`, `run_results` and              *)
(* `run_case_summaries` that belong to the run, and how a step may change  *)
(* them.  Both are shown to implement it: the Redis backend (RedisRun) as  *)
(* Spec, the inline backend (InlineRun) as InMemorySpec.                   *)
(*                                                                         *)
(* A run is over once its status is terminal.  From then on its results    *)
(* are frozen, its status never changes, and whatever summary it has is a  *)
(* summary of exactly the results it has.  Only a run all of whose         *)
(* attempts are saved may complete.                                        *)
(***************************************************************************)
CONSTANTS Attempts      \* every (case, attempt) pair the run's plan asks for

VARIABLES status,       \* runs.status; "gone" once the row is deleted
          saved,        \* the attempts with a run_results row
          summary       \* the attempts the saved summary covers, or NoSummary

vars == <<status, saved, summary>>
-----------------------------------------------------------------------------
Live     == {"queued", "running"}
Terminal == {"completed", "failed", "cancelled"}

NoSummary == {"no summary"}

Init ==
    /\ status = "queued"
    /\ saved = {}
    /\ summary = NoSummary

\* A worker takes the run; taking it again (a resume) changes nothing here.
Claim ==
    /\ status \in Live
    /\ status' = "running"
    /\ UNCHANGED <<saved, summary>>

\* One more attempt is saved, only while the run is running.
Save(a) ==
    /\ status = "running"
    /\ a \notin saved
    /\ saved' = saved \cup {a}
    /\ UNCHANGED <<status, summary>>

\* The run completes, in the same step as its summary appears.
Complete ==
    /\ status \in Live
    /\ saved = Attempts
    /\ status' = "completed"
    /\ summary' = saved
    /\ UNCHANGED saved

\* The run fails or is cancelled; it has no summary yet.
Stop ==
    /\ status \in Live
    /\ status' \in {"failed", "cancelled"}
    /\ UNCHANGED <<saved, summary>>

\* A run that is over is summarized over what was saved (again, if need be).
Summarize ==
    /\ status \in Terminal
    /\ summary' = saved
    /\ UNCHANGED <<status, saved>>

\* A backend that summarizes what it has in memory may count, of a cancelled
\* run, attempts that returned too late to be saved; never one less than saved.
SummarizeInMemory ==
    /\ status = "cancelled"
    /\ \E late \in SUBSET (Attempts \ saved) : summary' = saved \cup late
    /\ UNCHANGED <<status, saved>>

\* The run's rows are deleted, with the agent it tested.
Delete ==
    /\ status' = "gone"
    /\ saved' = {}
    /\ summary' = NoSummary

Next ==
    \/ Claim
    \/ \E a \in Attempts : Save(a)
    \/ Complete
    \/ Stop
    \/ Summarize
    \/ Delete

Spec == Init /\ [][Next]_vars

InMemoryNext == Next \/ SummarizeInMemory

InMemorySpec == Init /\ [][InMemoryNext]_vars
=============================================================================
