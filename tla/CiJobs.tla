------------------------------- MODULE CiJobs -------------------------------
(***************************************************************************)
(* The CI jobs of one pull request as they can be seen at any moment: what *)
(* each job and its push are doing, what the server has committed, and the *)
(* pull request's comments; and what is promised of them.  How they change *)
(* is CiJob.                                                               *)
(***************************************************************************)
EXTENDS Naturals, Sequences

CONSTANTS
    Jobs,
    Pushing,    \* the jobs that run with --push
    None

ASSUME CiJobAssumption == Pushing \subseteq Jobs /\ None \notin Jobs \cup {"good", "bad"}

VARIABLES
    job,         \* each job: where it is, its run, its exit code
    request,     \* each job's POST /ci/report
    runs,        \* committed runs
    baselines,   \* how good the branch's baseline is, for each identity of the agent
    registered,  \* the agent is registered with the server
    file,        \* how good the local baseline is, .agentprobe/baselines/main.json
    comments,    \* the pull request's comments with this suite and agent's marker
    overlapped   \* history: two jobs were between finding and writing at once
------------------------------------------------------------------------------
\* compare_runs, as far as a verdict goes: a significant drop.
Regresses(base, level) == base = "good" /\ level = "bad"

\* A check is green only for a run that was not cut short, is not below the
\* threshold, and is no regression against the baseline it was compared with;
\* and a job told to push is green only if the server has its whole run and
\* found no regression either (_exit_code, push, ci_report, action.yml).
GreenIsEarned ==
    \A j \in Jobs : job[j].at = "done" /\ job[j].code = "OK" =>
        /\ ~job[j].run.infra /\ ~job[j].run.below
        /\ ~Regresses(job[j].base, job[j].run.level)
        /\ j \in Pushing =>
             \E r \in runs : /\ r.job = j /\ {"run", "results", "summary"} \subseteq r.rows
                             /\ ~Regresses(r.against, job[j].run.level)

\* Re-runs edit one comment: there are two only after two jobs were between
\* looking for it and writing it at once (post_comment.py:1).
OneComment == Len(comments) > 1 => overlapped
==============================================================================
