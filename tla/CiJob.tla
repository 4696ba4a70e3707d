------------------------------- MODULE CiJob -------------------------------
(***************************************************************************)
(* CI jobs that test one suite and agent on one pull request: the CLI's    *)
(* `run` (main.py, push.py), the server's ingestion of what it pushes      *)
(* (ci.py, baselines.py) and the action's comment (format_comment.py,      *)
(* post_comment.py).  A job run again is another job.                      *)
(*                                                                         *)
(* A job is one process whose steps interleave with the others'.  A push   *)
(* is one request and one transaction of the API; the CLI gives up waiting *)
(* for it while it goes on.  Of a run's results only what a verdict needs  *)
(* is kept: how good it is, whether it is below the threshold, and whether *)
(* an infrastructure error cut it short.                                   *)
(***************************************************************************)
EXTENDS CiJobs

vars == <<job, request, runs, baselines, registered, file, comments, overlapped>>

Levels == {"good", "bad"}
Results == [level : Levels, below : BOOLEAN, infra : BOOLEAN]

At(j, place) == job[j].at = place

------------------------------------------------------------------------------
(* agentprobe run *)

\* The flags, the suite, the local baseline and the configuration are read
\* before the first call; a mistake in one of them ends the job with USAGE.
Start(j) ==
    /\ At(j, "start")
    /\ job' = [job EXCEPT ![j].at = "run", ![j].base = IF j \in Pushing THEN None ELSE file]
    /\ UNCHANGED <<request, runs, baselines, registered, file, comments, overlapped>>

Misused(j) ==
    /\ At(j, "start")
    /\ job' = [job EXCEPT ![j].at = "format", ![j].code = "USAGE"]
    /\ UNCHANGED <<request, runs, baselines, registered, file, comments, overlapped>>

\* _exit_code: an infrastructure error outweighs a regression, and that the
\* threshold.
ExitCode(r, base) ==
    CASE r.infra -> "INFRA"
      [] ~r.infra /\ Regresses(base, r.level) -> "REGRESSION"
      [] ~r.infra /\ ~Regresses(base, r.level) /\ r.below -> "THRESHOLD"
      [] OTHER -> "OK"

\* _execute runs the suite, stopping at the first infrastructure error; the run
\* is compared with the local baseline and saved.
Run(j, result) ==
    /\ At(j, "run")
    /\ job' = [job EXCEPT ![j].at = IF j \in Pushing THEN "push" ELSE "format",
                          ![j].run = result, ![j].saved = TRUE, ![j].output = j \notin Pushing,
                          ![j].code = ExitCode(result, job[j].base)]
    /\ UNCHANGED <<request, runs, baselines, registered, file, comments, overlapped>>

\* push(): the payload is posted.
Push(j) ==
    /\ At(j, "push")
    /\ job' = [job EXCEPT ![j].at = "waiting"]
    /\ request' = [request EXCEPT ![j].at = "received"]
    /\ UNCHANGED <<runs, baselines, registered, file, comments, overlapped>>

\* The server's verdict turns any code but INFRA into REGRESSION.
Pushed(j) ==
    /\ At(j, "waiting") /\ request[j].at = "replied"
    /\ job' = [job EXCEPT ![j].at = "format", ![j].output = TRUE,
                          ![j].code = IF request[j].verdict = "regression" /\ @ # "INFRA"
                                      THEN "REGRESSION" ELSE @]
    /\ UNCHANGED <<request, runs, baselines, registered, file, comments, overlapped>>

\* Mutant: a failed push is a warning.
AfterFailedPush_Warning(jb, reason) == [jb EXCEPT !.at = "format", !.output = TRUE]

\* A failed push ends the CLI with its own exit code and no output.
AfterFailedPush(jb, reason) == [jb EXCEPT !.at = "format", !.code = reason]

Refused(j) ==
    /\ At(j, "waiting") /\ request[j].at = "refused"
    /\ job' = [job EXCEPT ![j] = AfterFailedPush(@, "USAGE")]
    /\ UNCHANGED <<request, runs, baselines, registered, file, comments, overlapped>>

\* The connection fails, the wait times out, or the server answers 5xx.
Unreached(j) ==
    /\ At(j, "waiting")
    /\ job' = [job EXCEPT ![j] = AfterFailedPush(@, "INFRA")]
    /\ UNCHANGED <<request, runs, baselines, registered, file, comments, overlapped>>

\* agentprobe baseline set: any saved run becomes the local baseline.
BaselineSet(j) ==
    /\ job[j].saved /\ file # job[j].run.level
    /\ file' = job[j].run.level
    /\ UNCHANGED <<job, request, runs, baselines, registered, comments, overlapped>>

------------------------------------------------------------------------------
(* POST /ci/report: one transaction *)

Goto(j, place) == request' = [request EXCEPT ![j].at = place]

\* A cap is reached, the suite is unknown, the results are not of its plan: 422
\* or 429.  Otherwise the agent is looked up by its name.
Refuse(j) ==
    /\ request[j].at = "received"
    /\ Goto(j, "refused")
    /\ UNCHANGED <<job, runs, baselines, registered, file, comments, overlapped>>

FindAgent(j) ==
    /\ request[j].at = "received"
    /\ request' = [request EXCEPT ![j].at = "insert",
                                  ![j].identity = IF registered THEN "agent" ELSE "agent_name"]
    /\ UNCHANGED <<job, runs, baselines, registered, file, comments, overlapped>>

\* The run, its results and its summary: no one else sees them yet.
Insert(j) ==
    /\ request[j].at = "insert"
    /\ request' = [request EXCEPT ![j].at = "cluster", ![j].rows = {"run", "results", "summary"}]
    /\ UNCHANGED <<job, runs, baselines, registered, file, comments, overlapped>>

\* Clustering in a savepoint: when it fails, what it wrote is rolled back and
\* the rest stays.
Cluster(j) ==
    /\ request[j].at = "cluster"
    /\ \/ request' = [request EXCEPT ![j].at = "compare", ![j].rows = @ \cup {"findings"}]
       \/ Goto(j, "compare")
    /\ UNCHANGED <<job, runs, baselines, registered, file, comments, overlapped>>

\* The baseline of the branch and of this identity, as committed now.
Verdict(base, level) ==
    IF base = None THEN "no_baseline" ELSE IF Regresses(base, level) THEN "regression" ELSE "no_change"

Compare(j) ==
    /\ request[j].at = "compare"
    /\ LET base == baselines[request[j].identity] IN
       request' = [request EXCEPT ![j].at = "commit", ![j].against = base,
                                  ![j].verdict = Verdict(base, job[j].run.level)]
    /\ UNCHANGED <<job, runs, baselines, registered, file, comments, overlapped>>

\* get_db commits when the handler has returned, then the reply is sent.
Commit(j) ==
    /\ request[j].at = "commit"
    /\ Goto(j, "replied")
    /\ runs' = runs \cup {[job |-> j, level |-> job[j].run.level, identity |-> request[j].identity,
                           rows |-> request[j].rows, against |-> request[j].against]}
    /\ UNCHANGED <<job, baselines, registered, file, comments, overlapped>>

\* The process dies, or the handler raises: nothing of the transaction stays.
Abort(j) ==
    /\ request[j].at \in {"received", "insert", "cluster", "compare", "commit"}
    /\ Goto(j, "lost")
    /\ UNCHANGED <<job, runs, baselines, registered, file, comments, overlapped>>

\* POST /projects/{id}/baseline: a completed run, for its own identity.
SetBaseline(r) ==
    /\ baselines[r.identity] # r.level
    /\ baselines' = [baselines EXCEPT ![r.identity] = r.level]
    /\ UNCHANGED <<job, request, runs, registered, file, comments, overlapped>>

Register ==
    /\ ~registered /\ registered' = TRUE
    /\ UNCHANGED <<job, request, runs, baselines, file, comments, overlapped>>

------------------------------------------------------------------------------
(* The action's steps after the run *)

\* format_comment needs the run's JSON; without it the step fails, and the job.
Format(j) ==
    /\ At(j, "format")
    /\ job' = [job EXCEPT ![j].at = IF job[j].output THEN "find" ELSE "done",
                          ![j].code = IF job[j].output \/ @ # "OK" THEN @ ELSE "FORMAT"]
    /\ UNCHANGED <<request, runs, baselines, registered, file, comments, overlapped>>

\* Mutant: looks for its own comment only.
Found_Own(j) == {n \in 1..Len(comments) : comments[n] = j}

\* _find_marked_comment: the first comment that starts with the marker.
Found(j) == 1..Len(comments)

Find(j) ==
    /\ At(j, "find")
    /\ job' = [job EXCEPT ![j].at = "write",
                          ![j].comment = IF Found(j) = {} THEN 0
                                         ELSE CHOOSE n \in Found(j) : \A m \in Found(j) : n <= m]
    /\ overlapped' = (overlapped \/ \E i \in Jobs : At(i, "write"))
    /\ UNCHANGED <<request, runs, baselines, registered, file, comments>>

\* PATCH the one found, or POST another.
Write(j) ==
    /\ At(j, "write")
    /\ comments' = IF job[j].comment = 0 THEN Append(comments, j)
                   ELSE [comments EXCEPT ![job[j].comment] = j]
    /\ job' = [job EXCEPT ![j].at = "done"]
    /\ UNCHANGED <<request, runs, baselines, registered, file, overlapped>>

\* A read-only token, or an error of GitHub's: the step may fail, the job goes on.
NoComment(j) ==
    /\ job[j].at \in {"find", "write"}
    /\ job' = [job EXCEPT ![j].at = "done"]
    /\ UNCHANGED <<request, runs, baselines, registered, file, comments, overlapped>>

------------------------------------------------------------------------------

\* Against a bad baseline nothing regresses, as against none; jobs set it later.
Init ==
    /\ job = [j \in Jobs |-> [at |-> "start", base |-> None, run |-> None, saved |-> FALSE,
                              output |-> FALSE, code |-> "OK", comment |-> 0]]
    /\ request = [j \in Jobs |-> [at |-> "none", identity |-> "agent", rows |-> {},
                                  against |-> None, verdict |-> "no_baseline"]]
    /\ runs = {}
    /\ baselines \in [{"agent", "agent_name"} -> {"good", None}]
    /\ registered \in BOOLEAN /\ file \in {"good", None}
    /\ comments = <<>> /\ overlapped = FALSE

Cli(j) ==
    \/ Start(j) \/ Misused(j) \/ \E r \in Results : Run(j, r)
    \/ Push(j) \/ Pushed(j) \/ Refused(j) \/ Unreached(j) \/ BaselineSet(j)

Server(j) ==
    Refuse(j) \/ FindAgent(j) \/ Insert(j) \/ Cluster(j) \/ Compare(j) \/ Commit(j) \/ Abort(j)

Action(j) == Format(j) \/ Find(j) \/ Write(j) \/ NoComment(j)

Next ==
    \/ \E j \in Jobs : Cli(j) \/ Server(j) \/ Action(j)
    \/ \E r \in runs : SetBaseline(r)
    \/ Register

Spec == Init /\ [][Next]_vars
==============================================================================
