----------------------------- MODULE RunRecord -----------------------------
(***************************************************************************)
(* The record of one run and those who read it.  The attempts are saved    *)
(* one by one by a live run, or all at once by POST /ci/report; core's     *)
(* finalize_run turns them into per-case summaries; and the record is read *)
(* back by the public page of a share link (share.py), which asks the      *)
(* database three times, by the export (runs.py, htmlexport.py), which     *)
(* summarizes the saved attempts again, by the list of results, and by the *)
(* trace of an attempt (results.py), which says which step each verdict is *)
(* about.                                                                  *)
(*                                                                         *)
(* Scores, latencies and intervals decide nothing here and are left out.   *)
(* An output is the trace that carries it, and two outputs are as alike as *)
(* the constants say.                                                      *)
(***************************************************************************)
EXTENDS Integers, Sequences, FiniteSets, FiniteSetsExt, SequencesExt, Sorting

CONSTANTS
    NumCases,       \* the cases of the suite
    Runs,           \* runs_per_case
    Expect,         \* the judges of each case, in the run's snapshot: a sequence of
                    \* "tool", "latency", "output" and "consistency"
    RanExpect,      \* and in the file a CI job ran, case by case
    Shapes,         \* bound: the traces an agent answers each case with, of steps
                    \* "call", "tool_result", "assistant", "user"
    MaxBad,         \* bound: verdicts of an attempt that are not "pass"
    Orders,         \* bound: the orders the database may hold the plan's rows in, each a
                    \* place for every pair
    MaxReasons,     \* MAX_FAILURE_REASONS
    TextAlike,      \* similarity of two different outputs as text, in percent,
    MeaningAlike,   \* as embeddings,
    MinAgreement    \* and the consistency judge's min_agreement

Cases == 1 .. NumCases

VARIABLES
    run,        \* the run's row: its status and its total cost
    rows,       \* run_results, each with its trace and its judgments
    cases,      \* run_case_summaries, by case
    upload,     \* the attempts a CI job has executed
    page        \* what one reader has been answered so far

recordVars == <<run, rows, cases, upload, page>>
-----------------------------------------------------------------------------
(* One attempt (Attempt is about how it comes about)                         *)

Unknown == -1
NoResponse  == [kind |-> "none", steps |-> <<>>]
BadResponse == [kind |-> "failed", steps |-> <<"error">>]

IsCaseLevel(judge) == judge = "consistency"
Judged(expect) == SelectSeq(expect, LAMBDA judge : ~IsCaseLevel(judge))

Verdicts(k) ==
    {v \in [1 .. k -> {"pass", "fail", "error"}] :
        Cardinality({i \in 1 .. k : v[i] # "pass"}) <= MaxBad}

StatusOf(v) ==
    IF "error" \in ToSet(v) THEN "error" ELSE IF "fail" \in ToSet(v) THEN "failed" ELSE "passed"

AttemptResult(c, n, status, error, response, judgments) ==
    [case |-> c, attempt |-> n, status |-> status, error |-> error,
     response |-> response, judgments |-> judgments,
     cost |-> IF response = NoResponse THEN Unknown ELSE 1]

Answers(c) == {[kind |-> "answered", steps |-> s] : s \in Shapes[c]}

Judgments(specs, v) == [i \in DOMAIN v |-> [judge |-> specs[i], status |-> v[i]]]

JudgeError(v) == IF StatusOf(v) = "error" THEN "judge" ELSE "none"

\* No answer, an answer that failed, an LLM budget that ran out between two
\* judges, or a verdict of every judge of the attempt.
Executed(c, n, expect) ==
    LET specs == Judged(expect)
    IN  {AttemptResult(c, n, "error", "timeout", NoResponse, <<>>),
         AttemptResult(c, n, "error", "unreachable", BadResponse, <<>>)}
        \cup {AttemptResult(c, n, "error", "budget", answer, Judgments(specs, v)) :
                answer \in Answers(c), v \in UNION {Verdicts(k) : k \in 0 .. Len(specs) - 1}}
        \cup {AttemptResult(c, n, StatusOf(v), JudgeError(v), answer, Judgments(specs, v)) :
                answer \in Answers(c), v \in Verdicts(Len(specs))}

\* plan_attempts
Plan == Cases \X (0 .. Runs - 1)
-----------------------------------------------------------------------------
(* finalize_run                                                              *)

InfraErrors == {"unreachable", "budget", "internal"}

Sum(f) == MapThenSumSet(LAMBDA x : f[x], DOMAIN f)

Count(attempts, Test(_)) == Cardinality({i \in DOMAIN attempts : Test(attempts[i])})

Total(attempts) ==
    IF attempts = <<>> \/ \E i \in DOMAIN attempts : attempts[i].cost = Unknown
    THEN Unknown
    ELSE Sum([i \in DOMAIN attempts |-> attempts[i].cost])

Label(passes, attempts) ==
    IF passes = attempts THEN "stable-pass" ELSE IF passes = 0 THEN "stable-fail" ELSE "flaky"

CaseSummary(attempts) ==
    LET passes == Count(attempts, LAMBDA a : a.status = "passed") IN
    [passes   |-> passes,
     attempts |-> Len(attempts),
     errors   |-> Count(attempts, LAMBDA a : a.status = "error"),
     cost     |-> Total(attempts),
     label    |-> Label(passes, Len(attempts))]

\* An ordered set of reasons, cut off.
Failures(attempts) ==
    LET Reasons(a) ==
            (IF a.error = "none" THEN <<>> ELSE <<a.error>>)
            \o LET failed == SelectSeq(a.judgments, LAMBDA j : j.status = "fail")
               IN [i \in DOMAIN failed |-> failed[i].judge]
        Add(known, reason) == IF reason \in ToSet(known) THEN known ELSE Append(known, reason)
        all == FoldLeft(LAMBDA known, a : FoldLeft(Add, known, Reasons(a)), <<>>, attempts)
    IN SubSeq(all, 1, Min({MaxReasons, Len(all)}))

\* The mean similarity of all pairs: of the text, and of the embeddings when
\* there is an LLM client.
Stable(outputs, llm) ==
    LET pairs == {p \in (DOMAIN outputs) \X (DOMAIN outputs) : p[1] < p[2]}
        Alike(different) ==
            MapThenSumSet(LAMBDA p : IF outputs[p[1]] = outputs[p[2]] THEN 100 ELSE different, pairs)
        text == Alike(TextAlike)
    IN  \/ Len(outputs) < 2
        \/ text + (IF llm THEN Alike(MeaningAlike) ELSE text) >= 2 * MinAgreement * Cardinality(pairs)

Consistency(c, attempts, llm) ==
    LET answered == SelectSeq(attempts, LAMBDA a : a.response.kind = "answered")
        specs    == SelectSeq(Expect[c], IsCaseLevel)
    IN  IF answered = <<>> THEN <<>>
        ELSE [i \in DOMAIN specs |->
                IF Stable([k \in DOMAIN answered |-> answered[k].response.steps], llm)
                THEN "pass" ELSE "fail"]

\* by_case, sorted by attempt.
Own(results, c) == {i \in DOMAIN results : results[i].case = c}

OfCase_AsRead(results, c) ==
    LET own   == Own(results, c)
        order == Ordered(own, {p \in own \X own : p[1] < p[2]})
    IN [k \in DOMAIN order |-> results[order[k]]]
OfCase(results, c) ==
    LET own   == Own(results, c)
        order == Ordered(own, {p \in own \X own : results[p[1]].attempt < results[p[2]].attempt})
    IN [k \in DOMAIN order |-> results[order[k]]]

Earlier(a, b) == a.case < b.case \/ (a.case = b.case /\ a.attempt < b.attempt)

\* A case's failures are in two parts: those of its attempts, cut off, and after
\* them those of the case as a whole.
FinalizeRun(results, llm) ==
    LET Result(c) ==
            LET attempts == OfCase(results, c)
                judged   == Consistency(c, attempts, llm)
            IN [summary     |-> CaseSummary(attempts),
                consistency |-> judged,
                failures    |-> [attempts |-> Failures(attempts),
                                 case     |-> Count(judged, LAMBDA v : v # "pass")]]
        positions == DOMAIN results
        order     == Ordered(positions,
                             {p \in positions \X positions : Earlier(results[p[1]], results[p[2]])})
    IN [cases    |-> [c \in {results[i].case : i \in DOMAIN results} |-> Result(c)],
        attempts |-> Len(results),
        errors   |-> Count(results, LAMBDA r : r.status = "error"),
        infra_errors |-> Count(results, LAMBDA r : r.error \in InfraErrors),
        cost     |-> Total(results),
        results  |-> [k \in DOMAIN order |-> results[order[k]]]]
-----------------------------------------------------------------------------
(* What is stored                                                            *)

\* The detail leaves the steps to the traces table, which has no row when the
\* agent never answered.
RowOf(result) ==
    [case |-> result.case, attempt |-> result.attempt,
     status |-> result.status, error_kind |-> result.error,
     detail |-> [result EXCEPT !.response.steps = <<>>],
     trace  |-> IF result.response.kind = "none" THEN <<>> ELSE <<result.response.steps>>,
     judgments |-> ToSet(result.judgments)]

\* _attempt_result, after an outer join with the trace.
Rebuilt(row) ==
    IF row.detail.response.kind = "none" \/ row.trace = <<>> THEN row.detail
    ELSE [row.detail EXCEPT !.response.steps = row.trace[1]]

ReadAttempt(c, n) ==
    Rebuilt(CHOOSE row \in rows : row.case = c /\ row.attempt = n)

\* read_attempts asks for no order: the rows come as the database holds them.
Place(order, row) == order[<<row.case, row.attempt>>]

ReadAttempts(saved) ==
    LET Returned == {Ordered(saved, {p \in saved \X saved :
                                        Place(order, p[1]) < Place(order, p[2])}) :
                        order \in Orders}
    IN {[i \in DOMAIN read |-> Rebuilt(read[i])] : read \in Returned}

CaseRow(result) ==
    [attempts |-> result.summary.attempts, passes |-> result.summary.passes,
     errors |-> result.summary.errors, label |-> result.summary.label,
     total_cost |-> result.summary.cost, consistency |-> result.consistency]

CaseRows(summary) == [c \in DOMAIN summary.cases |-> CaseRow(summary.cases[c])]

NoPage == [kind |-> "closed"]

Init ==
    /\ run \in [status : {"running", "none"}, cost : {Unknown}]  \* "none": a CI job's
    /\ rows = {}
    /\ cases = <<>>
    /\ upload = {}
    /\ page = NoPage

\* A page is looked at before anything else happens.
Shown == page.kind # "closed" /\ page.todo = <<>>

SavedPairs == {<<row.case, row.attempt>> : row \in rows}

\* save_attempt: idempotent, and only while the run is running.
SaveAttempt ==
    /\ ~Shown
    /\ run.status = "running"
    /\ \E planned \in Plan \ SavedPairs :
         \E result \in Executed(planned[1], planned[2], Expect[planned[1]]) :
            rows' = rows \cup {RowOf(result)}
    /\ UNCHANGED <<run, cases, upload, page>>

CancelRun ==
    /\ ~Shown
    /\ run.status = "running"
    /\ run' = [run EXCEPT !.status = "cancelled"]
    /\ UNCHANGED <<rows, cases, upload, page>>

\* save_summary, once every attempt is saved or the run was stopped, which
\* keeps its status.  A second delivery writes the same again.
SaveSummary ==
    /\ ~Shown
    /\ \/ run.status \in {"running", "completed"} /\ SavedPairs = Plan
       \/ run.status = "cancelled"
    /\ \E results \in ReadAttempts(rows) :
         LET summary == FinalizeRun(results, TRUE) IN
         /\ cases' = CaseRows(summary)
         /\ run' = [status |-> IF run.status = "running" THEN "completed" ELSE run.status,
                    cost   |-> summary.cost]
    /\ UNCHANGED <<rows, upload, page>>

\* The CI job executes some of the plan of its own copy of the suite.
CiAttempt ==
    /\ run.status = "none"
    /\ \E c \in DOMAIN RanExpect, n \in 0 .. Runs - 1 :
         /\ \A r \in upload : <<r.case, r.attempt>> # <<c, n>>
         /\ \E result \in Executed(c, n, RanExpect[c]) : upload' = upload \cup {result}
    /\ UNCHANGED <<run, rows, cases, page>>

\* check_results, as far as the case ids of the CI job's copy can differ.
InPlan(results) == \A r \in results : <<r.case, r.attempt>> \in Plan

\* The ingested run is new: there is nothing to skip, to update or to replace.
InsertResults(results) == rows' = {RowOf(r) : r \in results}

InsertSummary(summary) ==
    /\ cases' = CaseRows(summary)
    /\ run' = [status |-> "completed", cost |-> summary.cost]

\* ci_report, in one transaction and without an LLM client.
CiReport ==
    /\ run.status = "none"
    /\ upload # {} /\ InPlan(upload)
    /\ InsertResults(upload)
    /\ \E results \in ReadAttempts(rows') : InsertSummary(FinalizeRun(results, FALSE))
    /\ upload' = {}
    /\ UNCHANGED page

\* The suite or the project goes, and the run with it.
DeleteRun ==
    /\ ~Shown
    /\ run.status \notin {"none", "gone"}
    /\ run' = [status |-> "gone", cost |-> Unknown]
    /\ rows' = {} /\ cases' = <<>>
    /\ UNCHANGED <<upload, page>>
-----------------------------------------------------------------------------
(* Readers                                                                   *)

Stored == run.status \notin {"none", "gone"}

\* get_shared: the run by its token, then its case summaries, then its results.
SharedQueries_ResultsFirst == <<"results", "cases">>
SharedQueries == <<"cases", "results">>

FindSharedRun ==
    /\ page = NoPage /\ Stored
    /\ page' = [kind |-> "shared", status |-> run.status, todo |-> SharedQueries,
                cases |-> <<>>, results |-> {}]
    /\ UNCHANGED <<run, rows, cases, upload>>

SharedCases ==
    /\ page.kind = "shared" /\ page.todo # <<>> /\ Head(page.todo) = "cases"
    /\ page' = [page EXCEPT !.todo = Tail(@),
                            !.cases = [c \in DOMAIN cases |->
                                [label  |-> cases[c].label,
                                 passes |-> cases[c].passes, attempts |-> cases[c].attempts]]]
    /\ UNCHANGED <<run, rows, cases, upload>>

\* Neither the detail nor the trace: the public page is narrower.
SharedResults ==
    /\ page.kind = "shared" /\ page.todo # <<>> /\ Head(page.todo) = "results"
    /\ page' = [page EXCEPT !.todo = Tail(@),
                            !.results = {[case |-> row.case, attempt |-> row.attempt,
                                          status |-> row.status, error_kind |-> row.error_kind,
                                          judgments |-> row.judgments] : row \in rows}]
    /\ UNCHANGED <<run, rows, cases, upload>>

\* list_results: the results with their cases' labels, where they have one yet,
\* in one query.  (Their judgments, in a second one, never change.)
Labels == [c \in DOMAIN cases |-> cases[c].label]

ListResults ==
    /\ page = NoPage /\ Stored
    /\ page' = [kind |-> "results", todo |-> <<>>, labels |-> Labels,
                results |-> {[case |-> row.case, attempt |-> row.attempt,
                              status |-> row.status] : row \in rows}]
    /\ UNCHANGED <<run, rows, cases, upload>>

\* export_run: the run, then read_summary of its attempts.
OpenExport ==
    /\ page = NoPage /\ Stored
    /\ page' = [kind |-> "export", status |-> run.status, todo |-> <<"attempts">>, rows |-> {}]
    /\ UNCHANGED <<run, rows, cases, upload>>

ReadSummary ==
    /\ page.kind = "export" /\ page.todo # <<>>
    /\ page' = [page EXCEPT !.todo = <<>>, !.rows = rows]
    /\ UNCHANGED <<run, rows, cases, upload>>

\* For each judgment the step it is about, 0 for the attempt as a whole: the
\* first call of its tool, nothing for latency_under, and otherwise the last
\* step that carries output.
Anchor(judge, steps) ==
    LET calls  == {i \in DOMAIN steps : steps[i] = "call"}
        output == {i \in DOMAIN steps : steps[i] \in {"tool_result", "assistant"}}
    IN CASE judge = "tool"    -> IF calls = {} THEN 0 ELSE Min(calls)
         [] judge = "latency" -> 0
         [] OTHER             -> IF output = {} THEN 0 ELSE Max(output)

JudgmentSteps_AllSpecs(c, result) ==
    LET specs == Expect[c] IN
    [i \in 1 .. Min({Len(specs), Len(result.judgments)}) |-> Anchor(specs[i], result.response.steps)]
JudgmentSteps(c, result) ==
    LET specs == Judged(Expect[c]) IN
    [i \in 1 .. Min({Len(specs), Len(result.judgments)}) |-> Anchor(specs[i], result.response.steps)]

\* get_trace: zip() raises when the two lists differ in length.
GetTrace ==
    /\ page = NoPage
    /\ \E saved \in SavedPairs :
         LET result == ReadAttempt(saved[1], saved[2])
             steps  == JudgmentSteps(saved[1], result)
         IN page' = [kind |-> "trace", todo |-> <<>>, result |-> result,
                     steps |-> steps, answered |-> Len(steps) = Len(result.judgments)]
    /\ UNCHANGED <<run, rows, cases, upload>>

ClosePage ==
    /\ Shown
    /\ page' = NoPage
    /\ UNCHANGED <<run, rows, cases, upload>>

Next ==
    \/ SaveAttempt \/ CancelRun \/ SaveSummary \/ DeleteRun
    \/ CiAttempt \/ CiReport
    \/ FindSharedRun \/ SharedCases \/ SharedResults
    \/ ListResults \/ OpenExport \/ ReadSummary \/ GetTrace \/ ClosePage

Spec == Init /\ [][Next]_recordVars
-----------------------------------------------------------------------------
(* The rendered export                                                       *)

Stability(summary) ==
    [label \in {"stable-pass", "flaky", "stable-fail"} |->
        Cardinality({c \in DOMAIN summary.cases : summary.cases[c].summary.label = label})]

Strip(results, c) ==
    LET marks    == [passed |-> "p", failed |-> "f", error |-> "e"]
        attempts == OfCase(results, c)
    IN [i \in DOMAIN attempts |-> marks[attempts[i].status]]

\* render_html: the tiles count attempts, the strips and bars count cases.
RenderHtml(summary) ==
    LET failed == Count(summary.results, LAMBDA r : r.status = "failed")
    IN [attempts |-> summary.attempts,
        passed   |-> summary.attempts - failed - summary.errors,
        failed   |-> failed,
        errors   |-> summary.errors,
        bars     |-> Stability(summary),
        strips   |-> [c \in DOMAIN summary.cases |-> Strip(summary.results, c)]]
-----------------------------------------------------------------------------
(* Properties *)

\* share.py: whatever is saved, cancelled or summarized between the three
\* queries of the public page, every case it shows is shown with all of its
\* attempts and counts them right, and a run shown as completed shows them all.
\* results.py: the label of a listed result is the one its case's listed results
\* have earned.
\* (A run deleted meanwhile leaves either page short.)
PagesAreWhole ==
    Shown /\ run.status # "gone" =>
    LET of(c) == {r \in page.results : r.case = c}
        passed(c) == Cardinality({r \in of(c) : r.status = "passed"})
        shown == DOMAIN page.cases
    IN CASE page.kind = "shared" ->
              /\ \A c \in shown :
                    /\ page.cases[c].attempts = Cardinality(of(c))
                    /\ page.cases[c].passes = passed(c)
              /\ shown # {} \/ page.status = "completed" =>
                    \A r \in page.results : r.case \in shown
         [] page.kind = "results" ->
              \A c \in DOMAIN page.labels :
                  page.labels[c] = Label(passed(c), Cardinality(of(c)))
         [] OTHER -> TRUE

\* runs.py, htmlexport.py: the export of a completed run, computed again from
\* its saved attempts in whatever order the database returns them, is the
\* record that was written when the run ended: the same cases, counts, labels
\* and cost, the same reasons, and a page whose tiles, bars and strips agree
\* with them.  (The consistency judge is not asked again with an LLM, and its
\* verdict may differ.)
ExportIsTheRecord ==
    Shown /\ page.kind = "export" /\ page.status = "completed" /\ run.status # "gone" =>
    LET Reasons(summary) ==
            [c \in DOMAIN summary.cases |-> summary.cases[c].failures.attempts]
        Marks(strip, mark) == Count(strip, LAMBDA m : m = mark)
        reference == FinalizeRun(CHOOSE r \in ReadAttempts(page.rows) : TRUE, TRUE)
    IN \A results \in ReadAttempts(page.rows) :
        LET summary == FinalizeRun(results, FALSE)
            html    == RenderHtml(summary)
        IN /\ DOMAIN summary.cases = DOMAIN cases
           /\ \A c \in DOMAIN cases :
                 [CaseRow(summary.cases[c]) EXCEPT !.consistency = cases[c].consistency] = cases[c]
           /\ summary.cost = run.cost
           /\ Reasons(summary) = Reasons(reference)
           /\ html.passed = Sum([c \in DOMAIN cases |-> cases[c].passes])
           /\ html.errors = Sum([c \in DOMAIN cases |-> cases[c].errors])
           /\ Sum(html.bars) = Cardinality(DOMAIN cases)
           /\ \A c \in DOMAIN cases :
                 /\ Marks(html.strips[c], "p") = cases[c].passes
                 /\ Len(html.strips[c]) = cases[c].attempts

\* results.py, runner.py (judgment_steps): the trace of an attempt is always
\* answered, with every one of its judgments, each pointing at the step that
\* its own judge looked at, also when the judges were cut short.
VerdictsAreAnchored ==
    Shown /\ page.kind = "trace" =>
    /\ page.answered
    /\ \A i \in DOMAIN page.result.judgments :
          page.steps[i] = Anchor(page.result.judgments[i].judge, page.result.response.steps)
=============================================================================
