----------------------------- MODULE MCAnalysis -----------------------------
(***************************************************************************)
(* What is made of a run's attempts, checked in one instance: the run is   *)
(* compared with a baseline (Regression), its failures are clustered       *)
(* (FailureClusters), and its record is saved, summarized and read         *)
(* (RunRecord).  The three share no state: every behaviour is of one part, *)
(* and the other two stay as they are.                                     *)
(***************************************************************************)
EXTENDS Regression

CONSTANTS
    NumOutputs, Distances, Threshold,                           \* FailureClusters
    RecordCases, RecordRuns, Expect, RanExpect, Shapes,         \* RunRecord
    MaxBad, Orders, MaxReasons, TextAlike, MeaningAlike, MinAgreement

VARIABLES
    part,                               \* which of the three this behaviour is of
    distance, clusters, gap, findings,  \* FailureClusters
    run, rows, cases, upload, page      \* RunRecord

F == INSTANCE FailureClusters

R == INSTANCE RunRecord WITH NumCases <- RecordCases, Runs <- RecordRuns

\* Distances are ordered and none is negative; what is left of a case's judges
\* without those of the whole case is a list again.  No two rows are in one place.
ASSUME AnalysisParameters ==
    /\ NumOutputs \in Nat /\ Threshold \in Nat /\ Distances \subseteq Nat
    /\ \A c \in R!Cases :
          Len(R!Judged(Expect[c])) \in Nat
          /\ DOMAIN R!Judged(Expect[c]) = 1 .. Len(R!Judged(Expect[c]))
    /\ \A order \in Orders :
          /\ order \in [R!Plan -> Nat]
          /\ \A p, q \in R!Plan : order[p] = order[q] => p = q

\* 13/40 = 1/5 + 1/8, the smallest p-values that two attempts of a case, and
\* three cases of a suite, can reach.
AlphasValue      == {<<1, 8>>, <<13, 40>>}
CaseSharesValue  == {<<1, 5>>}
SuiteSharesValue == {<<1, 8>>}

\* A suite, and the same suite with a judge added in the file a CI job runs.
ExpectValue    == <<<<"consistency", "tool">>, <<"output">>>>
EditedExpect   == <<<<"consistency", "tool", "latency">>, <<"output">>>>

\* What an agent answers the two cases with, in two ways or one.
ShapesValue ==
    <<{<<"call", "tool_result">>, <<"user", "assistant">>}, {<<"assistant", "call">>}>>

\* As the plan has them, and backwards.
PairsValue  == (1 .. RecordCases) \X (0 .. RecordRuns - 1)
OrdersValue ==
    {[p \in PairsValue |-> RecordRuns * p[1] + p[2]],
     [p \in PairsValue |-> 9 - RecordRuns * p[1] - p[2]]}

clusterVars == <<distance, clusters, gap, findings>>
recordVars  == <<run, rows, cases, upload, page>>

MCInit ==
    /\ part \in {"compare", "cluster", "record"}
    /\ Init /\ (part # "compare" => totals = <<>>)
    /\ F!Init /\ (part # "cluster" => distance = <<>>)
    /\ R!Init /\ (part # "record" => run.status = "none")

MCNext ==
    \/ part = "compare" /\ Next /\ UNCHANGED <<part, clusterVars, recordVars>>
    \/ part = "cluster" /\ F!Merge /\ UNCHANGED <<part, vars, recordVars>>
    \/ part = "cluster" /\ F!Finish /\ UNCHANGED <<part, vars, recordVars>>
    \/ part = "record" /\ R!Next /\ UNCHANGED <<part, vars, clusterVars>>

MCSpec == MCInit /\ [][MCNext]_<<part, vars, clusterVars, recordVars>>

\* The findings of a run are the chains of failing outputs within the threshold
\* (FailureClusters states it).
FindingsAreChains == F!FindingsAreChains

\* What readers of a run's record are shown (RunRecord states the three).
PagesAreWhole       == R!PagesAreWhole
ExportIsTheRecord   == R!ExportIsTheRecord
VerdictsAreAnchored == R!VerdictsAreAnchored
=============================================================================
