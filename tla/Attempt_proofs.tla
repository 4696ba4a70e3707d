---------------------------- MODULE Attempt_proofs ----------------------------
(***************************************************************************)
(* What an attempt may do again, what its result stands for and where its  *)
(* auth headers go, for every number of retries, redirects, judges' samples *)
(* and attempts.  The invariant says what is already settled at each point *)
(* of an attempt.                                                          *)
(***************************************************************************)
EXTENDS Attempt, SequenceTheorems, TLAPS

\* Until the agent's answer is in, nothing was acted on and nothing judged.
Unsettled == pc \in Calling \cup {"retry"} => ~acted /\ verdicts = <<>>

Settled ==
    /\ pc \in Judging => acted
    /\ pc = "sample" => ~AllJudged /\ Current = Rubric
    /\ pc = "deliver" => outcome \in Outcomes

\* There is room for what comes next.
Room ==
    /\ pc = "backoff" => tries < AdapterRetries
    /\ pc = "retry" => retries < MaxRetries
    /\ pc \notin {"next", "end"} => Len(results) < NumAttempts - todo

\* No verdict but an error over tool calls that were not reported.
ToolsJudged ==
    \A i \in DOMAIN verdicts :
        expect[i] = Tools /\ ~reported => verdicts[i] = "error"

Earned ==
    pc = "deliver" =>
        /\ outcome = "unreachable" => ~acted
        /\ outcome \in {"passed", "failed"} =>
              /\ acted /\ AllJudged
              /\ \A i \in DOMAIN verdicts : verdicts[i] # "error"
              /\ outcome = "passed" <=> \A i \in DOMAIN verdicts : verdicts[i] = "pass"

RequestOK ==
    /\ hops \in 0 .. MaxRedirects
    /\ secret \in BOOLEAN /\ origin \in {"home", "elsewhere"}
    /\ SecretStaysHome

IInv ==
    TypeOK /\ Unsettled /\ Settled /\ Room /\ ToolsJudged /\ Earned /\ SecretStaysHome
------------------------------------------------------------------------------
LEMMA InitInv == Init => IInv
<1> SUFFICES ASSUME Init PROVE IInv
  OBVIOUS
<1>1. expect \in Seq(JudgeKinds) /\ Len(expect) = 2
  <2>1. \A a, b \in JudgeKinds : <<a, b>> \in Seq(JudgeKinds) /\ Len(<<a, b>>) = 2
    OBVIOUS
  <2>2. QED
    BY <2>1 DEF Init, JudgeKinds
<1>2. TypeOK
  <2>1. /\ verdicts \in Seq(Verdicts) /\ Len(verdicts) = 0
        /\ votes \in Seq({"pass", "fail"}) /\ Len(votes) = 0
        /\ results \in Seq(Outcomes) /\ Len(results) = 0
    BY EmptySeq DEF Init
  <2>2. /\ hops \in 0 .. MaxRedirects /\ tries \in 0 .. AdapterRetries
        /\ retries \in 0 .. MaxRetries /\ todo \in 0 .. NumAttempts
        /\ Len(results) <= NumAttempts - todo /\ Len(votes) < Samples
        /\ Len(verdicts) <= Len(expect)
    BY <1>1, <2>1, Parameters DEF Init
  <2>3. {secret, reported, repairing, cancelled, acted, byCall} \subseteq BOOLEAN
    BY DEF Init
  <2>4. QED
    BY <1>1, <2>1, <2>2, <2>3 DEF Init, TypeOK, Points
<1>3. Unsettled /\ Settled /\ Room
  BY DEF Init, Unsettled, Settled, Room, Calling, Judging
<1>4. ToolsJudged /\ Earned /\ SecretStaysHome
  BY DEF Init, ToolsJudged, Earned, SecretStaysHome
<1>5. QED
  BY <1>2, <1>3, <1>4 DEF IInv

\* Before anything is settled: a step that goes on calling, or ends the attempt
\* with an error, and does not retry what the agent may have acted on.
LEMMA CallStep ==
    ASSUME IInv, pc \in Calling \cup {"retry"},
           UNCHANGED <<run, judging, todo, results>>,
           RequestOK', cancelled' \in BOOLEAN, acted' \in BOOLEAN,
           tries' \in 0 .. AdapterRetries, retries' \in 0 .. MaxRetries,
           pc' \in Calling \cup {"retry", "deliver", "end"},
           pc' = "backoff" => tries' < AdapterRetries,
           pc' = "retry" => retries' < MaxRetries,
           outcome' \in Outcomes \cup {"none"},
           pc' = "deliver" => outcome' \in Outcomes \ {"passed", "failed"},
           pc' \in Calling \cup {"retry"} => ~acted',
           pc' = "deliver" /\ outcome' = "unreachable" => ~acted'
    PROVE  IInv'
<1> USE DEF IInv, run, judging
<1>1. verdicts' = <<>>
  BY DEF Unsettled
<1>2. TypeOK'
  BY DEF TypeOK, RequestOK, Points, Calling
<1>3. (Unsettled /\ Settled)'
  BY <1>1 DEF Unsettled, Settled, Calling, Judging
<1>4. Room'
  BY DEF Room, Calling
<1>5. (ToolsJudged /\ Earned /\ SecretStaysHome)'
  BY <1>1 DEF ToolsJudged, Earned, RequestOK
<1>6. QED
  BY <1>2, <1>3, <1>4, <1>5

LEMMA FreshStep ==
    ASSUME FreshRequest
    PROVE  RequestOK'
BY Parameters DEF FreshRequest, RequestOK, SecretStaysHome

LEMMA SameRequest ==
    ASSUME IInv, UNCHANGED request
    PROVE  RequestOK'
BY DEF IInv, TypeOK, request, RequestOK, SecretStaysHome

\* Where Result leads.
LEMMA ResultLeads ==
    ASSUME IInv, NEW o \in Outcomes, Result(o)
    PROVE  /\ pc' \in {"retry", "deliver"}
           /\ pc' = "retry" => retries < MaxRetries /\ o = "unreachable"
           /\ outcome' \in Outcomes \cup {"none"}
           /\ pc' = "deliver" => outcome' = o
<1>1. retries \in 0 .. MaxRetries
  BY DEF IInv, TypeOK
<1>2. QED
  BY <1>1 DEF Result, Retryable, IInv, TypeOK

\* Where a failed try leads: only a transient failure is tried again.
LEMMA TryFailsLeads ==
    ASSUME IInv, NEW t \in BOOLEAN, TryFails(t)
    PROVE  /\ pc' \in {"backoff", "retry", "deliver"}
           /\ pc' = "backoff" => tries < AdapterRetries
           /\ pc' = "retry" => retries < MaxRetries
           /\ pc' \in {"backoff", "retry"} => t
           /\ outcome' \in Outcomes \cup {"none"}
           /\ pc' = "deliver" => outcome' \in Outcomes \ {"passed", "failed"}
           /\ pc' = "deliver" /\ outcome' = "unreachable" => t
<1>1. tries \in 0 .. AdapterRetries /\ outcome \in Outcomes \cup {"none"}
  BY DEF IInv, TypeOK
<1>2. CASE AdapterError(t)
  <2> DEFINE o == IF t THEN "unreachable" ELSE "agent"
  <2>1. o \in Outcomes /\ Result(o)
    BY <1>2 DEF AdapterError, Outcomes, Errors, InfraErrors
  <2>2. QED
    BY <2>1, ResultLeads
<1>3. CASE pc' = "backoff"
  BY <1>1, <1>3, Parameters DEF TryFails, LastTry, AdapterError, Result
<1>4. QED
  BY <1>2, <1>3 DEF TryFails

LEMMA StartAttemptInv ==
    ASSUME IInv, StartAttempt
    PROVE  IInv'
<1> USE DEF IInv, run
<1>1. /\ verdicts' = <<>> /\ reported' = FALSE /\ acted' = FALSE
      /\ tries' = 0 /\ retries' = 0
      /\ UNCHANGED <<adapter, byCall, expect, votes, repairing, results, cancelled>>
  BY DEF StartAttempt
<1>2. RequestOK'
  BY FreshStep DEF StartAttempt
<1>3. /\ todo' \in 0 .. NumAttempts /\ todo' <= todo
      /\ pc' \in {"end", "connect", "deliver"}
      /\ pc' # "end" => Len(results) < NumAttempts - todo'
      /\ outcome' \in Outcomes \cup {"none"}
      /\ pc' = "deliver" => outcome' = "agent"
  <2>1. todo \in 0 .. NumAttempts /\ Len(results) \in Nat /\ Len(results) <= NumAttempts - todo
    BY LenProperties DEF TypeOK
  <2>2. CASE todo = 0
    BY <2>1, <2>2 DEF StartAttempt, TypeOK
  <2>3. CASE todo # 0
    <3>1. todo' = todo - 1
      BY <2>3 DEF StartAttempt
    <3>2. \/ pc' = "connect" /\ outcome' = "none"
          \/ pc' = "deliver" /\ outcome' = "agent"
      BY <2>3 DEF StartAttempt
    <3>3. QED
      BY <2>1, <2>3, <3>1, <3>2, Parameters DEF Outcomes, Errors
  <2>4. QED
    BY <2>2, <2>3
<1>4. TypeOK'
  <2>1. verdicts' \in Seq(Verdicts) /\ Len(verdicts') = 0
    BY <1>1, EmptySeq
  <2>2. Len(results) <= NumAttempts - todo'
    BY <1>3, LenProperties, Parameters DEF TypeOK
  <2>3. Len(expect) >= 0
    BY LenProperties DEF TypeOK
  <2>4. QED
    <3>1. {secret, reported, repairing, cancelled, acted, byCall}' \subseteq BOOLEAN
      BY <1>1, <1>2 DEF TypeOK, RequestOK
    <3>2. Len(verdicts') <= Len(expect') /\ 0 \in 0 .. AdapterRetries /\ 0 \in 0 .. MaxRetries
      BY <1>1, <2>1, <2>3, Parameters
    <3>3. votes' \in Seq({"pass", "fail"}) /\ Len(votes') < Samples
      BY <1>1 DEF TypeOK
    <3>4. QED
      BY <1>1, <1>2, <1>3, <2>1, <2>2, <3>1, <3>2, <3>3 DEF TypeOK, RequestOK, Points, Calling
<1>5. (Unsettled /\ Settled /\ Room)'
  BY <1>1, <1>3 DEF Unsettled, Settled, Room, Calling, Judging, Outcomes, Errors
<1>6. (ToolsJudged /\ Earned /\ SecretStaysHome)'
  BY <1>1, <1>2, <1>3 DEF ToolsJudged, Earned, RequestOK
<1>7. QED
  BY <1>4, <1>5, <1>6

\* Everything an attempt does until its answer is in, or it is given up.
LEMMA CallingInv ==
    ASSUME IInv,
           \/ TryAgain \/ Retry
           \/ ConnectHttp \/ ConnectMcp \/ CallPython \/ Redirect \/ AskedToRetry
           \/ AnswerFails \/ AdapterTimeout \/ AdapterRaises \/ AgentTimeout
    PROVE  IInv'
<1> USE DEF Calling, request, run, judging
<1>1. /\ tries \in 0 .. AdapterRetries /\ retries \in 0 .. MaxRetries
      /\ hops \in 0 .. MaxRedirects
      /\ outcome \in Outcomes \cup {"none"}
      /\ cancelled \in BOOLEAN /\ acted \in BOOLEAN
  BY DEF IInv, TypeOK
<1>2. pc \in Calling \cup {"retry"} => ~acted
  BY DEF IInv, Unsettled
<1>3. ASSUME TryAgain PROVE IInv'
  <2>1. tries + 1 \in 0 .. AdapterRetries
    BY <1>1, <1>3, Parameters DEF TryAgain, IInv, Room
  <2>2. RequestOK'
    BY <1>3, FreshStep DEF TryAgain
  <2>3. QED
    BY <1>1, <1>2, <1>3, <2>1, <2>2, CallStep DEF TryAgain, Another
<1>4. ASSUME Retry PROVE IInv'
  <2>1. retries + 1 \in 0 .. MaxRetries /\ 0 \in 0 .. AdapterRetries
    BY <1>1, <1>4, Parameters DEF Retry, IInv, Room
  <2>2. RequestOK'
    BY <1>4, FreshStep DEF Retry
  <2>3. QED
    BY <1>1, <1>2, <1>4, <2>1, <2>2, CallStep DEF Retry, Another
<1>5. ASSUME NEW t \in BOOLEAN, pc \in {"connect", "answer"}, TryFails(t),
             RequestOK', t => ~acted', acted' \in BOOLEAN,
             UNCHANGED <<run, judging, todo, tries, retries, results, cancelled>>
      PROVE  IInv'
  BY <1>1, <1>5, TryFailsLeads, CallStep
<1>6. ASSUME NEW o \in {"timeout", "internal"}, pc \in Calling, Result(o),
             acted' \in BOOLEAN,
             UNCHANGED <<run, request, judging, todo, tries, retries, results, cancelled>>
      PROVE  IInv'
  <2>1. o \in Outcomes /\ o \notin {"passed", "failed", "unreachable"}
    BY <1>6 DEF Outcomes, Errors, InfraErrors
  <2>2. RequestOK'
    BY <1>6, SameRequest
  <2>3. /\ pc' = "deliver" /\ outcome' = o
        /\ outcome' \in Outcomes \cup {"none"}
    BY <1>6, <2>1, ResultLeads
  <2>4. QED
    BY <1>1, <1>6, <2>1, <2>2, <2>3, CallStep
<1>7. ASSUME ConnectHttp \/ ConnectMcp PROVE IInv'
  <2>1. /\ pc = "connect"
        /\ UNCHANGED <<run, request, judging, todo, tries, retries, results, cancelled, acted>>
        /\ \/ TryFails(TRUE)
           \/ TryFails(FALSE)
           \/ pc' = "answer" /\ UNCHANGED outcome
    BY <1>7 DEF ConnectHttp, ConnectMcp, Guarded
  <2>2. RequestOK'
    BY <2>1, SameRequest
  <2>3. CASE TryFails(TRUE) \/ TryFails(FALSE)
    BY <1>1, <1>2, <1>5, <2>1, <2>2, <2>3
  <2>4. CASE pc' = "answer" /\ UNCHANGED outcome
    BY <1>1, <1>2, <2>1, <2>2, <2>4, CallStep
  <2>5. QED
    BY <2>1, <2>3, <2>4
<1>8. ASSUME CallPython PROVE IInv'
  <2>1. RequestOK'
    BY <1>8, SameRequest DEF CallPython
  <2>2. QED
    BY <1>1, <1>2, <1>8, <2>1, CallStep DEF CallPython, worker
<1>9. ASSUME Redirect PROVE IInv'
  <2>1. /\ pc = "answer"
        /\ UNCHANGED <<run, judging, todo, tries, retries, results, cancelled, acted>>
    BY <1>9 DEF Redirect
  <2>2. CASE TryFails(FALSE) /\ UNCHANGED request
    <3>1. RequestOK'
      BY <2>2, SameRequest
    <3>2. QED
      BY <1>1, <1>2, <1>5, <2>1, <2>2, <3>1
  <2>3. CASE ~(TryFails(FALSE) /\ UNCHANGED request)
    <3>1. /\ hops < MaxRedirects /\ hops' = hops + 1
          /\ pc' = "connect" /\ UNCHANGED outcome
      BY <1>9, <2>3 DEF Redirect
    <3>2. PICK next \in {"home", "elsewhere"} :
            secret' = (secret /\ next = origin) /\ origin' = next
      BY <1>9, <2>3 DEF Redirect, StillSecret
    <3>3. hops' \in 0 .. MaxRedirects
      BY <1>1, <3>1, Parameters
    <3>4. secret' \in BOOLEAN /\ SecretStaysHome'
      BY <3>2 DEF IInv, TypeOK, SecretStaysHome
    <3>5. RequestOK'
      BY <3>2, <3>3, <3>4 DEF RequestOK
    <3>6. QED
      BY <1>1, <1>2, <2>1, <3>1, <3>5, CallStep
  <2>4. QED
    BY <2>2, <2>3
<1>10. ASSUME AskedToRetry PROVE IInv'
  <2>1. RequestOK'
    BY <1>10, SameRequest DEF AskedToRetry
  <2>2. QED
    BY <1>1, <1>2, <1>5, <1>10, <2>1 DEF AskedToRetry
<1>11. ASSUME AnswerFails PROVE IInv'
  <2>1. RequestOK'
    BY <1>11, SameRequest DEF AnswerFails
  <2>2. QED
    BY <1>1, <1>5, <1>11, <2>1 DEF AnswerFails, Reached, LostIsTransient
<1>12. ASSUME AdapterTimeout PROVE IInv'
  <2>1. RequestOK'
    BY <1>12, SameRequest DEF AdapterTimeout
  <2>2. TryFails(FALSE)
    BY <1>12 DEF AdapterTimeout, TryFails
  <2>3. acted' \in BOOLEAN
    BY <1>1, <1>12 DEF AdapterTimeout
  <2>4. QED
    BY <1>1, <1>5, <1>12, <2>1, <2>2, <2>3 DEF AdapterTimeout
<1>13. ASSUME AdapterRaises PROVE IInv'
  <2>1. acted' \in BOOLEAN
    BY <1>1, <1>13 DEF AdapterRaises
  <2>2. QED
    BY <1>6, <1>13, <2>1 DEF AdapterRaises
<1>14. ASSUME AgentTimeout PROVE IInv'
  <2>1. acted' \in BOOLEAN
    BY <1>1, <1>14 DEF AgentTimeout
  <2>2. CASE Swallows
    <3>1. pc \in {"connect", "answer"} /\ TryFails(FALSE)
      BY <1>14, <2>2 DEF AgentTimeout, Swallows, TryFails
    <3>2. RequestOK'
      BY <1>14, SameRequest DEF AgentTimeout
    <3>3. QED
      BY <1>1, <1>5, <1>14, <2>1, <3>1, <3>2 DEF AgentTimeout
  <2>3. CASE ~Swallows
    BY <1>6, <1>14, <2>1, <2>3 DEF AgentTimeout
  <2>4. QED
    BY <2>2, <2>3
<1>15. QED
  BY <1>3, <1>4, <1>7, <1>8, <1>9, <1>10, <1>11, <1>12, <1>13, <1>14

\* An attempt's judging goes on or ends; the request is over.
LEMMA VerdictInv ==
    ASSUME IInv, pc \in Judging, ~AllJudged, NEW v \in Verdicts, Verdict(v),
           Current = Tools /\ ~reported => v = "error",
           UNCHANGED <<run, request, todo, tries, retries, results, cancelled, acted>>
    PROVE  IInv'
<1> USE DEF IInv, run, request
<1>1. /\ verdicts' = Append(verdicts, v) /\ votes' = <<>> /\ repairing' = FALSE
      /\ pc' = "judge" /\ UNCHANGED <<reported, outcome>>
  BY DEF Verdict
<1>2. /\ verdicts \in Seq(Verdicts) /\ expect \in Seq(JudgeKinds)
      /\ Len(verdicts) < Len(expect)
  <2>1. Len(verdicts) \in Nat /\ Len(expect) \in Nat
    BY LenProperties DEF TypeOK
  <2>2. QED
    BY <2>1 DEF TypeOK, AllJudged
<1>3. /\ verdicts' \in Seq(Verdicts) /\ Len(verdicts') = Len(verdicts) + 1
      /\ \A i \in DOMAIN verdicts : i \in DOMAIN verdicts' /\ verdicts'[i] = verdicts[i]
      /\ verdicts'[Len(verdicts) + 1] = v
      /\ \A i \in DOMAIN verdicts' : i \in DOMAIN verdicts \/ i = Len(verdicts) + 1
  BY <1>1, <1>2
<1>4. TypeOK'
  <2>1. Len(verdicts') <= Len(expect)
    BY <1>2, <1>3
  <2>2. votes' \in Seq({"pass", "fail"}) /\ Len(votes') < Samples
    BY <1>1, EmptySeq, Parameters
  <2>3. QED
    BY <1>1, <1>3, <2>1, <2>2 DEF TypeOK, Points, Judging
<1>5. (Unsettled /\ Settled /\ Room)'
  BY <1>1 DEF Unsettled, Settled, Room, Calling, Judging
<1>6. ToolsJudged'
  BY <1>1, <1>3 DEF ToolsJudged, Current
<1>7. (Earned /\ SecretStaysHome)'
  BY <1>1 DEF Earned, SecretStaysHome
<1>8. QED
  BY <1>4, <1>5, <1>6, <1>7

\* A judging step that gives no verdict.
LEMMA NoVerdictInv ==
    ASSUME IInv, pc \in Judging, pc' \in Judging,
           pc' = "sample" => ~AllJudged /\ Current = Rubric,
           votes' \in Seq({"pass", "fail"}), Len(votes') < Samples, repairing' \in BOOLEAN,
           UNCHANGED <<run, request, reported, verdicts, outcome, todo, tries,
                       retries, results, cancelled, acted>>
    PROVE  IInv'
<1> USE DEF IInv, run, request
<1>1. TypeOK'
  BY DEF TypeOK, Points
<1>2. (Unsettled /\ Settled /\ Room)'
  BY DEF Unsettled, Settled, Room, Calling, Judging, AllJudged, Current
<1>3. (ToolsJudged /\ Earned /\ SecretStaysHome)'
  BY DEF ToolsJudged, Earned, SecretStaysHome, Judging
<1>4. QED
  BY <1>1, <1>2, <1>3

\* Judging ends: a pass or a fail has every judge's verdict.
LEMMA JudgedInv ==
    ASSUME IInv, pc \in Judging, NEW o \in Outcomes, Result(o), o # "unreachable",
           o \in {"passed", "failed"} =>
              /\ AllJudged
              /\ \A i \in DOMAIN verdicts : verdicts[i] # "error"
              /\ o = "passed" <=> \A i \in DOMAIN verdicts : verdicts[i] = "pass",
           votes' \in Seq({"pass", "fail"}), Len(votes') < Samples, repairing' \in BOOLEAN,
           UNCHANGED <<run, request, reported, verdicts, todo, tries, retries, results,
                       cancelled, acted>>
    PROVE  IInv'
<1> USE DEF IInv, run, request
<1>1. pc' = "deliver" /\ outcome' = o
  BY ResultLeads
<1>2. TypeOK'
  BY <1>1 DEF TypeOK, Points
<1>3. (Unsettled /\ Settled /\ Room)'
  BY <1>1 DEF Unsettled, Settled, Room, Calling, Judging
<1>4. acted
  BY DEF Settled
<1>5. Earned'
  BY <1>1, <1>4 DEF Earned, AllJudged
<1>6. (ToolsJudged /\ SecretStaysHome)'
  BY DEF ToolsJudged, SecretStaysHome
<1>7. QED
  BY <1>2, <1>3, <1>5, <1>6

\* Judged ranks an error over a fail, and a fail over a pass.
LEMMA JudgedRanks ==
    ASSUME NEW vs, vs \subseteq Verdicts
    PROVE  /\ Judged(vs) \in {"passed", "failed", "judge"}
           /\ Judged(vs) # "judge" <=> "error" \notin vs
           /\ Judged(vs) = "passed" <=> \A v \in vs : v = "pass"
BY DEF Judged, Verdicts

LEMMA JudgingInv ==
    ASSUME IInv, Answer \/ FinishJudging \/ JudgeRule \/ Sample \/ BudgetUsedUp
    PROVE  IInv'
<1> USE DEF IInv, Judging
<1>1. /\ verdicts \in Seq(Verdicts) /\ votes \in Seq({"pass", "fail"})
      /\ Len(votes) < Samples /\ Len(votes) \in Nat
      /\ repairing \in BOOLEAN /\ reported \in BOOLEAN
  BY LenProperties DEF TypeOK
<1>2. ASSUME Answer PROVE IInv'
  <2>1. /\ pc = "answer" /\ pc' = "judge" /\ acted' = TRUE
        /\ UNCHANGED <<adapter, byCall, expect, hops, secret, origin, verdicts,
                       votes, repairing, todo, tries, retries, outcome, results, cancelled>>
        /\ verdicts = <<>>
    BY <1>2 DEF Answer, Reached, run, request, worker, Unsettled, Calling
  <2>2. reported' \in BOOLEAN
    <3>1. adapter \in {"http", "mcp", "python"} /\ reported' \in Reports[adapter]
      BY <1>2, Parameters DEF Answer, TypeOK
    <3>2. /\ Reports["http"] = BOOLEAN /\ Reports["mcp"] = {TRUE}
          /\ Reports["python"] = BOOLEAN
      BY DEF Reports
    <3>3. QED
      BY <3>1, <3>2
  <2>3. TypeOK'
    BY <2>1, <2>2 DEF TypeOK, Points
  <2>4. (Unsettled /\ Settled /\ Room)'
    BY <2>1 DEF Unsettled, Settled, Room, Calling
  <2>5. (ToolsJudged /\ Earned /\ SecretStaysHome)'
    BY <2>1 DEF ToolsJudged, Earned, SecretStaysHome
  <2>6. QED
    BY <2>3, <2>4, <2>5
<1>3. ASSUME FinishJudging PROVE IInv'
  <2> DEFINE vs == {verdicts[i] : i \in DOMAIN verdicts}
  <2>1. /\ pc = "judge" /\ AllJudged /\ Result(Judged(vs))
        /\ UNCHANGED <<run, request, judging, todo, tries, retries, results, cancelled, acted>>
    BY <1>3 DEF FinishJudging
  <2>2. vs \subseteq Verdicts
    BY <1>1
  <2>3. /\ Judged(vs) \in Outcomes /\ Judged(vs) # "unreachable"
        /\ Judged(vs) \in {"passed", "failed"} <=> \A i \in DOMAIN verdicts : verdicts[i] # "error"
        /\ Judged(vs) = "passed" <=> \A i \in DOMAIN verdicts : verdicts[i] = "pass"
    BY <2>2, JudgedRanks DEF Outcomes, Errors
  <2>4. QED
    BY <1>1, <2>1, <2>3, JudgedInv DEF judging
<1>4. ASSUME JudgeRule PROVE IInv'
  <2>1. /\ pc = "judge" /\ ~AllJudged
        /\ UNCHANGED <<run, request, todo, tries, retries, results, cancelled, acted>>
    BY <1>4 DEF JudgeRule
  <2>2. ASSUME NEW v \in Verdicts, Verdict(v), Current = Tools /\ ~reported => v = "error"
        PROVE  IInv'
    BY <2>1, <2>2, VerdictInv
  <2>3. CASE Current = Plain /\ \E v \in PlainVerdicts : Verdict(v)
    BY <2>2, <2>3 DEF PlainVerdicts, Verdicts, Plain, Tools
  <2>4. CASE Current = Pattern /\ \E v \in PatternVerdicts : Verdict(v)
    BY <2>2, <2>4 DEF PatternVerdicts, Verdicts, Pattern, Tools
  <2>5. CASE Current = Tools /\ \E v \in ToolVerdicts : Verdict(v)
    BY <2>2, <2>5 DEF ToolVerdicts, Verdicts
  <2>6. CASE Current = Rubric /\ Verdict("error")
    BY <2>2, <2>6 DEF Verdicts
  <2>7. CASE Current = Rubric /\ pc' = "sample" /\ UNCHANGED <<judging, outcome>>
    BY <1>1, <2>1, <2>7, NoVerdictInv DEF judging
  <2>8. QED
    BY <1>4, <2>3, <2>4, <2>5, <2>6, <2>7 DEF JudgeRule
<1>5. ASSUME Sample PROVE IInv'
  <2>1. /\ pc = "sample" /\ ~AllJudged /\ Current = Rubric
        /\ UNCHANGED <<run, request, todo, tries, retries, results, cancelled, acted>>
    BY <1>5 DEF Sample, Settled
  <2>2. ASSUME NEW v \in Verdicts, Verdict(v)
        PROVE  IInv'
    BY <2>1, <2>2, VerdictInv DEF Rubric, Tools
  <2>3. ASSUME NEW vote \in {"pass", "fail"}, Len(Append(votes, vote)) # Samples,
               votes' = Append(votes, vote), repairing' = FALSE,
               UNCHANGED <<pc, verdicts, reported, outcome>>
        PROVE  IInv'
    <3>1. votes' \in Seq({"pass", "fail"}) /\ Len(votes') = Len(votes) + 1
      BY <1>1, <2>3
    <3>2. Len(votes') < Samples
      BY <1>1, <2>3, <3>1, Parameters
    <3>3. QED
      BY <2>1, <2>3, <3>1, <3>2, NoVerdictInv
  <2>4. CASE repairing' = TRUE /\ UNCHANGED <<pc, verdicts, votes, reported, outcome>>
    BY <1>1, <2>1, <2>4, NoVerdictInv
  <2>5. Majority(Append(votes, "pass")) \in Verdicts /\ Majority(Append(votes, "fail")) \in Verdicts
    BY DEF Majority, Verdicts
  <2>6. QED
    BY <1>5, <2>2, <2>3, <2>4, <2>5 DEF Sample, Verdicts
<1>6. ASSUME BudgetUsedUp PROVE IInv'
  <2>1. "budget" \in Outcomes
    BY DEF Outcomes, Errors, InfraErrors
  <2>2. votes' \in Seq({"pass", "fail"}) /\ Len(votes') < Samples /\ repairing' \in BOOLEAN
    <3>1. votes' = <<>> /\ repairing' = FALSE
      BY <1>6 DEF BudgetUsedUp
    <3>2. votes' \in Seq({"pass", "fail"}) /\ Len(votes') < Samples
      BY <3>1, EmptySeq, Parameters
    <3>3. repairing' \in BOOLEAN
      BY <3>1
    <3>4. QED
      BY <3>2, <3>3
  <2>3. QED
    BY <1>6, <2>1, <2>2, JudgedInv DEF BudgetUsedUp
<1>7. QED
  BY <1>2, <1>3, <1>4, <1>5, <1>6

\* A result is delivered once, in a delivery that cancelling does not stop.
LEMMA DeliverInv ==
    ASSUME IInv, Deliver \/ CancelDelivering
    PROVE  IInv'
<1> USE DEF IInv, run, request, judging
<1>1. /\ pc = "deliver" /\ pc' \in {"next", "end"}
      /\ results' = Append(results, outcome)
      /\ cancelled' \in BOOLEAN
      /\ UNCHANGED <<run, request, judging, todo, tries, retries, outcome, acted>>
  BY DEF Deliver, CancelDelivering, TypeOK
<1>2. results' \in Seq(Outcomes) /\ Len(results') = Len(results) + 1
  BY <1>1 DEF TypeOK, Settled
<1>3. Len(results) < NumAttempts - todo /\ Len(results) \in Nat
  BY <1>1, LenProperties DEF Room, TypeOK
<1>4. TypeOK'
  <2>1. Len(results') <= NumAttempts - todo'
    BY <1>1, <1>2, <1>3, Parameters DEF TypeOK
  <2>2. QED
    BY <1>1, <1>2, <2>1 DEF TypeOK, Points
<1>5. (Unsettled /\ Settled /\ Room /\ ToolsJudged /\ Earned /\ SecretStaysHome)'
  BY <1>1
  DEF Unsettled, Settled, Room, ToolsJudged, Earned, SecretStaysHome, Calling, Judging
<1>6. QED
  BY <1>4, <1>5

\* A cancellation ends the worker, or is swallowed and the attempt fails.
LEMMA CancelInv ==
    ASSUME IInv, Cancel
    PROVE  IInv'
<1>1. /\ pc \notin {"next", "end", "deliver"} /\ cancelled' \in BOOLEAN
      /\ UNCHANGED <<run, request, judging, todo, tries, retries, results>>
  BY DEF Cancel
<1>2. RequestOK'
  BY <1>1, SameRequest
<1>3. tries \in 0 .. AdapterRetries /\ retries \in 0 .. MaxRetries /\ acted \in BOOLEAN
  BY DEF IInv, TypeOK
<1>4. CASE Swallows
  <2>1. TryFails(FALSE) /\ acted' = (acted \/ pc = "answer") /\ pc \in {"connect", "answer"}
    BY <1>4 DEF Cancel, Swallows, TryFails
  <2>2. QED
    BY <1>1, <1>2, <1>3, <2>1, TryFailsLeads, CallStep DEF Calling
<1>5. CASE ~Swallows
  <2>1. pc' = "end" /\ UNCHANGED <<outcome, acted>>
    BY <1>5 DEF Cancel
  <2>2. TypeOK'
    BY <1>1, <2>1 DEF IInv, TypeOK, run, request, judging, Points
  <2>3. (Unsettled /\ Settled /\ Room /\ ToolsJudged /\ Earned /\ SecretStaysHome)'
    BY <1>1, <2>1
    DEF IInv, Unsettled, Settled, Room, ToolsJudged, Earned, SecretStaysHome,
        Calling, Judging, run, request, judging
  <2>4. QED
    BY <2>2, <2>3 DEF IInv
<1>6. QED
  BY <1>4, <1>5

LEMMA StutterInv == ASSUME IInv, UNCHANGED vars PROVE IInv'
BY DEF vars, run, request, judging, worker, IInv, TypeOK, Unsettled, Settled, Room,
       ToolsJudged, Earned, SecretStaysHome, AllJudged, Current

LEMMA NextInv == IInv /\ [Next]_vars => IInv'
BY StartAttemptInv, CallingInv, JudgingInv, DeliverInv, CancelInv, StutterInv
DEF Next, Step

THEOREM Invariance == Spec => []IInv
BY InitInv, NextInv, PTL DEF Spec

\* execute_with_retries and with_backoff together send nothing after a request
\* the agent may have acted on, for any number of retries of either.
THEOREM RetriesCorrect == Spec => []NothingActedOnIsRetried
<1>1. IInv => NothingActedOnIsRetried
  BY DEF IInv, Unsettled, Calling, NothingActedOnIsRetried
<1>2. QED
  BY <1>1, Invariance, PTL

\* A pass or a fail is backed by every judge's verdict, and an infrastructure
\* error by an agent that was not reached.
THEOREM ResultCorrect == Spec => []ResultIsEarned
<1>1. IInv => ResultIsEarned
  BY DEF IInv, Earned, ToolsJudged, ResultIsEarned
<1>2. QED
  BY <1>1, Invariance, PTL

\* _next_hop keeps the auth headers at the configured origin, over any number
\* of redirects.
THEOREM SecretCorrect == Spec => []SecretStaysHome
<1>1. IInv => SecretStaysHome
  BY DEF IInv
<1>2. QED
  BY <1>1, Invariance, PTL
==============================================================================
