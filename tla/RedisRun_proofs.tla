--------------------------- MODULE RedisRun_proofs ---------------------------
(***************************************************************************)
(* Proofs about RedisRun, for every finite plan, pool of workers, number   *)
(* of retries and number of faults.                                        *)
(***************************************************************************)
EXTENDS RedisRun, FiniteSetTheorems, TLAPS

-----------------------------------------------------------------------------
(* Lemmas about the helpers *)

\* One more copy of a message, and no change to the others.
LEMMA OneMore ==
    ASSUME stream \in [Messages -> Nat], NEW k \in Messages,
           stream' = [stream EXCEPT ![k] = @ + 1]
    PROVE  /\ stream' \in [Messages -> Nat]
           /\ \A m \in Messages : m.job # k.job => stream'[m] = stream[m]
<1>1. stream' = [m \in Messages |-> IF m = k THEN stream[k] + 1 ELSE stream[m]]
  OBVIOUS
<1>2. \A m \in Messages : stream[m] \in Nat
  OBVIOUS
<1>3. \A m \in Messages : m.job # k.job => m # k
  OBVIOUS
<1> HIDE DEF Messages
<1>4. QED
  BY <1>1, <1>2, <1>3

\* Kicking a job adds to the copies of that job's message only.
LEMMA KickAdds ==
    ASSUME stream \in [Messages -> Nat], NEW job \in Jobs, Kick(job)
    PROVE  /\ stream' \in [Messages -> Nat]
           /\ \A m \in Messages : m.job # job => stream'[m] = stream[m]
<1> DEFINE k == [job |-> job, tries |-> 0]
<1>1. k \in Messages /\ k.job = job
  BY Parameters DEF Messages
<1>2. stream' = [stream EXCEPT ![k] = @ + 1]
  BY DEF Kick
<1> HIDE DEF k
<1>3. QED
  BY <1>1, <1>2, OneMore

\* Raising, or delivering again, adds to the messages of the worker's own job.
LEMMA RaiseAdds ==
    ASSUME TypeOK, NEW w \in Workers, Raise(w)
    PROVE  /\ stream' \in [Messages -> Nat]
           /\ \A m \in Messages : m.job # msg[w].job => stream'[m] = stream[m]
           /\ pc' = [pc EXCEPT ![w] = "idle"]
<1> DEFINE k == [job |-> msg[w].job, tries |-> msg[w].tries + 1]
<1>1. stream \in [Messages -> Nat] /\ msg[w] \in Messages
  BY DEF TypeOK
<1>2. pc' = [pc EXCEPT ![w] = "idle"]
  BY DEF Raise, Goto
<1>3. CASE msg[w].tries < MaxRetries
  <2>1. k \in Messages /\ k.job = msg[w].job
    BY <1>1, <1>3, Parameters DEF Messages
  <2>2. stream' = [stream EXCEPT ![k] = @ + 1]
    BY <1>3 DEF Raise
  <2> HIDE DEF k
  <2>3. QED
    BY <1>1, <1>2, <2>1, <2>2, OneMore
<1>4. CASE ~(msg[w].tries < MaxRetries)
  BY <1>1, <1>2, <1>4 DEF Raise
<1>5. QED
  BY <1>3, <1>4

LEMMA RequeueAdds ==
    ASSUME TypeOK, NEW w \in Workers, Requeue(w)
    PROVE  /\ stream' \in [Messages -> Nat]
           /\ \A m \in Messages : m.job # msg[w].job => stream'[m] = stream[m]
<1>1. stream \in [Messages -> Nat] /\ msg[w] \in Messages
  BY DEF TypeOK
<1>2. QED
  BY <1>1, OneMore DEF Requeue

\* The three kinds of jobs are told apart by their names.
LEMMA JobNames ==
    /\ "start" \in Jobs
    /\ "finalize" \in Jobs
    /\ Attempts \subseteq Jobs
    /\ "start" \notin Attempts
    /\ "finalize" \notin Attempts
  BY Parameters DEF Jobs
-----------------------------------------------------------------------------
\* Type correctness: initially, and kept by every step.
LEMMA TypeInit == Init => TypeOK
  BY Parameters, JobNames
  DEF Init, Messages, TypeOK, Points, Statuses, Live, Terminal, Results

LEMMA TypeStep ==
    ASSUME TypeOK, [Next]_vars
    PROVE  TypeOK'
<1> USE DEF TypeOK, Points, Statuses, Live, Terminal, Results
<1> USE DEF db, workers, api, At, Goto
<1>1. ASSUME NEW w \in Workers, Step(w) PROVE TypeOK'
  <2>1. ASSUME NEW m \in Messages, Take(w, m) PROVE TypeOK'
    BY <2>1 DEF Take, Waiting, Entry
  <2>2. CASE Claim(w)
    BY <2>2 DEF Claim
  <2>3. CASE LoadStart(w)
    BY <2>3 DEF LoadStart
  <2>4. CASE ReadSaved(w)
    BY <2>4 DEF ReadSaved
  <2>5. CASE KickAttempt(w)
    <3>1. PICK a \in rows[w] :
             /\ Kick(a)
             /\ rows' = [rows EXCEPT ![w] = @ \ {a}]
             /\ Goto(w, IF rows[w] = {a} THEN "idle" ELSE "kick_attempts")
      BY <2>5 DEF KickAttempt
    <3>2. a \in Jobs
      BY JobNames
    <3>3. stream' \in [Messages -> Nat]
      BY <3>1, <3>2, KickAdds
    <3>4. QED
      BY <2>5, <3>1, <3>3 DEF KickAttempt
  <2>6. CASE LoadPlan(w)
    BY <2>6 DEF LoadPlan
  <2>7. CASE CheckSaved(w)
    BY <2>7 DEF CheckSaved
  <2>8. CASE CallAgent(w)
    BY <2>8 DEF CallAgent
  <2>9. CASE SaveAttempt(w)
    <3>1. stream' \in [Messages -> Nat] /\ pc' \in [Workers -> Points]
      BY <2>9, RaiseAdds DEF SaveAttempt, RolledBack
    <3>2. saved' \in [Attempts -> Results \cup {NotSaved}] /\ done' \in Nat
      BY <2>9 DEF SaveAttempt, RolledBack
    <3>3. result' \in [Workers -> Results]
      BY <2>9 DEF SaveAttempt, RolledBack
    <3>4. QED
      BY <2>9, <3>1, <3>2, <3>3 DEF SaveAttempt, RolledBack
  <2>10. CASE FailRun(w)
    BY <2>10 DEF FailRun, Failed, AfterFail
  <2>11. CASE KickFinalize(w)
    BY <2>11, KickAdds, JobNames DEF KickFinalize
  <2>12. CASE LoadFinal(w)
    BY <2>12 DEF LoadFinal
  <2>13. CASE ReadResults(w)
    BY <2>13 DEF ReadResults, SavedRows
  <2>14. CASE SaveSummary(w)
    <3>1. stream' \in [Messages -> Nat] /\ pc' \in [Workers -> Points]
      BY <2>14, RaiseAdds DEF SaveSummary
    <3>2. status' \in Statuses /\ summary' \in (SUBSET Attempts) \cup {NoSummary}
      BY <2>14 DEF SaveSummary, Completed
    <3>3. rows' \in [Workers -> SUBSET Attempts]
      BY <2>14 DEF SaveSummary
    <3>4. QED
      BY <2>14, <3>1, <3>2, <3>3 DEF SaveSummary
  <2>15. CASE Cluster(w)
    BY <2>15 DEF Cluster
  <2>16. CASE ClusterCommit(w)
    BY <2>16 DEF ClusterCommit
  <2>17. QED
    BY <1>1, <2>1, <2>2, <2>3, <2>4, <2>5, <2>6, <2>7, <2>8, <2>9, <2>10,
       <2>11, <2>12, <2>13, <2>14, <2>15, <2>16 DEF Step
<1>2. CASE Api
  <2>1. CASE Enqueue
    BY <2>1, KickAdds, JobNames DEF Enqueue
  <2>2. CASE Cancel
    BY <2>2 DEF Cancel
  <2>3. CASE KickCancelled
    BY <2>3, KickAdds, JobNames DEF KickCancelled
  <2>4. CASE DropSecret
    BY <2>4 DEF DropSecret
  <2>5. CASE DeleteRun
    BY <2>5 DEF DeleteRun
  <2>6. QED
    BY <1>2, <2>1, <2>2, <2>3, <2>4, <2>5 DEF Api
<1>3. CASE Environment
  <2> USE Parameters DEF Fault
  <2>1. ASSUME NEW w \in Workers, Crash(w) PROVE TypeOK'
    BY <2>1, RequeueAdds DEF Crash
  <2>2. ASSUME NEW w \in Workers, JobFails(w) PROVE TypeOK'
    BY <2>2, RaiseAdds DEF JobFails
  <2>3. ASSUME NEW w \in Workers, Redeliver(w) PROVE TypeOK'
    BY <2>3, RequeueAdds DEF Redeliver
  <2>4. CASE ApiCrash
    BY <2>4 DEF ApiCrash
  <2>5. CASE EarlySweep
    BY <2>5, KickAdds, JobNames DEF EarlySweep
  <2>6. CASE Sweep
    BY <2>6, KickAdds, JobNames DEF Sweep
  <2>7. QED
    BY <1>3, <2>1, <2>2, <2>3, <2>4, <2>5, <2>6 DEF Environment
<1>4. CASE UNCHANGED vars
  BY <1>4 DEF vars
<1>5. QED
  BY <1>1, <1>2, <1>3, <1>4 DEF Next

\* Every variable keeps its type: no counter of the broker, of the results or
\* of the faults leaves its range, and no handler a point of its code.
THEOREM TypeCorrect == Spec => []TypeOK
  BY TypeInit, TypeStep, PTL DEF Spec
-----------------------------------------------------------------------------
(* Lemmas about the counter *)

\* A set of attempts is finite, and only all of them are as many as all.
LEMMA AllSaved ==
    ASSUME NEW S \in SUBSET Attempts
    PROVE  /\ IsFiniteSet(S)
           /\ Cardinality(S) \in Nat
           /\ Cardinality(S) >= Cardinality(Attempts) => S = Attempts
<1>1. IsFiniteSet(Attempts)
  BY Parameters
<1>2. /\ IsFiniteSet(S)
      /\ Cardinality(S) <= Cardinality(Attempts)
      /\ Cardinality(Attempts) = Cardinality(S) => Attempts = S
  BY <1>1, FS_Subset
<1>3. Cardinality(S) \in Nat /\ Cardinality(Attempts) \in Nat
  BY <1>1, <1>2, FS_CardinalityType
<1>4. QED
  BY <1>2, <1>3

\* Saving an attempt that was not saved adds exactly one row.
LEMMA OneRowMore ==
    ASSUME TypeOK, NEW a \in Attempts, saved[a] = NotSaved,
           NEW r \in Results, saved' = [saved EXCEPT ![a] = r]
    PROVE  /\ SavedRows' = SavedRows \cup {a}
           /\ Cardinality(SavedRows') = Cardinality(SavedRows) + 1
<1>1. r # NotSaved
  BY DEF Results, NotSaved
<1>2. SavedRows' = SavedRows \cup {a}
  BY <1>1 DEF SavedRows, TypeOK
<1>3. a \notin SavedRows
  BY DEF SavedRows
<1>4. SavedRows \in SUBSET Attempts /\ IsFiniteSet(SavedRows)
  BY AllSaved DEF SavedRows
<1>5. QED
  BY <1>2, <1>3, <1>4, FS_AddElement

-----------------------------------------------------------------------------
(* Lemmas about kinds of steps *)

\* The points a handler of each kind of job goes through.
Fits(point, job) ==
    /\ point \in {"claim", "load_start", "read_saved", "kick_attempts"}
          => job = "start"
    /\ point \in {"load_plan", "check_saved", "call", "save"}
          => job \in Attempts
    /\ point \in {"load_final", "read_results", "save_summary", "cluster",
                   "cluster_commit"}
          => job = "finalize"

\* A step that touches neither the run's rows nor its status.
SameRun == UNCHANGED <<status, saved, done, summary>>

\* A step of a handler that leaves the run alone keeps the invariant, if it
\* sends a finalize job, or goes where one is sent, only for a frozen run, and
\* if what finalize reads is what is saved.
LEMMA HandlerStep ==
    ASSUME IInv, TypeOK', SameRun, UNCHANGED <<msg, canceller>>,
           NEW w \in Workers, ~At(w, "idle"),
           NEW point \in Points, pc' = [pc EXCEPT ![w] = point],
           Fits(point, msg[w].job),
           \A v \in Workers : v # w => rows'[v] = rows[v],
           point = "save_summary" => rows'[w] = SavedRows,
           point = "kick_finalize" => Frozen,
           \/ Frozen
           \/ \A m \in Messages :
                 m.job = "finalize" /\ msg[w].job # "finalize"
                     => stream'[m] = stream[m]
    PROVE  IInv'
<1> USE DEF IInv, SameRun
<1>1. SavedRows' = SavedRows /\ (Frozen <=> Frozen')
  BY DEF SavedRows, Frozen
<1>2. (DoneCountsSaved /\ CompletedIsWhole /\ SummaryMatchesSaved)'
  BY <1>1 DEF DoneCountsSaved, CompletedIsWhole, SummaryMatchesSaved
<1>3. \A v \in Workers : pc'[v] = IF v = w THEN point ELSE pc[v]
  BY DEF TypeOK
<1>4. FinalizeIsLast'
  <2>1. CASE Frozen
    BY <2>1, <1>1 DEF FinalizeIsLast
  <2>2. CASE ~Frozen
    <3>1. msg[w].job # "finalize" /\ ~At(w, "kick_finalize")
      BY <2>2 DEF FinalizeIsLast
    <3>2. \A m \in Messages : m.job = "finalize" => stream'[m] = 0
      BY <2>2, <3>1 DEF FinalizeIsLast
    <3>3. \A v \in Workers : pc'[v] # "idle"
             => msg'[v].job # "finalize" /\ pc'[v] # "kick_finalize"
      BY <2>2, <3>1, <1>3 DEF FinalizeIsLast, At
    <3>4. canceller' # "kick"
      BY <2>2 DEF FinalizeIsLast
    <3>5. QED
      BY <3>2, <3>3, <3>4 DEF FinalizeIsLast, At
  <2>3. QED
    BY <2>1, <2>2
<1>5. PointOfJob'
  BY <1>3 DEF PointOfJob, Fits
<1>6. ReadIsSaved'
  BY <1>1, <1>3 DEF ReadIsSaved
<1>7. QED
  BY <1>2, <1>4, <1>5, <1>6

\* A step of the API or of the environment that leaves the run and the workers
\* alone keeps the invariant, if it sends finalize only for a frozen run.
LEMMA MessageStep ==
    ASSUME IInv, TypeOK', SameRun, UNCHANGED <<pc, msg, rows>>,
           canceller' = "kick" => canceller = "kick",
           \/ Frozen
           \/ \A m \in Messages : m.job = "finalize" => stream'[m] = stream[m]
    PROVE  IInv'
<1> USE DEF IInv, SameRun
<1>1. SavedRows' = SavedRows /\ (Frozen <=> Frozen')
  BY DEF SavedRows, Frozen
<1>2. (DoneCountsSaved /\ CompletedIsWhole /\ SummaryMatchesSaved)'
  BY <1>1 DEF DoneCountsSaved, CompletedIsWhole, SummaryMatchesSaved
<1>3. FinalizeIsLast'
  BY <1>1 DEF FinalizeIsLast, At
<1>4. (PointOfJob /\ ReadIsSaved)'
  BY <1>1 DEF PointOfJob, ReadIsSaved
<1>5. QED
  BY <1>2, <1>3, <1>4
-----------------------------------------------------------------------------
(* The inductive invariant *)

\* Initially nothing is saved, counted, summarized or on its way.
LEMMA InvInit == Init => IInv
<1> SUFFICES ASSUME Init PROVE IInv
  OBVIOUS
<1>1. TypeOK
  BY TypeInit
<1>2. SavedRows = {}
  BY DEF Init, SavedRows
<1>3. DoneCountsSaved
  BY <1>2, FS_EmptySet DEF Init, DoneCountsSaved
<1>4. CompletedIsWhole /\ SummaryMatchesSaved
  BY DEF Init, CompletedIsWhole, SummaryMatchesSaved
<1>5. FinalizeIsLast
  BY DEF Init, FinalizeIsLast, At
<1>6. PointOfJob /\ ReadIsSaved
  BY DEF Init, PointOfJob, ReadIsSaved
<1>7. QED
  BY <1>1, <1>3, <1>4, <1>5, <1>6 DEF IInv

\* A worker that takes a message starts the handler of its job.
LEMMA InvTake ==
    ASSUME IInv, TypeOK', NEW w \in Workers, NEW m \in Messages, Take(w, m)
    PROVE  IInv'
<1> USE DEF Take, At, Goto, db, api, IInv
<1>1. SavedRows' = SavedRows /\ (Frozen <=> Frozen')
  BY DEF SavedRows, Frozen
<1>2. (DoneCountsSaved /\ CompletedIsWhole /\ SummaryMatchesSaved)'
  BY <1>1 DEF DoneCountsSaved, CompletedIsWhole, SummaryMatchesSaved
<1>3. /\ \A v \in Workers : pc'[v] = IF v = w THEN Entry(m.job) ELSE pc[v]
      /\ \A v \in Workers : msg'[v] = IF v = w THEN m ELSE msg[v]
      /\ \A k \in Messages : k # m => stream'[k] = stream[k]
  BY DEF TypeOK
<1>4. m.job \in Jobs
  BY DEF Messages
<1>5. FinalizeIsLast'
  <2>1. CASE Frozen
    BY <2>1, <1>1 DEF FinalizeIsLast
  <2>2. CASE ~Frozen
    <3>1. m.job # "finalize"
      BY <2>2 DEF FinalizeIsLast, Waiting
    <3>2. Entry(m.job) # "kick_finalize"
      BY DEF Entry
    <3>3. QED
      BY <2>2, <1>3, <3>1, <3>2 DEF FinalizeIsLast
  <2>3. QED
    BY <2>1, <2>2
<1>6. PointOfJob'
  BY <1>3, <1>4 DEF PointOfJob, Entry, Jobs
<1>7. ReadIsSaved'
  BY <1>1, <1>3 DEF ReadIsSaved, Entry
<1>8. QED
  BY <1>2, <1>5, <1>6, <1>7

\* start_run's claim moves a live run to running, and no other.
LEMMA InvClaim ==
    ASSUME IInv, TypeOK', NEW w \in Workers, Claim(w)
    PROVE  IInv'
<1> USE DEF IInv, Claim, At, Goto
<1>1. SavedRows' = SavedRows /\ (Frozen <=> Frozen')
  BY DEF SavedRows, Frozen, Live
<1>2. \/ status' = status
      \/ status \in Live /\ status' = "running"
  BY DEF Live
<1>3. (DoneCountsSaved /\ CompletedIsWhole /\ SummaryMatchesSaved)'
  BY <1>1, <1>2
  DEF DoneCountsSaved, CompletedIsWhole, SummaryMatchesSaved, Live, Terminal
<1>4. PICK point \in {"load_start", "idle"} : pc' = [pc EXCEPT ![w] = point]
  OBVIOUS
<1>5. \A v \in Workers : pc'[v] = IF v = w THEN point ELSE pc[v]
  BY <1>4 DEF TypeOK
<1>6. FinalizeIsLast'
  BY <1>1, <1>5 DEF FinalizeIsLast, api
<1>7. PointOfJob'
  BY <1>5 DEF PointOfJob
<1>8. ReadIsSaved'
  BY <1>1, <1>2, <1>5 DEF ReadIsSaved, Live
<1>9. QED
  BY <1>3, <1>6, <1>7, <1>8

\* save_attempt keeps the invariant: the row and the counter move together,
\* only while the run is running, and whoever makes it whole kicks finalize.
LEMMA InvSaveAttempt ==
    ASSUME IInv, TypeOK', NEW w \in Workers, SaveAttempt(w)
    PROVE  IInv'
<1> DEFINE a == msg[w].job
<1> USE DEF IInv
<1>1. /\ a \in Attempts
      /\ ~At(w, "idle") /\ pc[w] = "save"
      /\ UNCHANGED <<msg, rows, canceller, status, summary>>
  BY DEF SaveAttempt, RolledBack, PointOfJob, At, api
<1>2. Fits("idle", a)
  BY DEF Fits
<1>3. CASE status = "gone" \/ ~CanSave(a)
  <2>1. SameRun
    BY <1>1, <1>3 DEF SaveAttempt, RolledBack, SameRun, CanSave
  <2>2. pc' = [pc EXCEPT ![w] = "idle"]
    BY <1>3 DEF SaveAttempt, RolledBack, Raise, Goto, CanSave
  <2>3. \A m \in Messages : m.job # a => stream'[m] = stream[m]
    BY <1>3, RaiseAdds DEF SaveAttempt, RolledBack, CanSave
  <2>4. QED
    BY <1>1, <1>2, <2>1, <2>2, <2>3, HandlerStep DEF Points
<1>4. CASE status # "gone" /\ CanSave(a)
  <2>1. /\ saved[a] = NotSaved
        /\ status = "running"
        /\ saved' = [saved EXCEPT ![a] = result[w]]
        /\ done' = done + 1
        /\ UNCHANGED stream
    BY <1>4 DEF SaveAttempt, RolledBack, CanSave
  <2>2. PICK point \in {"fail", "kick_finalize", "idle"} :
          /\ pc' = [pc EXCEPT ![w] = point]
          /\ point = "kick_finalize" => Complete(done + 1)
    BY <1>4 DEF SaveAttempt, RolledBack, Goto
  <2>3. \A v \in Workers : pc'[v] = IF v = w THEN point ELSE pc[v]
    BY <2>2 DEF TypeOK
  <2>4. result[w] \in Results
    BY DEF TypeOK
  <2>5. /\ SavedRows' = SavedRows \cup {a}
        /\ Cardinality(SavedRows') = Cardinality(SavedRows) + 1
    BY <1>1, <2>1, <2>4, OneRowMore
  <2>6. DoneCountsSaved'
    BY <2>1, <2>5 DEF DoneCountsSaved
  <2>7. (CompletedIsWhole /\ SummaryMatchesSaved)'
    BY <1>1, <2>1 DEF CompletedIsWhole, SummaryMatchesSaved, Terminal
  <2>8. ~Frozen
    <3>1. a \notin SavedRows
      BY <2>1 DEF SavedRows
    <3>2. QED
      BY <1>1, <2>1, <3>1 DEF Frozen, Live
  <2>9. point = "kick_finalize" => SavedRows' = Attempts
    <3>1. SavedRows' \in SUBSET Attempts
      BY DEF SavedRows
    <3>2. QED
      BY <2>1, <2>2, <2>6, <3>1, AllSaved DEF Complete, DoneCountsSaved
  <2>10. FinalizeIsLast'
    <3>1. CASE point = "kick_finalize"
      BY <2>9, <3>1 DEF FinalizeIsLast, Frozen
    <3>2. CASE point # "kick_finalize"
      BY <1>1, <2>1, <2>3, <2>8, <3>2 DEF FinalizeIsLast, At
    <3>3. QED
      BY <3>1, <3>2
  <2>11. PointOfJob'
    BY <1>1, <2>3 DEF PointOfJob
  <2>12. ReadIsSaved'
    <3>1. \A v \in Workers : pc[v] # "save_summary"
      BY <2>8 DEF FinalizeIsLast, PointOfJob, At
    <3>2. QED
      BY <2>3, <3>1 DEF ReadIsSaved
  <2>13. QED
    BY <2>6, <2>7, <2>10, <2>11, <2>12
<1>5. QED
  BY <1>3, <1>4

\* fail_run freezes a live run, and whoever called it may kick finalize.
LEMMA InvFailRun ==
    ASSUME IInv, TypeOK', NEW w \in Workers, FailRun(w)
    PROVE  IInv'
<1> USE DEF IInv
<1>1. SavedRows' = SavedRows /\ UNCHANGED <<done, summary, msg, rows>>
  BY DEF FailRun, SavedRows
<1>2. /\ status' \notin Live
      /\ status \in Live => status' = "failed"
      /\ status \notin Live => status' = status
  BY DEF FailRun, Failed, Live
<1>3. PICK point \in {"kick_finalize", "idle"} :
        pc' = [pc EXCEPT ![w] = point]
  BY DEF FailRun, AfterFail, Goto
<1>4. \A v \in Workers : pc'[v] = IF v = w THEN point ELSE pc[v]
  BY <1>3 DEF TypeOK
<1>5. (DoneCountsSaved /\ CompletedIsWhole /\ SummaryMatchesSaved)'
  BY <1>1, <1>2
  DEF DoneCountsSaved, CompletedIsWhole, SummaryMatchesSaved, Live, Terminal
<1>6. FinalizeIsLast'
  BY <1>2 DEF FinalizeIsLast, Frozen
<1>7. (PointOfJob /\ ReadIsSaved)'
  BY <1>1, <1>2, <1>4 DEF PointOfJob, ReadIsSaved, Live
<1>8. QED
  BY <1>5, <1>6, <1>7

\* save_summary completes a live run only when every attempt is saved, as
\* finalize is on its way to no other, and it writes what is saved.
LEMMA InvSaveSummary ==
    ASSUME IInv, TypeOK', NEW w \in Workers, SaveSummary(w)
    PROVE  IInv'
<1> USE DEF IInv
<1>1. /\ ~At(w, "idle") /\ pc[w] = "save_summary"
      /\ msg[w].job = "finalize"
      /\ UNCHANGED <<saved, done, msg, canceller>>
      /\ SavedRows' = SavedRows
      /\ \A v \in Workers : v # w => rows'[v] = rows[v]
  BY DEF SaveSummary, PointOfJob, At, SavedRows, api, TypeOK
<1>2. Frozen
  BY <1>1 DEF FinalizeIsLast
<1>3. CASE status = "gone"
  <2>1. SameRun
    BY <1>1, <1>3 DEF SaveSummary, SameRun
  <2>2. pc' = [pc EXCEPT ![w] = "idle"]
    BY <1>3 DEF SaveSummary, Raise, Goto
  <2>3. QED
    BY <1>1, <1>2, <2>1, <2>2, HandlerStep DEF Points, Fits
<1>4. CASE status # "gone"
  <2>1. /\ summary' = rows[w]
        /\ status' = Completed(status)
    BY <1>4 DEF SaveSummary
  <2>2. PICK point \in {"cluster", "idle"} : pc' = [pc EXCEPT ![w] = point]
    BY <1>4 DEF SaveSummary, Goto
  <2>3. \A v \in Workers : pc'[v] = IF v = w THEN point ELSE pc[v]
    BY <2>2 DEF TypeOK
  <2>4. summary' = SavedRows
    BY <1>1, <1>4, <2>1 DEF ReadIsSaved
  <2>5. status' \in Terminal /\ (status \in Live => SavedRows = Attempts)
    BY <1>2, <1>4, <2>1
    DEF Frozen, TypeOK, Statuses, Live, Terminal, Completed
  <2>6. status' = "completed" => SavedRows = Attempts
    BY <2>1, <2>5 DEF CompletedIsWhole, Completed
  <2>7. (DoneCountsSaved /\ CompletedIsWhole /\ SummaryMatchesSaved)'
    BY <1>1, <2>4, <2>5, <2>6
    DEF DoneCountsSaved, CompletedIsWhole, SummaryMatchesSaved
  <2>8. FinalizeIsLast'
    BY <2>5 DEF FinalizeIsLast, Frozen, Terminal, Live
  <2>9. PointOfJob'
    BY <1>1, <2>3 DEF PointOfJob
  <2>10. ReadIsSaved'
    BY <1>1, <1>4, <2>3 DEF ReadIsSaved
  <2>11. QED
    BY <2>7, <2>8, <2>9, <2>10
<1>5. QED
  BY <1>3, <1>4

\* Every other step of a handler leaves the run alone.
LEMMA InvHandler ==
    ASSUME IInv, TypeOK', NEW w \in Workers,
           \/ LoadStart(w) \/ ReadSaved(w) \/ KickAttempt(w)
           \/ LoadPlan(w) \/ CheckSaved(w) \/ CallAgent(w) \/ KickFinalize(w)
           \/ LoadFinal(w) \/ ReadResults(w) \/ Cluster(w) \/ ClusterCommit(w)
    PROVE  IInv'
<1> USE DEF IInv, At, Goto, db, api, SameRun, Fits, Points
<1>1. CASE LoadStart(w) \/ LoadPlan(w) \/ CheckSaved(w) \/ CallAgent(w)
           \/ LoadFinal(w)
  <2>1. /\ SameRun /\ UNCHANGED <<msg, canceller, rows, stream>>
        /\ ~At(w, "idle")
    BY <1>1 DEF LoadStart, LoadPlan, CheckSaved, CallAgent, LoadFinal
  <2>2. PICK point \in {"idle", "read_saved", "fail", "check_saved", "call",
                        "save", "read_results"} :
          pc' = [pc EXCEPT ![w] = point] /\ Fits(point, msg[w].job)
    BY <1>1
    DEF LoadStart, LoadPlan, CheckSaved, CallAgent, LoadFinal, PointOfJob
  <2>3. QED
    BY <2>1, <2>2, HandlerStep
<1>2. CASE ReadSaved(w)
  <2>1. /\ SameRun /\ UNCHANGED <<msg, canceller, stream>>
        /\ ~At(w, "idle")
        /\ \A v \in Workers : v # w => rows'[v] = rows[v]
    BY <1>2 DEF ReadSaved, TypeOK
  <2>2. PICK point \in {"kick_finalize", "kick_attempts"} :
          /\ pc' = [pc EXCEPT ![w] = point]
          /\ point = "kick_finalize" => Frozen
    BY <1>2 DEF ReadSaved, Frozen
  <2>3. Fits(point, msg[w].job)
    BY <1>2 DEF ReadSaved, PointOfJob
  <2>4. QED
    BY <2>1, <2>2, <2>3, HandlerStep
<1>3. CASE KickAttempt(w)
  <2>1. PICK a \in rows[w] :
           /\ Kick(a)
           /\ rows' = [rows EXCEPT ![w] = @ \ {a}]
           /\ Goto(w, IF rows[w] = {a} THEN "idle" ELSE "kick_attempts")
    BY <1>3 DEF KickAttempt
  <2>2. /\ SameRun /\ UNCHANGED <<msg, canceller>>
        /\ ~At(w, "idle")
        /\ \A v \in Workers : v # w => rows'[v] = rows[v]
    BY <1>3, <2>1 DEF KickAttempt, TypeOK
  <2>3. PICK point \in {"idle", "kick_attempts"} :
          pc' = [pc EXCEPT ![w] = point] /\ Fits(point, msg[w].job)
    BY <1>3, <2>1 DEF KickAttempt, PointOfJob
  <2>4. a \in Jobs /\ a # "finalize"
    BY JobNames DEF TypeOK
  <2>5. \A m \in Messages : m.job = "finalize" => stream'[m] = stream[m]
    BY <2>1, <2>4, KickAdds DEF TypeOK
  <2>6. QED
    BY <2>2, <2>3, <2>5, HandlerStep
<1>4. CASE KickFinalize(w)
  <2>1. /\ SameRun /\ UNCHANGED <<msg, canceller, rows>>
        /\ ~At(w, "idle")
        /\ pc' = [pc EXCEPT ![w] = "idle"]
    BY <1>4 DEF KickFinalize
  <2>2. Frozen
    BY <1>4 DEF KickFinalize, FinalizeIsLast
  <2>3. QED
    BY <2>1, <2>2, HandlerStep
<1>5. CASE ReadResults(w)
  <2>1. /\ SameRun /\ UNCHANGED <<msg, canceller, stream>>
        /\ ~At(w, "idle")
        /\ \A v \in Workers : v # w => rows'[v] = rows[v]
        /\ rows'[w] = SavedRows
        /\ pc' = [pc EXCEPT ![w] = "save_summary"]
    BY <1>5 DEF ReadResults, TypeOK
  <2>2. Fits("save_summary", msg[w].job)
    BY <1>5 DEF ReadResults, PointOfJob
  <2>3. QED
    BY <2>1, <2>2, HandlerStep
<1>6. CASE Cluster(w) \/ ClusterCommit(w)
  <2>1. /\ SameRun /\ UNCHANGED <<msg, canceller, rows, stream>>
        /\ ~At(w, "idle")
    BY <1>6 DEF Cluster, ClusterCommit
  <2>2. PICK point \in {"idle", "cluster_commit"} :
          pc' = [pc EXCEPT ![w] = point] /\ Fits(point, msg[w].job)
    BY <1>6 DEF Cluster, ClusterCommit, PointOfJob
  <2>3. QED
    BY <2>1, <2>2, HandlerStep
<1>7. QED
  BY <1>1, <1>2, <1>3, <1>4, <1>5, <1>6

\* Deleting the run, with all its rows, freezes it.
LEMMA InvDeleteRun ==
    ASSUME IInv, TypeOK', DeleteRun
    PROVE  IInv'
<1> USE DEF DeleteRun, IInv
<1>1. SavedRows' = {}
  BY DEF SavedRows
<1>2. DoneCountsSaved'
  BY <1>1, FS_EmptySet DEF DoneCountsSaved
<1>3. (CompletedIsWhole /\ SummaryMatchesSaved)'
  BY DEF CompletedIsWhole, SummaryMatchesSaved
<1>4. FinalizeIsLast'
  BY DEF FinalizeIsLast, Frozen, Live
<1>5. (PointOfJob /\ ReadIsSaved)'
  BY DEF PointOfJob, ReadIsSaved, workers
<1>6. QED
  BY <1>2, <1>3, <1>4, <1>5

\* cancel_run freezes the run it is about to kick finalize for.
LEMMA InvCancel ==
    ASSUME IInv, TypeOK', Cancel
    PROVE  IInv'
<1> USE DEF Cancel, IInv
<1>1. SavedRows' = SavedRows
  BY DEF SavedRows
<1>2. (DoneCountsSaved /\ CompletedIsWhole /\ SummaryMatchesSaved)'
  BY <1>1
  DEF DoneCountsSaved, CompletedIsWhole, SummaryMatchesSaved, Live, Terminal
<1>3. FinalizeIsLast'
  BY DEF FinalizeIsLast, Frozen, Live
<1>4. (PointOfJob /\ ReadIsSaved)'
  BY <1>1 DEF PointOfJob, ReadIsSaved, workers, Live
<1>5. QED
  BY <1>2, <1>3, <1>4

\* The messages the API sends, a lost message and a dropped secret.
LEMMA InvApi ==
    ASSUME IInv, TypeOK', Api
    PROVE  IInv'
<1> USE DEF IInv, db, workers, SameRun
<1>1. CASE Enqueue
  <2>1. \A m \in Messages : m.job = "finalize" => stream'[m] = stream[m]
    BY <1>1, KickAdds, JobNames DEF Enqueue, TypeOK
  <2>2. QED
    BY <1>1, <2>1, MessageStep DEF Enqueue
<1>2. CASE KickCancelled
  <2>1. Frozen
    BY <1>2 DEF KickCancelled, FinalizeIsLast
  <2>2. QED
    BY <1>2, <2>1, MessageStep DEF KickCancelled
<1>3. CASE DropSecret
  BY <1>3, MessageStep DEF DropSecret, api
<1>4. QED
  BY <1>1, <1>2, <1>3, InvCancel, InvDeleteRun DEF Api

\* No fault of the environment leads a run astray.
LEMMA InvEnvironment ==
    ASSUME IInv, TypeOK', Environment
    PROVE  IInv'
<1> USE DEF IInv, db, workers, api, SameRun
<1>1. ASSUME NEW w \in Workers, Crash(w) \/ JobFails(w) PROVE IInv'
  <2>1. /\ SameRun /\ UNCHANGED <<msg, canceller, rows>>
        /\ ~At(w, "idle")
        /\ pc' = [pc EXCEPT ![w] = "idle"]
    BY <1>1 DEF Crash, JobFails, Raise, Goto
  <2>2. \A m \in Messages : m.job # msg[w].job => stream'[m] = stream[m]
    BY <1>1, RaiseAdds, RequeueAdds DEF Crash, JobFails
  <2>3. Fits("idle", msg[w].job) /\ "idle" \in Points
    BY DEF Fits, Points
  <2>4. QED
    BY <2>1, <2>2, <2>3, HandlerStep
<1>2. ASSUME NEW w \in Workers, Redeliver(w) PROVE IInv'
  <2>1. /\ SameRun /\ UNCHANGED <<pc, msg, canceller, rows>>
        /\ ~At(w, "idle")
    BY <1>2 DEF Redeliver
  <2>2. \A m \in Messages : m.job # msg[w].job => stream'[m] = stream[m]
    BY <1>2, RequeueAdds DEF Redeliver
  <2>3. \/ Frozen
        \/ \A m \in Messages : m.job = "finalize" => stream'[m] = stream[m]
    BY <2>1, <2>2 DEF FinalizeIsLast
  <2>4. QED
    BY <2>1, <2>3, MessageStep
<1>3. CASE ApiCrash
  BY <1>3, MessageStep DEF ApiCrash
<1>4. CASE EarlySweep \/ Sweep
  <2>1. \A m \in Messages : m.job = "finalize" => stream'[m] = stream[m]
    BY <1>4, KickAdds, JobNames DEF EarlySweep, Sweep, TypeOK
  <2>2. QED
    BY <1>4, <2>1, MessageStep DEF EarlySweep, Sweep
<1>5. QED
  BY <1>1, <1>2, <1>3, <1>4 DEF Environment

LEMMA InvStep ==
    ASSUME IInv, [Next]_vars
    PROVE  IInv'
<1>1. TypeOK'
  BY TypeStep DEF IInv
<1>2. ASSUME NEW w \in Workers, Step(w) PROVE IInv'
  BY <1>1, <1>2, InvTake, InvClaim, InvHandler, InvSaveAttempt, InvFailRun,
     InvSaveSummary DEF Step
<1>3. CASE UNCHANGED vars
  <2>1. SameRun /\ UNCHANGED <<pc, msg, rows, canceller, stream>>
    BY <1>3 DEF vars, db, workers, api, SameRun
  <2>2. QED
    BY <1>1, <2>1, MessageStep
<1>4. QED
  BY <1>1, <1>2, <1>3, InvApi, InvEnvironment DEF Next

\* The inductive invariant holds in every reachable state.
THEOREM Invariance == Spec => []IInv
  BY InvInit, InvStep, PTL DEF Spec

\* runs.attempts_done is the number of saved attempts, whatever is redelivered,
\* retried, swept or dropped, for every plan and every pool of workers.
THEOREM CounterCorrect == Spec => []DoneCountsSaved
<1>1. IInv => DoneCountsSaved
  BY DEF IInv
<1>2. QED
  BY <1>1, Invariance, PTL

\* Only a run all of whose attempts are saved completes, with its summary.
THEOREM CompletionCorrect == Spec => []CompletedIsWhole
<1>1. IInv => CompletedIsWhole
  BY DEF IInv
<1>2. QED
  BY <1>1, Invariance, PTL

\* A summary covers what is saved, and exists only when the run is over.
THEOREM SummaryCorrect == Spec => []SummaryMatchesSaved
<1>1. IInv => SummaryMatchesSaved
  BY DEF IInv
<1>2. QED
  BY <1>1, Invariance, PTL

\* Rows, counter, status and summary agree in every reachable state: an API
\* client never sees them tell two stories (save_attempt, save_summary, finish).
THEOREM RecordCorrect == Spec => []RecordHolds
<1>1. IInv => RecordHolds
  BY DEF IInv, RecordHolds
<1>2. QED
  BY <1>1, Invariance, PTL

\* A run finalize is on its way for never gets another result.
THEOREM FinalizeCorrect == Spec => []FinalizeIsLast
<1>1. IInv => FinalizeIsLast
  BY DEF IInv
<1>2. QED
  BY <1>1, Invariance, PTL
-----------------------------------------------------------------------------
(* The backend implements the life of a run *)

LEMMA LifecycleInit == Init => Lifecycle!Init
<1> SUFFICES ASSUME Init PROVE Lifecycle!Init
  OBVIOUS
<1>1. status = "queued" /\ summary = NoSummary
  BY DEF Init
<1>2. \A a \in Attempts : saved[a] = NotSaved
  BY DEF Init
<1>3. SavedRows = {}
  BY <1>2 DEF SavedRows
<1>4. QED
  BY <1>1, <1>3 DEF Lifecycle!Init, NoSummary, Lifecycle!NoSummary

\* Every step is a step of RunLifecycle, or leaves what it speaks of alone.
LEMMA LifecycleStep ==
    ASSUME IInv, [Next]_vars
    PROVE  [Lifecycle!Next]_(Lifecycle!vars)
<1> USE DEF Lifecycle!vars
<1>1. ASSUME UNCHANGED <<status, saved, summary>>
      PROVE  UNCHANGED Lifecycle!vars
  BY <1>1 DEF SavedRows
<1>2. ASSUME NEW w \in Workers, Claim(w)
      PROVE  [Lifecycle!Next]_(Lifecycle!vars)
  <2>1. SavedRows' = SavedRows /\ UNCHANGED summary
    BY <1>2 DEF Claim, SavedRows
  <2>2. \/ status' = status
        \/ status \in Live /\ status' = "running"
    BY <1>2 DEF Claim
  <2>3. QED
    BY <2>1, <2>2 DEF Lifecycle!Next, Lifecycle!Claim, Live, Lifecycle!Live
<1>3. ASSUME NEW w \in Workers, SaveAttempt(w)
      PROVE  [Lifecycle!Next]_(Lifecycle!vars)
  <2> DEFINE a == msg[w].job
  <2>1. a \in Attempts /\ UNCHANGED <<status, summary>>
    BY <1>3 DEF SaveAttempt, RolledBack, IInv, PointOfJob, At
  <2>2. CASE status = "gone" \/ ~CanSave(a)
    BY <1>1, <1>3, <2>1, <2>2 DEF SaveAttempt, RolledBack, CanSave
  <2>3. CASE status # "gone" /\ CanSave(a)
    <3>1. /\ saved[a] = NotSaved
          /\ status = "running"
          /\ saved' = [saved EXCEPT ![a] = result[w]]
      BY <1>3, <2>3 DEF SaveAttempt, RolledBack, CanSave
    <3>2. SavedRows' = SavedRows \cup {a}
      BY <2>1, <3>1, OneRowMore DEF IInv, TypeOK
    <3>3. a \notin SavedRows
      BY <3>1 DEF SavedRows
    <3>4. Lifecycle!Save(a)
      BY <2>1, <3>1, <3>2, <3>3 DEF Lifecycle!Save
    <3>5. QED
      BY <2>1, <3>4 DEF Lifecycle!Next
  <2>4. QED
    BY <2>2, <2>3
<1>4. ASSUME NEW w \in Workers, FailRun(w)
      PROVE  [Lifecycle!Next]_(Lifecycle!vars)
  <2>1. SavedRows' = SavedRows /\ UNCHANGED summary
    BY <1>4 DEF FailRun, SavedRows
  <2>2. \/ status' = status
        \/ status \in Live /\ status' = "failed"
    BY <1>4 DEF FailRun, Failed
  <2>3. QED
    BY <2>1, <2>2 DEF Lifecycle!Next, Lifecycle!Stop, Live, Lifecycle!Live
<1>5. ASSUME NEW w \in Workers, SaveSummary(w)
      PROVE  [Lifecycle!Next]_(Lifecycle!vars)
  <2>1. CASE status = "gone"
    BY <1>1, <1>5, <2>1 DEF SaveSummary
  <2>2. CASE status # "gone"
    <3>1. /\ SavedRows' = SavedRows
          /\ summary' = rows[w]
          /\ status' = Completed(status)
          /\ pc[w] = "save_summary"
      BY <1>5, <2>2 DEF SaveSummary, SavedRows, At
    <3>2. summary' = SavedRows
      BY <2>2, <3>1 DEF IInv, ReadIsSaved
    <3>3. CASE status \in Live
      <4>1. SavedRows = Attempts
        BY <3>1, <3>3 DEF IInv, FinalizeIsLast, Frozen, PointOfJob, At
      <4>2. Lifecycle!Complete
        BY <3>1, <3>2, <3>3, <4>1
        DEF Lifecycle!Complete, Completed, Live, Lifecycle!Live
      <4>3. QED
        BY <4>2 DEF Lifecycle!Next
    <3>4. CASE status \notin Live
      <4>1. status \in Terminal /\ status' = status
        BY <2>2, <3>1, <3>4
        DEF IInv, TypeOK, Statuses, Live, Terminal, Completed
      <4>2. Lifecycle!Summarize
        BY <3>1, <3>2, <4>1
        DEF Lifecycle!Summarize, Terminal, Lifecycle!Terminal
      <4>3. QED
        BY <4>2 DEF Lifecycle!Next
    <3>5. QED
      BY <3>3, <3>4
  <2>3. QED
    BY <2>1, <2>2
<1>6. ASSUME NEW w \in Workers, Step(w)
      PROVE  [Lifecycle!Next]_(Lifecycle!vars)
  <2>1. CASE Claim(w) \/ SaveAttempt(w) \/ FailRun(w) \/ SaveSummary(w)
    BY <2>1, <1>2, <1>3, <1>4, <1>5
  <2>2. CASE ~(Claim(w) \/ SaveAttempt(w) \/ FailRun(w) \/ SaveSummary(w))
    <3>1. UNCHANGED <<status, saved, summary>>
      BY <1>6, <2>2
      DEF Step, Take, LoadStart, ReadSaved, KickAttempt, LoadPlan, CheckSaved,
          CallAgent, KickFinalize, LoadFinal, ReadResults, Cluster,
          ClusterCommit, db
    <3>2. QED
      BY <1>1, <3>1
  <2>3. QED
    BY <2>1, <2>2
<1>7. CASE Api
  <2>1. CASE Cancel
    <3>1. SavedRows' = SavedRows
      BY <2>1 DEF Cancel, SavedRows
    <3>2. Lifecycle!Stop
      BY <2>1, <3>1 DEF Cancel, Lifecycle!Stop, Live, Lifecycle!Live
    <3>3. QED
      BY <3>2 DEF Lifecycle!Next
  <2>2. CASE DeleteRun
    <3>1. SavedRows' = {}
      BY <2>2 DEF DeleteRun, SavedRows
    <3>2. Lifecycle!Delete
      BY <2>2, <3>1
      DEF DeleteRun, Lifecycle!Delete, NoSummary, Lifecycle!NoSummary
    <3>3. QED
      BY <3>2 DEF Lifecycle!Next
  <2>3. CASE Enqueue \/ KickCancelled \/ DropSecret
    <3>1. UNCHANGED <<status, saved, summary>>
      BY <2>3 DEF Enqueue, KickCancelled, DropSecret, db
    <3>2. QED
      BY <1>1, <3>1
  <2>4. QED
    BY <1>7, <2>1, <2>2, <2>3 DEF Api
<1>8. CASE Environment
  <2>1. UNCHANGED <<status, saved, summary>>
    BY <1>8
    DEF Environment, Crash, JobFails, Redeliver, ApiCrash, EarlySweep, Sweep, db
  <2>2. QED
    BY <1>1, <2>1
<1>9. CASE UNCHANGED vars
  BY <1>1, <1>9 DEF vars, db
<1>10. QED
  BY <1>6, <1>7, <1>8, <1>9 DEF Next

\* The Redis backend implements RunLifecycle: no interleaving of jobs, no fault
\* and no deletion takes a run where a single process could not have.
THEOREM Refinement == Spec => ImplementsLifecycle
<1>1. Init => Lifecycle!Init
  BY LifecycleInit
<1>2. IInv /\ [Next]_vars => [Lifecycle!Next]_(Lifecycle!vars)
  BY LifecycleStep
<1>3. QED
  BY <1>1, <1>2, Invariance, PTL DEF Spec, ImplementsLifecycle, Lifecycle!Spec
=============================================================================
