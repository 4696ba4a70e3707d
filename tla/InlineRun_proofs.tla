--------------------------- MODULE InlineRun_proofs ---------------------------
(***************************************************************************)
(* What a run on the inline queue is said to be, and which calls and saves *)
(* may be under way, for every plan, concurrency and number of crashes and *)
(* errors.  The invariant has three parts: where the task is and what the  *)
(* run's status and cancel event may be then; which attempts are saved;    *)
(* and what a summary about to be saved covers.                            *)
(***************************************************************************)
EXTENDS InlineRun, FiniteSetTheorems, TLAPS

DoneCounts == done = Cardinality(SavedRows)

\* Before its run_suite, a task has no attempts and no verdict.
Early == {"slot", "claim", "load", "prepare", "fail"}

TaskInv ==
    /\ pc = "none" <=> cancel = "none"
    /\ starter = "enqueue" => pc = "none"
    /\ starter = "enqueue" \/ pc \in Early =>
          phase = Outside /\ status \notin {"completed", "failed"}
    /\ pc \in {"load", "fail", "prepare", "suite", "save_results"} => status # "queued"
    /\ pc # "suite" => \A a \in Attempts : phase[a] # "call"
    /\ pc \in {"save_results", "read_saved", "save_saved", "cluster"} =>
          \A a \in Attempts : phase[a] \notin {"save", "fail_run"}

\* A run that was stopped is over; one whose summary is built in memory was not.
StatusInv ==
    /\ cancel = "set" \/ canceller = "set" => status \notin Live
    /\ pc = "stopping" /\ ~aborted => status \notin Live
    /\ pc \in {"read_saved", "save_saved"} => status \notin Live
    /\ status = "completed" => pc \in {"none", "cluster"}
    /\ pc = "suite" /\ status = "failed" => cancel = "set"
    /\ pc = "save_results" =>
          status # "failed" /\ ~aborted /\ \A a \in Attempts : phase[a] = "over"

SavedInv ==
    /\ \A a \in Attempts : phase[a] \in {"queued", "call"} => saved[a] = NotSaved
    /\ pc = "suite" /\ ~aborted /\ status \in Live =>
          \A a \in Attempts :
             /\ phase[a] # "out"
             /\ phase[a] \in {"save", "over"} => a \in results
             /\ phase[a] = "over" => saved[a] # NotSaved

\* Without a restart an infrastructure error is on its way to fail the run.
InfraInv ==
    crashes = 0 =>
       /\ starter = "enqueue" \/ pc \in {"slot", "claim", "load", "prepare"} =>
             \A a \in Attempts : saved[a] = NotSaved
       /\ status \in Live =>
             \A a \in Attempts : saved[a] = "infra" => phase[a] = "fail_run" \/ aborted

CoverInv ==
    /\ pc = "save_results" /\ status \in Live => covered = Attempts /\ SavedRows = Attempts
    /\ pc = "save_saved" /\ status # "gone" => covered = SavedRows
    /\ status \in Live => summary = NoSummary

IInv ==
    /\ TypeOK /\ DoneCounts
    /\ TaskInv /\ StatusInv /\ SavedInv /\ InfraInv /\ CoverInv
    /\ CompletedIsWhole /\ SummaryMatchesUnlessCancelled /\ InfraErrorFailsRun
------------------------------------------------------------------------------
(* Lemmas about sets of attempts *)

Busy == In("call") \cup Delivering

LEMMA Subsets ==
    ASSUME NEW S \in SUBSET Attempts
    PROVE  /\ IsFiniteSet(S)
           /\ Cardinality(S) \in 0 .. Cardinality(Attempts)
           /\ Cardinality(Attempts) \in Nat
           /\ Cardinality(S) >= Cardinality(Attempts) => S = Attempts
<1>1. IsFiniteSet(Attempts)
  BY Parameters
<1>2. /\ IsFiniteSet(S)
      /\ Cardinality(S) <= Cardinality(Attempts)
      /\ Cardinality(Attempts) = Cardinality(S) => Attempts = S
  BY <1>1, FS_Subset
<1>3. Cardinality(S) \in Nat /\ Cardinality(Attempts) \in Nat
  BY <1>1, <1>2, FS_CardinalityType
<1>4. QED
  BY <1>2, <1>3

\* The attempts in flight become fewer, or one more when there was room.
LEMMA BusyShrinks ==
    ASSUME TypeOK, Busy' \subseteq Busy
    PROVE  Cardinality(In("call") \cup Delivering)' \in 0 .. Concurrency
<1>1. Busy \in SUBSET Attempts
  BY DEF Busy, In, Delivering
<1>2. IsFiniteSet(Busy) /\ Cardinality(Busy) \in 0 .. Concurrency
  BY <1>1, Subsets DEF TypeOK, Busy
<1>3. IsFiniteSet(Busy') /\ Cardinality(Busy') <= Cardinality(Busy)
  BY <1>2, FS_Subset
<1>4. Cardinality(Busy') \in Nat
  BY <1>3, FS_CardinalityType
<1>5. Cardinality(Busy') \in 0 .. Concurrency
  BY <1>2, <1>3, <1>4, Parameters
<1>6. QED
  BY <1>5 DEF Busy

LEMMA BusyGrows ==
    ASSUME TypeOK, FreeWorker, NEW a \in Attempts, Busy' = Busy \cup {a}
    PROVE  Cardinality(In("call") \cup Delivering)' \in 0 .. Concurrency
<1>1. Busy \in SUBSET Attempts
  BY DEF Busy, In, Delivering
<1>2. IsFiniteSet(Busy) /\ Cardinality(Busy) \in 0 .. Concurrency - 1
  BY <1>1, Subsets, Parameters DEF TypeOK, Busy, FreeWorker
<1>3. IsFiniteSet(Busy') /\ Cardinality(Busy') <= Cardinality(Busy) + 1
  BY <1>2, FS_AddElement
<1>4. Cardinality(Busy') \in Nat
  BY <1>3, FS_CardinalityType
<1>5. Cardinality(Busy') \in 0 .. Concurrency
  BY <1>2, <1>3, <1>4, Parameters
<1>6. QED
  BY <1>5 DEF Busy

\* Saving an attempt that was not saved adds exactly one row.
LEMMA OneRowMore ==
    ASSUME TypeOK, NEW a \in Attempts, saved[a] = NotSaved,
           NEW r \in Results, saved' = [saved EXCEPT ![a] = r]
    PROVE  /\ SavedRows' = SavedRows \cup {a}
           /\ Cardinality(SavedRows') = Cardinality(SavedRows) + 1
<1>1. r # NotSaved
  BY DEF Results, NotSaved
<1>2. SavedRows' = SavedRows \cup {a}
  BY <1>1 DEF SavedRows, TypeOK
<1>3. a \notin SavedRows
  BY DEF SavedRows
<1>4. SavedRows \in SUBSET Attempts /\ IsFiniteSet(SavedRows)
  BY Subsets DEF SavedRows
<1>5. QED
  BY <1>2, <1>3, <1>4, FS_AddElement
------------------------------------------------------------------------------
(* The invariant *)

LEMMA InitInv == Init => IInv
<1> SUFFICES ASSUME Init PROVE IInv
  OBVIOUS
<1>1. SavedRows = {} /\ Busy = {} /\ Cardinality(Attempts) \in Nat
  BY Subsets DEF Init, SavedRows, Busy, In, Delivering, Outside
<1>2. Cardinality(SavedRows) = 0 /\ Cardinality(Busy) = 0
  BY <1>1, FS_EmptySet
<1>3. TypeOK
  <2>1. /\ status \in Statuses /\ pc \in Points /\ summary \in (SUBSET Attempts) \cup {NoSummary}
        /\ done \in 0 .. Cardinality(Attempts) /\ covered \subseteq Attempts
        /\ results \subseteq Attempts
    BY <1>1 DEF Init, Statuses, Live, Points
  <2>2. /\ saved \in [Attempts -> Results \cup {NotSaved}]
        /\ result \in [Attempts -> Results] /\ phase \in [Attempts -> Phases]
    BY DEF Init, Results, Phases, Outside
  <2>3. /\ Cardinality(In("call") \cup Delivering) \in 0 .. Concurrency
        /\ crashes \in 0 .. MaxCrashes /\ errors \in 0 .. MaxErrors
    BY <1>2, Parameters DEF Init, Busy
  <2>4. QED
    BY <2>1, <2>2, <2>3 DEF Init, TypeOK
<1>4. DoneCounts
  BY <1>2 DEF Init, DoneCounts
<1>5. TaskInv /\ StatusInv /\ SavedInv
  BY DEF Init, TaskInv, StatusInv, SavedInv, Early, Outside, Live
<1>6. InfraInv /\ CoverInv
  BY DEF Init, InfraInv, CoverInv, NotSaved
<1>7. CompletedIsWhole /\ SummaryMatchesUnlessCancelled /\ InfraErrorFailsRun
  BY DEF Init, CompletedIsWhole, SummaryMatchesUnlessCancelled, InfraErrorFailsRun
<1>8. QED
  BY <1>3, <1>4, <1>5, <1>6, <1>7 DEF IInv

\* Steps that change neither the run's row nor its results, nor its attempts.
LEMMA QuietInv ==
    ASSUME IInv,
           GetSlot \/ Load \/ TaskRaises \/ SuiteStopped \/ ReadSaved \/ Cluster
             \/ Enqueue \/ SetCancel \/ SuiteCompletes
    PROVE  IInv'
<1> USE DEF IInv
<1>1. UNCHANGED <<status, saved, done, summary, buildable, phase, results, result, aborted, crashes>>
  BY DEF GetSlot, Load, TaskRaises, SuiteStopped, ReadSaved, Cluster, Enqueue,
         SetCancel, SuiteCompletes, db, suite, bounds
<1>2. SavedRows' = SavedRows
  BY <1>1 DEF SavedRows
<1>3. covered' \subseteq Attempts
  BY DEF TypeOK, GetSlot, Load, TaskRaises, SuiteStopped, ReadSaved, Cluster,
         Enqueue, SetCancel, SuiteCompletes, SavedRows
<1>4. TypeOK'
  <2>1. /\ findings' \in BOOLEAN /\ starter' \in {"enqueue", "done"}
        /\ canceller' \in {"none", "set", "done"}
        /\ cancel' \in {"none", "clear", "set"}
    BY DEF TypeOK, GetSlot, Load, TaskRaises, SuiteStopped, ReadSaved, Cluster,
           Enqueue, SetCancel, SuiteCompletes, db, handler, Leave
  <2>2. pc' \in Points
    BY DEF TypeOK, GetSlot, Load, TaskRaises, SuiteStopped, ReadSaved, Cluster,
           Enqueue, SetCancel, SuiteCompletes, Leave, Points
  <2>3. errors' \in 0 .. MaxErrors
    BY Parameters DEF TypeOK, GetSlot, Load, TaskRaises, SuiteStopped, ReadSaved, Cluster,
           Enqueue, SetCancel, SuiteCompletes, bounds
  <2>4. QED
    BY <1>1, <1>3, <2>1, <2>2, <2>3 DEF TypeOK, In, Delivering
<1>5. DoneCounts'
  BY <1>1, <1>2 DEF DoneCounts
<1>6. TaskInv'
  <2>1. CASE GetSlot
    BY <1>1, <2>1 DEF TaskInv, TypeOK, GetSlot, Leave, Early, Delivered, Delivering, In, handler, db, suite, bounds
  <2>2. CASE Load
    BY <1>1, <2>2 DEF TaskInv, TypeOK, Load, Leave, Early, Delivered, Delivering, In, handler, db, suite, bounds
  <2>3. CASE TaskRaises
    BY <1>1, <2>3 DEF TaskInv, TypeOK, TaskRaises, Leave, Early, Delivered, Delivering, In, handler, db, suite, bounds
  <2>4. CASE SuiteStopped
    BY <1>1, <2>4 DEF TaskInv, TypeOK, SuiteStopped, Leave, Early, Delivered, Delivering, In, handler, db, suite, bounds
  <2>5. CASE ReadSaved
    BY <1>1, <2>5 DEF TaskInv, TypeOK, ReadSaved, Leave, Early, Delivered, Delivering, In, handler, db, suite, bounds
  <2>6. CASE Cluster
    BY <1>1, <2>6 DEF TaskInv, TypeOK, Cluster, Leave, Early, Delivered, Delivering, In, handler, db, suite, bounds
  <2>7. CASE Enqueue
    BY <1>1, <2>7 DEF TaskInv, TypeOK, Enqueue, Leave, Early, Delivered, Delivering, In, handler, db, suite, bounds
  <2>8. CASE SetCancel
    BY <1>1, <2>8 DEF TaskInv, TypeOK, SetCancel, Leave, Early, Delivered, Delivering, In, handler, db, suite, bounds
  <2>9. CASE SuiteCompletes
    BY <1>1, <2>9 DEF TaskInv, TypeOK, SuiteCompletes, Leave, Early, Delivered, Delivering, In, handler, db, suite, bounds
  <2>10. QED
    BY <2>1, <2>2, <2>3, <2>4, <2>5, <2>6, <2>7, <2>8, <2>9
<1>7. StatusInv'
  <2>1. CASE GetSlot
    BY <1>1, <2>1 DEF StatusInv, TaskInv, TypeOK, GetSlot, Leave, Live, Early, handler, db, suite, bounds
  <2>2. CASE Load
    BY <1>1, <2>2 DEF StatusInv, TaskInv, TypeOK, Load, Leave, Live, Early, handler, db, suite, bounds
  <2>3. CASE TaskRaises
    BY <1>1, <2>3 DEF StatusInv, TaskInv, TypeOK, TaskRaises, Leave, Live, Early, handler, db, suite, bounds
  <2>4. CASE SuiteStopped
    BY <1>1, <2>4 DEF StatusInv, TaskInv, TypeOK, SuiteStopped, Leave, Live, Early, handler, db, suite, bounds
  <2>5. CASE ReadSaved
    BY <1>1, <2>5 DEF StatusInv, TaskInv, TypeOK, ReadSaved, Leave, Live, Early, handler, db, suite, bounds
  <2>6. CASE Cluster
    BY <1>1, <2>6 DEF StatusInv, TaskInv, TypeOK, Cluster, Leave, Live, Early, handler, db, suite, bounds
  <2>7. CASE Enqueue
    BY <1>1, <2>7 DEF StatusInv, TaskInv, TypeOK, Enqueue, Leave, Live, Early, handler, db, suite, bounds
  <2>8. CASE SetCancel
    BY <1>1, <2>8 DEF StatusInv, TaskInv, TypeOK, SetCancel, Leave, Live, Early, handler, db, suite, bounds
  <2>9. CASE SuiteCompletes
    BY <1>1, <2>9 DEF StatusInv, TaskInv, TypeOK, SuiteCompletes, Leave, Live, Early, handler, db, suite, bounds
  <2>10. QED
    BY <2>1, <2>2, <2>3, <2>4, <2>5, <2>6, <2>7, <2>8, <2>9
<1>8. SavedInv'
  BY <1>1 DEF SavedInv, GetSlot, Load, TaskRaises, SuiteStopped, ReadSaved, Cluster,
              Enqueue, SetCancel, SuiteCompletes, Leave
<1>9. InfraInv'
  BY <1>1 DEF InfraInv, TaskInv, handler, db, suite, bounds, GetSlot, Load, TaskRaises, SuiteStopped, ReadSaved, Cluster,
              Enqueue, SetCancel, SuiteCompletes, Leave
<1>10. CoverInv'
  BY <1>1, <1>2
  DEF CoverInv, SavedInv, StatusInv, TypeOK, SavedRows, GetSlot, Load, TaskRaises,
      SuiteStopped, ReadSaved, Cluster, Enqueue, SetCancel, SuiteCompletes, Leave
<1>11. (CompletedIsWhole /\ SummaryMatchesUnlessCancelled /\ InfraErrorFailsRun)'
  BY <1>1, <1>2 DEF CompletedIsWhole, SummaryMatchesUnlessCancelled, InfraErrorFailsRun
<1>12. QED
  BY <1>4, <1>5, <1>6, <1>7, <1>8, <1>9, <1>10, <1>11

\* The run's status changes and its results do not.
LEMMA StatusStepInv ==
    ASSUME IInv, Claim \/ FailRun \/ Cancel
    PROVE  IInv'
<1> USE DEF IInv
<1>1. /\ UNCHANGED <<saved, done, summary, findings, buildable, starter, phase,
                     results, result, aborted, covered, crashes, errors>>
      /\ SavedRows' = SavedRows
  BY DEF Claim, FailRun, Cancel, handler, suite, bounds, SavedRows
<1>2. /\ status \notin Live => status' = status
      /\ status' \in Live => status' = "running"
      /\ status' # status => status' \in {"running", "failed", "cancelled"}
  BY DEF Claim, FailRun, Cancel, Failed, Live
<1>3. TypeOK'
  <2>1. status' \in Statuses
    BY <1>2 DEF TypeOK, Statuses, Live, Terminal
  <2>2. /\ pc' \in Points /\ cancel' \in {"none", "clear", "set"}
        /\ canceller' \in {"none", "set", "done"}
    BY DEF TypeOK, Claim, FailRun, Cancel, Leave, Points, handler
  <2>3. QED
    BY <1>1, <2>1, <2>2 DEF TypeOK, In, Delivering
<1>4. DoneCounts'
  BY <1>1 DEF DoneCounts
<1>5. TaskInv'
  BY <1>1 DEF TaskInv, Claim, FailRun, Cancel, Leave, Early, Failed, Live, handler
<1>6. StatusInv'
  BY <1>1, <1>2
  DEF StatusInv, TaskInv, Early, Claim, FailRun, Cancel, Leave, Failed, Live, handler
<1>7. (SavedInv /\ InfraInv)'
  BY <1>1, <1>2
  DEF SavedInv, InfraInv, TaskInv, Claim, FailRun, Cancel, Leave, Live, handler
<1>8. (CoverInv /\ CompletedIsWhole /\ SummaryMatchesUnlessCancelled /\ InfraErrorFailsRun)'
  BY <1>1, <1>2
  DEF CoverInv, CompletedIsWhole, SummaryMatchesUnlessCancelled, InfraErrorFailsRun,
      StatusInv, Claim, FailRun, Cancel, Leave, Live
<1>9. QED
  BY <1>3, <1>4, <1>5, <1>6, <1>7, <1>8

\* run_suite is given what is saved and queues the rest.
LEMMA PrepareInv ==
    ASSUME IInv, Prepare
    PROVE  IInv'
<1> USE DEF IInv
<1>1. /\ pc = "prepare" /\ pc' = "suite" /\ results' = SavedRows /\ aborted' = FALSE
      /\ phase' = [a \in Attempts |-> IF saved[a] = NotSaved THEN "queued" ELSE "over"]
      /\ UNCHANGED <<status, saved, done, summary, findings, buildable, starter, canceller,
                     cancel, result, covered, crashes, errors>>
      /\ SavedRows' = SavedRows
  BY DEF Prepare, db, handler, bounds, SavedRows, ToRun
<1>2. TypeOK'
  <2>1. Busy' = {}
    BY <1>1 DEF Busy, In, Delivering
  <2>2. phase' \in [Attempts -> Phases] /\ results' \subseteq Attempts
    BY <1>1 DEF Phases, SavedRows
  <2>3. QED
    BY <1>1, <2>1, <2>2, BusyShrinks DEF TypeOK, Points
<1>3. (DoneCounts /\ TaskInv /\ StatusInv)'
  BY <1>1 DEF DoneCounts, TaskInv, StatusInv, Early
<1>4. (SavedInv /\ InfraInv)'
  BY <1>1 DEF SavedInv, InfraInv, SavedRows, NotSaved
<1>5. (CoverInv /\ CompletedIsWhole /\ SummaryMatchesUnlessCancelled /\ InfraErrorFailsRun)'
  BY <1>1
  DEF CoverInv, CompletedIsWhole, SummaryMatchesUnlessCancelled, InfraErrorFailsRun
<1>6. QED
  BY <1>2, <1>3, <1>4, <1>5

\* An attempt goes on and nothing is saved.
LEMMA AttemptInv ==
    ASSUME IInv, NEW a \in Attempts, StartAttempt(a) \/ AttemptReturns(a) \/ DeliveryRaises(a)
    PROVE  IInv'
<1> USE DEF IInv
<1>1. /\ UNCHANGED <<status, saved, done, summary, findings, buildable, starter, canceller,
                     cancel, pc, covered, crashes>>
      /\ SavedRows' = SavedRows
  BY DEF StartAttempt, AttemptReturns, DeliveryRaises, db, handler, bounds, SavedRows
<1>2. PICK p \in {"call", "save", "over"} :
        /\ phase' = [phase EXCEPT ![a] = p]
        /\ p = "call" => phase[a] = "queued" /\ FreeWorker /\ pc = "suite"
        /\ p = "save" => phase[a] = "call" /\ results' = results \cup {a}
        /\ p # "save" => UNCHANGED results
        /\ p = "over" => phase[a] \in {"save", "fail_run"} /\ aborted' = TRUE
        /\ p # "over" => UNCHANGED aborted
  BY DEF StartAttempt, AttemptReturns, DeliveryRaises, Move, Delivering, In
<1>3. \A b \in Attempts : phase'[b] = IF b = a THEN p ELSE phase[b]
  BY <1>2 DEF TypeOK
<1>4. TypeOK'
  <2>1. Cardinality(In("call") \cup Delivering)' \in 0 .. Concurrency
    <3>1. CASE p = "call"
      <4>1. Busy' = Busy \cup {a}
        BY <1>3, <3>1 DEF Busy, In, Delivering
      <4>2. QED
        BY <1>2, <3>1, <4>1, BusyGrows
    <3>2. CASE p # "call"
      <4>1. Busy' \subseteq Busy
        BY <1>2, <1>3, <3>2 DEF Busy, In, Delivering
      <4>2. QED
        BY <4>1, BusyShrinks
    <3>3. QED
      BY <3>1, <3>2
  <2>2. phase' \in [Attempts -> Phases] /\ results' \subseteq Attempts /\ aborted' \in BOOLEAN
    BY <1>2 DEF TypeOK, Phases
  <2>3. result' \in [Attempts -> Results] /\ errors' \in 0 .. MaxErrors
    BY Parameters DEF TypeOK, StartAttempt, AttemptReturns, DeliveryRaises, bounds
  <2>4. QED
    BY <1>1, <2>1, <2>2, <2>3 DEF TypeOK
<1>5. (DoneCounts /\ TaskInv /\ StatusInv)'
  BY <1>1, <1>2, <1>3 DEF DoneCounts, TaskInv, StatusInv, Outside
<1>6. SavedInv'
  BY <1>1, <1>2, <1>3 DEF SavedInv
<1>7. InfraInv'
  BY <1>1, <1>2, <1>3 DEF InfraInv, SavedInv, NotSaved
<1>8. (CoverInv /\ CompletedIsWhole /\ SummaryMatchesUnlessCancelled /\ InfraErrorFailsRun)'
  BY <1>1
  DEF CoverInv, CompletedIsWhole, SummaryMatchesUnlessCancelled, InfraErrorFailsRun
<1>9. QED
  BY <1>4, <1>5, <1>6, <1>7, <1>8

\* A result is saved only of a running run that has none, or dropped.
LEMMA SaveAttemptInv ==
    ASSUME IInv, NEW a \in Attempts, SaveAttempt(a)
    PROVE  IInv'
<1> USE DEF IInv
<1>1. /\ phase[a] = "save" /\ status # "gone"
      /\ UNCHANGED <<status, summary, findings, buildable, starter, canceller, cancel, pc,
                     results, result, aborted, covered, crashes, errors>>
  BY DEF SaveAttempt, handler, bounds
<1>2. PICK p \in {"fail_run", "over"} : phase' = [phase EXCEPT ![a] = p]
  BY DEF SaveAttempt, Move
<1>3. \A b \in Attempts : phase'[b] = IF b = a THEN p ELSE phase[b]
  BY <1>2 DEF TypeOK
<1>4. /\ Cardinality(In("call") \cup Delivering)' \in 0 .. Concurrency
      /\ phase' \in [Attempts -> Phases]
  <2>1. Busy' \subseteq Busy
    BY <1>1, <1>3 DEF Busy, In, Delivering
  <2>2. phase' \in [Attempts -> Phases]
    BY <1>2 DEF TypeOK, Phases
  <2>3. QED
    BY <2>1, <2>2, BusyShrinks
<1>5. CASE CanSave(a)
  <2>1. /\ saved[a] = NotSaved /\ status = "running"
        /\ saved' = [saved EXCEPT ![a] = result[a]] /\ done' = done + 1
        /\ p = IF result[a] = "infra" THEN "fail_run" ELSE "over"
        /\ result[a] \in Results
    BY <1>3, <1>5 DEF SaveAttempt, CanSave, Move, TypeOK
  <2>2. \A b \in Attempts : saved'[b] = IF b = a THEN result[a] ELSE saved[b]
    BY <2>1 DEF TypeOK
  <2>3. SavedRows' = SavedRows \cup {a} /\ Cardinality(SavedRows') = Cardinality(SavedRows) + 1
    BY <2>1, OneRowMore
  <2>4. done' \in 0 .. Cardinality(Attempts) /\ DoneCounts'
    <3>1. SavedRows' \in SUBSET Attempts
      BY DEF SavedRows
    <3>2. QED
      BY <2>1, <2>3, <3>1, Subsets DEF DoneCounts
  <2>5. TypeOK'
    <3>1. saved' \in [Attempts -> Results \cup {NotSaved}]
      BY <2>1 DEF TypeOK
    <3>2. QED
      BY <1>1, <1>4, <2>4, <3>1 DEF TypeOK
  <2>6. (TaskInv /\ StatusInv)'
    BY <1>1, <1>2, <1>3 DEF TaskInv, StatusInv, Outside
  <2>7. SavedInv'
    BY <1>1, <1>3, <2>1, <2>2 DEF SavedInv, Results, NotSaved
  <2>8. InfraInv'
    BY <1>1, <1>3, <2>1, <2>2 DEF InfraInv, TaskInv, Outside, Early
  <2>9. (CoverInv /\ CompletedIsWhole /\ SummaryMatchesUnlessCancelled /\ InfraErrorFailsRun)'
    BY <1>1, <2>1
    DEF CoverInv, CompletedIsWhole, SummaryMatchesUnlessCancelled, InfraErrorFailsRun,
        StatusInv, Live, TaskInv
  <2>10. QED
    BY <2>4, <2>5, <2>6, <2>7, <2>8, <2>9
<1>6. CASE ~CanSave(a)
  <2>1. UNCHANGED <<saved, done>> /\ SavedRows' = SavedRows /\ p = "over"
    BY <1>3, <1>6 DEF SaveAttempt, Move, SavedRows, TypeOK
  <2>2. pc = "suite" /\ status \in Live => saved[a] # NotSaved
    BY <1>6 DEF CanSave, TaskInv, Live
  <2>3. (TypeOK /\ DoneCounts)'
    BY <1>1, <1>4, <2>1 DEF TypeOK, DoneCounts
  <2>4. (TaskInv /\ StatusInv)'
    BY <1>1, <1>2, <1>3 DEF TaskInv, StatusInv, Outside
  <2>5. SavedInv'
    BY <1>1, <1>3, <2>1, <2>2 DEF SavedInv
  <2>6. InfraInv'
    BY <1>1, <1>3, <2>1 DEF InfraInv
  <2>7. (CoverInv /\ CompletedIsWhole /\ SummaryMatchesUnlessCancelled /\ InfraErrorFailsRun)'
    BY <1>1, <2>1
    DEF CoverInv, CompletedIsWhole, SummaryMatchesUnlessCancelled, InfraErrorFailsRun
  <2>8. QED
    BY <2>3, <2>4, <2>5, <2>6, <2>7
<1>7. QED
  BY <1>5, <1>6

\* An infrastructure error fails the run and sets its cancel event.
LEMMA FailFromAttemptInv ==
    ASSUME IInv, NEW a \in Attempts, FailFromAttempt(a)
    PROVE  IInv'
<1> USE DEF IInv
<1>1. /\ phase[a] = "fail_run" /\ phase' = [phase EXCEPT ![a] = "over"]
      /\ status' = Failed(status)
      /\ cancel' = IF cancel = "none" THEN "none" ELSE "set"
      /\ UNCHANGED <<saved, done, summary, findings, buildable, starter, canceller, pc,
                     results, result, aborted, covered, crashes, errors>>
      /\ SavedRows' = SavedRows
  BY DEF FailFromAttempt, Move, handler, bounds, SavedRows
<1>2. /\ status' \notin Live /\ (status \notin Live => status' = status)
      /\ status' # status => status' = "failed"
      /\ status' \in Statuses
  BY <1>1 DEF Failed, Live, Statuses, Terminal, TypeOK
<1>3. \A b \in Attempts : phase'[b] = IF b = a THEN "over" ELSE phase[b]
  BY <1>1 DEF TypeOK
<1>4. TypeOK'
  <2>1. Busy' \subseteq Busy
    BY <1>3 DEF Busy, In, Delivering
  <2>2. phase' \in [Attempts -> Phases]
    BY <1>1 DEF TypeOK, Phases
  <2>3. QED
    BY <1>1, <1>2, <2>1, <2>2, BusyShrinks DEF TypeOK
<1>5. (DoneCounts /\ TaskInv)'
  BY <1>1, <1>2, <1>3 DEF DoneCounts, TaskInv, Outside, TypeOK
<1>6. StatusInv'
  BY <1>1, <1>2, <1>3 DEF StatusInv, TaskInv, TypeOK
<1>7. (SavedInv /\ InfraInv)'
  BY <1>1, <1>2, <1>3 DEF SavedInv, InfraInv
<1>8. (CoverInv /\ CompletedIsWhole /\ SummaryMatchesUnlessCancelled /\ InfraErrorFailsRun)'
  BY <1>1, <1>2
  DEF CoverInv, CompletedIsWhole, SummaryMatchesUnlessCancelled, InfraErrorFailsRun, Live
<1>9. QED
  BY <1>4, <1>5, <1>6, <1>7, <1>8

\* run_suite stops: calls end, deliveries go on.
LEMMA StopInv ==
    ASSUME IInv, SuiteStops \/ SuiteBreaks
    PROVE  IInv'
<1> USE DEF IInv
<1>1. /\ pc = "suite" /\ pc' \in {"stopping", "crash"}
      /\ cancel = "set" \/ aborted
      /\ \A a \in Attempts :
            phase'[a] = IF phase[a] \in {"save", "fail_run"} THEN phase[a] ELSE "over"
      /\ phase' \in [Attempts -> Phases]
      /\ UNCHANGED <<status, saved, done, summary, findings, buildable, starter, canceller,
                     cancel, results, result, aborted, covered, crashes, errors>>
      /\ SavedRows' = SavedRows
  BY DEF SuiteStops, SuiteBreaks, Stopped, Delivering, In, db, handler, bounds, SavedRows,
         TypeOK, Phases
<1>2. TypeOK'
  <2>1. Busy' \subseteq Busy
    BY <1>1 DEF Busy, In, Delivering
  <2>2. QED
    BY <1>1, <2>1, BusyShrinks DEF TypeOK, Points
<1>3. (DoneCounts /\ TaskInv /\ StatusInv)'
  BY <1>1 DEF DoneCounts, TaskInv, StatusInv, Early
<1>4. (SavedInv /\ InfraInv)'
  BY <1>1 DEF SavedInv, InfraInv
<1>5. (CoverInv /\ CompletedIsWhole /\ SummaryMatchesUnlessCancelled /\ InfraErrorFailsRun)'
  BY <1>1
  DEF CoverInv, CompletedIsWhole, SummaryMatchesUnlessCancelled, InfraErrorFailsRun
<1>6. QED
  BY <1>2, <1>3, <1>4, <1>5

\* A live run's summary is the one of a whole run; any other run's is of what
\* is saved, but for a cancelled one.
LEMMA SaveSummaryInv ==
    ASSUME IInv, SaveSummary
    PROVE  IInv'
<1> USE DEF IInv
<1>1. /\ pc \in {"save_results", "save_saved"} /\ pc' \in {"crash", "none", "cluster"}
      /\ UNCHANGED <<saved, done, findings, buildable, starter, canceller, phase, results,
                     result, aborted, covered, crashes, errors>>
      /\ SavedRows' = SavedRows
      /\ pc' = "none" <=> cancel' = "none"
      /\ cancel' \in {"none", cancel}
  BY DEF SaveSummary, Leave, handler, suite, bounds, SavedRows, TaskInv
<1>2. CASE status = "gone"
  <2>1. UNCHANGED <<status, summary>> /\ pc' # "cluster"
    BY <1>2 DEF SaveSummary, Leave
  <2>2. TypeOK'
    BY <1>1, <2>1 DEF TypeOK, In, Delivering, Points
  <2>3. (DoneCounts /\ TaskInv /\ StatusInv)'
    BY <1>1, <1>2, <2>1 DEF DoneCounts, TaskInv, StatusInv, Early, Live
  <2>4. (SavedInv /\ InfraInv /\ CoverInv)'
    BY <1>1, <1>2, <2>1 DEF SavedInv, InfraInv, CoverInv, TaskInv, Live
  <2>5. (CompletedIsWhole /\ SummaryMatchesUnlessCancelled /\ InfraErrorFailsRun)'
    BY <1>1, <2>1 DEF CompletedIsWhole, SummaryMatchesUnlessCancelled, InfraErrorFailsRun
  <2>6. QED
    BY <2>2, <2>3, <2>4, <2>5
<1>3. CASE status # "gone"
  <2>1. /\ summary' = covered /\ status' = Completed(status)
        /\ pc' = IF status' = "completed" THEN "cluster" ELSE "none"
    BY <1>3 DEF SaveSummary, Leave
  <2>2. /\ status \in Live => status' = "completed"
        /\ status \notin Live => status' = status
        /\ status' \notin Live /\ status' \in Statuses
    BY <2>1 DEF Completed, Live, Statuses, Terminal, TypeOK
  <2>3. status # "completed"
    BY <1>1 DEF StatusInv
  <2>4. status' = "completed" => covered = Attempts /\ SavedRows = Attempts /\ pc = "save_results"
    BY <1>1, <2>2, <2>3 DEF CoverInv, StatusInv
  <2>5. TypeOK'
    BY <1>1, <2>1, <2>2 DEF TypeOK, In, Delivering, Points
  <2>6. (DoneCounts /\ TaskInv /\ StatusInv)'
    BY <1>1, <2>1, <2>2, <2>3 DEF DoneCounts, TaskInv, StatusInv, Early
  <2>7. (SavedInv /\ InfraInv /\ CoverInv)'
    BY <1>1, <2>1, <2>2 DEF SavedInv, InfraInv, CoverInv, TaskInv
  <2>8. (CompletedIsWhole /\ SummaryMatchesUnlessCancelled)'
    BY <1>1, <1>3, <2>1, <2>2, <2>4
    DEF CompletedIsWhole, SummaryMatchesUnlessCancelled, CoverInv, StatusInv, TypeOK,
        Statuses, Live, Terminal
  <2>9. InfraErrorFailsRun'
    BY <1>1, <2>2, <2>3, <2>4 DEF InfraErrorFailsRun, InfraInv, StatusInv
  <2>10. QED
    BY <2>5, <2>6, <2>7, <2>8, <2>9
<1>4. QED
  BY <1>2, <1>3

\* Deleting a run takes everything with it.
LEMMA DeleteRunInv ==
    ASSUME IInv, DeleteRun
    PROVE  IInv'
<1> USE DEF IInv
<1>1. /\ status' = "gone" /\ summary' = NoSummary /\ findings' = FALSE /\ done' = 0
      /\ saved' = [a \in Attempts |-> NotSaved]
      /\ UNCHANGED <<buildable, starter, canceller, cancel, pc, phase, results, result,
                     aborted, covered, crashes, errors>>
  BY DEF DeleteRun, handler, suite, bounds
<1>2. SavedRows' = {} /\ Cardinality(SavedRows') = 0 /\ 0 \in 0 .. Cardinality(Attempts)
  BY <1>1, Subsets, FS_EmptySet DEF SavedRows
<1>3. TypeOK'
  <2>1. saved' \in [Attempts -> Results \cup {NotSaved}] /\ status' \in Statuses
    BY <1>1 DEF Statuses
  <2>2. QED
    BY <1>1, <1>2, <2>1 DEF TypeOK, In, Delivering
<1>4. (DoneCounts /\ TaskInv /\ StatusInv)'
  BY <1>1, <1>2 DEF DoneCounts, TaskInv, StatusInv, Live
<1>5. (SavedInv /\ InfraInv /\ CoverInv)'
  BY <1>1 DEF SavedInv, InfraInv, CoverInv, Live, NotSaved
<1>6. (CompletedIsWhole /\ SummaryMatchesUnlessCancelled /\ InfraErrorFailsRun)'
  BY <1>1 DEF CompletedIsWhole, SummaryMatchesUnlessCancelled, InfraErrorFailsRun
<1>7. QED
  BY <1>3, <1>4, <1>5, <1>6

\* The next process knows of the run what the database says.
LEMMA CrashInv ==
    ASSUME IInv, CrashAndRestart
    PROVE  IInv'
<1> USE DEF IInv
<1>1. /\ crashes' = crashes + 1 /\ crashes' \in 0 .. MaxCrashes /\ crashes' # 0
      /\ starter' = "done" /\ canceller' # "set" /\ canceller' \in {"none", "set", "done"}
      /\ buildable' \in BOOLEAN
      /\ phase' = Outside /\ results' = {} /\ covered' = {} /\ aborted' = FALSE
      /\ result' \in [Attempts -> Results]
      /\ UNCHANGED <<status, saved, done, summary, findings, errors>>
      /\ SavedRows' = SavedRows
  BY Parameters DEF CrashAndRestart, db, SavedRows, TypeOK, Results
<1>2. /\ status \in Live => pc' = "slot" /\ cancel' = "clear"
      /\ status \notin Live => pc' = "none" /\ cancel' = "none"
  BY DEF CrashAndRestart, Stale, Leave
<1>3. \A a \in Attempts : phase'[a] = "out"
  BY <1>1 DEF Outside
<1>4. TypeOK'
  <2>1. Busy' \subseteq Busy
    BY <1>3 DEF Busy, In, Delivering
  <2>2. phase' \in [Attempts -> Phases]
    BY <1>1 DEF Outside, Phases
  <2>3. pc' \in Points /\ cancel' \in {"none", "clear", "set"}
    BY <1>2 DEF Points
  <2>4. QED
    BY <1>1, <2>1, <2>2, <2>3, BusyShrinks DEF TypeOK
<1>5. (DoneCounts /\ TaskInv)'
  BY <1>1, <1>2, <1>3 DEF DoneCounts, TaskInv, Early, Live
<1>6. (StatusInv /\ SavedInv /\ InfraInv /\ CoverInv)'
  BY <1>1, <1>2, <1>3 DEF StatusInv, SavedInv, InfraInv, CoverInv, Live
<1>7. (CompletedIsWhole /\ SummaryMatchesUnlessCancelled /\ InfraErrorFailsRun)'
  BY <1>1 DEF CompletedIsWhole, SummaryMatchesUnlessCancelled, InfraErrorFailsRun
<1>8. QED
  BY <1>4, <1>5, <1>6, <1>7

LEMMA StutterInv == ASSUME IInv, UNCHANGED vars PROVE IInv'
<1>1. SavedRows' = SavedRows
  BY DEF vars, db, SavedRows
<1>2. (TypeOK /\ DoneCounts /\ TaskInv /\ StatusInv)'
  BY <1>1
  DEF vars, db, suite, handler, bounds, IInv, TypeOK, In, Delivering, DoneCounts, TaskInv,
      StatusInv
<1>3. (SavedInv /\ InfraInv /\ CoverInv)'
  BY <1>1 DEF vars, db, suite, handler, bounds, IInv, SavedInv, InfraInv, CoverInv
<1>4. (CompletedIsWhole /\ SummaryMatchesUnlessCancelled /\ InfraErrorFailsRun)'
  BY <1>1
  DEF vars, db, bounds, IInv, CompletedIsWhole, SummaryMatchesUnlessCancelled,
      InfraErrorFailsRun
<1>5. QED
  BY <1>2, <1>3, <1>4 DEF IInv

LEMMA NextInv == IInv /\ [Next]_vars => IInv'
BY QuietInv, StatusStepInv, PrepareInv, AttemptInv, SaveAttemptInv, FailFromAttemptInv,
   StopInv, SaveSummaryInv, DeleteRunInv, CrashInv, StutterInv
DEF Next, Task, Worker

THEOREM Invariance == Spec => []IInv
BY InitInv, NextInv, PTL DEF Spec

\* A completed run is whole, an infrastructure error fails the run, and only a
\* cancelled run's summary may cover another set than what is saved.
THEOREM VerdictCorrect == Spec => []VerdictHolds
<1>1. IInv => VerdictHolds
  BY DEF IInv, VerdictHolds
<1>2. QED
  BY <1>1, Invariance, PTL

\* No call or save goes on behind a summary, and no attempt that is saved is
\* called again, after any number of restarts.
THEOREM CallsCorrect == Spec => []CallsHold
<1>1. IInv => CallsHold
  BY DEF IInv, TaskInv, SavedInv, CallsHold, NothingInFlight, SavedNotCalledAgain, In,
         Delivering
<1>2. QED
  BY <1>1, Invariance, PTL

\* For any plan, any concurrency, any number of restarts and of refused writes, a
\* run is what its row says, and its calls and saves are over when that is said.
THEOREM RunCorrect == Spec => []RunHolds
BY VerdictCorrect, CallsCorrect, PTL DEF RunHolds
------------------------------------------------------------------------------
(* The refinement.  What IInv says of a cancelled run's summary is not       *)
(* enough: results built in memory never miss an attempt that is saved.      *)

MemoryInv ==
    /\ pc = "suite" => \A a \in Attempts :
          phase[a] \in {"save", "fail_run", "over"} \/ saved[a] # NotSaved => a \in results
    /\ pc = "save_results" => SavedRows \subseteq covered

LEMMA InitMemory == Init => MemoryInv
BY DEF Init, MemoryInv

LEMMA NextMemory ==
    ASSUME IInv, MemoryInv, [Next]_vars
    PROVE  MemoryInv'
<1> USE DEF IInv
<1>1. CASE Task
  <2>1. /\ UNCHANGED saved /\ SavedRows' = SavedRows
        /\ pc' = "suite" => pc = "prepare"
        /\ pc' = "save_results" => pc = "suite" /\ SuiteCompletes
    BY <1>1
    DEF Task, GetSlot, Claim, Load, FailRun, TaskRaises, Prepare, SuiteCompletes, SuiteStops,
        SuiteBreaks, SuiteStopped, ReadSaved, SaveSummary, Cluster, Leave, db, SavedRows
  <2>2. CASE pc' = "suite"
    <3>1. Prepare
      BY <1>1, <2>1, <2>2
      DEF Task, GetSlot, Claim, Load, FailRun, TaskRaises, SuiteCompletes, SuiteStops,
          SuiteBreaks, SuiteStopped, ReadSaved, SaveSummary, Cluster, Leave
    <3>2. results' = SavedRows
          /\ phase' = [a \in Attempts |-> IF saved[a] = NotSaved THEN "queued" ELSE "over"]
      BY <3>1 DEF Prepare, ToRun, SavedRows
    <3>3. QED
      BY <2>1, <2>2, <3>2 DEF MemoryInv, SavedRows
  <2>3. CASE pc' = "save_results"
    <3>1. pc = "suite" /\ covered' = results
      BY <2>1, <2>3 DEF SuiteCompletes
    <3>2. QED
      BY <2>1, <2>3, <3>1 DEF MemoryInv, SavedRows
  <2>4. QED
    BY <2>2, <2>3 DEF MemoryInv
<1>2. ASSUME NEW a \in Attempts, Worker(a) PROVE MemoryInv'
  <2>1. UNCHANGED <<pc, covered>>
    BY <1>2
    DEF Worker, StartAttempt, AttemptReturns, SaveAttempt, DeliveryRaises, FailFromAttempt
  <2>2. pc = "save_results" => UNCHANGED saved
    BY <1>2
    DEF Worker, StartAttempt, AttemptReturns, SaveAttempt, DeliveryRaises, FailFromAttempt,
        TaskInv, db
  <2>3. /\ \A b \in Attempts \ {a} : phase'[b] = phase[b] /\ saved'[b] = saved[b]
        /\ phase'[a] \in {"save", "fail_run", "over"} =>
              phase[a] \in {"save", "fail_run"} \/ a \in results'
        /\ saved'[a] # saved[a] => phase[a] = "save"
        /\ results \subseteq results'
    BY <1>2
    DEF Worker, StartAttempt, AttemptReturns, SaveAttempt, DeliveryRaises, FailFromAttempt,
        Move, TypeOK, db, Delivering, In
  <2>4. QED
    BY <2>1, <2>2, <2>3 DEF MemoryInv, SavedRows
<1>3. CASE Enqueue \/ CrashAndRestart
  <2>1. pc' # "suite" /\ pc' # "save_results"
    BY <1>3 DEF Enqueue, CrashAndRestart, Leave
  <2>2. QED
    BY <2>1 DEF MemoryInv
<1>4. CASE Cancel \/ SetCancel \/ UNCHANGED vars
  <2>1. UNCHANGED <<pc, saved, phase, results, covered>>
    BY <1>4 DEF Cancel, SetCancel, vars, db, suite
  <2>2. QED
    BY <2>1 DEF MemoryInv, SavedRows
<1>5. CASE DeleteRun
  <2>1. saved' = [a \in Attempts |-> NotSaved] /\ UNCHANGED <<pc, phase, results, covered>>
    BY <1>5 DEF DeleteRun, suite
  <2>2. QED
    BY <2>1 DEF MemoryInv, SavedRows
<1>6. QED
  BY <1>1, <1>2, <1>3, <1>4, <1>5 DEF Next

LEMMA MemoryInvariance == Spec => []MemoryInv
BY InitMemory, NextMemory, Invariance, PTL DEF Spec

LEMMA LifecycleInit == Init => Lifecycle!Init
BY DEF Init, Lifecycle!Init, SavedRows, NoSummary, Lifecycle!NoSummary

\* save_summary completes a live run that is whole, or summarizes one that is
\* over: from the database, or from memory if it was cancelled meanwhile.
LEMMA SummaryStep ==
    ASSUME IInv, IInv', MemoryInv, SaveSummary
    PROVE  [Lifecycle!InMemoryNext]_(Lifecycle!vars)
<1>1. SavedRows' = SavedRows /\ SavedRows \subseteq Attempts /\ covered \subseteq Attempts
  BY DEF SaveSummary, SavedRows, IInv, TypeOK
<1>2. CASE status = "gone"
  BY <1>1, <1>2 DEF SaveSummary, Lifecycle!vars
<1>3. CASE status # "gone"
  <2>1. summary' = covered /\ status' = Completed(status)
    BY <1>3 DEF SaveSummary
  <2>2. CASE status \in Live
    <3>1. status' = "completed"
      BY <2>1, <2>2 DEF Completed
    <3>2. SavedRows = Attempts /\ summary' = Attempts
      BY <1>1, <3>1 DEF IInv, CompletedIsWhole
    <3>3. Lifecycle!Complete
      BY <1>1, <2>2, <3>1, <3>2 DEF Lifecycle!Complete, Live, Lifecycle!Live
    <3>4. QED
      BY <3>3 DEF Lifecycle!InMemoryNext, Lifecycle!Next
  <2>3. CASE status \notin Live
    <3>1. status' = status /\ status \in Terminal
      BY <1>3, <2>1, <2>3 DEF Completed, IInv, TypeOK, Statuses
    <3>2. CASE summary' = SavedRows
      <4>1. Lifecycle!Summarize
        BY <1>1, <3>1, <3>2 DEF Lifecycle!Summarize, Terminal, Lifecycle!Terminal
      <4>2. QED
        BY <4>1 DEF Lifecycle!InMemoryNext, Lifecycle!Next
    <3>3. CASE summary' # SavedRows
      <4>1. pc = "save_results"
        BY <1>3, <2>1, <3>3 DEF SaveSummary, IInv, CoverInv
      <4>2. SavedRows \subseteq covered
        BY <4>1 DEF MemoryInv
      <4>3. status # "failed" /\ status # "completed"
        BY <4>1 DEF IInv, StatusInv
      <4>4. status = "cancelled"
        BY <3>1, <4>3 DEF Terminal
      <4>5. /\ covered \ SavedRows \in SUBSET (Attempts \ SavedRows)
            /\ summary' = SavedRows \cup (covered \ SavedRows)
        BY <1>1, <2>1, <4>2
      <4>6. Lifecycle!SummarizeInMemory
        BY <1>1, <3>1, <4>4, <4>5 DEF Lifecycle!SummarizeInMemory
      <4>7. QED
        BY <4>6 DEF Lifecycle!InMemoryNext
    <3>4. QED
      BY <3>2, <3>3
  <2>4. QED
    BY <2>2, <2>3
<1>4. QED
  BY <1>2, <1>3

\* Every step of the inline backend is one of RunLifecycle, or none.
LEMMA LifecycleStep ==
    ASSUME IInv, IInv', MemoryInv, [Next]_vars
    PROVE  [Lifecycle!InMemoryNext]_(Lifecycle!vars)
<1> USE DEF IInv
<1>1. ASSUME UNCHANGED <<status, saved, summary>>
      PROVE  [Lifecycle!InMemoryNext]_(Lifecycle!vars)
  BY <1>1 DEF Lifecycle!vars, SavedRows
<1>2. CASE Claim
  <2>1. CASE status \in Live
    <3>1. Lifecycle!Claim
      BY <1>2, <2>1 DEF Claim, Lifecycle!Claim, Live, Lifecycle!Live, SavedRows
    <3>2. QED
      BY <3>1 DEF Lifecycle!InMemoryNext, Lifecycle!Next
  <2>2. CASE status \notin Live
    BY <1>1, <1>2, <2>2 DEF Claim
  <2>3. QED
    BY <2>1, <2>2
<1>3. ASSUME status' = Failed(status) \/ Cancel, UNCHANGED <<saved, summary>>
      PROVE  [Lifecycle!InMemoryNext]_(Lifecycle!vars)
  <2>1. CASE status' = status
    BY <1>1, <1>3, <2>1
  <2>2. CASE status' # status
    <3>1. status \in Live /\ status' \in {"failed", "cancelled"} /\ SavedRows' = SavedRows
      BY <1>3, <2>2 DEF Failed, Cancel, SavedRows
    <3>2. Lifecycle!Stop
      BY <1>3, <3>1 DEF Lifecycle!Stop, Live, Lifecycle!Live
    <3>3. QED
      BY <3>2 DEF Lifecycle!InMemoryNext, Lifecycle!Next
  <2>3. QED
    BY <2>1, <2>2
<1>4. ASSUME NEW a \in Attempts, SaveAttempt(a)
      PROVE  [Lifecycle!InMemoryNext]_(Lifecycle!vars)
  <2>1. CASE CanSave(a) /\ saved' = [saved EXCEPT ![a] = result[a]]
    <3>1. result[a] \in Results /\ a \notin SavedRows
      BY <2>1 DEF TypeOK, CanSave, SavedRows
    <3>2. SavedRows' = SavedRows \cup {a}
      BY <2>1, <3>1, OneRowMore DEF CanSave
    <3>3. Lifecycle!Save(a)
      BY <1>4, <2>1, <3>1, <3>2 DEF SaveAttempt, Lifecycle!Save, CanSave
    <3>4. QED
      BY <3>3 DEF Lifecycle!InMemoryNext, Lifecycle!Next
  <2>2. CASE UNCHANGED saved
    BY <1>1, <1>4, <2>2 DEF SaveAttempt
  <2>3. QED
    BY <1>4, <2>1, <2>2 DEF SaveAttempt
<1>5. CASE DeleteRun
  <2>1. SavedRows' = {}
    BY <1>5 DEF DeleteRun, SavedRows
  <2>2. Lifecycle!Delete
    BY <1>5, <2>1 DEF DeleteRun, Lifecycle!Delete, NoSummary, Lifecycle!NoSummary
  <2>3. QED
    BY <2>2 DEF Lifecycle!InMemoryNext, Lifecycle!Next
<1>6. CASE FailRun \/ Cancel
  BY <1>3, <1>6 DEF FailRun, Cancel
<1>7. ASSUME NEW a \in Attempts, FailFromAttempt(a)
      PROVE  [Lifecycle!InMemoryNext]_(Lifecycle!vars)
  BY <1>3, <1>7 DEF FailFromAttempt
<1>8. ASSUME NEW a \in Attempts, StartAttempt(a) \/ AttemptReturns(a) \/ DeliveryRaises(a)
      PROVE  [Lifecycle!InMemoryNext]_(Lifecycle!vars)
  <2>1. UNCHANGED <<status, saved, summary>>
    BY <1>8 DEF StartAttempt, AttemptReturns, DeliveryRaises, db
  <2>2. QED
    BY <1>1, <2>1
<1>9. CASE GetSlot \/ Load \/ TaskRaises \/ Prepare \/ SuiteCompletes \/ SuiteStops
             \/ SuiteBreaks \/ SuiteStopped \/ ReadSaved \/ Cluster \/ Enqueue \/ SetCancel
             \/ CrashAndRestart \/ UNCHANGED vars
  <2>1. UNCHANGED <<status, saved, summary>>
    BY <1>9
    DEF GetSlot, Load, TaskRaises, Prepare, SuiteCompletes, SuiteStops, SuiteBreaks,
        SuiteStopped, ReadSaved, Cluster, Enqueue, SetCancel, CrashAndRestart, vars, db
  <2>2. QED
    BY <1>1, <2>1
<1>10. QED
  BY <1>2, <1>4, <1>5, <1>6, <1>7, <1>8, <1>9, SummaryStep DEF Next, Task, Worker

\* The inline backend implements RunLifecycle, up to the summary of a cancelled
\* run: whatever is cancelled, deleted, restarted or fails at whichever await.
THEOREM Refinement == Spec => ImplementsLifecycle
<1>1. IInv /\ IInv' /\ MemoryInv /\ [Next]_vars => [Lifecycle!InMemoryNext]_(Lifecycle!vars)
  BY LifecycleStep
<1>2. QED
  BY <1>1, LifecycleInit, Invariance, MemoryInvariance, PTL
  DEF Spec, ImplementsLifecycle, Lifecycle!InMemorySpec
==============================================================================
