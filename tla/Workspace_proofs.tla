--------------------------- MODULE Workspace_proofs ---------------------------
(***************************************************************************)
(* What the API promises before and around a run, for every number of      *)
(* requests and every cap, window and size: the runs are reproducible and  *)
(* find their auth headers, no cap is overshot by more than the other      *)
(* requests served (Workspace); only owners are answered, and nobody with  *)
(* a revoked key (Access); the limiter forgets and delays nobody           *)
(* (TokenBucket); answers are true (Request); and, since the four share    *)
(* no state, all of it of the composition that is model-checked.           *)
(***************************************************************************)
EXTENDS MCWorkspace, FiniteSetTheorems, TLAPS

-----------------------------------------------------------------------------
(* Runs, suites and agents (Workspace).  The two invariants rest on the    *)
(* rows' shapes and on nothing of each other.                              *)

Ids == Requests \cup {First}

RunRow == [id : Ids, status : Live \cup {"ended", "failed", "gone"}, version : Nat, yaml : Ids,
           agent : Ids, secret : Ids \cup {None}, live : BOOLEAN, recent : BOOLEAN,
           overtaken : BOOLEAN]

\* What a request has read, by where it is.
Starting == [at : {"findAgent"}, live : BOOLEAN, version : Nat, yaml : Ids]
Counting == [at : {"countRuns", "countLive", "insertRun"}, live : BOOLEAN, version : Nat,
             yaml : Ids, agent : Ids, secret : Ids \cup {None}]
Editing  == [at : {"flushSuite", "addVersion"}, version : Nat]
Listing1 == [at : {"countByVersion"}, cases : SUBSET Nat]
Listing2 == [at : {"readSaved"}, cases : SUBSET Nat, counted : SUBSET Nat]
Listing3 == [at : {"listed"}, counted : SUBSET Nat, listed : SUBSET Nat]
Creating == [at : {"insertAgent"}, name : Names]
Changing == [at : {"flushAgent", "inUse", "commitAgent"}, agent : Ids, old : Ids \cup {None},
             new : Ids \cup {None}, deletes : BOOLEAN, keep : BOOLEAN]
Probing1 == [at : {"readSecret"}, secret : Ids]
Probing2 == [at : {"probed"}, secret : Ids, missing : BOOLEAN]

Row == [at : {"idle", "done"}] \cup Starting \cup Counting \cup Editing
         \cup Listing1 \cup Listing2 \cup Listing3
         \cup Creating \cup Changing \cup Probing1 \cup Probing2

TypeOK ==
    /\ suite \in [version : Nat, yaml : Ids]
    /\ versions \subseteq [version : Nat, yaml : Ids]
    /\ agents \subseteq [id : Ids, name : Names, secret : Ids \cup {None}]
    /\ secrets \subseteq Ids
    /\ runs \subseteq RunRow
    /\ req \in [Requests -> Row]

------------------------------------------------------------------------------
\* Where a request is tells what it has read.
LEMMA Shapes ==
    ASSUME NEW r \in Row
    PROVE  /\ r.at = "findAgent" => r \in Starting
           /\ r.at \in {"countRuns", "countLive", "insertRun"} => r \in Counting
           /\ r.at \in {"flushSuite", "addVersion"} => r \in Editing
           /\ r.at = "countByVersion" => r \in Listing1
           /\ r.at = "readSaved" => r \in Listing2
           /\ r.at = "listed" => r \in Listing3
           /\ r.at = "insertAgent" => r \in Creating
           /\ r.at \in {"flushAgent", "inUse", "commitAgent"} => r \in Changing
           /\ r.at = "readSecret" => r \in Probing1
           /\ r.at = "probed" => r \in Probing2
BY DEF Row, Starting, Counting, Editing, Listing1, Listing2, Listing3, Creating,
       Changing, Probing1, Probing2

\* One request moves on.
LEMMA Moves ==
    ASSUME req \in [Requests -> Row], NEW q \in Requests, NEW x \in Row,
           req' = [req EXCEPT ![q] = x]
    PROVE  /\ req' \in [Requests -> Row] /\ req'[q] = x
           /\ \A p \in Requests \ {q} : req'[p] = req[p]
OBVIOUS

\* Going on with what it has read.
LEMMA GoesOn ==
    ASSUME req \in [Requests -> Row], NEW q \in Requests, NEW place, Goto(q, place),
           [req[q] EXCEPT !.at = place] \in Row
    PROVE  /\ req' \in [Requests -> Row] /\ req'[q] = [req[q] EXCEPT !.at = place]
           /\ \A p \in Requests \ {q} : req'[p] = req[p]
BY DEF Goto

LEMMA Answers ==
    ASSUME req \in [Requests -> Row], NEW q \in Requests, Answer(q)
    PROVE  /\ req' \in [Requests -> Row] /\ req'[q] = [at |-> "done"]
           /\ \A p \in Requests \ {q} : req'[p] = req[p]
<1>1. [at |-> "done"] \in Row
    BY DEF Row
<1> QED
    BY <1>1 DEF Answer

LEMMA InitType == Init => TypeOK
<1>1. [at |-> "idle"] \in Row
    BY DEF Row
<1> QED
    BY <1>1, WorkspaceAssumption DEF Init, TypeOK, Ids

\* What an action of request q does to req: one row, of one of the shapes.
LEMMA RunTypes ==
    ASSUME TypeOK, NEW q \in Requests, RunNext(q)
    PROVE  TypeOK'
<1> USE DEF TypeOK
<1>1. ASSUME NEW live \in BOOLEAN, StartRun(q, live) PROVE TypeOK'
    <2>1. [at |-> "findAgent", live |-> live, version |-> suite.version,
           yaml |-> suite.yaml] \in Row
        BY DEF Row, Starting
    <2> QED
        BY <1>1, <2>1, Moves DEF StartRun
<1>2. CASE FindAgent(q)
    <2>0. req[q] \in Starting
        BY <1>2, Shapes DEF FindAgent, At
    <2>1. ASSUME NEW a \in agents,
                 req' = [req EXCEPT ![q] = [at |-> "countRuns", live |-> @.live,
                            version |-> @.version, yaml |-> @.yaml,
                            agent |-> a.id, secret |-> a.secret]]
          PROVE  req' \in [Requests -> Row]
        <3>1. [at |-> "countRuns", live |-> req[q].live, version |-> req[q].version,
               yaml |-> req[q].yaml, agent |-> a.id, secret |-> a.secret] \in Row
            BY <2>0 DEF Row, Starting, Counting
        <3> QED
            BY <2>1, <3>1
    <2> QED
        BY <1>2, <2>1, Answers DEF FindAgent
<1>3. CASE CheckRuns(q)
    <2>1. [req[q] EXCEPT !.at = "countLive"] \in Row
        BY <1>3, Shapes DEF CheckRuns, At, Row, Counting
    <2> QED
        BY <1>3, <2>1, GoesOn, Answers DEF CheckRuns
<1>4. CASE CheckLiveBudget(q)
    <2>1. [req[q] EXCEPT !.at = "insertRun"] \in Row
        BY <1>4, Shapes DEF CheckLiveBudget, At, Row, Counting
    <2> QED
        BY <1>4, <2>1, GoesOn, Answers DEF CheckLiveBudget
<1>5. CASE InsertRun(q)
    <2>1. req[q] \in Counting
        BY <1>5, Shapes DEF InsertRun, At
    <2>2. ASSUME NEW b \in BOOLEAN PROVE NewRun(q, b) \in RunRow
        BY <2>1 DEF NewRun, RunRow, Counting, Ids, Live
    <2> QED
        BY <1>5, <2>2, Answers DEF InsertRun
<1> QED
    BY <1>1, <1>2, <1>3, <1>4, <1>5 DEF RunNext

LEMMA SuiteTypes ==
    ASSUME TypeOK, NEW q \in Requests, SuiteNext(q)
    PROVE  TypeOK'
<1> USE DEF TypeOK
<1>1. CASE UpdateSuite(q)
    <2>1. [at |-> "flushSuite", version |-> suite.version + 1] \in Row
        BY DEF Row, Editing
    <2> QED
        BY <1>1, <2>1, Moves DEF UpdateSuite
<1>2. CASE FlushSuite(q)
    <2>1. [req[q] EXCEPT !.at = "addVersion"] \in Row
        BY <1>2, Shapes DEF FlushSuite, At, Row, Editing
    <2> QED
        BY <1>2, <2>1, GoesOn DEF FlushSuite
<1>3. CASE AddVersion(q)
    <2>1. [version |-> req[q].version, yaml |-> q] \in [version : Nat, yaml : Ids]
        BY <1>3, Shapes DEF AddVersion, At, Editing, Ids
    <2> QED
        BY <1>3, <2>1, Answers DEF AddVersion
<1>4. CASE ListVersions(q)
    <2>1. [at |-> "countByVersion", cases |-> Numbers] \in Row
        BY DEF Row, Listing1, Numbers
    <2> QED
        BY <1>4, <2>1, Moves DEF ListVersions
<1>5. CASE CountByVersion(q)
    <2>1. [at |-> "readSaved", cases |-> req[q].cases,
           counted |-> {r.version : r \in Existing}] \in Row
        BY <1>5, Shapes DEF CountByVersion, At, Row, Listing1, Listing2, Existing, RunRow
    <2> QED
        BY <1>5, <2>1, Moves DEF CountByVersion
<1>6. CASE ReadSaved(q)
    <2>1. [at |-> "listed", counted |-> req[q].counted,
           listed |-> req[q].cases \cup Numbers] \in Row
        BY <1>6, Shapes DEF ReadSaved, At, Row, Listing2, Listing3, Numbers
    <2> QED
        BY <1>6, <2>1, Moves DEF ReadSaved
<1> QED
    BY <1>1, <1>2, <1>3, <1>4, <1>5, <1>6 DEF SuiteNext

LEMMA AgentTypes ==
    ASSUME TypeOK, NEW q \in Requests, AgentNext(q)
    PROVE  TypeOK'
<1> USE DEF TypeOK
<1>1. ASSUME NEW name \in Names, CreateAgent(q, name) PROVE TypeOK'
    <2>1. [at |-> "insertAgent", name |-> name] \in Row
        BY DEF Row, Creating
    <2> QED
        BY <1>1, <2>1, Moves, Answers DEF CreateAgent
<1>2. ASSUME NEW a \in agents, DeleteAgent(q, a) PROVE TypeOK'
    <2>1. [at |-> "flushAgent", agent |-> a.id, old |-> a.secret, new |-> None,
           deletes |-> TRUE, keep |-> FALSE] \in Row
        BY DEF Row, Changing
    <2> QED
        BY <1>2, <2>1, Moves DEF DeleteAgent
<1>3. ASSUME NEW a \in agents, TestAgent(q, a) PROVE TypeOK'
    <2>1. [at |-> "readSecret", secret |-> a.secret] \in Row
        BY <1>3 DEF TestAgent, Row, Probing1
    <2> QED
        BY <1>3, <2>1, Moves DEF TestAgent
<1>4. ASSUME NEW a \in agents, NEW new \in {q, None}, UpdateAgent(q, a, new) PROVE TypeOK'
    <2>1. [at |-> "flushAgent", agent |-> a.id, old |-> a.secret, new |-> new,
           deletes |-> FALSE, keep |-> FALSE] \in Row
        BY DEF Row, Changing, Ids
    <2> QED
        BY <1>4, <2>1, Moves DEF UpdateAgent
<1>5. CASE ReadSecret(q)
    <2>1. [at |-> "probed", secret |-> req[q].secret,
           missing |-> req[q].secret \notin secrets] \in Row
        BY <1>5, Shapes DEF ReadSecret, At, Row, Probing1, Probing2
    <2> QED
        BY <1>5, <2>1, Moves DEF ReadSecret
<1>6. CASE Reply(q)
    BY <1>6, Answers DEF Reply
<1>7. CASE InsertAgent(q)
    <2>1. [id |-> q, name |-> req[q].name, secret |-> q]
              \in [id : Ids, name : Names, secret : Ids \cup {None}]
        BY <1>7, Shapes DEF InsertAgent, At, Creating, Ids
    <2> QED
        BY <1>7, <2>1, Answers DEF InsertAgent, Ids
<1>8. CASE FlushAgent(q)
    <2>1. \A place \in {"commitAgent", "inUse"} : [req[q] EXCEPT !.at = place] \in Row
        BY <1>8, Shapes DEF FlushAgent, At, Row, Changing
    <2> QED
        BY <1>8, <2>1, GoesOn, Answers DEF FlushAgent
<1>9. CASE DropSecret(q)
    <2>1. \A b \in BOOLEAN : [req[q] EXCEPT !.at = "commitAgent", !.keep = b] \in Row
        <3>1. req[q] \in Changing
            BY <1>9, Shapes DEF DropSecret, At
        <3>2. \A b \in BOOLEAN : [req[q] EXCEPT !.at = "commitAgent", !.keep = b] \in Changing
            BY <3>1 DEF Changing
        <3> QED
            BY <3>2 DEF Row
    <2>2. InUse(q) \in BOOLEAN
        BY DEF InUse
    <2>3. [req[q] EXCEPT !.at = "commitAgent", !.keep = InUse(q)] \in Row
        BY <2>1, <2>2
    <2> QED
        BY <1>9, <2>3 DEF DropSecret
<1>10. CASE CommitAgent(q)
    <2>1. req[q] \in Changing
        BY <1>10, Shapes DEF CommitAgent, At
    <2>2. agents' \subseteq [id : Ids, name : Names, secret : Ids \cup {None}]
        <3>1. CASE req[q].deletes
            BY <1>10, <3>1 DEF CommitAgent
        <3>2. CASE ~req[q].deletes
            <4>1. \A a \in agents : [a EXCEPT !.secret = req[q].new]
                       \in [id : Ids, name : Names, secret : Ids \cup {None}]
                BY <2>1 DEF Changing
            <4> QED
                BY <1>10, <3>2, <4>1 DEF CommitAgent
        <3> QED
            BY <3>1, <3>2
    <2>3. runs' \subseteq RunRow
        <3>1. \A r \in runs : [r EXCEPT !.status = "gone"] \in RunRow
            BY DEF RunRow
        <3> QED
            BY <1>10, <3>1 DEF CommitAgent, Cascade
    <2> QED
        BY <1>10, <2>1, <2>2, <2>3, Answers DEF CommitAgent, Changing
<1> QED
    BY <1>1, <1>2, <1>3, <1>4, <1>5, <1>6, <1>7, <1>8, <1>9, <1>10 DEF AgentNext

LEMMA TypeStep == TypeOK /\ [Next]_vars => TypeOK'
<1> SUFFICES ASSUME TypeOK, [Next]_vars PROVE TypeOK'
    OBVIOUS
<1>1. ASSUME NEW r \in runs, NEW s \in {"running", "failed", "ended"}, runs' = WithStatus(r, s)
      PROVE  runs' \subseteq RunRow
    <2>1. [r EXCEPT !.status = s] \in RunRow
        BY DEF TypeOK, RunRow, Live
    <2> QED
        BY <1>1, <2>1 DEF WithStatus, TypeOK
<1>2. ASSUME NEW r \in runs, LoadPlan(r) \/ EndRun(r) PROVE TypeOK'
    BY <1>1, <1>2 DEF LoadPlan, EndRun, TypeOK
<1>3. CASE DayPasses
    <2>1. \A r \in runs : [r EXCEPT !.recent = FALSE] \in RunRow
        BY DEF TypeOK, RunRow
    <2> QED
        BY <1>3, <2>1 DEF DayPasses, TypeOK
<1>4. CASE UNCHANGED vars
    BY <1>4 DEF vars, TypeOK
<1> QED
    BY <1>2, <1>3, <1>4, RunTypes, SuiteTypes, AgentTypes DEF Next

------------------------------------------------------------------------------
(* What a run tested can be read back from its version *)

\* What a request has read of the suite agrees with what is kept of it.
Sound(q) ==
    /\ At(q, "findAgent") \/ At(q, "countRuns") \/ At(q, "countLive") \/ At(q, "insertRun")
         => [version |-> req[q].version, yaml |-> req[q].yaml] \in versions
    /\ At(q, "flushSuite") \/ At(q, "addVersion")
         => req[q].version \in 1..(suite.version + 1)
    /\ At(q, "countByVersion") \/ At(q, "readSaved")
         => \E n \in 1..suite.version : req[q].cases = 1..n
    /\ At(q, "readSaved") => req[q].counted \subseteq 1..suite.version
    /\ At(q, "listed") => /\ req[q].counted \subseteq req[q].listed
                          /\ \E last \in 1..suite.version : req[q].listed = 1..last

VInv ==
    /\ \A r \in runs : [version |-> r.version, yaml |-> r.yaml] \in versions
    /\ [version |-> suite.version, yaml |-> suite.yaml] \in versions
    /\ \A v, w \in versions : v.version = w.version => v = w
    /\ suite.version >= 1 /\ Numbers = 1..suite.version
    /\ \A q \in Requests : Sound(q)

\* A request that does nothing meanwhile stays sound: the suite only grows.
LEMMA SoundStays ==
    ASSUME TypeOK, TypeOK', NEW p \in Requests, Sound(p), req'[p] = req[p],
           versions \subseteq versions', suite'.version >= suite.version
    PROVE  Sound(p)'
<1>1. suite.version \in Nat /\ suite'.version \in Nat
    BY DEF TypeOK
<1>2. 1..suite.version \subseteq 1..suite'.version
    BY <1>1
<1>3. 1..(suite.version + 1) \subseteq 1..(suite'.version + 1)
    BY <1>1
<1> QED
    BY <1>2, <1>3 DEF Sound, At

\* An action that leaves the suite alone keeps VInv, if its own row is sound and
\* the runs tested what is kept.
LEMMA SuiteKept ==
    ASSUME TypeOK, TypeOK', VInv, UNCHANGED <<suite, versions>>,
           \A r \in runs' : [version |-> r.version, yaml |-> r.yaml] \in versions,
           NEW q \in Requests, Sound(q)', \A p \in Requests \ {q} : req'[p] = req[p]
    PROVE  VInv'
<1>1. ASSUME NEW p \in Requests PROVE Sound(p)'
    <2>1. CASE p = q
        BY <2>1
    <2>2. CASE p # q
        BY <2>2, SoundStays DEF VInv, TypeOK
    <2> QED
        BY <2>1, <2>2
<1> QED
    BY <1>1 DEF VInv, Numbers

LEMMA RunKeeps ==
    ASSUME TypeOK, TypeOK', VInv, NEW q \in Requests, RunNext(q)
    PROVE  VInv'
<1>0. Sound(q)
    BY DEF VInv
<1>1. ASSUME NEW x \in Row, req' = [req EXCEPT ![q] = x], Sound(q)', runs' = runs,
             UNCHANGED <<suite, versions>>
      PROVE  VInv'
    BY <1>1, SuiteKept DEF TypeOK, VInv
<1>2. ASSUME NEW x \in Row, req' = [req EXCEPT ![q] = x], x.at = "done"
      PROVE  Sound(q)'
    BY <1>2, Moves DEF TypeOK, Sound, At
<1>3. ASSUME NEW live \in BOOLEAN, StartRun(q, live) PROVE VInv'
    <2>1. req'[q] = [at |-> "findAgent", live |-> live, version |-> suite.version,
                     yaml |-> suite.yaml]
        BY <1>3 DEF StartRun, TypeOK
    <2>2. Sound(q)'
        BY <1>3, <2>1 DEF Sound, At, StartRun, VInv
    <2> QED
        BY <1>3, <2>2, SuiteKept DEF StartRun, VInv, TypeOK
<1>4. CASE FindAgent(q)
    <2>1. Sound(q)'
        <3>1. CASE Answer(q)
            BY <3>1, Answers DEF Sound, At, TypeOK
        <3>2. ASSUME NEW a \in agents,
                     req' = [req EXCEPT ![q] = [at |-> "countRuns", live |-> @.live,
                                version |-> @.version, yaml |-> @.yaml,
                                agent |-> a.id, secret |-> a.secret]]
              PROVE  Sound(q)'
            <4>1. /\ req'[q].at = "countRuns" /\ req'[q].version = req[q].version
                  /\ req'[q].yaml = req[q].yaml
                BY <3>2 DEF TypeOK
            <4> QED
                BY <1>0, <1>4, <4>1 DEF Sound, At, FindAgent
        <3> QED
            BY <1>4, <3>1, <3>2 DEF FindAgent
    <2>2. \A p \in Requests \ {q} : req'[p] = req[p]
        BY <1>4 DEF FindAgent, Answer, TypeOK
    <2> QED
        BY <1>4, <2>1, <2>2, SuiteKept DEF FindAgent, VInv
<1>5. CASE CheckRuns(q) \/ CheckLiveBudget(q)
    <2>1. \/ Answer(q)
          \/ At(q, "countRuns") /\ Goto(q, "countLive")
          \/ At(q, "countLive") /\ Goto(q, "insertRun")
        BY <1>5 DEF CheckRuns, CheckLiveBudget
    <2>2. Sound(q)'
        <3>1. CASE Answer(q)
            BY <3>1, Answers DEF Sound, At, TypeOK
        <3>2. CASE ~Answer(q)
            <4>1. /\ req'[q].at \in {"countLive", "insertRun"}
                  /\ req'[q].version = req[q].version /\ req'[q].yaml = req[q].yaml
                <5>1. req[q] \in Counting
                    BY <2>1, <3>2, Shapes DEF At, TypeOK
                <5> QED
                    BY <2>1, <3>2, <5>1 DEF Goto, At, TypeOK, Counting
            <4> QED
                BY <1>0, <2>1, <3>2, <1>5, <4>1 DEF Sound, At, CheckRuns, CheckLiveBudget
        <3> QED
            BY <3>1, <3>2
    <2>3. \A p \in Requests \ {q} : req'[p] = req[p]
        BY <2>1 DEF Answer, Goto, TypeOK
    <2> QED
        BY <1>5, <2>2, <2>3, SuiteKept DEF CheckRuns, CheckLiveBudget, VInv
<1>6. CASE InsertRun(q)
    <2>1. Sound(q)' /\ \A p \in Requests \ {q} : req'[p] = req[p]
        BY <1>6, Answers DEF InsertRun, Sound, At, TypeOK
    <2>2. \A b : [version |-> NewRun(q, b).version, yaml |-> NewRun(q, b).yaml] \in versions
        BY <1>0, <1>6 DEF Sound, InsertRun, NewRun
    <2>3. \A r \in runs' : [version |-> r.version, yaml |-> r.yaml] \in versions
        BY <1>6, <2>2 DEF InsertRun, VInv
    <2> QED
        BY <1>6, <2>1, <2>3, SuiteKept DEF InsertRun
<1> QED
    BY <1>3, <1>4, <1>5, <1>6 DEF RunNext

LEMMA SuiteKeeps ==
    ASSUME TypeOK, TypeOK', VInv, NEW q \in Requests, SuiteNext(q)
    PROVE  VInv'
<1>0. Sound(q) /\ suite.version \in Nat
    BY DEF VInv, TypeOK
<1>1. CASE UpdateSuite(q)
    <2>1. req'[q] = [at |-> "flushSuite", version |-> suite.version + 1]
        BY <1>1 DEF UpdateSuite, TypeOK
    <2>2. suite.version + 1 \in 1..(suite.version + 1)
        BY <1>0
    <2>3. Sound(q)'
        BY <1>1, <2>1, <2>2 DEF Sound, At, UpdateSuite
    <2> QED
        BY <1>1, <2>3, SuiteKept DEF UpdateSuite, VInv, TypeOK
<1>2. CASE FlushSuite(q)
    <2>1. req'[q].at = "addVersion" /\ req'[q].version = req[q].version
        <3>1. req[q] \in Editing
            BY <1>2, Shapes DEF FlushSuite, At, TypeOK
        <3> QED
            BY <1>2, <3>1 DEF FlushSuite, Goto, TypeOK, Editing
    <2>2. Sound(q)'
        BY <1>0, <1>2, <2>1 DEF Sound, At, FlushSuite
    <2> QED
        BY <1>2, <2>2, SuiteKept DEF FlushSuite, Goto, VInv, TypeOK
<1>3. CASE AddVersion(q)
    <2>1. Sound(q)' /\ \A p \in Requests \ {q} : req'[p] = req[p]
        BY <1>3, Answers DEF AddVersion, Sound, At, TypeOK
    <2>2. CASE UNCHANGED <<suite, versions>>
        BY <1>3, <2>1, <2>2, SuiteKept DEF AddVersion, VInv
    <2>3. CASE /\ \A v \in versions : v.version # req[q].version
               /\ suite' = [version |-> req[q].version, yaml |-> q]
               /\ versions' = versions \cup {suite'}
        <3>1. req[q].version \in 1..(suite.version + 1)
            BY <1>0, <1>3 DEF Sound, AddVersion
        <3>2. req[q].version \notin 1..suite.version
            BY <2>3 DEF VInv, Numbers
        <3>3. req[q].version = suite.version + 1
            BY <1>0, <3>1, <3>2
        <3>4. Numbers' = Numbers \cup {suite.version + 1}
            BY <2>3, <3>3 DEF Numbers
        <3>5. Numbers' = 1..suite'.version /\ suite'.version >= 1
            BY <1>0, <2>3, <3>3, <3>4 DEF VInv
        <3>6. ASSUME NEW p \in Requests PROVE Sound(p)'
            <4>1. suite'.version >= suite.version
                BY <1>0, <2>3, <3>3
            <4>2. CASE p # q
                BY <2>1, <2>3, <4>1, <4>2, SoundStays DEF VInv
            <4> QED
                BY <2>1, <4>2
        <3>7. /\ \A r \in runs' : [version |-> r.version, yaml |-> r.yaml] \in versions'
              /\ [version |-> suite'.version, yaml |-> suite'.yaml] \in versions'
              /\ \A v, w \in versions' : v.version = w.version => v = w
            BY <1>3, <2>3 DEF AddVersion, VInv
        <3> QED
            BY <3>5, <3>6, <3>7 DEF VInv
    <2> QED
        BY <1>3, <2>2, <2>3 DEF AddVersion
<1>4. CASE ListVersions(q)
    <2>1. req'[q] = [at |-> "countByVersion", cases |-> Numbers]
        BY <1>4 DEF ListVersions, TypeOK
    <2>2. \E n \in 1..suite.version : Numbers = 1..n
        BY <1>0 DEF VInv
    <2>3. Sound(q)'
        BY <1>4, <2>1, <2>2 DEF Sound, At, ListVersions
    <2> QED
        BY <1>4, <2>3, SuiteKept DEF ListVersions, VInv, TypeOK
<1>5. CASE CountByVersion(q)
    <2>1. /\ req'[q].at = "readSaved" /\ req'[q].cases = req[q].cases
          /\ req'[q].counted = {r.version : r \in Existing}
        BY <1>5 DEF CountByVersion, TypeOK
    <2>2. {r.version : r \in Existing} \subseteq Numbers
        <3> SUFFICES ASSUME NEW r \in runs PROVE r.version \in Numbers
            BY DEF Existing
        <3>1. [version |-> r.version, yaml |-> r.yaml] \in versions
            BY DEF VInv
        <3> QED
            BY <3>1 DEF Numbers
    <2>3. Sound(q)'
        BY <1>0, <1>5, <2>1, <2>2 DEF Sound, At, CountByVersion, VInv
    <2> QED
        BY <1>5, <2>3, SuiteKept DEF CountByVersion, VInv, TypeOK
<1>6. CASE ReadSaved(q)
    <2>1. /\ req'[q].at = "listed" /\ req'[q].counted = req[q].counted
          /\ req'[q].listed = req[q].cases \cup Numbers
        BY <1>6 DEF ReadSaved, TypeOK
    <2>2. req'[q].listed = 1..suite.version /\ suite.version \in 1..suite.version
        <3>1. PICK n \in 1..suite.version : req[q].cases = 1..n
            BY <1>0, <1>6 DEF Sound, ReadSaved
        <3>2. (1..n) \cup (1..suite.version) = 1..suite.version
            BY <1>0
        <3> QED
            BY <1>0, <2>1, <3>1, <3>2 DEF VInv
    <2>3. Sound(q)'
        BY <1>0, <1>6, <2>1, <2>2 DEF Sound, At, ReadSaved
    <2> QED
        BY <1>6, <2>3, SuiteKept DEF ReadSaved, VInv, TypeOK
<1> QED
    BY <1>1, <1>2, <1>3, <1>4, <1>5, <1>6 DEF SuiteNext

\* Requests on agents are at places where VInv says nothing of them.
LEMMA AgentKeeps ==
    ASSUME TypeOK, TypeOK', VInv, NEW q \in Requests, AgentNext(q)
    PROVE  VInv'
<1> DEFINE Elsewhere == {"done", "insertAgent", "flushAgent", "inUse", "commitAgent",
                         "readSecret", "probed"}
           Moved == req'[q].at \in Elsewhere /\ \A p \in Requests \ {q} : req'[p] = req[p]
<1>1. Moved
    <2>1. ASSUME Answer(q) PROVE Moved
        BY <2>1, Answers DEF TypeOK
    <2>2. ASSUME NEW name \in Names, CreateAgent(q, name) PROVE Moved
        BY <2>1, <2>2 DEF CreateAgent, TypeOK
    <2>3. ASSUME NEW a \in agents, NEW new, DeleteAgent(q, a) \/ TestAgent(q, a)
                                            \/ UpdateAgent(q, a, new)
          PROVE  Moved
        BY <2>3 DEF DeleteAgent, TestAgent, UpdateAgent, TypeOK
    <2>4. CASE ReadSecret(q) \/ Reply(q) \/ InsertAgent(q) \/ CommitAgent(q)
        BY <2>1, <2>4 DEF ReadSecret, Reply, InsertAgent, CommitAgent, TypeOK
    <2>5. CASE FlushAgent(q) \/ DropSecret(q)
        <3>1. req[q] \in Changing
            BY <2>5, Shapes DEF FlushAgent, DropSecret, At, TypeOK
        <3> QED
            BY <2>1, <2>5, <3>1 DEF FlushAgent, DropSecret, Goto, TypeOK, Changing
    <2> QED
        BY <2>2, <2>3, <2>4, <2>5 DEF AgentNext
<1>2. Sound(q)'
    BY <1>1 DEF Sound, At
<1>3. UNCHANGED <<suite, versions>>
    BY DEF AgentNext, CreateAgent, DeleteAgent, TestAgent, UpdateAgent, ReadSecret,
           Reply, InsertAgent, FlushAgent, DropSecret, CommitAgent
<1>4. \A r \in runs' : [version |-> r.version, yaml |-> r.yaml] \in versions
    <2>1. CASE runs' = runs
        BY <2>1 DEF VInv
    <2>2. CASE runs' = Cascade(req[q].agent)
        <3> SUFFICES ASSUME NEW r \in runs'
                     PROVE  [version |-> r.version, yaml |-> r.yaml] \in versions
            OBVIOUS
        <3>1. PICK s \in runs : r = IF s.agent = req[q].agent
                                    THEN [s EXCEPT !.status = "gone"] ELSE s
            BY <2>2 DEF Cascade
        <3>2. r.version = s.version /\ r.yaml = s.yaml
            BY <3>1 DEF TypeOK, RunRow
        <3> QED
            BY <3>2 DEF VInv
    <2>3. runs' = runs \/ runs' = Cascade(req[q].agent)
        BY DEF AgentNext, CreateAgent, DeleteAgent, TestAgent, UpdateAgent,
               ReadSecret, Reply, InsertAgent, FlushAgent, DropSecret, CommitAgent
    <2> QED
        BY <2>1, <2>2, <2>3
<1> QED
    BY <1>1, <1>2, <1>3, <1>4, SuiteKept

LEMMA QueueKeeps ==
    ASSUME TypeOK, TypeOK', VInv, UNCHANGED <<suite, versions, req>>,
           \A s \in runs' : \E r \in runs : s.version = r.version /\ s.yaml = r.yaml
    PROVE  VInv'
BY DEF VInv, Numbers, Sound, At

\* VInv is inductive.
THEOREM VersionsInvariance == Spec => [](TypeOK /\ VInv)
<1>1. Init => TypeOK /\ VInv
    BY InitType DEF Init, VInv, Numbers, Sound, At
<1>2. TypeOK /\ VInv /\ [Next]_vars => (TypeOK /\ VInv)'
    <2> SUFFICES ASSUME TypeOK, VInv, [Next]_vars PROVE TypeOK' /\ VInv'
        OBVIOUS
    <2>0. TypeOK'
        BY TypeStep
    <2>1. ASSUME NEW q \in Requests, RunNext(q) \/ SuiteNext(q) \/ AgentNext(q) PROVE VInv'
        BY <2>0, <2>1, RunKeeps, SuiteKeeps, AgentKeeps
    <2>2. ASSUME NEW r \in runs, LoadPlan(r) \/ EndRun(r) PROVE VInv'
        <3>1. \A s : LET t == [r EXCEPT !.status = s]
                     IN  t.version = r.version /\ t.yaml = r.yaml
            BY DEF TypeOK, RunRow
        <3> QED
            BY <2>0, <2>2, <3>1, QueueKeeps DEF LoadPlan, EndRun, WithStatus
    <2>3. CASE DayPasses
        <3>1. \A r \in runs : LET t == [r EXCEPT !.recent = FALSE]
                              IN  t.version = r.version /\ t.yaml = r.yaml
            BY DEF TypeOK, RunRow
        <3> QED
            BY <2>0, <2>3, <3>1, QueueKeeps DEF DayPasses
    <2>4. CASE UNCHANGED vars
        BY <2>0, <2>4, QueueKeeps DEF vars
    <2> QED
        BY <2>0, <2>1, <2>2, <2>3, <2>4 DEF Next
<1> QED
    BY <1>1, <1>2, PTL DEF Spec

\* Whoever edits the suite while a run starts, the text the run tested is the one
\* kept under its version, and a history read meanwhile has no gap.
THEOREM ReproducibleCorrect == Spec => []RunsAreReproducible
<1>1. TypeOK /\ VInv => RunsAreReproducible
    <2> SUFFICES ASSUME TypeOK, VInv PROVE RunsAreReproducible
        OBVIOUS
    <2> QED
        BY DEF VInv, Sound, RunsAreReproducible
<1> QED
    BY <1>1, VersionsInvariance, PTL

------------------------------------------------------------------------------
(* No request deletes an auth header in use *)

\* The names that may be those of headers; a request that is not done is none.
Taken == {First} \cup {q \in Requests : At(q, "done")}

Changes(q) == At(q, "flushAgent") \/ At(q, "inUse") \/ At(q, "commitAgent")
Probes(q) == At(q, "readSecret") \/ At(q, "probed")

\* A live run that q, about to delete its header, has not looked at.
Missed(q, r) == /\ r.status \in Live /\ r.secret = req[q].old
                /\ ~(req[q].deletes /\ r.agent = req[q].agent)

\* What a request is about to do to a header is what it has looked at.
Held(q) ==
    /\ Changes(q) => /\ req[q].new \in {q, None} /\ req[q].old \in Taken \cup {None}
                     /\ \A a \in agents : a.id # req[q].agent /\ a.secret = req[q].old
                                            => a.secret = None
    /\ At(q, "commitAgent") /\ ~req[q].keep /\ req[q].old # None
         => \A r \in runs : Missed(q, r) => r.overtaken
    /\ Probes(q) => req[q].secret \in Taken
    /\ At(q, "probed") /\ req[q].missing => \A a \in agents : a.secret # req[q].secret

SInv ==
    /\ \A a \in agents : a.secret \in (secrets \cap Taken) \cup {None}
    /\ \A a, b \in agents : a.id # b.id /\ a.secret = b.secret => a.secret = None
    /\ \A r \in runs : r.status \in Live /\ r.secret # None /\ r.secret \notin secrets
                         => r.overtaken
    /\ \A q \in Requests : Held(q)

\* No live run appears, and none changes what it needs.
RunsOnlyEnd ==
    \A s \in runs' : s.status \in Live =>
        \E r \in runs : /\ r.status \in Live /\ r.secret = s.secret /\ r.agent = s.agent
                        /\ (r.overtaken => s.overtaken)

LEMMA TakenGrows ==
    ASSUME NEW q \in Requests, ~At(q, "done"), \A p \in Requests \ {q} : req'[p] = req[p]
    PROVE  Taken \subseteq Taken' /\ q \notin Taken /\ q # None
BY WorkspaceAssumption DEF Taken, At

\* What q writes is new to every other request.
LEMMA HeldStays ==
    ASSUME TypeOK, SInv, NEW q \in Requests, ~At(q, "done"),
           \A p \in Requests \ {q} : req'[p] = req[p],
           NEW p \in Requests \ {q},
           \A a \in agents' : a \in agents \/ a.secret \in {q, None},
           \/ RunsOnlyEnd
           \/ \E s \in runs' : /\ runs' = runs \cup {s}
                               /\ At(p, "commitAgent") /\ s.secret = req[p].old => s.overtaken
    PROVE  Held(p)'
<1>1. Taken \subseteq Taken' /\ q \notin Taken /\ q # None
    BY TakenGrows
<1>2. Held(p) /\ req'[p] = req[p]
    BY DEF SInv
<1>3. Changes(p)' => /\ req'[p].new \in {p, None} /\ req'[p].old \in Taken' \cup {None}
                     /\ \A a \in agents' : a.id # req'[p].agent /\ a.secret = req'[p].old
                                             => a.secret = None
    BY <1>1, <1>2 DEF Held, Changes, At
<1>4. ASSUME At(p, "commitAgent"), ~req[p].keep, req[p].old # None,
             NEW s \in runs', Missed(p, s)
      PROVE  s.overtaken
    <2>1. \A r \in runs : Missed(p, r) => r.overtaken
        BY <1>2, <1>4 DEF Held
    <2>2. CASE RunsOnlyEnd
        BY <1>4, <2>1, <2>2 DEF RunsOnlyEnd, Missed
    <2>3. CASE \E t \in runs' : /\ runs' = runs \cup {t}
                                /\ At(p, "commitAgent") /\ t.secret = req[p].old
                                     => t.overtaken
        BY <1>4, <2>1, <2>3 DEF Missed
    <2> QED
        BY <2>2, <2>3
<1>5. Probes(p)' => req'[p].secret \in Taken'
    BY <1>1, <1>2 DEF Held, Probes, At
<1>6. At(p, "probed")' /\ req'[p].missing => \A a \in agents' : a.secret # req'[p].secret
    <2>1. At(p, "probed") => req[p].secret \in Taken /\ req[p].secret # None
        BY <1>2, WorkspaceAssumption DEF Held, Probes, Taken
    <2> QED
        BY <1>1, <1>2, <2>1 DEF Held, At
<1> QED
    BY <1>2, <1>3, <1>4, <1>5, <1>6 DEF Held, At, Missed

\* An action that writes no agent, header or run.
LEMMA Quiet ==
    ASSUME TypeOK, SInv, UNCHANGED <<agents, secrets, runs>>,
           NEW q \in Requests, ~At(q, "done"), Held(q)',
           \A p \in Requests \ {q} : req'[p] = req[p]
    PROVE  SInv'
<1>1. ASSUME NEW p \in Requests \ {q} PROVE Held(p)'
    <2>1. RunsOnlyEnd
        BY DEF RunsOnlyEnd
    <2> QED
        BY <2>1, HeldStays
<1>2. Taken \subseteq Taken'
    BY TakenGrows
<1> QED
    BY <1>1, <1>2 DEF SInv

\* Requests at these places have nothing to do with headers.
Apart(q) ==
    req[q].at \in {"done", "findAgent", "countRuns", "countLive", "insertRun", "flushSuite",
                   "addVersion", "countByVersion", "readSaved", "listed", "insertAgent"}

LEMMA RunsApart ==
    ASSUME TypeOK, NEW q \in Requests, RunNext(q) \/ SuiteNext(q)
    PROVE  ~At(q, "done") /\ Apart(q)' /\ \A p \in Requests \ {q} : req'[p] = req[p]
<1> DEFINE Moved == Apart(q)' /\ \A p \in Requests \ {q} : req'[p] = req[p]
<1>0. ~At(q, "done")
    BY DEF RunNext, SuiteNext, StartRun, FindAgent, CheckRuns, CheckLiveBudget, InsertRun,
           UpdateSuite, FlushSuite, AddVersion, ListVersions, CountByVersion, ReadSaved,
           Arrive, At
<1> SUFFICES Moved
    BY <1>0
<1>1. ASSUME Answer(q) PROVE Moved
    BY <1>1, Answers DEF TypeOK, Apart
<1>2. ASSUME NEW live, StartRun(q, live) PROVE Moved
    BY <1>2 DEF StartRun, TypeOK, Apart
<1>3. CASE FindAgent(q)
    BY <1>1, <1>3 DEF FindAgent, TypeOK, Apart
<1>4. CASE CheckRuns(q) \/ CheckLiveBudget(q)
    <2>1. req[q] \in Counting
        BY <1>4, Shapes DEF CheckRuns, CheckLiveBudget, At, TypeOK
    <2> QED
        BY <1>1, <1>4, <2>1 DEF CheckRuns, CheckLiveBudget, Goto, TypeOK, Apart, Counting
<1>5. CASE FlushSuite(q)
    <2>1. req[q] \in Editing
        BY <1>5, Shapes DEF FlushSuite, At, TypeOK
    <2> QED
        BY <1>5, <2>1 DEF FlushSuite, Goto, TypeOK, Apart, Editing
<1>6. CASE UpdateSuite(q) \/ ListVersions(q) \/ CountByVersion(q) \/ ReadSaved(q)
    BY <1>6 DEF UpdateSuite, ListVersions, CountByVersion, ReadSaved, TypeOK, Apart
<1>7. CASE InsertRun(q) \/ AddVersion(q)
    BY <1>1, <1>7 DEF InsertRun, AddVersion
<1> QED
    BY <1>2, <1>3, <1>4, <1>5, <1>6, <1>7 DEF RunNext, SuiteNext

LEMMA RunHolds ==
    ASSUME TypeOK, SInv, NEW q \in Requests, RunNext(q) \/ SuiteNext(q)
    PROVE  SInv'
<1>1. ~At(q, "done") /\ Held(q)' /\ \A p \in Requests \ {q} : req'[p] = req[p]
    <2>1. Apart(q)' => Held(q)'
        BY DEF Apart, Held, At, Changes, Probes
    <2> QED
        BY <2>1, RunsApart
<1>2. CASE InsertRun(q)
    <2>1. Taken \subseteq Taken' /\ UNCHANGED <<agents, secrets>>
        BY <1>1, <1>2, TakenGrows DEF InsertRun
    <2>2. CASE runs' = runs
        BY <1>1, <1>2, <2>1, <2>2, Quiet
    <2>3. CASE runs' # runs
        <3> DEFINE Deleted == \/ req[q].secret \notin secrets
                              \/ \E p \in Requests : At(p, "commitAgent")
                                                       /\ req[p].old = req[q].secret
        <3>1. PICK s \in runs' : /\ runs' = runs \cup {s} /\ s.secret = req[q].secret
                                 /\ s.overtaken = Deleted
            <4>1. runs' = runs \cup {NewRun(q, Deleted)}
                BY <1>2, <2>3 DEF InsertRun
            <4>2. NewRun(q, Deleted).secret = req[q].secret
                BY DEF NewRun
            <4>3. NewRun(q, Deleted).overtaken = Deleted
                BY DEF NewRun
            <4> QED
                BY <4>1, <4>2, <4>3
        <3>2. ASSUME NEW p \in Requests \ {q} PROVE Held(p)'
            <4>1. At(p, "commitAgent") /\ s.secret = req[p].old => s.overtaken
                BY <3>1
            <4> QED
                BY <1>1, <2>1, <3>1, <4>1, HeldStays
        <3>3. s.secret \notin secrets => s.overtaken
            BY <3>1
        <3> QED
            BY <1>1, <2>1, <3>1, <3>2, <3>3 DEF SInv
    <2> QED
        BY <2>2, <2>3
<1>3. CASE ~InsertRun(q)
    <2>1. UNCHANGED <<agents, secrets, runs>>
        BY <1>3 DEF RunNext, SuiteNext, StartRun, FindAgent, CheckRuns, CheckLiveBudget,
              UpdateSuite, FlushSuite, AddVersion, ListVersions, CountByVersion, ReadSaved
    <2> QED
        BY <1>1, <2>1, Quiet
<1> QED
    BY <1>2, <1>3

LEMMA AgentHolds ==
    ASSUME TypeOK, SInv, NEW q \in Requests, AgentNext(q)
    PROVE  SInv'
<1>1. ~At(q, "done")
    BY DEF AgentNext, CreateAgent, DeleteAgent, TestAgent, UpdateAgent, ReadSecret, Reply,
           InsertAgent, FlushAgent, DropSecret, CommitAgent, Arrive, At
<1>2. ASSUME Answer(q) PROVE Held(q)' /\ \A p \in Requests \ {q} : req'[p] = req[p]
    BY <1>2, Answers DEF Held, At, Changes, Probes, TypeOK
<1>3. ASSUME NEW x, req' = [req EXCEPT ![q] = x]
      PROVE  req'[q] = x /\ \A p \in Requests \ {q} : req'[p] = req[p]
    BY <1>3 DEF TypeOK
<1>4. ASSUME NEW name \in Names, CreateAgent(q, name) PROVE SInv'
    <2>1. Held(q)' /\ \A p \in Requests \ {q} : req'[p] = req[p]
        <3>1. CASE Answer(q)
            BY <3>1, <1>2
        <3>2. CASE req' = [req EXCEPT ![q] = [at |-> "insertAgent", name |-> name]]
            BY <3>2 DEF Held, At, Changes, Probes, TypeOK
        <3> QED
            BY <1>4, <3>1, <3>2 DEF CreateAgent
    <2> QED
        BY <1>1, <1>4, <2>1, Quiet DEF CreateAgent
<1>5. ASSUME NEW a \in agents, NEW new \in {q, None}, NEW deletes \in BOOLEAN,
             req' = [req EXCEPT ![q] = [at |-> "flushAgent", agent |-> a.id, old |-> a.secret,
                                        new |-> new, deletes |-> deletes, keep |-> FALSE]],
             UNCHANGED <<agents, secrets, runs>>
      PROVE  SInv'
    <2>1. /\ req'[q].at = "flushAgent" /\ req'[q].agent = a.id /\ req'[q].old = a.secret
          /\ req'[q].new = new
          /\ \A p \in Requests \ {q} : req'[p] = req[p]
        BY <1>5 DEF TypeOK
    <2>2. Taken \subseteq Taken'
        BY <1>1, <2>1, TakenGrows
    <2>3. a.secret \in Taken \cup {None}
        BY DEF SInv
    <2>4. \A b \in agents : b.id # a.id /\ b.secret = a.secret => b.secret = None
        BY DEF SInv
    <2>5. Held(q)'
        BY <1>5, <2>1, <2>2, <2>3, <2>4 DEF Held, At, Changes, Probes
    <2> QED
        BY <1>1, <1>5, <2>1, <2>5, Quiet
<1>6. ASSUME NEW a \in agents, TestAgent(q, a) PROVE SInv'
    <2>1. /\ req'[q] = [at |-> "readSecret", secret |-> a.secret]
          /\ \A p \in Requests \ {q} : req'[p] = req[p]
        BY <1>6 DEF TestAgent, TypeOK
    <2>2. a.secret \in Taken
        BY <1>6 DEF TestAgent, SInv
    <2>3. Taken \subseteq Taken'
        BY <1>1, <2>1, TakenGrows
    <2>4. Held(q)'
        BY <2>1, <2>2, <2>3 DEF Held, At, Changes, Probes
    <2> QED
        BY <1>1, <1>6, <2>1, <2>4, Quiet DEF TestAgent
<1>7. CASE ReadSecret(q)
    <2>1. /\ req'[q].at = "probed" /\ req'[q].secret = req[q].secret
          /\ req'[q].missing = (req[q].secret \notin secrets)
          /\ \A p \in Requests \ {q} : req'[p] = req[p]
        BY <1>7 DEF ReadSecret, TypeOK
    <2>2. req[q].secret \in Taken
        BY <1>7 DEF ReadSecret, SInv, Held, Probes
    <2>3. req[q].secret # None
        BY <2>2, WorkspaceAssumption DEF Taken
    <2>4. Taken \subseteq Taken'
        BY <1>1, <2>1, TakenGrows
    <2>5. req[q].secret \notin secrets => \A a \in agents : a.secret # req[q].secret
        BY <2>3 DEF SInv
    <2>6. Held(q)'
        BY <1>7, <2>1, <2>2, <2>4, <2>5 DEF Held, At, Changes, Probes, ReadSecret
    <2> QED
        BY <1>1, <1>7, <2>1, <2>6, Quiet DEF ReadSecret
<1>8. CASE Reply(q)
    BY <1>1, <1>2, <1>8, Quiet DEF Reply
<1>9. CASE InsertAgent(q)
    <2>1. Held(q)' /\ \A p \in Requests \ {q} : req'[p] = req[p]
        BY <1>2, <1>9 DEF InsertAgent
    <2>2. CASE UNCHANGED <<agents, secrets>>
        BY <1>1, <1>9, <2>1, <2>2, Quiet DEF InsertAgent
    <2>3. ASSUME NEW b, b.secret = q, b.id = q, agents' = agents \cup {b},
                 secrets' = secrets \cup {q}
          PROVE  SInv'
        <3>1. Taken \subseteq Taken' /\ q \notin Taken /\ q # None
            BY <1>1, <2>1, TakenGrows
        <3>2. q \in Taken'
            BY <1>9, Answers DEF InsertAgent, TypeOK, Taken, At
        <3>3. RunsOnlyEnd
            BY <1>9 DEF InsertAgent, RunsOnlyEnd
        <3>4. ASSUME NEW p \in Requests \ {q} PROVE Held(p)'
            BY <1>1, <2>1, <2>3, <3>3, HeldStays
        <3>5. \A a \in agents : a.secret # q
            BY <3>1 DEF SInv
        <3> QED
            BY <1>9, <2>1, <2>3, <3>1, <3>2, <3>4, <3>5 DEF SInv, InsertAgent
    <2> QED
        <3>1. CASE agents' = agents \cup {[id |-> q, name |-> req[q].name, secret |-> q]}
                   /\ secrets' = secrets \cup {q}
            BY <2>3, <3>1
        <3> QED
            BY <1>9, <2>2, <3>1 DEF InsertAgent
<1>10. CASE FlushAgent(q)
    <2>1. req[q] \in Changing
        BY <1>10, Shapes DEF FlushAgent, At, TypeOK
    <2>2. CASE Answer(q)
        BY <1>1, <1>2, <1>10, <2>2, Quiet DEF FlushAgent
    <2>3. CASE Goto(q, IF req[q].old = None THEN "commitAgent" ELSE "inUse")
        <3>1. /\ req'[q].at = IF req[q].old = None THEN "commitAgent" ELSE "inUse"
              /\ req'[q].old = req[q].old /\ req'[q].new = req[q].new
              /\ req'[q].agent = req[q].agent
              /\ \A p \in Requests \ {q} : req'[p] = req[p]
            BY <2>1, <2>3 DEF Goto, TypeOK, Changing
        <3>2. Taken \subseteq Taken'
            BY <1>1, <3>1, TakenGrows
        <3>3. Held(q) /\ Changes(q)
            BY <1>10 DEF SInv, FlushAgent, Changes
        <3>4. Held(q)'
            BY <1>10, <3>1, <3>2, <3>3 DEF Held, At, Changes, Probes, FlushAgent
        <3> QED
            BY <1>1, <1>10, <3>1, <3>4, Quiet DEF FlushAgent
    <2> QED
        BY <1>10, <2>2, <2>3 DEF FlushAgent
<1>11. CASE DropSecret(q)
    <2>1. req[q] \in Changing
        BY <1>11, Shapes DEF DropSecret, At, TypeOK
    <2>2. /\ req'[q].at = "commitAgent" /\ req'[q].keep = InUse(q)
          /\ req'[q].old = req[q].old /\ req'[q].new = req[q].new
          /\ req'[q].agent = req[q].agent /\ req'[q].deletes = req[q].deletes
          /\ \A p \in Requests \ {q} : req'[p] = req[p]
        BY <1>11, <2>1 DEF DropSecret, TypeOK, Changing
    <2>3. Taken \subseteq Taken'
        BY <1>1, <2>2, TakenGrows
    <2>4. Held(q) /\ Changes(q)
        BY <1>11 DEF SInv, DropSecret, Changes
    <2>5. ~InUse(q) => \A r \in runs : ~Missed(q, r)
        BY DEF InUse, Missed
    <2>6. \A r \in runs : Missed(q, r)' = Missed(q, r)
        BY <2>2 DEF Missed
    <2>7. Held(q)'
        BY <1>11, <2>2, <2>3, <2>4, <2>5, <2>6 DEF Held, At, Changes, Probes, DropSecret
    <2> QED
        BY <1>1, <1>11, <2>2, <2>7, Quiet DEF DropSecret
<1>12. CASE CommitAgent(q)
    <2>1. Held(q)' /\ \A p \in Requests \ {q} : req'[p] = req[p]
        BY <1>2, <1>12 DEF CommitAgent
    <2>2. Taken \subseteq Taken' /\ q \notin Taken /\ q # None
        BY <1>1, <2>1, TakenGrows
    <2>3. Held(q) /\ Changes(q)
        BY <1>12 DEF SInv, CommitAgent, Changes
    <2>4. /\ req[q].new \in {q, None} /\ req[q].old \in Taken \cup {None}
          /\ \A a \in agents : a.id # req[q].agent /\ a.secret = req[q].old => a.secret = None
        BY <2>3 DEF Held
    <2>5. \A b \in agents' :
             \/ b \in agents /\ b.id # req[q].agent
             \/ b.id = req[q].agent /\ b.secret = req[q].new
        <3> SUFFICES ASSUME NEW b \in agents'
                     PROVE  \/ b \in agents /\ b.id # req[q].agent
                            \/ b.id = req[q].agent /\ b.secret = req[q].new
            OBVIOUS
        <3>1. CASE req[q].deletes
            BY <1>12, <3>1 DEF CommitAgent
        <3>2. CASE ~req[q].deletes
            <4>1. PICK a \in agents : b = IF a.id = req[q].agent
                                          THEN [a EXCEPT !.secret = req[q].new] ELSE a
                BY <1>12, <3>2 DEF CommitAgent
            <4>2. a \in [id : Ids, name : Names, secret : Ids \cup {None}]
                BY DEF TypeOK
            <4> QED
                BY <4>1, <4>2
        <3> QED
            BY <3>1, <3>2
    <2>6. RunsOnlyEnd
        <3> SUFFICES ASSUME NEW s \in runs', s.status \in Live
                     PROVE  s \in runs
            BY DEF RunsOnlyEnd
        <3>1. CASE runs' = Cascade(req[q].agent)
            <4>1. PICK r \in runs : s = IF r.agent = req[q].agent
                                        THEN [r EXCEPT !.status = "gone"] ELSE r
                BY <3>1 DEF Cascade
            <4> QED
                BY <4>1 DEF TypeOK, RunRow, Live
        <3> QED
            BY <1>12, <3>1 DEF CommitAgent
    <2>7. ASSUME NEW p \in Requests \ {q} PROVE Held(p)'
        <3>1. \A a \in agents' : a \in agents \/ a.secret \in {q, None}
            BY <2>4, <2>5
        <3> QED
            BY <1>1, <2>1, <2>6, <3>1, HeldStays
    <2>8. q \in Taken'
        BY <1>12, Answers DEF CommitAgent, TypeOK, Taken, At
    <2>9. \A x \in secrets : x \in secrets' \/ x = req[q].old
        BY <1>12 DEF CommitAgent
    <2>10. req[q].new # None => req[q].new \in secrets'
        BY <1>12, <2>2, <2>4 DEF CommitAgent
    <2>11. \A b \in agents' : b.secret \in (secrets' \cap Taken') \cup {None}
        <3> SUFFICES ASSUME NEW b \in agents', b.secret # None
                     PROVE  b.secret \in secrets' /\ b.secret \in Taken'
            OBVIOUS
        <3>1. CASE b \in agents /\ b.id # req[q].agent
            BY <2>2, <2>4, <2>9, <3>1 DEF SInv
        <3>2. CASE b.secret = req[q].new
            BY <2>4, <2>8, <2>10, <3>2
        <3> QED
            BY <2>5, <3>1, <3>2
    <2>12. \A a, b \in agents' : a.id # b.id /\ a.secret = b.secret => a.secret = None
        <3>1. \A a \in agents : a.secret # q
            BY <2>2 DEF SInv
        <3> QED
            BY <2>4, <2>5, <3>1 DEF SInv
    <2>13. ASSUME NEW s \in runs', s.status \in Live, s.secret # None, s.secret \notin secrets'
           PROVE  s.overtaken
        <3>1. PICK r \in runs : /\ r.status \in Live /\ r.secret = s.secret
                                /\ r.agent = s.agent /\ (r.overtaken => s.overtaken)
            BY <2>6, <2>13 DEF RunsOnlyEnd
        <3>2. CASE s.secret \notin secrets
            BY <2>13, <3>1, <3>2 DEF SInv
        <3>3. CASE s.secret \in secrets
            <4>1. s.secret = req[q].old /\ ~req[q].keep
                BY <1>12, <2>13, <3>3 DEF CommitAgent
            <4>2. ~(req[q].deletes /\ r.agent = req[q].agent)
                <5> SUFFICES ASSUME req[q].deletes, s.agent = req[q].agent PROVE FALSE
                    BY <3>1
                <5>1. PICK t \in runs : s = IF t.agent = req[q].agent
                                            THEN [t EXCEPT !.status = "gone"] ELSE t
                    BY <1>12 DEF CommitAgent, Cascade
                <5> QED
                    BY <2>13, <5>1 DEF TypeOK, RunRow, Live
            <4>3. Missed(q, r)
                BY <2>13, <3>1, <4>1, <4>2 DEF Missed
            <4> QED
                BY <1>12, <2>3, <2>13, <3>1, <4>1, <4>3 DEF Held, CommitAgent
        <3> QED
            BY <3>2, <3>3
    <2> QED
        BY <2>1, <2>7, <2>11, <2>12, <2>13 DEF SInv
<1>13. ASSUME NEW a \in agents, DeleteAgent(q, a) PROVE SInv'
    BY <1>5, <1>13 DEF DeleteAgent
<1>14. ASSUME NEW a \in agents, NEW new \in {q, None}, UpdateAgent(q, a, new) PROVE SInv'
    BY <1>5, <1>14 DEF UpdateAgent
<1> QED
    BY <1>4, <1>6, <1>7, <1>8, <1>9, <1>10, <1>11, <1>12, <1>13, <1>14 DEF AgentNext

LEMMA QueueHolds ==
    ASSUME TypeOK, SInv, UNCHANGED <<agents, secrets, req>>, RunsOnlyEnd
    PROVE  SInv'
<1>1. \A s \in runs' : s.status \in Live /\ s.secret # None /\ s.secret \notin secrets
                         => s.overtaken
    BY DEF SInv, RunsOnlyEnd
<1>2. ASSUME NEW p \in Requests PROVE Held(p)'
    <2>1. Held(p)
        BY DEF SInv
    <2>2. ASSUME At(p, "commitAgent"), ~req[p].keep, req[p].old # None,
                 NEW s \in runs', Missed(p, s)
          PROVE  s.overtaken
        <3>1. \A r \in runs : Missed(p, r) => r.overtaken
            BY <2>1, <2>2 DEF Held
        <3> QED
            BY <2>2, <3>1 DEF RunsOnlyEnd, Missed
    <2> QED
        BY <2>1, <2>2 DEF Held, At, Changes, Probes, Taken, Missed
<1> QED
    BY <1>1, <1>2 DEF SInv, Taken, At

\* SInv is inductive.
THEOREM HeadersInvariance == Spec => [](TypeOK /\ SInv)
<1>1. Init => TypeOK /\ SInv
    BY InitType DEF Init, SInv, Held, At, Changes, Probes, Taken
<1>2. TypeOK /\ SInv /\ [Next]_vars => (TypeOK /\ SInv)'
    <2> SUFFICES ASSUME TypeOK, SInv, [Next]_vars PROVE TypeOK' /\ SInv'
        OBVIOUS
    <2>0. TypeOK'
        BY TypeStep
    <2>1. ASSUME NEW q \in Requests, RunNext(q) \/ SuiteNext(q) \/ AgentNext(q) PROVE SInv'
        BY <2>1, RunHolds, AgentHolds
    <2>2. ASSUME NEW r \in runs, LoadPlan(r) \/ EndRun(r) PROVE SInv'
        <3>1. \A x : LET t == [r EXCEPT !.status = x]
                     IN  t.secret = r.secret /\ t.agent = r.agent /\ t.overtaken = r.overtaken
            BY DEF TypeOK, RunRow
        <3>2. PICK x : runs' = WithStatus(r, x) /\ r.status \in Live
            BY <2>2 DEF LoadPlan, EndRun
        <3>3. RunsOnlyEnd
            BY <3>1, <3>2 DEF WithStatus, RunsOnlyEnd
        <3> QED
            BY <2>2, <3>3, QueueHolds DEF LoadPlan, EndRun
    <2>3. CASE DayPasses
        <3>1. \A r \in runs : LET t == [r EXCEPT !.recent = FALSE]
                              IN  /\ t.secret = r.secret /\ t.agent = r.agent
                                  /\ t.overtaken = r.overtaken /\ t.status = r.status
            BY DEF TypeOK, RunRow
        <3>2. RunsOnlyEnd
            BY <2>3, <3>1 DEF DayPasses, RunsOnlyEnd
        <3> QED
            BY <2>0, <2>3, <3>2, QueueHolds DEF DayPasses
    <2>4. CASE UNCHANGED vars
        <3>1. RunsOnlyEnd
            BY <2>4 DEF vars, RunsOnlyEnd
        <3> QED
            BY <2>0, <2>4, <3>1, QueueHolds DEF vars
    <2> QED
        BY <2>0, <2>1, <2>2, <2>3, <2>4 DEF Next
<1> QED
    BY <1>1, <1>2, PTL DEF Spec

\* A live run has lost its auth header only if it was inserted, with what it had
\* read of the agent before, after the request that deleted the header had looked;
\* and a probe misses its header only if the agent got another one meanwhile.
THEOREM SecretCorrect == Spec => []SecretHeld
<1>1. TypeOK /\ SInv => SecretHeld
    BY DEF SInv, Held, SecretHeld
<1> QED
    BY <1>1, HeadersInvariance, PTL

-----------------------------------------------------------------------------
(* A cap that is counted before it is used *)

\* The rows that count and the requests that have counted and not inserted yet:
\* together no more than the cap and the other requests served.
Within(rows, past, cap, max) ==
    /\ IsFiniteSet(rows) /\ IsFiniteSet(past)
    /\ Cardinality(rows) + Cardinality(past) <= cap + max - 1
    /\ past # {} => cap >= 1

LEMMA WithinSays ==
    ASSUME NEW rows, NEW past, NEW cap \in Nat, NEW max \in Nat, Within(rows, past, cap, max)
    PROVE  Cardinality(rows) <= cap + max - 1
BY FS_CardinalityType DEF Within

\* A request counts less than the cap.
LEMMA Passes ==
    ASSUME NEW rows, NEW past, NEW cap \in Nat, NEW max \in Nat, NEW open,
           IsFiniteSet(rows), Cardinality(rows) < cap,
           past \subseteq open, IsFiniteSet(open), Cardinality(open) <= max
    PROVE  Within(rows, past, cap, max)
<1>1. IsFiniteSet(past) /\ Cardinality(past) <= Cardinality(open)
    BY FS_Subset
<1>2. Cardinality(rows) \in Nat /\ Cardinality(past) \in Nat /\ Cardinality(open) \in Nat
    BY <1>1, FS_CardinalityType
<1> QED
    BY <1>1, <1>2 DEF Within

\* It inserts its row.
LEMMA Enters ==
    ASSUME NEW rows, NEW past, NEW cap \in Nat, NEW max \in Nat, NEW row, NEW q \in past,
           Within(rows, past, cap, max), NEW left, left \subseteq past \ {q}
    PROVE  Within(rows \cup {row}, left, cap, max)
<1>1. IsFiniteSet(past \ {q}) /\ Cardinality(past \ {q}) = Cardinality(past) - 1
    BY FS_RemoveElement DEF Within
<1>2. IsFiniteSet(left) /\ Cardinality(left) <= Cardinality(past \ {q})
    BY <1>1, FS_Subset
<1>3. /\ IsFiniteSet(rows \cup {row})
      /\ \/ Cardinality(rows \cup {row}) = Cardinality(rows) + 1
         \/ Cardinality(rows \cup {row}) = Cardinality(rows)
    BY FS_AddElement DEF Within
<1>4. /\ Cardinality(rows) \in Nat /\ Cardinality(past) \in Nat /\ Cardinality(left) \in Nat
      /\ Cardinality(rows \cup {row}) \in Nat
    BY <1>2, <1>3, FS_CardinalityType DEF Within
<1> QED
    BY <1>1, <1>2, <1>3, <1>4 DEF Within

\* Rows or requests leave.
LEMMA Leaves ==
    ASSUME NEW rows, NEW past, NEW cap \in Nat, NEW max \in Nat, Within(rows, past, cap, max),
           NEW kept, IsFiniteSet(kept), Cardinality(kept) <= Cardinality(rows),
           NEW left, left \subseteq past
    PROVE  Within(kept, left, cap, max)
<1>1. IsFiniteSet(left) /\ Cardinality(left) <= Cardinality(past)
    BY FS_Subset DEF Within
<1>2. /\ Cardinality(rows) \in Nat /\ Cardinality(past) \in Nat
      /\ Cardinality(kept) \in Nat /\ Cardinality(left) \in Nat
    BY <1>1, FS_CardinalityType DEF Within
<1> QED
    BY <1>1, <1>2 DEF Within

LEMMA SomeLeave ==
    ASSUME NEW rows, NEW past, NEW cap \in Nat, NEW max \in Nat, Within(rows, past, cap, max),
           NEW kept, kept \subseteq rows, NEW left, left \subseteq past
    PROVE  Within(kept, left, cap, max)
BY Leaves, FS_Subset DEF Within

\* The day is over: no row counts any more.
LEMMA Empties ==
    ASSUME NEW rows, NEW past, NEW cap \in Nat, NEW max \in Nat \ {0},
           Within(rows, past, cap, max), NEW open, past \subseteq open,
           IsFiniteSet(open), Cardinality(open) <= max
    PROVE  Within({}, past, cap, max)
<1>1. /\ IsFiniteSet({}) /\ Cardinality({}) = 0
      /\ IsFiniteSet(past) /\ Cardinality(past) <= Cardinality(open)
    BY FS_Subset, FS_EmptySet
<1>2. Cardinality(past) \in Nat /\ Cardinality(open) \in Nat
    BY <1>1, FS_CardinalityType
<1>3. past = {} => Cardinality(past) = 0
    BY FS_EmptySet
<1> QED
    BY <1>1, <1>2, <1>3 DEF Within

\* One more request is served.
LEMMA OneMoreOpen ==
    ASSUME NEW open, NEW opened, NEW q, NEW max \in Nat, IsFiniteSet(open),
           Cardinality(open) < max, opened \subseteq open \cup {q}
    PROVE  IsFiniteSet(opened) /\ Cardinality(opened) <= max
<1>1. /\ IsFiniteSet(open \cup {q})
      /\ \/ Cardinality(open \cup {q}) = Cardinality(open) + 1
         \/ Cardinality(open \cup {q}) = Cardinality(open)
    BY FS_AddElement
<1>2. IsFiniteSet(opened) /\ Cardinality(opened) <= Cardinality(open \cup {q})
    BY <1>1, FS_Subset
<1>3. Cardinality(open) \in Nat /\ Cardinality(open \cup {q}) \in Nat /\ Cardinality(opened) \in Nat
    BY <1>1, <1>2, FS_CardinalityType
<1> QED
    BY <1>1, <1>2, <1>3

LEMMA NoMoreOpen ==
    ASSUME NEW open, NEW opened, NEW max \in Nat, IsFiniteSet(open), Cardinality(open) <= max,
           opened \subseteq open
    PROVE  IsFiniteSet(opened) /\ Cardinality(opened) <= max
<1>1. IsFiniteSet(opened) /\ Cardinality(opened) <= Cardinality(open)
    BY FS_Subset
<1>2. Cardinality(open) \in Nat /\ Cardinality(opened) \in Nat
    BY <1>1, FS_CardinalityType
<1> QED
    BY <1>1, <1>2

-----------------------------------------------------------------------------
(* The caps of limits.py on runs, live runs and agents (Workspace) *)

\* Requests that have passed a cap and not used it.
PastRuns == {q \in Requests : At(q, "countLive") \/ At(q, "insertRun")}
PastLive == {q \in Requests : At(q, "insertRun") /\ req[q].live}
PastAgents == {q \in Requests : At(q, "insertAgent")}

ServedAreFew == IsFiniteSet(Open) /\ Cardinality(Open) <= MaxOpen

CapInv ==
    /\ ServedAreFew
    /\ Within(RecentRuns, PastRuns, RunCap, MaxOpen)
    /\ Within(RecentLiveRuns, PastLive, LiveCap, MaxOpen)
    /\ Within(agents, PastAgents, AgentCap, MaxOpen)

LEMMA CapInit == Init => CapInv
<1> SUFFICES ASSUME Init PROVE CapInv
    OBVIOUS
<1> USE WorkspaceAssumption
<1>1. /\ Open = {} /\ PastRuns = {} /\ PastLive = {} /\ PastAgents = {}
      /\ RecentRuns = {} /\ RecentLiveRuns = {}
    BY DEF Init, Open, PastRuns, PastLive, PastAgents, RecentRuns, RecentLiveRuns, Existing, At
<1>2. IsFiniteSet({}) /\ Cardinality({}) = 0
    BY FS_EmptySet
<1>3. IsFiniteSet(agents) /\ Cardinality(agents) = 1
    BY FS_Singleton DEF Init
<1> QED
    BY <1>1, <1>2, <1>3 DEF CapInv, ServedAreFew, Within

LEMMA ServedStay ==
    ASSUME ServedAreFew, NEW q \in Requests, \A p \in Requests \ {q} : req'[p] = req[p],
           req[q].at \notin {"idle", "done"} \/ Arrive(q) \/ req'[q] = req[q]
    PROVE  ServedAreFew'
<1>1. CASE Arrive(q)
    <2>1. Cardinality(Open) < MaxOpen
        BY <1>1 DEF Arrive
    <2>2. Open' \subseteq Open \cup {q}
        BY DEF Open
    <2> QED
        BY <2>1, <2>2, OneMoreOpen, WorkspaceAssumption DEF ServedAreFew
<1>2. CASE req[q].at \notin {"idle", "done"} \/ req'[q] = req[q]
    <2>1. Open' \subseteq Open
        BY <1>2 DEF Open
    <2> QED
        BY <2>1, NoMoreOpen, WorkspaceAssumption DEF ServedAreFew
<1> QED
    BY <1>1, <1>2

LEMMA PastAreServed ==
    PastRuns \subseteq Open /\ PastLive \subseteq Open /\ PastAgents \subseteq Open
BY DEF PastRuns, PastLive, PastAgents, Open, At

\* Going on leaves the rest of what a request has read.
LEMMA GoesTo ==
    ASSUME TypeOK, NEW q \in Requests, NEW place, Goto(q, place)
    PROVE  /\ req'[q].at = place
           /\ req[q].at \in {"countRuns", "countLive"} => req'[q].live = req[q].live
           /\ \A p \in Requests \ {q} : req'[p] = req[p]
<1>1. req[q] \in Row /\ req'[q] = [req[q] EXCEPT !.at = place]
    BY DEF TypeOK, Goto
<1>2. req'[q].at = place
    BY <1>1 DEF Row, Starting, Counting, Editing, Listing1, Listing2, Listing3, Creating,
       Changing, Probing1, Probing2
<1>3. req[q].at \in {"countRuns", "countLive"} => req[q] \in Counting
    BY <1>1, Shapes
<1>4. req[q] \in Counting => req'[q].live = req[q].live
    BY <1>1 DEF Counting
<1> QED
    BY <1>2, <1>3, <1>4 DEF TypeOK, Goto

\* Rows stay or are fewer, and a request goes on without passing a cap.
LEMMA CapAside ==
    ASSUME CapInv, NEW q \in Requests, \A p \in Requests \ {q} : req'[p] = req[p],
           req[q].at \notin {"idle", "done"} \/ Arrive(q) \/ req'[q] = req[q],
           RecentRuns' \subseteq RecentRuns, RecentLiveRuns' \subseteq RecentLiveRuns,
           agents' \subseteq agents, q \in PastRuns' => q \in PastRuns,
           q \in PastLive' => q \in PastLive, q \in PastAgents' => q \in PastAgents
    PROVE  CapInv'
<1> USE WorkspaceAssumption DEF CapInv
<1>1. ServedAreFew'
    BY ServedStay
<1>2. /\ PastRuns' \subseteq PastRuns /\ PastLive' \subseteq PastLive
      /\ PastAgents' \subseteq PastAgents
    BY DEF PastRuns, PastLive, PastAgents, At
<1>3. /\ Within(RecentRuns', PastRuns', RunCap, MaxOpen)
      /\ Within(RecentLiveRuns', PastLive', LiveCap, MaxOpen)
      /\ Within(agents', PastAgents', AgentCap, MaxOpen)
    BY <1>2, SomeLeave
<1> QED
    BY <1>1, <1>3

LEMMA CapsInRuns ==
    ASSUME TypeOK, CapInv, NEW q \in Requests, RunNext(q)
    PROVE  CapInv'
<1> USE WorkspaceAssumption
<1> DEFINE SameRows == /\ UNCHANGED <<runs, agents>>
                       /\ RecentRuns' = RecentRuns /\ RecentLiveRuns' = RecentLiveRuns
<1>0. UNCHANGED <<runs, agents>> => SameRows
    BY DEF RecentRuns, RecentLiveRuns, Existing
<1> HIDE DEF SameRows
<1>1. ASSUME NEW live \in BOOLEAN, StartRun(q, live) PROVE CapInv'
    <2>1. /\ req'[q].at = "findAgent" /\ \A p \in Requests \ {q} : req'[p] = req[p]
          /\ Arrive(q) /\ SameRows
        BY <1>0, <1>1 DEF StartRun, TypeOK
    <2> QED
        BY <2>1, CapAside DEF PastRuns, PastLive, PastAgents, At, SameRows
<1>2. CASE FindAgent(q)
    <2>1. /\ req'[q].at \in {"countRuns", "done"} /\ \A p \in Requests \ {q} : req'[p] = req[p]
          /\ req[q].at = "findAgent" /\ SameRows
        BY <1>0, <1>2, Answers DEF FindAgent, TypeOK, At
    <2> QED
        BY <2>1, CapAside DEF PastRuns, PastLive, PastAgents, At, SameRows
<1>3. CASE CheckRuns(q)
    <2>1. req[q].at = "countRuns" /\ SameRows
        BY <1>0, <1>3 DEF CheckRuns, At
    <2>2. CASE Answer(q)
        BY <2>1, <2>2, Answers, CapAside DEF PastRuns, PastLive, PastAgents, At, SameRows, TypeOK
    <2>3. CASE ~Full(RecentRuns, RunCap) /\ Goto(q, "countLive")
        <3>1. req'[q].at = "countLive" /\ \A p \in Requests \ {q} : req'[p] = req[p]
            BY <2>3, GoesTo
        <3>2. ServedAreFew'
            BY <2>1, <3>1, ServedStay DEF CapInv
        <3>3. PastLive' \subseteq PastLive /\ PastAgents' \subseteq PastAgents
            BY <3>1 DEF PastLive, PastAgents, At
        <3>4. IsFiniteSet(RecentRuns) /\ Cardinality(RecentRuns) < RunCap
            BY <2>3, FS_CardinalityType DEF CapInv, Within, Full
        <3>5. PastRuns' \subseteq Open'
            BY DEF PastRuns, Open, At
        <3>6. Within(RecentRuns', PastRuns', RunCap, MaxOpen)
            BY <2>1, <3>2, <3>4, <3>5, Passes DEF ServedAreFew, SameRows
        <3> QED
            BY <2>1, <3>2, <3>3, <3>6, SomeLeave DEF CapInv, SameRows
    <2> QED
        BY <1>3, <2>2, <2>3 DEF CheckRuns
<1>4. CASE CheckLiveBudget(q)
    <2>1. req[q].at = "countLive" /\ SameRows
        BY <1>0, <1>4 DEF CheckLiveBudget, At
    <2>2. CASE Answer(q)
        BY <2>1, <2>2, Answers, CapAside DEF PastRuns, PastLive, PastAgents, At, SameRows, TypeOK
    <2>3. CASE /\ req[q].live => ~(Cardinality(RecentLiveRuns) + 1 > LiveCap)
               /\ Goto(q, "insertRun")
        <3>1. /\ req'[q].at = "insertRun" /\ \A p \in Requests \ {q} : req'[p] = req[p]
              /\ req'[q].live = req[q].live
            BY <2>1, <2>3, GoesTo
        <3>2. CASE ~req[q].live
            BY <2>1, <3>1, <3>2, CapAside DEF PastRuns, PastLive, PastAgents, At, SameRows
        <3>3. CASE req[q].live
            <4>1. ServedAreFew'
                BY <2>1, <3>1, ServedStay DEF CapInv
            <4>2. PastRuns' \subseteq PastRuns /\ PastAgents' \subseteq PastAgents
                BY <2>1, <3>1 DEF PastRuns, PastAgents, At
            <4>3. IsFiniteSet(RecentLiveRuns) /\ Cardinality(RecentLiveRuns) < LiveCap
                BY <2>3, <3>3, FS_CardinalityType DEF CapInv, Within
            <4>4. PastLive' \subseteq Open'
                BY DEF PastLive, Open, At
            <4>5. Within(RecentLiveRuns', PastLive', LiveCap, MaxOpen)
                BY <2>1, <4>1, <4>3, <4>4, Passes DEF ServedAreFew, SameRows
            <4> QED
                BY <2>1, <4>1, <4>2, <4>5, SomeLeave DEF CapInv, SameRows
        <3> QED
            BY <3>2, <3>3
    <2> QED
        BY <1>4, <2>2, <2>3 DEF CheckLiveBudget
<1>5. CASE InsertRun(q)
    <2>1. /\ req[q].at = "insertRun" /\ req[q].live \in BOOLEAN /\ UNCHANGED agents
          /\ req'[q] = [at |-> "done"] /\ \A p \in Requests \ {q} : req'[p] = req[p]
        BY <1>5, Answers, Shapes DEF InsertRun, At, Counting, TypeOK
    <2>2. ServedAreFew'
        BY <2>1, ServedStay DEF CapInv
    <2>3. /\ PastRuns' \subseteq PastRuns \ {q} /\ PastLive' \subseteq PastLive \ {q}
          /\ PastAgents' \subseteq PastAgents
        BY <2>1 DEF PastRuns, PastLive, PastAgents, At
    <2>4. Within(agents', PastAgents', AgentCap, MaxOpen)
        BY <2>1, <2>3, SomeLeave DEF CapInv
    <2>5. CASE UNCHANGED runs
        <3>1. RecentRuns' = RecentRuns /\ RecentLiveRuns' = RecentLiveRuns
            BY <2>5 DEF RecentRuns, RecentLiveRuns, Existing
        <3> QED
            BY <2>2, <2>3, <2>4, <3>1, SomeLeave DEF CapInv
    <2>6. ASSUME NEW b, runs' = runs \cup {NewRun(q, b)} PROVE CapInv'
        <3>1. NewRun(q, b).status = "queued" /\ NewRun(q, b).recent = TRUE
              /\ NewRun(q, b).live = req[q].live
            BY DEF NewRun
        <3>2. RecentRuns' = RecentRuns \cup {NewRun(q, b)}
            BY <2>6, <3>1 DEF RecentRuns, Existing
        <3>3. q \in PastRuns
            BY <2>1 DEF PastRuns, At
        <3>4. Within(RecentRuns \cup {NewRun(q, b)}, PastRuns', RunCap, MaxOpen)
            BY <2>3, <3>3, Enters DEF CapInv
        <3>5. Within(RecentLiveRuns', PastLive', LiveCap, MaxOpen)
            <4>1. CASE req[q].live
                <5>1. RecentLiveRuns' = RecentLiveRuns \cup {NewRun(q, b)}
                    BY <3>1, <3>2, <4>1 DEF RecentLiveRuns
                <5>2. q \in PastLive
                    BY <2>1, <4>1 DEF PastLive, At
                <5>3. Within(RecentLiveRuns \cup {NewRun(q, b)}, PastLive', LiveCap, MaxOpen)
                    BY <2>3, <5>2, Enters DEF CapInv
                <5> QED
                    BY <5>1, <5>3
            <4>2. CASE ~req[q].live
                <5>1. RecentLiveRuns' = RecentLiveRuns
                    BY <3>1, <3>2, <4>2 DEF RecentLiveRuns
                <5> QED
                    BY <2>3, <5>1, SomeLeave DEF CapInv
            <4> QED
                BY <4>1, <4>2
        <3> QED
            BY <2>2, <2>4, <3>2, <3>4, <3>5 DEF CapInv
    <2> QED
        BY <1>5, <2>5, <2>6 DEF InsertRun
<1> QED
    BY <1>1, <1>2, <1>3, <1>4, <1>5 DEF RunNext

LEMMA CapsInSuites ==
    ASSUME TypeOK, CapInv, NEW q \in Requests, SuiteNext(q)
    PROVE  CapInv'
<1>1. /\ RecentRuns' = RecentRuns /\ RecentLiveRuns' = RecentLiveRuns /\ agents' = agents
    BY DEF SuiteNext, UpdateSuite, FlushSuite, AddVersion, ListVersions, CountByVersion, ReadSaved,
       RecentRuns, RecentLiveRuns, Existing
<1>2. req[q].at \notin {"idle", "done"} \/ Arrive(q)
    BY DEF SuiteNext, UpdateSuite, FlushSuite, AddVersion, ListVersions, CountByVersion, ReadSaved,
       At
<1>3. /\ req'[q].at \in {"flushSuite", "addVersion", "done", "countByVersion", "readSaved",
                        "listed"}
      /\ \A p \in Requests \ {q} : req'[p] = req[p]
    <2>1. CASE Goto(q, "addVersion") \/ Answer(q)
        BY <2>1, GoesTo, Answers DEF TypeOK
    <2>2. CASE UpdateSuite(q) \/ ListVersions(q) \/ CountByVersion(q) \/ ReadSaved(q)
        BY <2>2 DEF UpdateSuite, ListVersions, CountByVersion, ReadSaved, TypeOK
    <2> QED
        BY <2>1, <2>2 DEF SuiteNext, FlushSuite, AddVersion
<1> QED
    BY <1>1, <1>2, <1>3, CapAside DEF PastRuns, PastLive, PastAgents, At

LEMMA CapsInAgents ==
    ASSUME TypeOK, CapInv, NEW q \in Requests, AgentNext(q)
    PROVE  CapInv'
<1> USE WorkspaceAssumption
<1>1. UNCHANGED runs => RecentRuns' = RecentRuns /\ RecentLiveRuns' = RecentLiveRuns
    BY DEF RecentRuns, RecentLiveRuns, Existing
<1>2. ASSUME NEW name \in Names, CreateAgent(q, name) PROVE CapInv'
    <2>1. Arrive(q) /\ req[q].at = "idle" /\ UNCHANGED <<runs, agents>>
        BY <1>2 DEF CreateAgent, Arrive, At
    <2>2. CASE Answer(q)
        BY <1>1, <2>1, <2>2, Answers, CapAside DEF PastRuns, PastLive, PastAgents, At, TypeOK
    <2>3. CASE /\ ~Full(agents, AgentCap)
               /\ req' = [req EXCEPT ![q] = [at |-> "insertAgent", name |-> name]]
        <3>1. req'[q].at = "insertAgent" /\ \A p \in Requests \ {q} : req'[p] = req[p]
            BY <2>3 DEF TypeOK
        <3>2. ServedAreFew'
            BY <2>1, <3>1, ServedStay DEF CapInv
        <3>3. PastRuns' \subseteq PastRuns /\ PastLive' \subseteq PastLive
            BY <3>1 DEF PastRuns, PastLive, At
        <3>4. IsFiniteSet(agents) /\ Cardinality(agents) < AgentCap
            BY <2>3, FS_CardinalityType DEF CapInv, Within, Full
        <3>5. PastAgents' \subseteq Open'
            BY DEF PastAgents, Open, At
        <3>6. Within(agents', PastAgents', AgentCap, MaxOpen)
            BY <2>1, <3>2, <3>4, <3>5, Passes DEF ServedAreFew
        <3> QED
            BY <1>1, <2>1, <3>2, <3>3, <3>6, SomeLeave DEF CapInv
    <2> QED
        BY <1>2, <2>2, <2>3 DEF CreateAgent
<1>3. ASSUME NEW a \in agents,
             \/ DeleteAgent(q, a) \/ TestAgent(q, a)
             \/ \E new \in {q, None} : UpdateAgent(q, a, new)
      PROVE  CapInv'
    <2>1. /\ Arrive(q) /\ UNCHANGED <<runs, agents>>
          /\ req'[q].at \in {"flushAgent", "readSecret"}
          /\ \A p \in Requests \ {q} : req'[p] = req[p]
        BY <1>3 DEF DeleteAgent, TestAgent, UpdateAgent, TypeOK
    <2> QED
        BY <1>1, <2>1, CapAside DEF PastRuns, PastLive, PastAgents, At
<1>4. CASE ReadSecret(q) \/ Reply(q) \/ FlushAgent(q) \/ DropSecret(q)
    <2>1. /\ req[q].at \notin {"idle", "done"} /\ UNCHANGED <<runs, agents>>
        BY <1>4 DEF ReadSecret, Reply, FlushAgent, DropSecret, At
    <2>2. /\ req'[q].at \in {"probed", "done", "commitAgent", "inUse"}
          /\ \A p \in Requests \ {q} : req'[p] = req[p]
        <3>1. CASE Answer(q)
            BY <3>1, Answers DEF TypeOK
        <3>2. CASE \E place \in {"commitAgent", "inUse"} : Goto(q, place)
            BY <3>2, GoesTo
        <3>3. CASE ReadSecret(q)
            BY <3>3 DEF ReadSecret, TypeOK
        <3>4. CASE DropSecret(q)
            <4>1. req[q] \in Changing
                BY <3>4, Shapes DEF DropSecret, At, TypeOK
            <4> QED
                BY <3>4, <4>1 DEF DropSecret, TypeOK, Changing
        <3> QED
            BY <1>4, <3>1, <3>2, <3>3, <3>4 DEF Reply, FlushAgent
    <2> QED
        BY <1>1, <2>1, <2>2, CapAside DEF PastRuns, PastLive, PastAgents, At
<1>5. CASE InsertAgent(q)
    <2>1. /\ req[q].at = "insertAgent" /\ UNCHANGED runs
          /\ req'[q] = [at |-> "done"] /\ \A p \in Requests \ {q} : req'[p] = req[p]
        BY <1>5, Answers DEF InsertAgent, At, TypeOK
    <2>2. ServedAreFew'
        BY <2>1, ServedStay DEF CapInv
    <2>3. /\ PastRuns' \subseteq PastRuns /\ PastLive' \subseteq PastLive
          /\ PastAgents' \subseteq PastAgents \ {q} /\ q \in PastAgents
        BY <2>1 DEF PastRuns, PastLive, PastAgents, At
    <2>4. /\ Within(RecentRuns', PastRuns', RunCap, MaxOpen)
          /\ Within(RecentLiveRuns', PastLive', LiveCap, MaxOpen)
        BY <1>1, <2>1, <2>3, SomeLeave DEF CapInv
    <2>5. Within(agents', PastAgents', AgentCap, MaxOpen)
        <3>1. Within(agents, PastAgents, AgentCap, MaxOpen)
            BY DEF CapInv
        <3>2. CASE UNCHANGED agents
            BY <2>3, <3>1, <3>2, SomeLeave
        <3>3. ASSUME NEW a, agents' = agents \cup {a}
              PROVE  Within(agents', PastAgents', AgentCap, MaxOpen)
            <4>1. Within(agents \cup {a}, PastAgents', AgentCap, MaxOpen)
                BY <2>3, <3>1, Enters
            <4> QED
                BY <3>3, <4>1
        <3> QED
            BY <1>5, <3>2, <3>3 DEF InsertAgent
    <2> QED
        BY <2>2, <2>4, <2>5 DEF CapInv
<1>6. CASE CommitAgent(q)
    <2>1. /\ req[q].at = "commitAgent"
          /\ req'[q] = [at |-> "done"] /\ \A p \in Requests \ {q} : req'[p] = req[p]
        BY <1>6, Answers DEF CommitAgent, At, TypeOK
    <2>2. ServedAreFew'
        BY <2>1, ServedStay DEF CapInv
    <2>3. /\ PastRuns' \subseteq PastRuns /\ PastLive' \subseteq PastLive
          /\ PastAgents' \subseteq PastAgents
        BY <2>1 DEF PastRuns, PastLive, PastAgents, At
    <2>4. \A r \in runs' : r.status # "gone" => r \in runs
        <3>1. \A r \in runs : [r EXCEPT !.status = "gone"].status = "gone"
            BY DEF TypeOK, RunRow
        <3> QED
            BY <1>6, <3>1 DEF CommitAgent, Cascade
    <2>5. RecentRuns' \subseteq RecentRuns /\ RecentLiveRuns' \subseteq RecentLiveRuns
        BY <2>4 DEF RecentRuns, RecentLiveRuns, Existing
    <2>6. IsFiniteSet(agents') /\ Cardinality(agents') <= Cardinality(agents)
        <3>1. CASE req[q].deletes
            BY <1>6, <3>1, FS_Subset DEF CommitAgent, CapInv, Within
        <3>2. CASE ~req[q].deletes
            <4> DEFINE f == [a \in agents |-> IF a.id = req[q].agent
                                              THEN [a EXCEPT !.secret = req[q].new] ELSE a]
            <4>1. f \in Surjection(agents, agents')
                BY <1>6, <3>2 DEF CommitAgent, Surjection
            <4> QED
                BY <4>1, FS_Surjection DEF CapInv, Within
        <3> QED
            BY <3>1, <3>2
    <2>7. Within(agents', PastAgents', AgentCap, MaxOpen)
        BY <2>3, <2>6, Leaves DEF CapInv
    <2> QED
        BY <2>2, <2>3, <2>5, <2>7, SomeLeave DEF CapInv
<1> QED
    BY <1>2, <1>3, <1>4, <1>5, <1>6 DEF AgentNext

\* A run starts or ends, or a day passes.
LEMMA CapsInRunning ==
    ASSUME TypeOK, CapInv,
           (\E r \in runs : LoadPlan(r) \/ EndRun(r)) \/ DayPasses \/ UNCHANGED vars
    PROVE  CapInv'
<1> USE WorkspaceAssumption
<1>1. UNCHANGED <<agents, req>>
    BY DEF LoadPlan, EndRun, DayPasses, vars
<1>2. UNCHANGED <<Open, PastRuns, PastLive, PastAgents>>
    BY <1>1 DEF Open, PastRuns, PastLive, PastAgents, At
<1>3. ServedAreFew'
    BY <1>2 DEF CapInv, ServedAreFew
<1>4. ASSUME NEW r \in runs, NEW s, r.status \in Live, runs' = WithStatus(r, s)
      PROVE  CapInv'
    <2> DEFINE x == [r EXCEPT !.status = s]
    <2>1. x.recent = r.recent /\ x.live = r.live /\ r.recent \in BOOLEAN
        BY DEF TypeOK, RunRow
    <2>2. runs' = (runs \ {r}) \cup {x} /\ r \in Existing
        BY <1>4 DEF WithStatus, Existing, Live
    <2> HIDE DEF x
    <2>3. RecentRuns' \subseteq IF r \in RecentRuns THEN (RecentRuns \ {r}) \cup {x} ELSE RecentRuns
        BY <2>1, <2>2 DEF RecentRuns, Existing
    <2>4. RecentLiveRuns' \subseteq IF r \in RecentLiveRuns
                                   THEN (RecentLiveRuns \ {r}) \cup {x} ELSE RecentLiveRuns
        BY <2>1, <2>2 DEF RecentRuns, RecentLiveRuns, Existing
    <2>5. ASSUME NEW S, NEW T, IsFiniteSet(S), T \subseteq IF r \in S THEN (S \ {r}) \cup {x} ELSE S
          PROVE  IsFiniteSet(T) /\ Cardinality(T) <= Cardinality(S)
        <3>1. CASE r \in S
            <4>1. IsFiniteSet(S \ {r}) /\ Cardinality(S \ {r}) = Cardinality(S) - 1
                BY <2>5, <3>1, FS_RemoveElement
            <4>2. IsFiniteSet(S) /\ Cardinality(S \ {r}) < Cardinality(S)
                BY <2>5, <4>1, FS_CardinalityType
            <4>3. /\ IsFiniteSet((S \ {r}) \cup {x})
                  /\ \/ Cardinality((S \ {r}) \cup {x}) = Cardinality(S \ {r}) + 1
                     \/ Cardinality((S \ {r}) \cup {x}) = Cardinality(S \ {r})
                BY <4>1, FS_AddElement
            <4>4. IsFiniteSet(T) /\ Cardinality(T) <= Cardinality((S \ {r}) \cup {x})
                BY <2>5, <3>1, <4>3, FS_Subset
            <4>5. /\ Cardinality(S) \in Nat /\ Cardinality(T) \in Nat
                  /\ Cardinality(S \ {r}) \in Nat /\ Cardinality((S \ {r}) \cup {x}) \in Nat
                BY <4>1, <4>2, <4>3, <4>4, FS_CardinalityType
            <4> QED
                BY <4>1, <4>3, <4>4, <4>5
        <3>2. CASE r \notin S
            BY <2>5, <3>2, FS_Subset
        <3> QED
            BY <3>1, <3>2
    <2>6. /\ IsFiniteSet(RecentRuns') /\ Cardinality(RecentRuns') <= Cardinality(RecentRuns)
          /\ IsFiniteSet(RecentLiveRuns')
          /\ Cardinality(RecentLiveRuns') <= Cardinality(RecentLiveRuns)
        <3>1. IsFiniteSet(RecentRuns) /\ IsFiniteSet(RecentLiveRuns)
            BY DEF CapInv, Within
        <3> QED
            BY <2>3, <2>4, <2>5, <3>1
    <2>7. /\ Within(RecentRuns', PastRuns, RunCap, MaxOpen)
          /\ Within(RecentLiveRuns', PastLive, LiveCap, MaxOpen)
        BY <2>6, Leaves DEF CapInv
    <2> QED
        BY <1>1, <1>2, <1>3, <2>7 DEF CapInv
<1>5. CASE DayPasses
    <2>1. \A r \in runs : ~[r EXCEPT !.recent = FALSE].recent
        BY DEF TypeOK, RunRow
    <2>2. RecentRuns' = {} /\ RecentLiveRuns' = {}
        BY <1>5, <2>1 DEF DayPasses, RecentRuns, RecentLiveRuns, Existing
    <2>3. Within({}, PastRuns, RunCap, MaxOpen) /\ Within({}, PastLive, LiveCap, MaxOpen)
        BY PastAreServed, Empties DEF CapInv, ServedAreFew
    <2> QED
        BY <1>1, <1>2, <1>3, <2>2, <2>3 DEF CapInv
<1>6. CASE UNCHANGED vars
    BY <1>2, <1>3, <1>6 DEF vars, CapInv, RecentRuns, RecentLiveRuns, Existing
<1> QED
    BY <1>4, <1>5, <1>6 DEF LoadPlan, EndRun

\* Rows that count and requests that have counted them and not inserted theirs
\* are together no more than the cap and the other requests served.
THEOREM CapInvariance == Spec => []CapInv
<1>1. TypeOK /\ CapInv /\ [Next]_vars => CapInv'
    BY CapsInRuns, CapsInSuites, CapsInAgents, CapsInRunning DEF Next
<1> QED
    BY <1>1, CapInit, VersionsInvariance, PTL DEF Spec

\* However requests race, no cap is overshot by more than the other requests
\* served at the moment (limits.py).
THEOREM CapsCorrect == Spec => []CapOvershootBounded
<1>1. CapInv => CapOvershootBounded
    BY WithinSays, WorkspaceAssumption DEF CapInv, CapOvershootBounded
<1> QED
    BY <1>1, CapInvariance, PTL

-----------------------------------------------------------------------------
(* Who may read and change what (Access) *)

Named == Requests \cup {First, Second, Other}

Kinds == {"session", "key", "stream", "link"}

\* What a request is and has read, by where it is.
Presented == [at : {"authKey", "find", "commit", "committed"}, by : [kind : Kinds, id : Named], op : A!Ops,
              on : Named, entitled : BOOLEAN]
Hashed    == [at : {"argon2", "hashing"}, by : {None}, op : {"register", "login", "unknown"},
              on : Named]
Inserting == [at : {"register", "started"}, by : {None}, op : {"register"}, on : Named]
Entering  == [at : {"login"}, by : {None}, op : {"login"}, on : Named]

Call == [at : {"idle", "done"}] \cup Presented \cup Hashed \cup Inserting \cup Entering

AccessType ==
    /\ accounts \subseteq [id : Named, email : Named, recent : BOOLEAN]
    /\ sessions \subseteq Named
    /\ projects \subseteq [id : Named, owner : Named]
    /\ keys \subseteq [id : Named, project : Named, of : Named, live : BOOLEAN]
    /\ tokens \subseteq [id : Named, run : Named, of : Named, live : BOOLEAN]
    /\ links \subseteq [run : Named, token : Named, of : Named, live : BOOLEAN]
    /\ calls \in [Requests -> Call]

\* A name that no request still to be answered will give.
Answered(id) == id \in Requests => calls[id].at = "done"

\* Names are given once, and who handed a key, a token or a link out owns what
\* it is for.
HandedOut ==
    /\ \A p, r \in projects : p.id = r.id => p = r
    /\ \A k, m \in keys : k.id = m.id => k = m
    /\ \A p \in projects : Answered(p.id)
    /\ \A k \in keys : Answered(k.id) /\ [id |-> k.project, owner |-> k.of] \in projects
    /\ \A t \in tokens : [id |-> t.run, owner |-> t.of] \in projects
    /\ \A l \in links : Answered(l.token) /\ [id |-> l.run, owner |-> l.of] \in projects

\* What holds of a request by the kind of its credential.
BySession(q) ==
    LET c == calls[q]
    IN  /\ c.op \notin A!KeyOnly
        /\ [id |-> c.on, owner |-> c.by.id] \in projects => c.entitled
        /\ c.at = "commit" /\ c.op # "createProject"
             => [id |-> c.on, owner |-> c.by.id] \in projects

\* Its key exists, and from the authentication to the commit it is live.
ByKey(q) ==
    LET c == calls[q]
    IN  \E k \in keys :
            /\ k.id = c.by.id
            /\ k.live /\ c.op \notin A!UserOnly /\ k.project = c.on => c.entitled
            /\ c.at # "authKey" => k.live /\ c.op \notin A!UserOnly
            /\ c.at = "commit" => k.project = c.on

ByStream(q) == calls[q].op = "stream" /\ calls[q].entitled

ByLink(q) ==
    LET c == calls[q]
    IN  /\ Answered(c.by.id)
        /\ \A l \in links : l.token = c.by.id /\ l.run = c.on /\ l.live => c.entitled
        /\ c.at = "commit" => c.entitled

Rightful(q) ==
    /\ Answered(calls[q].on)
    /\ calls[q].at = "authKey" => calls[q].by.kind = "key"
    /\ calls[q].by.kind = "link" <=> calls[q].op = "shared"
    /\ calls[q].by.kind = "session" => BySession(q)
    /\ calls[q].by.kind = "key" => ByKey(q)
    /\ calls[q].by.kind = "stream" => ByStream(q)
    /\ calls[q].by.kind = "link" => ByLink(q)

Using(q) == calls[q].at \in {"authKey", "find", "commit"}

AccessInv == AccessType /\ HandedOut /\ \A q \in Requests : Using(q) => Rightful(q)

\* Where a request is tells what it has read.
LEMMA CallShapes ==
    ASSUME NEW c \in Call
    PROVE  /\ c.at \in {"authKey", "find", "commit", "committed"} => c \in Presented
           /\ c.at \in {"argon2", "hashing"} => c \in Hashed
           /\ c.at \in {"register", "started"} => c \in Inserting
           /\ c.at = "login" => c \in Entering
BY DEF Call, Presented, Hashed, Inserting, Entering

LEMMA CallMoves ==
    ASSUME calls \in [Requests -> Call], NEW q \in Requests, NEW c \in Call,
           calls' = [calls EXCEPT ![q] = c]
    PROVE  /\ calls' \in [Requests -> Call] /\ calls'[q] = c
           /\ \A p \in Requests \ {q} : calls'[p] = calls[p]
OBVIOUS

LEMMA CallGoesOn ==
    ASSUME calls \in [Requests -> Call], NEW q \in Requests, NEW place, A!Goto(q, place),
           [calls[q] EXCEPT !.at = place] \in Call
    PROVE  /\ calls' \in [Requests -> Call] /\ calls'[q] = [calls[q] EXCEPT !.at = place]
           /\ \A p \in Requests \ {q} : calls'[p] = calls[p]
BY DEF A!Goto

LEMMA CallAnswers ==
    ASSUME calls \in [Requests -> Call], NEW q \in Requests, A!Answer(q)
    PROVE  /\ calls' \in [Requests -> Call] /\ calls'[q] = [at |-> "done"]
           /\ \A p \in Requests \ {q} : calls'[p] = calls[p]
<1>1. [at |-> "done"] \in Call
    BY DEF Call
<1> QED
    BY <1>1 DEF A!Answer

\* A request that has presented a credential goes on with it.
LEMMA Continues ==
    ASSUME AccessType, NEW q \in Requests, Using(q), NEW place \in {"find", "commit", "committed"},
           A!Goto(q, place)
    PROVE  /\ calls' \in [Requests -> Call]
           /\ calls'[q] = [calls[q] EXCEPT !.at = place] /\ calls'[q] \in Presented
           /\ \A p \in Requests \ {q} : calls'[p] = calls[p]
<1>1. calls[q] \in Presented
    BY CallShapes DEF Using, AccessType
<1>2. [calls[q] EXCEPT !.at = place] \in Presented
    BY <1>1 DEF Presented
<1> QED
    BY <1>2, CallGoesOn DEF AccessType, Call

\* What no step of another request may do to the tables.
Grows ==
    /\ projects \subseteq projects'
    /\ \A r \in projects' \ projects : ~Answered(r.id)
    /\ \A k \in keys : \E m \in keys' :
          /\ m.id = k.id /\ m.project = k.project /\ m.of = k.of /\ (m.live => k.live)
          /\ A!Locked(k.id) => m = k
    /\ \A l \in links' : l.live => l \in links \/ ~Answered(l.token)
    /\ \A id \in Named : Answered(id) => Answered(id)'

LEMMA RightfulStays ==
    ASSUME AccessInv, Grows, NEW p \in Requests, Using(p), calls'[p] = calls[p]
    PROVE  Rightful(p)'
<1>1. calls[p] \in Presented /\ Rightful(p)
    BY CallShapes DEF AccessInv, AccessType, Using
<1>2. calls[p].on \in Named /\ calls[p].by \in [kind : Kinds, id : Named]
    BY <1>1 DEF Presented
<1>3. Answered(calls[p].on)'
    BY <1>1, <1>2 DEF Rightful, Grows, Answered
<1>4. CASE calls[p].by.kind = "session"
    <2>1. [id |-> calls[p].on, owner |-> calls[p].by.id] \in projects'
              => [id |-> calls[p].on, owner |-> calls[p].by.id] \in projects
        BY <1>1 DEF Rightful, Grows
    <2>2. BySession(p)'
        BY <1>1, <1>4, <2>1 DEF Rightful, BySession, Grows
    <2> QED
        BY <1>1, <1>3, <1>4, <2>2 DEF Rightful
<1>5. CASE calls[p].by.kind = "key"
    <2>1. PICK k \in keys :
            /\ k.id = calls[p].by.id
            /\ k.live /\ calls[p].op \notin A!UserOnly /\ k.project = calls[p].on
                 => calls[p].entitled
            /\ calls[p].at # "authKey" => k.live /\ calls[p].op \notin A!UserOnly
            /\ calls[p].at = "commit" => k.project = calls[p].on
        BY <1>1, <1>5 DEF Rightful, ByKey
    <2>2. PICK m \in keys' :
            /\ m.id = k.id /\ m.project = k.project /\ m.of = k.of /\ (m.live => k.live)
            /\ A!Locked(k.id) => m = k
        BY DEF Grows
    <2>3. calls[p].at # "authKey" => A!Locked(k.id)
        <3>1. calls[p].by = [kind |-> "key", id |-> k.id]
            BY <1>2, <1>5, <2>1
        <3> QED
            BY <3>1 DEF A!Locked, Using
    <2>4. ByKey(p)'
        BY <2>1, <2>2, <2>3 DEF ByKey
    <2> QED
        BY <1>1, <1>3, <1>5, <2>4 DEF Rightful
<1>6. CASE calls[p].by.kind = "stream"
    BY <1>1, <1>3, <1>6 DEF Rightful, ByStream
<1>7. CASE calls[p].by.kind = "link"
    <2>1. ByLink(p)'
        BY <1>1, <1>2, <1>7 DEF Rightful, ByLink, Grows, Answered
    <2> QED
        BY <1>1, <1>3, <1>7, <2>1 DEF Rightful
<1> QED
    BY <1>2, <1>4, <1>5, <1>6, <1>7 DEF Kinds

\* A step of q that keeps the tables in order and its own right.
LEMMA AccessStep ==
    ASSUME AccessInv, Grows, AccessType', HandedOut', NEW q \in Requests,
           \A p \in Requests \ {q} : calls'[p] = calls[p], Using(q)' => Rightful(q)'
    PROVE  AccessInv'
<1>1. ASSUME NEW p \in Requests, Using(p)' PROVE Rightful(p)'
    <2>1. CASE p = q
        BY <1>1, <2>1
    <2>2. CASE p # q
        BY <1>1, <2>2, RightfulStays DEF Using
    <2> QED
        BY <2>1, <2>2
<1> QED
    BY <1>1 DEF AccessInv

\* As long as nobody is answered twice.
LEMMA AnsweredStays ==
    ASSUME AccessType, NEW q \in Requests, calls[q].at # "done" \/ calls'[q].at = "done",
           \A p \in Requests \ {q} : calls'[p] = calls[p]
    PROVE  \A id \in Named : Answered(id) => Answered(id)'
BY DEF Answered

\* And a step of q that leaves the tables alone.
LEMMA QuietStep ==
    ASSUME AccessInv, UNCHANGED A!tables, calls' \in [Requests -> Call],
           NEW q \in Requests, calls[q].at # "done" \/ calls'[q].at = "done",
           \A p \in Requests \ {q} : calls'[p] = calls[p], Using(q)' => Rightful(q)'
    PROVE  AccessInv'
<1>1. \A id \in Named : Answered(id) => Answered(id)'
    BY AnsweredStays DEF AccessInv
<1>2. AccessType'
    BY DEF AccessInv, AccessType, A!tables
<1>3. HandedOut'
    BY <1>1 DEF AccessInv, AccessType, HandedOut, A!tables
<1>4. Grows
    BY <1>1 DEF Grows, A!tables
<1> QED
    BY <1>2, <1>3, <1>4, AccessStep

LEMMA AccessInit == A!Init => AccessInv
<1> SUFFICES ASSUME A!Init PROVE AccessInv
    OBVIOUS
<1>1. {First, Second, Other} \cap Requests = {} /\ First # Second
    BY PartsAssumption, WorkspaceAssumption
<1>2. [at |-> "idle"] \in Call
    BY DEF Call
<1>3. AccessType
    BY <1>2 DEF A!Init, AccessType, Named
<1>4. HandedOut
    BY <1>1 DEF A!Init, HandedOut, Answered
<1>5. \A q \in Requests : ~Using(q)
    BY DEF A!Init, Using
<1> QED
    BY <1>3, <1>4, <1>5 DEF AccessInv

\* A key's row, its project and its account.
LEMMA KeyRow ==
    ASSUME AccessInv, NEW k \in keys, NEW by, by.kind = "key", by.id = k.id
    PROVE  /\ A!Key(by) = k /\ A!Scope(by) = k.project /\ A!Scope(by) # None
           /\ A!User(by) = k.of /\ A!ProjectOf(k.project).owner = k.of
<1>1. A!Key(by) = k
    BY DEF A!Key, AccessInv, HandedOut
<1>2. k.project \in Named /\ None \notin Named
    BY PartsAssumption, WorkspaceAssumption DEF AccessInv, AccessType, Named
<1>3. A!ProjectOf(k.project) = [id |-> k.project, owner |-> k.of]
    BY DEF A!ProjectOf, AccessInv, HandedOut
<1> QED
    BY <1>1, <1>2, <1>3 DEF A!Scope, A!User

LEMMA Owner ==
    ASSUME AccessInv, NEW p \in projects
    PROVE  A!ProjectOf(p.id) = p /\ p = [id |-> p.id, owner |-> p.owner]
<1>1. A!ProjectOf(p.id) = p
    BY DEF A!ProjectOf, AccessInv, HandedOut
<1>2. p = [id |-> p.id, owner |-> p.owner]
    BY DEF AccessInv, AccessType
<1> QED
    BY <1>1, <1>2

\* The owned_* queries, each of them.
LEMMA OwnedSays ==
    ASSUME AccessInv, NEW by, NEW on,
           \/ A!OwnedRun(by, on) \/ A!OwnedSuite(by, on) \/ A!OwnedAgent(by, on)
           \/ A!OwnedResult(by, on) \/ A!OwnedProject(by, on)
    PROVE  /\ [id |-> on, owner |-> A!User(by)] \in projects
           /\ A!Scope(by) \in {None, on}
BY Owner DEF A!OwnedRun, A!OwnedSuite, A!OwnedAgent, A!OwnedResult, A!OwnedProject

\* A request arrives with a credential.
LEMMA AccessArrives ==
    ASSUME AccessInv, NEW q \in Requests, NEW by \in A!Credentials, NEW op \in A!Ops,
           NEW p \in projects, A!GetPrincipal(q, by, op, p.id)
    PROVE  AccessInv'
<1>1. by \in [kind : Kinds, id : Named]
    BY DEF A!Credentials, AccessInv, AccessType, Kinds
<1>2. p.id \in Named /\ A!Entitled(by, op, p.id) \in BOOLEAN
    BY DEF A!Entitled, AccessInv, AccessType
<1> DEFINE c == [at |-> IF by.kind = "key" THEN "authKey" ELSE "find",
                 by |-> by, op |-> op, on |-> p.id, entitled |-> A!Entitled(by, op, p.id)]
<1>3. c \in Presented
    BY <1>1, <1>2 DEF Presented
<1>4. /\ calls' \in [Requests -> Call] /\ calls'[q] = c
      /\ \A r \in Requests \ {q} : calls'[r] = calls[r]
    BY <1>3, CallMoves DEF A!GetPrincipal, AccessInv, AccessType, Call
<1>5. UNCHANGED A!tables /\ calls[q].at = "idle"
    BY DEF A!GetPrincipal, A!Arrive, A!At
<1>6. A!ProjectOf(p.id).owner = p.owner /\ p = [id |-> p.id, owner |-> p.owner]
    BY Owner
<1>7. /\ by.kind = "link" <=> op = "shared"
      /\ by.kind \in {"session", "stream"} =>
           op \notin A!KeyOnly /\ A!RightType(by, op) /\ A!StreamPrincipal(by, p.id)
    BY <1>1 DEF A!GetPrincipal, Kinds
<1>8. \A id \in Named : Answered(id) => Answered(id)'
    BY <1>4, <1>5, AnsweredStays DEF AccessInv
<1>9. Answered(p.id)'
    BY <1>2, <1>8 DEF AccessInv, HandedOut
<1>10. UNCHANGED <<projects, keys, tokens, links>>
    BY <1>5 DEF A!tables
<1>11. CASE by.kind = "session"
    <2>1. [id |-> p.id, owner |-> by.id] \in projects => A!Entitled(by, op, p.id)
        BY <1>6, <1>11, Owner DEF A!Entitled
    <2>2. BySession(q)'
        BY <1>4, <1>7, <1>10, <1>11, <2>1 DEF BySession
    <2>3. Rightful(q)'
        BY <1>4, <1>7, <1>9, <1>11, <2>2 DEF Rightful
    <2> QED
        BY <1>4, <1>5, <2>3, QuietStep
<1>12. CASE by.kind = "key"
    <2>1. PICK k \in keys : by = [kind |-> "key", id |-> k.id]
        BY <1>12 DEF A!Credentials
    <2>2. k.live /\ op \notin A!UserOnly /\ k.project = p.id => A!Entitled(by, op, p.id)
        <3>1. k.of = A!ProjectOf(k.project).owner
            BY <2>1, KeyRow
        <3> QED
            BY <2>1, <3>1 DEF A!Entitled
    <2>3. ByKey(q)'
        BY <1>4, <1>10, <1>12, <2>1, <2>2 DEF ByKey
    <2>4. Rightful(q)'
        BY <1>4, <1>7, <1>9, <1>12, <2>3 DEF Rightful
    <2> QED
        BY <1>4, <1>5, <2>4, QuietStep
<1>13. CASE by.kind = "stream"
    <2>1. PICK t \in tokens : by = [kind |-> "stream", id |-> t.id]
        BY <1>13 DEF A!Credentials
    <2>2. A!Token(by) \in tokens /\ A!Token(by).id = by.id
        BY <2>1 DEF A!Token
    <2>3. A!Token(by).live /\ A!Token(by).run = p.id /\ op = "stream"
        BY <1>7, <1>13 DEF A!StreamPrincipal, A!RightType
    <2>4. A!Token(by).of = p.owner
        BY <1>6, <2>2, <2>3 DEF AccessInv, HandedOut
    <2>5. by = [kind |-> "stream", id |-> A!Token(by).id]
        BY <2>1, <2>2
    <2>6. A!Entitled(by, op, p.id)
        BY <1>6, <2>2, <2>3, <2>4, <2>5 DEF A!Entitled
    <2>7. Rightful(q)'
        BY <1>4, <1>7, <1>9, <1>13, <2>3, <2>6 DEF Rightful, ByStream
    <2> QED
        BY <1>4, <1>5, <2>7, QuietStep
<1>14. CASE by.kind = "link"
    <2>1. PICK l \in links : by = [kind |-> "link", id |-> l.token]
        BY <1>14 DEF A!Credentials
    <2>2. Answered(by.id)'
        BY <1>1, <1>8, <2>1 DEF AccessInv, HandedOut
    <2>3. ASSUME NEW m \in links, m.token = by.id, m.run = p.id, m.live
          PROVE  A!Entitled(by, op, p.id)
        <3>1. m.of = p.owner
            BY <1>6, <2>3 DEF AccessInv, HandedOut
        <3>2. by = [kind |-> "link", id |-> m.token]
            BY <2>1, <2>3
        <3> QED
            BY <1>6, <1>7, <1>14, <2>3, <3>1, <3>2 DEF A!Entitled
    <2>4. ByLink(q)'
        BY <1>4, <1>10, <1>14, <2>2, <2>3 DEF ByLink
    <2>5. Rightful(q)'
        BY <1>4, <1>7, <1>9, <1>14, <2>4 DEF Rightful
    <2> QED
        BY <1>4, <1>5, <2>5, QuietStep
<1> QED
    BY <1>1, <1>11, <1>12, <1>13, <1>14 DEF Kinds

LEMMA KeyAuthenticated ==
    ASSUME AccessInv, NEW q \in Requests, A!ApiKeyPrincipal(q)
    PROVE  AccessInv'
<1> USE DEF A!ApiKeyPrincipal, A!At
<1>1. calls[q].at = "authKey" /\ Using(q) /\ Rightful(q)
    BY DEF Using, AccessInv
<1>2. UNCHANGED A!tables
    OBVIOUS
<1>3. CASE A!Answer(q)
    BY <1>1, <1>2, <1>3, CallAnswers, QuietStep DEF AccessInv, AccessType, Using
<1>4. CASE A!Key(calls[q].by).live /\ calls[q].op \notin A!UserOnly /\ A!Goto(q, "find")
    <2>1. /\ calls' \in [Requests -> Call]
          /\ calls'[q] = [calls[q] EXCEPT !.at = "find"] /\ calls[q] \in Presented
          /\ \A p \in Requests \ {q} : calls'[p] = calls[p]
        BY <1>1, <1>4, Continues, CallShapes DEF AccessInv, AccessType
    <2>2. /\ calls'[q].at = "find" /\ calls'[q].by = calls[q].by /\ calls'[q].op = calls[q].op
          /\ calls'[q].on = calls[q].on /\ calls'[q].entitled = calls[q].entitled
        BY <2>1 DEF Presented
    <2>3. calls[q].by.kind = "key" /\ ByKey(q)
        BY <1>1 DEF Rightful
    <2>4. PICK k \in keys :
            /\ k.id = calls[q].by.id
            /\ k.live /\ calls[q].op \notin A!UserOnly /\ k.project = calls[q].on
                 => calls[q].entitled
        BY <2>3 DEF ByKey
    <2>5. A!Key(calls[q].by) = k
        BY <2>3, <2>4, KeyRow
    <2>6. ByKey(q)'
        BY <1>2, <1>4, <2>2, <2>4, <2>5 DEF ByKey, A!tables
    <2>7. Answered(calls[q].on)'
        BY <1>1, <2>1, <2>2, AnsweredStays DEF Rightful, Presented, AccessInv
    <2>8. Rightful(q)'
        BY <1>1, <2>2, <2>3, <2>6, <2>7 DEF Rightful
    <2> QED
        BY <1>1, <1>2, <2>1, <2>8, QuietStep
<1> QED
    BY <1>3, <1>4

\* What the endpoint's first query finds is what the request has a right to.
LEMMA Found ==
    ASSUME AccessInv, NEW q \in Requests, A!Find(q)
    PROVE  AccessInv'
<1> USE DEF A!At
<1>1. calls[q].at = "find" /\ Using(q) /\ Rightful(q)
    BY DEF Using, AccessInv, A!Find
<1>2. UNCHANGED A!tables
    BY DEF A!Find
<1>3. CASE A!Answer(q)
    BY <1>1, <1>2, <1>3, CallAnswers, QuietStep DEF AccessInv, AccessType, Using
<1>4. ASSUME A!Goto(q, "commit"),
             calls[q].op = "shared" => A!FindSharedRun(calls[q].by, calls[q].on),
             calls[q].op \notin {"shared", "createProject"} =>
               \/ A!OwnedRun(calls[q].by, calls[q].on) \/ A!OwnedSuite(calls[q].by, calls[q].on)
               \/ A!OwnedAgent(calls[q].by, calls[q].on)
               \/ A!OwnedResult(calls[q].by, calls[q].on)
               \/ A!OwnedProject(calls[q].by, calls[q].on)
      PROVE  AccessInv'
    <2>1. /\ calls' \in [Requests -> Call]
          /\ calls'[q] = [calls[q] EXCEPT !.at = "commit"] /\ calls[q] \in Presented
          /\ \A p \in Requests \ {q} : calls'[p] = calls[p]
        BY <1>1, <1>4, Continues, CallShapes DEF AccessInv, AccessType
    <2>2. /\ calls'[q].at = "commit" /\ calls'[q].by = calls[q].by /\ calls'[q].op = calls[q].op
          /\ calls'[q].on = calls[q].on /\ calls'[q].entitled = calls[q].entitled
        BY <2>1 DEF Presented
    <2>3. Answered(calls[q].on)' /\ (Answered(calls[q].by.id) => Answered(calls[q].by.id)')
        BY <1>1, <2>1, <2>2, AnsweredStays DEF Rightful, Presented, AccessInv
    <2>4. UNCHANGED <<projects, keys, tokens, links>>
        BY <1>2 DEF A!tables
    <2>5. calls[q].op \notin {"shared", "createProject"} =>
            /\ [id |-> calls[q].on, owner |-> A!User(calls[q].by)] \in projects
            /\ A!Scope(calls[q].by) \in {None, calls[q].on}
        BY <1>4, OwnedSays
    <2>6. calls[q].by.kind \in Kinds
        BY <2>1 DEF Presented
    <2>7. Rightful(q)'
        <3>1. CASE calls[q].by.kind = "session"
            <4>1. A!User(calls[q].by) = calls[q].by.id
                BY <3>1 DEF A!User
            <4>2. BySession(q)'
                BY <1>1, <2>2, <2>4, <2>5, <3>1, <4>1 DEF BySession, Rightful
            <4> QED
                BY <1>1, <2>2, <2>3, <3>1, <4>2 DEF Rightful
        <3>2. CASE calls[q].by.kind = "key"
            <4>1. PICK k \in keys :
                    /\ k.id = calls[q].by.id
                    /\ k.live /\ calls[q].op \notin A!UserOnly /\ k.project = calls[q].on
                         => calls[q].entitled
                    /\ k.live /\ calls[q].op \notin A!UserOnly
                BY <1>1, <3>2 DEF Rightful, ByKey
            <4>2. A!Scope(calls[q].by) = k.project /\ k.project # None
                BY <3>2, <4>1, KeyRow
            <4>3. calls[q].op \notin {"shared", "createProject"}
                BY <1>1, <3>2, <4>1 DEF Rightful, A!UserOnly
            <4>4. ByKey(q)'
                BY <2>2, <2>4, <2>5, <4>1, <4>2, <4>3 DEF ByKey
            <4> QED
                BY <1>1, <2>2, <2>3, <3>2, <4>4 DEF Rightful
        <3>3. CASE calls[q].by.kind = "stream"
            BY <1>1, <2>2, <2>3, <3>3 DEF Rightful, ByStream
        <3>4. CASE calls[q].by.kind = "link"
            <4>1. calls[q].entitled
                BY <1>1, <1>4, <3>4 DEF Rightful, ByLink, A!FindSharedRun
            <4>2. ByLink(q)'
                BY <1>1, <2>2, <2>3, <2>4, <3>4, <4>1 DEF Rightful, ByLink
            <4> QED
                BY <1>1, <2>2, <2>3, <3>4, <4>2 DEF Rightful
        <3> QED
            BY <2>6, <3>1, <3>2, <3>3, <3>4 DEF Kinds
    <2> QED
        BY <1>1, <1>2, <2>1, <2>7, QuietStep
<1> QED
    BY <1>3, <1>4 DEF A!Find

\* Who commits what.
LEMMA CommitsAs ==
    ASSUME AccessInv, NEW q \in Requests, calls[q].at = "commit"
    PROVE  /\ calls[q] \in Presented /\ Rightful(q)
           /\ calls[q].op \in A!UserOnly => calls[q].by.kind = "session"
           /\ calls[q].op # "createProject" => calls[q].entitled
           /\ calls[q].op \notin {"createProject", "shared", "stream"} =>
                [id |-> calls[q].on, owner |-> A!User(calls[q].by)] \in projects
           /\ A!User(calls[q].by) \in Named \/ calls[q].by.kind = "stream"
<1>1. calls[q] \in Presented /\ Rightful(q)
    BY CallShapes DEF Using, AccessInv, AccessType
<1>2. calls[q].by.kind \in Kinds /\ calls[q].by.id \in Named
    BY <1>1 DEF Presented
<1>3. CASE calls[q].by.kind = "session"
    BY <1>1, <1>2, <1>3 DEF Rightful, BySession, A!User
<1>4. CASE calls[q].by.kind = "key"
    <2>1. PICK k \in keys :
            /\ k.id = calls[q].by.id
            /\ k.live /\ calls[q].op \notin A!UserOnly /\ k.project = calls[q].on
            /\ calls[q].entitled
        BY <1>1, <1>4 DEF Rightful, ByKey
    <2>2. A!User(calls[q].by) = k.of
        BY <1>4, <2>1, KeyRow
    <2>3. [id |-> k.project, owner |-> k.of] \in projects /\ k.of \in Named
        BY DEF AccessInv, HandedOut, AccessType
    <2> QED
        BY <1>1, <1>4, <2>1, <2>2, <2>3
<1>5. CASE calls[q].by.kind = "stream"
    BY <1>1, <1>5 DEF Rightful, ByStream, A!UserOnly
<1>6. CASE calls[q].by.kind = "link"
    BY <1>1, <1>2, <1>6 DEF Rightful, ByLink, A!UserOnly, A!User
<1> QED
    BY <1>2, <1>3, <1>4, <1>5, <1>6 DEF Kinds

LEMMA Replied ==
    ASSUME AccessInv, NEW q \in Requests, A!Reply(q) \/ A!RevokeUnknownKey(q) \/ A!TellQueue(q)
    PROVE  AccessInv'
<1>1. A!Answer(q) /\ UNCHANGED A!tables
    BY DEF A!Reply, A!RevokeUnknownKey, A!TellQueue, A!Commits
<1> QED
    BY <1>1, CallAnswers, QuietStep DEF AccessInv, AccessType, Using

\* A request that has committed makes no more use of its credential.
LEMMA RunCommitted ==
    ASSUME AccessInv, NEW q \in Requests, A!CommitRun(q)
    PROVE  AccessInv'
<1>1. calls[q].at = "commit" /\ Using(q) /\ UNCHANGED A!tables
    BY DEF A!CommitRun, A!At, Using
<1>2. /\ calls' \in [Requests -> Call]
      /\ calls'[q] = [calls[q] EXCEPT !.at = "committed"] /\ calls'[q].at = "committed"
      /\ \A p \in Requests \ {q} : calls'[p] = calls[p]
    <2>1. calls[q] \in Presented
        BY <1>1, CallShapes DEF AccessInv, AccessType
    <2>2. /\ calls' \in [Requests -> Call]
          /\ calls'[q] = [calls[q] EXCEPT !.at = "committed"]
          /\ \A p \in Requests \ {q} : calls'[p] = calls[p]
        BY <1>1, Continues DEF A!CommitRun, AccessInv
    <2> QED
        BY <2>1, <2>2 DEF Presented
<1> QED
    BY <1>1, <1>2, QuietStep DEF Using

\* A request commits and is answered: what is left to show is that the tables
\* are in order and have grown.
LEMMA CommitStep ==
    ASSUME AccessInv, NEW q \in Requests, calls[q].at = "commit", A!Answer(q)
    PROVE  /\ calls' \in [Requests -> Call] /\ Answered(q)' /\ ~Answered(q)
           /\ \A id \in Named : Answered(id) => Answered(id)'
           /\ AccessType' /\ HandedOut' /\ Grows => AccessInv'
<1>1. /\ calls' \in [Requests -> Call] /\ calls'[q] = [at |-> "done"]
      /\ \A p \in Requests \ {q} : calls'[p] = calls[p]
    BY CallAnswers DEF AccessInv, AccessType
<1>2. ~Using(q)'
    BY <1>1 DEF Using
<1>3. \A id \in Named : Answered(id) => Answered(id)'
    BY <1>1, AnsweredStays DEF AccessInv
<1> QED
    BY <1>1, <1>2, <1>3, AccessStep DEF Answered

LEMMA ProjectCreated ==
    ASSUME AccessInv, NEW q \in Requests, A!CreateProject(q)
    PROVE  AccessInv'
<1> USE DEF A!CreateProject, A!Commits, A!At
<1>1. calls[q] \in Presented /\ calls[q].by.kind = "session"
    BY CommitsAs DEF A!UserOnly
<1>2. A!User(calls[q].by) \in Named /\ q \in Named
    BY <1>1 DEF A!User, Presented, Named
<1>3. /\ projects' = projects \cup {[id |-> q, owner |-> A!User(calls[q].by)]}
      /\ UNCHANGED <<accounts, sessions, keys, tokens, links>>
    OBVIOUS
<1>4. /\ calls' \in [Requests -> Call] /\ Answered(q)' /\ ~Answered(q)
      /\ \A id \in Named : Answered(id) => Answered(id)'
    BY CommitStep
<1>5. AccessType'
    BY <1>2, <1>3, <1>4 DEF AccessInv, AccessType
<1>6. \A p \in projects : p.id # q
    BY <1>4 DEF AccessInv, HandedOut
<1>7. HandedOut'
    BY <1>3, <1>4, <1>6 DEF AccessInv, AccessType, HandedOut
<1>8. Grows
    BY <1>3, <1>4 DEF Grows
<1> QED
    BY <1>5, <1>7, <1>8, CommitStep

LEMMA KeyCreated ==
    ASSUME AccessInv, NEW q \in Requests, A!CreateApiKey(q)
    PROVE  AccessInv'
<1> USE DEF A!CreateApiKey, A!Commits, A!At
<1>1. /\ calls[q] \in Presented /\ A!User(calls[q].by) \in Named
      /\ [id |-> calls[q].on, owner |-> A!User(calls[q].by)] \in projects
    BY CommitsAs DEF A!UserOnly
<1>2. calls[q].on \in Named /\ q \in Named
    BY <1>1 DEF Presented, Named
<1> DEFINE k == [id |-> q, project |-> calls[q].on, of |-> A!User(calls[q].by), live |-> TRUE]
<1>3. /\ keys' = keys \cup {k} /\ UNCHANGED <<accounts, sessions, projects, tokens, links>>
      /\ k \in [id : Named, project : Named, of : Named, live : BOOLEAN]
      /\ k.id = q /\ k.project = calls[q].on /\ k.of = A!User(calls[q].by)
    BY <1>1, <1>2
<1> HIDE DEF k
<1>4. /\ calls' \in [Requests -> Call] /\ Answered(q)' /\ ~Answered(q)
      /\ \A id \in Named : Answered(id) => Answered(id)'
    BY CommitStep
<1>5. AccessType'
    BY <1>1, <1>2, <1>3, <1>4 DEF AccessInv, AccessType
<1>6. \A m \in keys : m.id # q
    BY <1>4 DEF AccessInv, HandedOut
<1>7. HandedOut'
    BY <1>1, <1>3, <1>4, <1>6 DEF AccessInv, AccessType, HandedOut
<1>8. Grows
    BY <1>3, <1>4 DEF Grows
<1> QED
    BY <1>5, <1>7, <1>8, CommitStep

\* The key that is revoked is not one that a request under way holds.
LEMMA KeyRevoked ==
    ASSUME AccessInv, NEW q \in Requests, A!RevokeApiKey(q)
    PROVE  AccessInv'
<1> USE DEF A!RevokeApiKey, A!Commits, A!At
<1>1. PICK k \in keys : /\ ~A!Locked(k.id)
                        /\ keys' = (keys \ {k}) \cup {[k EXCEPT !.live = FALSE]}
    OBVIOUS
<1> DEFINE m == [k EXCEPT !.live = FALSE]
<1>2. /\ m \in [id : Named, project : Named, of : Named, live : BOOLEAN]
      /\ m.id = k.id /\ m.project = k.project /\ m.of = k.of /\ m.live = FALSE
    BY DEF AccessInv, AccessType
<1>3. keys' = (keys \ {k}) \cup {m} /\ UNCHANGED <<accounts, sessions, projects, tokens, links>>
    BY <1>1
<1>4. /\ calls' \in [Requests -> Call]
      /\ \A id \in Named : Answered(id) => Answered(id)'
    BY CommitStep
<1> HIDE DEF m
<1>5. AccessType'
    BY <1>2, <1>3, <1>4 DEF AccessInv, AccessType
<1>6. HandedOut'
    BY <1>2, <1>3, <1>4 DEF AccessInv, AccessType, HandedOut
<1>7. Grows
    <2>1. ASSUME NEW j \in keys
          PROVE  \E n \in keys' :
                    /\ n.id = j.id /\ n.project = j.project /\ n.of = j.of /\ (n.live => j.live)
                    /\ A!Locked(j.id) => n = j
        <3>1. CASE j = k
            BY <1>1, <1>2, <1>3, <3>1
        <3>2. CASE j # k
            BY <1>3, <3>2
        <3> QED
            BY <3>1, <3>2
    <2> QED
        BY <1>3, <1>4, <2>1 DEF Grows
<1> QED
    BY <1>5, <1>6, <1>7, CommitStep

LEMMA TokenCreated ==
    ASSUME AccessInv, NEW q \in Requests, A!StreamToken(q)
    PROVE  AccessInv'
<1> USE DEF A!StreamToken, A!Commits, A!At
<1>1. /\ calls[q] \in Presented /\ A!User(calls[q].by) \in Named
      /\ [id |-> calls[q].on, owner |-> A!User(calls[q].by)] \in projects
    BY CommitsAs DEF A!UserOnly
<1>2. calls[q].on \in Named /\ q \in Named
    BY <1>1 DEF Presented, Named
<1> DEFINE t == [id |-> q, run |-> calls[q].on, of |-> A!User(calls[q].by), live |-> TRUE]
<1>3. /\ tokens' = tokens \cup {t} /\ UNCHANGED <<accounts, sessions, projects, keys, links>>
      /\ t \in [id : Named, run : Named, of : Named, live : BOOLEAN]
      /\ t.run = calls[q].on /\ t.of = A!User(calls[q].by)
    BY <1>1, <1>2
<1> HIDE DEF t
<1>4. /\ calls' \in [Requests -> Call]
      /\ \A id \in Named : Answered(id) => Answered(id)'
    BY CommitStep
<1>5. AccessType'
    BY <1>1, <1>2, <1>3, <1>4 DEF AccessInv, AccessType
<1>6. HandedOut'
    BY <1>1, <1>3, <1>4 DEF AccessInv, AccessType, HandedOut
<1>7. Grows
    BY <1>3, <1>4 DEF Grows
<1> QED
    BY <1>5, <1>6, <1>7, CommitStep

LEMMA LinkWritten ==
    ASSUME AccessInv, NEW q \in Requests, A!CreateShare(q) \/ A!RevokeShare(q)
    PROVE  AccessInv'
<1> USE DEF A!CreateShare, A!RevokeShare, A!Commits, A!At
<1>1. /\ calls[q] \in Presented /\ calls[q].at = "commit"
      /\ [id |-> calls[q].on, owner |-> A!User(calls[q].by)] \in projects
    BY CommitsAs
<1>2. calls[q].on \in Named /\ q \in Named /\ A!User(calls[q].by) \in Named
    BY <1>1 DEF Presented, Named, AccessInv, AccessType
<1> DEFINE l == [run |-> calls[q].on, token |-> q, of |-> A!User(calls[q].by), live |-> TRUE]
<1>3. /\ links' \subseteq links \cup {l}
      /\ UNCHANGED <<accounts, sessions, projects, keys, tokens>>
      /\ l \in [run : Named, token : Named, of : Named, live : BOOLEAN]
      /\ l.run = calls[q].on /\ l.token = q /\ l.of = A!User(calls[q].by)
    BY <1>1, <1>2
<1> HIDE DEF l
<1>4. /\ calls' \in [Requests -> Call] /\ Answered(q)' /\ ~Answered(q)
      /\ \A id \in Named : Answered(id) => Answered(id)'
    BY <1>1, CommitStep
<1>5. AccessType'
    BY <1>1, <1>2, <1>3, <1>4 DEF AccessInv, AccessType
<1>6. HandedOut'
    BY <1>1, <1>3, <1>4 DEF AccessInv, AccessType, HandedOut
<1>7. Grows
    BY <1>3, <1>4 DEF Grows
<1> QED
    BY <1>1, <1>5, <1>6, <1>7, CommitStep

\* What nobody does: a token or a link expires, a day passes.
LEMMA TimePasses ==
    ASSUME AccessInv, A!Expire \/ A!DayPasses \/ UNCHANGED A!vars
    PROVE  AccessInv'
<1>1. UNCHANGED <<sessions, projects, keys, calls>>
    BY DEF A!Expire, A!DayPasses, A!vars
<1>2. \A id \in Named : Answered(id) => Answered(id)'
    BY <1>1 DEF Answered
<1>3. \A t \in tokens : [t EXCEPT !.live = FALSE]
                           \in [id : Named, run : Named, of : Named, live : BOOLEAN]
    BY DEF AccessInv, AccessType
<1>4. \A t \in tokens' : \E u \in tokens : t.run = u.run /\ t.of = u.of
    BY DEF A!Expire, A!DayPasses, A!vars, AccessInv, AccessType
<1>5. \A l \in links : /\ [l EXCEPT !.live = FALSE]
                             \in [run : Named, token : Named, of : Named, live : BOOLEAN]
                       /\ ~[l EXCEPT !.live = FALSE].live
    BY DEF AccessInv, AccessType
<1>6. \A l \in links' : \E m \in links : l.run = m.run /\ l.of = m.of /\ l.token = m.token
    BY DEF A!Expire, A!DayPasses, A!vars, AccessInv, AccessType
<1>7. \A a \in accounts : [a EXCEPT !.recent = FALSE]
                            \in [id : Named, email : Named, recent : BOOLEAN]
    BY DEF AccessInv, AccessType
<1>8. AccessType'
    BY <1>1, <1>3, <1>5, <1>7 DEF AccessInv, AccessType, A!Expire, A!DayPasses, A!vars
<1>9. HandedOut'
    <2>1. /\ \A p, r \in projects' : p.id = r.id => p = r
          /\ \A k, m \in keys' : k.id = m.id => k = m
          /\ \A p \in projects' : Answered(p.id)'
          /\ \A k \in keys' : Answered(k.id)' /\ [id |-> k.project, owner |-> k.of] \in projects'
        BY <1>1, <1>2 DEF AccessInv, HandedOut, Answered
    <2>2. \A t \in tokens' : [id |-> t.run, owner |-> t.of] \in projects'
        BY <1>1, <1>4 DEF AccessInv, HandedOut
    <2>3. \A l \in links' : Answered(l.token)' /\ [id |-> l.run, owner |-> l.of] \in projects'
        BY <1>1, <1>6 DEF AccessInv, HandedOut, Answered
    <2> QED
        BY <2>1, <2>2, <2>3 DEF HandedOut
<1>10. \A l \in links' : l.live => l \in links
    BY <1>5 DEF A!Expire, A!DayPasses, A!vars
<1>11. Grows
    BY <1>1, <1>2, <1>10 DEF Grows
<1>12. ASSUME NEW q \in Requests, Using(q)' PROVE Rightful(q)'
    BY <1>1, <1>11, <1>12, RightfulStays DEF Using
<1> QED
    BY <1>8, <1>9, <1>12 DEF AccessInv

\* Registration and login concern no project.
LEMMA AccountsStep ==
    ASSUME AccessInv, NEW q \in Requests, A!AccountNext(q)
    PROVE  AccessInv'
<1> USE DEF A!At
<1>1. ASSUME NEW email \in {First, Second}, A!Register(q, email) \/ A!Login(q, email)
      PROVE  AccessInv'
    <2>1. \A op \in {"register", "login", "unknown"} :
              [at |-> "argon2", by |-> None, op |-> op, on |-> email] \in Call
        BY DEF Call, Hashed, Named
    <2>2. calls[q].at = "idle" /\ UNCHANGED A!tables
        BY <1>1 DEF A!Register, A!Login, A!Arrive
    <2>3. PICK op \in {"register", "login", "unknown"} :
              calls' = [calls EXCEPT ![q] = [at |-> "argon2", by |-> None, op |-> op, on |-> email]]
        BY <1>1 DEF A!Register, A!Login, A!Ask
    <2>4. /\ calls' \in [Requests -> Call] /\ calls'[q].at = "argon2"
          /\ \A p \in Requests \ {q} : calls'[p] = calls[p]
        BY <2>1, <2>3, CallMoves DEF AccessInv, AccessType
    <2> QED
        BY <2>2, <2>4, QuietStep DEF Using
<1>2. ASSUME NEW place, A!Goto(q, place), [calls[q] EXCEPT !.at = place] \in Call,
             [calls[q] EXCEPT !.at = place].at \notin {"authKey", "find", "commit"},
             calls[q].at # "done", UNCHANGED A!tables
      PROVE  AccessInv'
    BY <1>2, CallGoesOn, QuietStep DEF Using, AccessInv, AccessType
<1>3. ASSUME A!Answer(q), UNCHANGED A!tables
      PROVE  AccessInv'
    BY <1>3, CallAnswers, QuietStep DEF Using, AccessInv, AccessType
<1>4. CASE A!Argon2(q)
    <2>1. calls[q] \in Hashed
        BY <1>4, CallShapes DEF A!Argon2, AccessInv, AccessType
    <2>2. [calls[q] EXCEPT !.at = "hashing"] \in Hashed
        BY <2>1 DEF Hashed
    <2> QED
        BY <1>2, <1>4, <2>1, <2>2 DEF A!Argon2, Hashed, Call
<1>5. CASE A!Argon2Done(q)
    <2>1. calls[q] \in Hashed
        BY <1>5, CallShapes DEF A!Argon2Done, AccessInv, AccessType
    <2>2. CASE A!Answer(q)
        BY <1>3, <1>5, <2>2 DEF A!Argon2Done
    <2>3. CASE calls[q].op = "register" /\ A!Goto(q, calls[q].op)
        <3>1. [calls[q] EXCEPT !.at = "register"] \in Inserting
            BY <2>1, <2>3 DEF Hashed, Inserting
        <3> QED
            BY <1>2, <1>5, <2>3, <3>1 DEF A!Argon2Done, Inserting, Call
    <2>4. CASE calls[q].op = "login" /\ A!Goto(q, calls[q].op)
        <3>1. [calls[q] EXCEPT !.at = "login"] \in Entering
            BY <2>1, <2>4 DEF Hashed, Entering
        <3> QED
            BY <1>2, <1>5, <2>4, <3>1 DEF A!Argon2Done, Entering, Call
    <2> QED
        BY <1>5, <2>2, <2>3, <2>4 DEF A!Argon2Done
<1>6. CASE A!InsertUser(q)
    <2>1. calls[q] \in Inserting
        BY <1>6, CallShapes DEF A!InsertUser, AccessInv, AccessType
    <2>2. [calls[q] EXCEPT !.at = "started"] \in Inserting
        BY <2>1 DEF Inserting
    <2> QED
        BY <1>2, <1>3, <1>6, <2>1, <2>2 DEF A!InsertUser, Inserting, Call
<1>7. CASE A!StartRegistered(q) \/ A!StartSession(q)
    <2>1. calls[q] \in Inserting \cup Entering
        BY <1>7, CallShapes DEF A!StartRegistered, A!StartSession, AccessInv, AccessType
    <2>2. /\ calls' \in [Requests -> Call] /\ calls'[q] = [at |-> "done"]
          /\ \A p \in Requests \ {q} : calls'[p] = calls[p]
        BY <1>7, CallAnswers DEF A!StartRegistered, A!StartSession, AccessInv, AccessType
    <2>3. UNCHANGED <<projects, keys, tokens, links>>
        BY <1>7 DEF A!StartRegistered, A!StartSession
    <2>4. \A id \in Named : Answered(id) => Answered(id)'
        BY <2>2, AnsweredStays DEF AccessInv
    <2>5. accounts' \subseteq [id : Named, email : Named, recent : BOOLEAN]
        <3>1. [id |-> q, email |-> calls[q].on, recent |-> TRUE]
                  \in [id : Named, email : Named, recent : BOOLEAN]
            BY <2>1 DEF Named, Inserting, Entering
        <3> QED
            BY <1>7, <3>1 DEF A!StartRegistered, A!StartSession, AccessInv, AccessType
    <2>6. sessions' \subseteq Named
        BY <1>7 DEF A!StartRegistered, A!StartSession, AccessInv, AccessType, Named, A!Account
    <2>7. AccessType'
        BY <2>2, <2>3, <2>5, <2>6 DEF AccessInv, AccessType
    <2>8. HandedOut'
        BY <2>3, <2>4 DEF AccessInv, AccessType, HandedOut
    <2>9. Grows
        BY <2>3, <2>4 DEF Grows
    <2> QED
        BY <2>2, <2>7, <2>8, <2>9, AccessStep DEF Using
<1> QED
    BY <1>1, <1>4, <1>5, <1>6, <1>7 DEF A!AccountNext

LEMMA AccessKept == AccessInv /\ [A!Next]_(A!vars) => AccessInv'
<1> SUFFICES ASSUME AccessInv, [A!Next]_(A!vars) PROVE AccessInv'
    OBVIOUS
<1>1. ASSUME NEW q \in Requests, A!AccessNext(q) PROVE AccessInv'
    BY <1>1, AccessArrives, KeyAuthenticated, Found, Replied, RunCommitted, ProjectCreated,
       KeyCreated, KeyRevoked, TokenCreated, LinkWritten DEF A!AccessNext
<1> QED
    BY <1>1, AccountsStep, TimePasses DEF A!Next

\* auth.py, share.py: a request is served what its credential allows when it
\* commits, whatever was revoked, created or shared since it presented it.
THEOREM AccessInvariance == A!Spec => []AccessInv
BY AccessInit, AccessKept, PTL DEF A!Spec

-----------------------------------------------------------------------------
(* Accounts and their quotas (Access) *)

\* The instance counts as this module does.
LEMMA SameCount == ASSUME NEW S PROVE A!Cardinality(S) = Cardinality(S)
BY DEF A!Cardinality, Cardinality

\* Requests that have passed a cap and not used it.
Registering == {q \in Requests : /\ calls[q].at \in {"argon2", "hashing", "register", "started"}
                                 /\ calls[q].op = "register"}
Founding(u) == {q \in Requests : /\ calls[q].at = "commit" /\ calls[q].op = "createProject"
                                 /\ calls[q].by.id = u}
OwnedBy(u) == {p \in projects : p.owner = u}

\* Of the requests that have inserted their account and not committed it, no two
\* have an email, and none has one that is taken.
EmailsAreUnique ==
    /\ \A a, b \in accounts : a.email = b.email => a = b
    /\ \A q \in Requests : A!At(q, "started") => \A a \in accounts : a.email # calls[q].on
    /\ \A p, q \in Requests :
          A!At(p, "started") /\ A!At(q, "started") /\ calls[p].on = calls[q].on => p = q

OpenIsBounded == IsFiniteSet(A!Open) /\ Cardinality(A!Open) <= AccessOpen

SignupsAreBounded == Within(A!Recent, Registering, SignupCap, AccessOpen)

ProjectsAreBounded ==
    \A u \in Named : Within(OwnedBy(u), Founding(u), ProjectCap, AccessOpen)

AccountInv == EmailsAreUnique /\ OpenIsBounded /\ SignupsAreBounded /\ ProjectsAreBounded

LEMMA AccountInit == A!Init => AccountInv
<1> SUFFICES ASSUME A!Init PROVE AccountInv
    OBVIOUS
<1> USE PartsAssumption, WorkspaceAssumption
<1>1. A!Open = {} /\ Registering = {} /\ A!Recent = {} /\ \A u \in Named : Founding(u) = {}
    BY DEF A!Init, A!Open, Registering, A!Recent, Founding
<1>2. IsFiniteSet({}) /\ Cardinality({}) = 0
    BY FS_EmptySet
<1>3. EmailsAreUnique
    BY DEF A!Init, EmailsAreUnique, A!At
<1>4. IsFiniteSet(projects) /\ Cardinality(projects) <= 2
    <2> DEFINE one == {[id |-> First, owner |-> First]}
    <2>1. IsFiniteSet(one) /\ Cardinality(one) = 1
        BY FS_Singleton
    <2>2. projects = one \cup {[id |-> Second, owner |-> First]}
        BY DEF A!Init
    <2> HIDE DEF one
    <2>3. /\ IsFiniteSet(one \cup {[id |-> Second, owner |-> First]})
          /\ \/ Cardinality(one \cup {[id |-> Second, owner |-> First]}) = Cardinality(one)
             \/ Cardinality(one \cup {[id |-> Second, owner |-> First]}) = Cardinality(one) + 1
        BY <2>1, FS_AddElement
    <2> QED
        BY <2>1, <2>2, <2>3
<1>5. ASSUME NEW u \in Named PROVE Within(OwnedBy(u), Founding(u), ProjectCap, AccessOpen)
    <2>1. IsFiniteSet(OwnedBy(u)) /\ Cardinality(OwnedBy(u)) <= Cardinality(projects)
        BY <1>4, FS_Subset DEF OwnedBy
    <2>2. Cardinality(OwnedBy(u)) \in Nat /\ Cardinality(projects) \in Nat
        BY <1>4, <2>1, FS_CardinalityType
    <2>3. Cardinality(OwnedBy(u)) + 0 <= ProjectCap + AccessOpen - 1
        BY <1>4, <2>1, <2>2
    <2> QED
        BY <1>1, <1>2, <2>1, <2>3 DEF Within
<1> QED
    BY <1>1, <1>2, <1>3, <1>5 DEF AccountInv, OpenIsBounded, SignupsAreBounded,
       ProjectsAreBounded, Within

LEMMA OpenStays ==
    ASSUME OpenIsBounded, NEW q \in Requests, \A p \in Requests \ {q} : calls'[p] = calls[p],
           calls[q].at \notin {"idle", "done"} \/ A!Arrive(q) \/ calls'[q] = calls[q]
    PROVE  OpenIsBounded'
<1>1. CASE A!Arrive(q)
    <2>1. Cardinality(A!Open) < AccessOpen
        BY <1>1, SameCount DEF A!Arrive
    <2>2. A!Open' \subseteq A!Open \cup {q}
        BY DEF A!Open
    <2> QED
        BY <2>1, <2>2, OneMoreOpen, PartsAssumption DEF OpenIsBounded
<1>2. CASE calls[q].at \notin {"idle", "done"} \/ calls'[q] = calls[q]
    <2>1. A!Open' \subseteq A!Open
        BY <1>2 DEF A!Open
    <2> QED
        BY <2>1, NoMoreOpen, PartsAssumption DEF OpenIsBounded
<1> QED
    BY <1>1, <1>2

\* Who has passed a cap is being served.
LEMMA PastAreOpen ==
    /\ Registering \subseteq A!Open
    /\ \A u \in Named : Founding(u) \subseteq A!Open
BY DEF Registering, Founding, A!Open

\* A request moves on, or is answered, and passes no cap.
LEMMA AccountsAside ==
    ASSUME AccountInv, NEW q \in Requests, \A p \in Requests \ {q} : calls'[p] = calls[p],
           calls[q].at \notin {"idle", "done"} \/ A!Arrive(q),
           UNCHANGED <<accounts, projects>>,
           calls'[q].at # "started", q \in Registering' => q \in Registering,
           \A u \in Named : q \in Founding(u)' => q \in Founding(u)
    PROVE  AccountInv'
<1> USE PartsAssumption DEF AccountInv
<1>1. OpenIsBounded'
    BY OpenStays
<1>2. EmailsAreUnique'
    BY DEF EmailsAreUnique, A!At
<1>3. Registering' \subseteq Registering /\ UNCHANGED A!Recent
    BY DEF Registering, A!Recent
<1>4. SignupsAreBounded'
    BY <1>3, SomeLeave DEF SignupsAreBounded
<1>5. ASSUME NEW u \in Named
      PROVE  Within(OwnedBy(u)', Founding(u)', ProjectCap, AccessOpen)
    <2>1. Founding(u)' \subseteq Founding(u) /\ UNCHANGED OwnedBy(u)
        BY DEF Founding, OwnedBy
    <2> QED
        BY <2>1, SomeLeave DEF ProjectsAreBounded
<1> QED
    BY <1>1, <1>2, <1>4, <1>5 DEF ProjectsAreBounded

LEMMA AccountsInFind ==
    ASSUME AccessInv, AccountInv, NEW q \in Requests, A!Find(q)
    PROVE  AccountInv'
<1> USE PartsAssumption
<1>1. /\ calls[q] \in Presented /\ calls[q].at = "find" /\ Using(q)
      /\ UNCHANGED <<accounts, projects>>
    BY CallShapes DEF AccessInv, AccessType, A!Find, A!At, A!tables, Using
<1>2. CASE A!Answer(q)
    BY <1>1, <1>2, CallAnswers, AccountsAside DEF Registering, Founding, AccessInv, AccessType
<1>3. ASSUME A!Goto(q, "commit"), calls[q].op = "createProject" => A!ProjectsLeft(calls[q].by.id)
      PROVE  AccountInv'
    <2>1. /\ calls'[q] = [calls[q] EXCEPT !.at = "commit"]
          /\ \A p \in Requests \ {q} : calls'[p] = calls[p]
        BY <1>1, <1>3, Continues DEF AccessInv
    <2>2. calls'[q].at = "commit" /\ calls'[q].op = calls[q].op /\ calls'[q].by = calls[q].by
        BY <1>1, <2>1 DEF Presented
    <2>3. CASE calls[q].op # "createProject"
        BY <1>1, <2>1, <2>2, <2>3, AccountsAside DEF Registering, Founding
    <2>4. CASE calls[q].op = "createProject"
        <3>1. OpenIsBounded'
            BY <1>1, <2>1, OpenStays DEF AccountInv
        <3>2. EmailsAreUnique'
            <4>1. \A p \in Requests : A!At(p, "started")' =>
                     A!At(p, "started") /\ calls'[p] = calls[p]
                BY <2>1, <2>2 DEF A!At
            <4> QED
                BY <1>1, <4>1 DEF AccountInv, EmailsAreUnique
        <3>3. Registering' \subseteq Registering /\ UNCHANGED A!Recent
            BY <1>1, <2>1, <2>2 DEF Registering, A!Recent
        <3>4. SignupsAreBounded'
            BY <3>3, SomeLeave DEF AccountInv, SignupsAreBounded
        <3>5. ASSUME NEW u \in Named
              PROVE  Within(OwnedBy(u)', Founding(u)', ProjectCap, AccessOpen)
            <4>1. UNCHANGED OwnedBy(u)
                BY <1>1 DEF OwnedBy
            <4>2. CASE u # calls[q].by.id
                <5>1. Founding(u)' \subseteq Founding(u)
                    BY <2>1, <2>2, <4>2 DEF Founding
                <5> QED
                    BY <4>1, <5>1, SomeLeave DEF AccountInv, ProjectsAreBounded
            <4>3. CASE u = calls[q].by.id
                <5>1. IsFiniteSet(OwnedBy(u))
                    BY DEF AccountInv, ProjectsAreBounded, Within
                <5>2. OwnedBy(u) = {p \in projects : p.owner = calls[q].by.id}
                    BY <4>3 DEF OwnedBy
                <5>3. Cardinality(OwnedBy(u)) < ProjectCap
                    BY <1>3, <2>4, <5>2, SameCount DEF A!ProjectsLeft
                <5>4. Founding(u)' \subseteq A!Open'
                    BY DEF Founding, A!Open
                <5> QED
                    BY <3>1, <4>1, <5>1, <5>3, <5>4, Passes DEF OpenIsBounded
            <4> QED
                BY <4>2, <4>3
        <3> QED
            BY <3>1, <3>2, <3>4, <3>5 DEF AccountInv, ProjectsAreBounded
    <2> QED
        BY <2>3, <2>4
<1> QED
    BY <1>2, <1>3 DEF A!Find

LEMMA AccountsInCreateProject ==
    ASSUME AccessInv, AccountInv, NEW q \in Requests, A!CreateProject(q)
    PROVE  AccountInv'
<1> USE PartsAssumption DEF A!CreateProject, A!Commits, A!At
<1>1. /\ calls[q] \in Presented /\ calls[q].at = "commit" /\ calls[q].op = "createProject"
      /\ A!User(calls[q].by) = calls[q].by.id /\ UNCHANGED accounts
    BY CommitsAs DEF A!UserOnly, A!User
<1>2. calls'[q] = [at |-> "done"] /\ \A p \in Requests \ {q} : calls'[p] = calls[p]
    BY CallAnswers DEF AccessInv, AccessType
<1>3. OpenIsBounded'
    BY <1>1, <1>2, OpenStays DEF AccountInv
<1>4. EmailsAreUnique'
    BY <1>1, <1>2 DEF AccountInv, EmailsAreUnique
<1>5. Registering' \subseteq Registering /\ UNCHANGED A!Recent
    BY <1>1, <1>2 DEF Registering, A!Recent
<1>6. SignupsAreBounded'
    BY <1>5, SomeLeave DEF AccountInv, SignupsAreBounded
<1>7. ASSUME NEW u \in Named
      PROVE  Within(OwnedBy(u)', Founding(u)', ProjectCap, AccessOpen)
    <2>1. Founding(u)' \subseteq Founding(u) \ {q}
        BY <1>2 DEF Founding
    <2>2. CASE u # calls[q].by.id
        <3>1. UNCHANGED OwnedBy(u)
            BY <1>1, <2>2 DEF OwnedBy
        <3> QED
            BY <2>1, <3>1, SomeLeave DEF AccountInv, ProjectsAreBounded
    <2>3. CASE u = calls[q].by.id
        <3>1. OwnedBy(u)' = OwnedBy(u) \cup {[id |-> q, owner |-> u]}
            BY <1>1, <2>3 DEF OwnedBy
        <3>2. q \in Founding(u)
            BY <1>1, <2>3 DEF Founding
        <3>3. Within(OwnedBy(u), Founding(u), ProjectCap, AccessOpen)
            BY DEF AccountInv, ProjectsAreBounded
        <3>4. Within(OwnedBy(u) \cup {[id |-> q, owner |-> u]}, Founding(u)', ProjectCap,
                     AccessOpen)
            BY <2>1, <3>2, <3>3, Enters
        <3> QED
            BY <3>1, <3>4
    <2> QED
        BY <2>2, <2>3
<1> QED
    BY <1>3, <1>4, <1>6, <1>7 DEF AccountInv, ProjectsAreBounded

\* The other requests on what an account has.
LEMMA AccountsInAccess ==
    ASSUME AccessInv, AccountInv, NEW q \in Requests, A!AccessNext(q)
    PROVE  AccountInv'
<1>1. ASSUME NEW by \in A!Credentials, NEW op \in A!Ops, NEW p \in projects,
             A!GetPrincipal(q, by, op, p.id)
      PROVE  AccountInv'
    <2> DEFINE c == [at |-> IF by.kind = "key" THEN "authKey" ELSE "find",
                     by |-> by, op |-> op, on |-> p.id, entitled |-> A!Entitled(by, op, p.id)]
    <2>1. /\ calls'[q] = c /\ \A r \in Requests \ {q} : calls'[r] = calls[r]
          /\ A!Arrive(q) /\ UNCHANGED <<accounts, projects>>
        BY <1>1 DEF A!GetPrincipal, A!tables, AccessInv, AccessType
    <2>2. c.at \in {"authKey", "find"}
        OBVIOUS
    <2> QED
        BY <2>1, <2>2, AccountsAside DEF Registering, Founding
<1>2. CASE A!ApiKeyPrincipal(q)
    <2>1. calls[q].at = "authKey" /\ UNCHANGED <<accounts, projects>>
        BY <1>2 DEF A!ApiKeyPrincipal, A!At, A!tables
    <2>2. A!Goto(q, "find") \/ A!Answer(q)
        BY <1>2 DEF A!ApiKeyPrincipal
    <2>3. calls[q] \in Presented
        BY <2>1, CallShapes DEF AccessInv, AccessType
    <2>4. /\ calls'[q].at \in {"find", "done"}
          /\ \A p \in Requests \ {q} : calls'[p] = calls[p]
        <3>1. CASE A!Answer(q)
            BY <3>1, CallAnswers DEF AccessInv, AccessType
        <3>2. CASE A!Goto(q, "find")
            <4>1. /\ calls'[q] = [calls[q] EXCEPT !.at = "find"]
                  /\ \A p \in Requests \ {q} : calls'[p] = calls[p]
                BY <2>1, <3>2, Continues DEF AccessInv, Using
            <4> QED
                BY <2>3, <4>1 DEF Presented
        <3> QED
            BY <2>2, <3>1, <3>2
    <2> QED
        BY <2>1, <2>4, AccountsAside DEF Registering, Founding
<1>3. CASE \/ A!Reply(q) \/ A!CreateApiKey(q) \/ A!RevokeApiKey(q) \/ A!RevokeUnknownKey(q)
           \/ A!StreamToken(q) \/ A!CreateShare(q) \/ A!RevokeShare(q)
    <2>1. calls[q].at = "commit" /\ A!Answer(q) /\ UNCHANGED <<accounts, projects>>
        BY <1>3 DEF A!Reply, A!CreateApiKey, A!RevokeApiKey, A!RevokeUnknownKey, A!StreamToken,
           A!CreateShare, A!RevokeShare, A!Commits, A!At, A!tables
    <2>2. calls'[q].at = "done" /\ \A p \in Requests \ {q} : calls'[p] = calls[p]
        BY <2>1, CallAnswers DEF AccessInv, AccessType
    <2> QED
        BY <2>1, <2>2, AccountsAside DEF Registering, Founding
<1>4. CASE A!CommitRun(q) \/ A!TellQueue(q)
    <2>1. /\ calls[q].at \in {"commit", "committed"} /\ calls[q] \in Presented
          /\ UNCHANGED <<accounts, projects>>
        BY <1>4, CallShapes DEF A!CommitRun, A!TellQueue, A!At, A!tables, AccessInv, AccessType
    <2>2. /\ calls'[q].at \in {"committed", "done"}
          /\ \A p \in Requests \ {q} : calls'[p] = calls[p]
        <3>1. CASE A!TellQueue(q)
            BY <3>1, CallAnswers DEF A!TellQueue, AccessInv, AccessType
        <3>2. CASE A!CommitRun(q)
            <4>1. Using(q)
                BY <3>2 DEF A!CommitRun, A!At, Using
            <4>2. /\ calls'[q] = [calls[q] EXCEPT !.at = "committed"]
                  /\ \A p \in Requests \ {q} : calls'[p] = calls[p]
                BY <3>2, <4>1, Continues DEF A!CommitRun, AccessInv
            <4> QED
                BY <2>1, <4>2 DEF Presented
        <3> QED
            BY <1>4, <3>1, <3>2
    <2> QED
        BY <2>1, <2>2, AccountsAside DEF Registering, Founding
<1> QED
    BY <1>1, <1>2, <1>3, <1>4, AccountsInFind, AccountsInCreateProject DEF A!AccessNext

LEMMA AccountsInRegister ==
    ASSUME AccessInv, AccountInv, NEW q \in Requests, NEW email \in {First, Second},
           A!Register(q, email)
    PROVE  AccountInv'
<1> USE PartsAssumption
<1> DEFINE c == [at |-> "argon2", by |-> None, op |-> "register", on |-> email]
<1>1. /\ calls'[q] = c /\ \A p \in Requests \ {q} : calls'[p] = calls[p]
      /\ A!Arrive(q) /\ UNCHANGED <<accounts, projects>>
    BY DEF A!Register, A!Ask, A!tables, AccessInv, AccessType
<1>2. calls'[q].at = "argon2"
    BY <1>1
<1> HIDE DEF c
<1>3. OpenIsBounded'
    BY <1>1, OpenStays DEF AccountInv
<1>4. EmailsAreUnique'
    <2>1. \A p \in Requests : A!At(p, "started")' => A!At(p, "started") /\ calls'[p] = calls[p]
        BY <1>1, <1>2 DEF A!At
    <2> QED
        BY <1>1, <2>1 DEF AccountInv, EmailsAreUnique
<1>5. SignupsAreBounded'
    <2>1. IsFiniteSet(A!Recent) /\ Cardinality(A!Recent) < SignupCap
        BY SameCount DEF A!Register, A!SignupsLeft, AccountInv, SignupsAreBounded, Within
    <2>2. UNCHANGED A!Recent
        BY <1>1 DEF A!Recent
    <2>3. Registering' \subseteq A!Open'
        BY DEF Registering, A!Open
    <2> QED
        BY <1>3, <2>1, <2>2, <2>3, Passes DEF OpenIsBounded, SignupsAreBounded
<1>6. ASSUME NEW u \in Named
      PROVE  Within(OwnedBy(u)', Founding(u)', ProjectCap, AccessOpen)
    <2>1. Founding(u)' \subseteq Founding(u) /\ UNCHANGED OwnedBy(u)
        BY <1>1, <1>2 DEF Founding, OwnedBy
    <2> QED
        BY <2>1, SomeLeave DEF AccountInv, ProjectsAreBounded
<1> QED
    BY <1>3, <1>4, <1>5, <1>6 DEF AccountInv, ProjectsAreBounded

\* The insert waits for the other insert of its email, and sees the account of a
\* committed one.
LEMMA AccountsInInsert ==
    ASSUME AccessInv, AccountInv, NEW q \in Requests, A!InsertUser(q)
    PROVE  AccountInv'
<1> USE PartsAssumption
<1>1. /\ calls[q] \in Inserting /\ calls[q].at = "register" /\ UNCHANGED <<accounts, projects>>
      /\ A!EmailIsFree(q)
    BY CallShapes DEF AccessInv, AccessType, A!InsertUser, A!At, A!tables
<1>2. CASE A!Answer(q)
    BY <1>1, <1>2, CallAnswers, AccountsAside DEF Registering, Founding, AccessInv, AccessType
<1>3. CASE A!Account(calls[q].on) = {} /\ A!Goto(q, "started")
    <2>1. [calls[q] EXCEPT !.at = "started"] \in Inserting
        BY <1>1 DEF Inserting
    <2>2. /\ calls'[q] = [calls[q] EXCEPT !.at = "started"]
          /\ \A p \in Requests \ {q} : calls'[p] = calls[p]
        BY <1>3, <2>1, CallGoesOn DEF AccessInv, AccessType, Call
    <2>3. calls'[q].at = "started" /\ calls'[q].on = calls[q].on /\ calls'[q].op = calls[q].op
        BY <1>1, <2>2 DEF Inserting
    <2>4. OpenIsBounded'
        BY <1>1, <2>2, OpenStays DEF AccountInv
    <2>5. EmailsAreUnique'
        <3>1. \A p \in Requests \ {q} : A!At(p, "started") => calls[p].on # calls[q].on
            BY <1>1 DEF A!EmailIsFree
        <3>2. \A a \in accounts : a.email # calls[q].on
            BY <1>3 DEF A!Account
        <3>3. \A p \in Requests : A!At(p, "started")' => p = q \/ A!At(p, "started")
            BY <2>2 DEF A!At
        <3>4. \A p \in Requests : calls'[p].on = calls[p].on
            BY <2>2, <2>3
        <3>5. \A a, b \in accounts : a.email = b.email => a = b
            BY DEF AccountInv, EmailsAreUnique
        <3>6. \A p \in Requests : A!At(p, "started")' => \A a \in accounts : a.email # calls[p].on
            BY <3>2, <3>3 DEF AccountInv, EmailsAreUnique
        <3>7. \A p, r \in Requests :
                 A!At(p, "started")' /\ A!At(r, "started")' /\ calls[p].on = calls[r].on => p = r
            BY <3>1, <3>3 DEF AccountInv, EmailsAreUnique
        <3> QED
            BY <1>1, <3>4, <3>5, <3>6, <3>7 DEF EmailsAreUnique
    <2>6. Registering' \subseteq Registering /\ UNCHANGED A!Recent
        BY <1>1, <2>2, <2>3 DEF Registering, A!Recent
    <2>7. SignupsAreBounded'
        BY <2>6, SomeLeave DEF AccountInv, SignupsAreBounded
    <2>8. ASSUME NEW u \in Named
          PROVE  Within(OwnedBy(u)', Founding(u)', ProjectCap, AccessOpen)
        <3>1. Founding(u)' \subseteq Founding(u) /\ UNCHANGED OwnedBy(u)
            BY <1>1, <2>2, <2>3 DEF Founding, OwnedBy
        <3> QED
            BY <3>1, SomeLeave DEF AccountInv, ProjectsAreBounded
    <2> QED
        BY <2>4, <2>5, <2>7, <2>8 DEF AccountInv, ProjectsAreBounded
<1> QED
    BY <1>2, <1>3 DEF A!InsertUser

LEMMA AccountsInStart ==
    ASSUME AccessInv, AccountInv, NEW q \in Requests, A!StartRegistered(q)
    PROVE  AccountInv'
<1> USE PartsAssumption
<1> DEFINE a == [id |-> q, email |-> calls[q].on, recent |-> TRUE]
<1>1. /\ calls[q] \in Inserting /\ calls[q].at = "started" /\ UNCHANGED projects
      /\ accounts' = accounts \cup {a}
    BY CallShapes DEF AccessInv, AccessType, A!StartRegistered, A!At
<1>2. calls'[q] = [at |-> "done"] /\ \A p \in Requests \ {q} : calls'[p] = calls[p]
    BY CallAnswers DEF AccessInv, AccessType, A!StartRegistered
<1>3. a.email = calls[q].on /\ a.recent = TRUE
    OBVIOUS
<1> HIDE DEF a
<1>4. OpenIsBounded'
    BY <1>1, <1>2, OpenStays DEF AccountInv
<1>5. EmailsAreUnique'
    BY <1>1, <1>2, <1>3 DEF AccountInv, EmailsAreUnique, A!At
<1>6. SignupsAreBounded'
    <2>1. q \in Registering /\ Registering' \subseteq Registering \ {q}
        BY <1>1, <1>2 DEF Registering, Inserting
    <2>2. A!Recent' = A!Recent \cup {a}
        BY <1>1, <1>3 DEF A!Recent
    <2>3. Within(A!Recent \cup {a}, Registering', SignupCap, AccessOpen)
        BY <2>1, Enters DEF AccountInv, SignupsAreBounded
    <2> QED
        BY <2>2, <2>3 DEF SignupsAreBounded
<1>7. ASSUME NEW u \in Named
      PROVE  Within(OwnedBy(u)', Founding(u)', ProjectCap, AccessOpen)
    <2>1. Founding(u)' \subseteq Founding(u) /\ UNCHANGED OwnedBy(u)
        BY <1>1, <1>2 DEF Founding, OwnedBy
    <2> QED
        BY <2>1, SomeLeave DEF AccountInv, ProjectsAreBounded
<1> QED
    BY <1>4, <1>5, <1>6, <1>7 DEF AccountInv, ProjectsAreBounded

LEMMA AccountsInAccounts ==
    ASSUME AccessInv, AccountInv, NEW q \in Requests, A!AccountNext(q)
    PROVE  AccountInv'
<1>1. ASSUME NEW email \in {First, Second}, A!Login(q, email) PROVE AccountInv'
    <2>1. PICK op \in {"login", "unknown"} :
              calls' = [calls EXCEPT ![q] = [at |-> "argon2", by |-> None, op |-> op, on |-> email]]
        BY <1>1 DEF A!Login, A!Ask
    <2>2. /\ calls'[q].at = "argon2" /\ calls'[q].op # "register"
          /\ \A p \in Requests \ {q} : calls'[p] = calls[p]
        BY <2>1 DEF AccessInv, AccessType
    <2>3. A!Arrive(q) /\ UNCHANGED <<accounts, projects>>
        BY <1>1 DEF A!Login, A!tables
    <2> QED
        BY <2>2, <2>3, AccountsAside DEF Registering, Founding
<1>2. CASE A!Argon2(q) \/ A!Argon2Done(q)
    <2>1. /\ calls[q] \in Hashed /\ calls[q].at \in {"argon2", "hashing"}
          /\ UNCHANGED <<accounts, projects>>
        BY <1>2, CallShapes DEF A!Argon2, A!Argon2Done, A!At, A!tables, AccessInv, AccessType
    <2>2. CASE A!Answer(q)
        BY <2>1, <2>2, CallAnswers, AccountsAside DEF Registering, Founding, AccessInv, AccessType
    <2>3. CASE A!Goto(q, "hashing")
        <3>1. [calls[q] EXCEPT !.at = "hashing"] \in Hashed
            BY <2>1 DEF Hashed
        <3>2. /\ calls'[q] = [calls[q] EXCEPT !.at = "hashing"]
              /\ \A p \in Requests \ {q} : calls'[p] = calls[p]
            BY <2>3, <3>1, CallGoesOn DEF AccessInv, AccessType, Call
        <3>3. calls'[q].at = "hashing" /\ calls'[q].op = calls[q].op
            BY <2>1, <3>2 DEF Hashed
        <3> QED
            BY <2>1, <3>2, <3>3, AccountsAside DEF Registering, Founding
    <2>4. CASE calls[q].op = "register" /\ A!Goto(q, calls[q].op)
        <3>1. [calls[q] EXCEPT !.at = "register"] \in Inserting
            BY <2>1, <2>4 DEF Hashed, Inserting
        <3>2. /\ calls'[q] = [calls[q] EXCEPT !.at = "register"]
              /\ \A p \in Requests \ {q} : calls'[p] = calls[p]
            BY <2>4, <3>1, CallGoesOn DEF AccessInv, AccessType, Call
        <3>3. calls'[q].at = "register" /\ calls'[q].op = calls[q].op
            BY <2>1, <3>2 DEF Hashed
        <3> QED
            BY <2>1, <3>2, <3>3, AccountsAside DEF Registering, Founding
    <2>5. CASE calls[q].op = "login" /\ A!Goto(q, calls[q].op)
        <3>1. [calls[q] EXCEPT !.at = "login"] \in Entering
            BY <2>1, <2>5 DEF Hashed, Entering
        <3>2. /\ calls'[q] = [calls[q] EXCEPT !.at = "login"]
              /\ \A p \in Requests \ {q} : calls'[p] = calls[p]
            BY <2>5, <3>1, CallGoesOn DEF AccessInv, AccessType, Call
        <3>3. calls'[q].at = "login"
            BY <2>1, <3>2 DEF Hashed
        <3> QED
            BY <2>1, <3>2, <3>3, AccountsAside DEF Registering, Founding
    <2> QED
        BY <1>2, <2>2, <2>3, <2>4, <2>5 DEF A!Argon2, A!Argon2Done
<1>3. CASE A!StartSession(q)
    BY <1>3, CallAnswers, AccountsAside
       DEF A!StartSession, A!At, Registering, Founding, AccessInv, AccessType
<1> QED
    BY <1>1, <1>2, <1>3, AccountsInRegister, AccountsInInsert, AccountsInStart DEF A!AccountNext

LEMMA AccountsInTime ==
    ASSUME AccessInv, AccountInv, A!Expire \/ A!DayPasses \/ UNCHANGED A!vars
    PROVE  AccountInv'
<1> USE PartsAssumption
<1>1. UNCHANGED <<projects, calls>>
    BY DEF A!Expire, A!DayPasses, A!vars
<1>2. /\ OpenIsBounded' /\ UNCHANGED Registering
      /\ \A u \in Named : UNCHANGED <<OwnedBy(u), Founding(u)>>
    BY <1>1 DEF AccountInv, OpenIsBounded, A!Open, Registering, OwnedBy, Founding
<1>3. ProjectsAreBounded'
    BY <1>2 DEF AccountInv, ProjectsAreBounded
<1>4. CASE UNCHANGED accounts
    <2>1. EmailsAreUnique' /\ UNCHANGED A!Recent
        BY <1>1, <1>4 DEF AccountInv, EmailsAreUnique, A!At, A!Recent
    <2> QED
        BY <1>2, <1>3, <2>1 DEF AccountInv, SignupsAreBounded
<1>5. CASE A!DayPasses
    <2>1. \A a \in accounts : /\ [a EXCEPT !.recent = FALSE].email = a.email
                              /\ [a EXCEPT !.recent = FALSE].recent = FALSE
        BY DEF AccessInv, AccessType
    <2>2. accounts' = {[a EXCEPT !.recent = FALSE] : a \in accounts}
        BY <1>5 DEF A!DayPasses
    <2>3. EmailsAreUnique'
        <3>1. \A b \in accounts' : \E a \in accounts :
                 b = [a EXCEPT !.recent = FALSE] /\ b.email = a.email
            BY <2>1, <2>2
        <3>2. ASSUME NEW b \in accounts', NEW d \in accounts', b.email = d.email PROVE b = d
            <4>1. PICK a \in accounts : b = [a EXCEPT !.recent = FALSE] /\ b.email = a.email
                BY <3>1
            <4>2. PICK e \in accounts : d = [e EXCEPT !.recent = FALSE] /\ d.email = e.email
                BY <3>1
            <4>3. a = e
                BY <3>2, <4>1, <4>2 DEF AccountInv, EmailsAreUnique
            <4> QED
                BY <4>1, <4>2, <4>3
        <3>3. \A q \in Requests : A!At(q, "started") => \A b \in accounts' : b.email # calls[q].on
            BY <3>1 DEF AccountInv, EmailsAreUnique
        <3> QED
            BY <1>1, <3>2, <3>3 DEF AccountInv, EmailsAreUnique, A!At
    <2>4. A!Recent' = {}
        BY <2>1, <2>2 DEF A!Recent
    <2>5. Within({}, Registering, SignupCap, AccessOpen)
        BY PastAreOpen, Empties DEF AccountInv, SignupsAreBounded, OpenIsBounded
    <2> QED
        BY <1>2, <1>3, <2>3, <2>4, <2>5 DEF AccountInv, SignupsAreBounded
<1> QED
    BY <1>4, <1>5 DEF A!Expire, A!DayPasses, A!vars

\* Emails stay unique, and signups and projects within their quotas and the
\* requests that have counted and not inserted yet.
THEOREM AccountInvariance == A!Spec => []AccountInv
<1>1. AccessInv /\ AccountInv /\ [A!Next]_(A!vars) => AccountInv'
    BY AccountsInAccess, AccountsInAccounts, AccountsInTime DEF A!Next
<1> QED
    BY <1>1, AccountInit, AccessInvariance, PTL DEF A!Spec

LEMMA AccountsSay == AccessInv /\ AccountInv => A!AccountsHold
<1> SUFFICES ASSUME AccessInv, AccountInv PROVE A!AccountsHold
    OBVIOUS
<1> USE PartsAssumption
<1>1. Cardinality(A!Recent) <= SignupCap + AccessOpen - 1
    BY WithinSays DEF AccountInv, SignupsAreBounded
<1>2. ASSUME NEW a \in accounts
      PROVE  Cardinality({p \in projects : p.owner = a.id}) <= ProjectCap + AccessOpen - 1
    <2>1. a.id \in Named /\ OwnedBy(a.id) = {p \in projects : p.owner = a.id}
        BY DEF AccessInv, AccessType, OwnedBy
    <2>2. Cardinality(OwnedBy(a.id)) <= ProjectCap + AccessOpen - 1
        BY <2>1, WithinSays DEF AccountInv, ProjectsAreBounded
    <2> QED
        BY <2>1, <2>2
<1> QED
    BY <1>1, <1>2, SameCount DEF A!AccountsHold, AccountInv, EmailsAreUnique

-----------------------------------------------------------------------------
(* The answer of a request (Request) *)

Before  == {"arrived", "reading", "endpoint"}
Settled == {"sending", "finally", "done"}

RequestType ==
    /\ at \in Before \cup {"raised", "answering"} \cup Settled
    /\ received \in Nat /\ pending \in BOOLEAN /\ lost \in BOOLEAN
    /\ request.declared \in Nat /\ request.body \in Nat
    /\ status \in {R!NotYet, R!Success, 413, 422, 500} \cup R!Handled
    /\ response \in {R!NotYet, R!Success, 413, 422, 500} \cup R!Handled

\* No more than the cap has been read when the endpoint starts.
ReadSoFar ==
    /\ at = "arrived" => received = 0
    /\ at \in {"reading", "endpoint"} => received <= Cap

\* Until the endpoint is over nothing is answered, and only it has committed.
NothingSettled ==
    /\ pending => at = "endpoint"
    /\ at \in Before => status = R!NotYet /\ ~lost /\ stored \subseteq {"endpoint"}

\* What is in the database allows the answer `code`.
Allows(code) ==
    /\ code # R!NotYet
    /\ code = R!Success => ~lost
    /\ code # R!Success => "exit" \notin stored
    /\ code # 500 => "unknown" \notin stored

\* An answer is given once, and is one that the database allows; what was raised
\* before there was one allows a 500.
AnswersAllowed ==
    /\ status = R!NotYet => sent = <<>>
    /\ status # R!NotYet => sent = <<status>> /\ Allows(status)
    /\ at = "answering" => status = R!NotYet /\ Allows(response)
    /\ at = "raised" /\ status = R!NotYet => Allows(500)
    /\ at \in Settled => status # R!NotYet
    /\ at = "done" => logged = status

RequestInv == RequestType /\ ReadSoFar /\ NothingSettled /\ AnswersAllowed

LEMMA RequestInit == R!Init => RequestInv
<1> SUFFICES ASSUME R!Init PROVE RequestInv
    OBVIOUS
<1>1. request.declared \in Nat /\ request.body \in Nat
    BY PartsAssumption DEF R!Init
<1> QED
    BY <1>1 DEF R!Init, RequestInv, RequestType, ReadSoFar, NothingSettled, AnswersAllowed, Before,
           Settled, R!NotYet, R!Success, R!Handled

LEMMA RequestIn ==
    ASSUME RequestInv, R!CheckDeclared \/ R!Receive \/ R!Dispatch
    PROVE  RequestInv'
BY PartsAssumption
   DEF R!CheckDeclared, R!Receive, R!Dispatch, R!Answer, RequestInv, RequestType, ReadSoFar,
       NothingSettled, AnswersAllowed, Allows, Before, Settled, R!NotYet, R!Success, R!Handled

LEMMA RollsBack ==
    ASSUME RequestType, R!RollBack
    PROVE  ~pending' /\ pending' \in BOOLEAN /\ lost' \in BOOLEAN
<1>1. pending' = FALSE
    BY DEF R!RollBack
<1>2. CASE lost \/ pending
    BY <1>1, <1>2 DEF R!RollBack
<1>3. CASE ~lost /\ ~pending
    BY <1>1, <1>3 DEF R!RollBack
<1> QED
    BY <1>2, <1>3

LEMMA Keeps ==
    ASSUME NEW how, R!Keep(how), pending' = FALSE
    PROVE  stored' \subseteq stored \cup {how} /\ ~pending' /\ pending' \in BOOLEAN
<1>1. CASE pending
    BY <1>1 DEF R!Keep
<1>2. CASE ~pending
    BY <1>2 DEF R!Keep
<1> QED
    BY <1>1, <1>2

\* A commit: the endpoint's own, get_db's, or one of which nobody knows.
LEMMA Committed ==
    ASSUME RequestInv, at = "endpoint",
           UNCHANGED <<request, received, status, sent, logged>>,
           NEW how, R!Keep(how), pending' = FALSE, lost' = lost,
           \/ how = "endpoint" /\ UNCHANGED <<at, response>>
           \/ how = "unknown" /\ at' = "raised" /\ UNCHANGED response
           \/ how = "exit" /\ R!Answer(R!Success)
    PROVE  RequestInv'
<1>0. stored' \subseteq stored \cup {how} /\ ~pending' /\ pending' \in BOOLEAN
    BY Keeps
<1>1. RequestType'
    BY <1>0 DEF RequestInv, RequestType, Before, Settled, R!Answer, R!NotYet, R!Success
<1>2. ReadSoFar'
    BY <1>0 DEF RequestInv, ReadSoFar, Before, R!Answer
<1>3. NothingSettled'
    BY <1>0 DEF RequestInv, RequestType, NothingSettled, Before, R!Answer
<1>4. AnswersAllowed'
    <2> USE <1>0 DEF RequestInv, NothingSettled, AnswersAllowed, Allows, Before, Settled, R!Answer,
                     R!NotYet, R!Success
    <2>1. CASE how = "endpoint"
        BY <2>1
    <2>2. CASE how = "unknown"
        BY <2>2
    <2>3. CASE how = "exit"
        BY <2>3
    <2> QED
        BY <2>1, <2>2, <2>3
<1> QED
    BY <1>1, <1>2, <1>3, <1>4 DEF RequestInv

\* The session is left by an exception.
LEMMA RolledBack ==
    ASSUME RequestInv, at = "endpoint", R!RollBack,
           UNCHANGED <<request, received, stored, status, sent, logged>>,
           \/ at' = "raised" /\ UNCHANGED response
           \/ \E code \in R!Handled : R!Answer(code)
    PROVE  RequestInv'
<1>0. ~pending' /\ pending' \in BOOLEAN /\ lost' \in BOOLEAN
    BY RollsBack DEF RequestInv
<1>1. RequestType'
    BY <1>0 DEF RequestInv, RequestType, Before, Settled, R!Answer
<1>2. ReadSoFar'
    BY DEF RequestInv, ReadSoFar, Before, R!Answer
<1>3. NothingSettled'
    BY <1>0 DEF RequestInv, NothingSettled, Before, R!Answer
<1>4. AnswersAllowed'
    BY DEF RequestInv, NothingSettled, AnswersAllowed, Allows, Before, Settled, R!Answer,
           R!NotYet, R!Success, R!Handled
<1> QED
    BY <1>1, <1>2, <1>3, <1>4 DEF RequestInv

LEMMA RequestInside ==
    ASSUME RequestInv, R!Write \/ R!EndpointCommits \/ R!Return \/ R!Refuse \/ R!Raise
    PROVE  RequestInv'
<1>1. CASE R!Write
    BY <1>1 DEF R!Write, RequestInv, RequestType, ReadSoFar, NothingSettled, AnswersAllowed, Allows,
                Before, Settled, R!NotYet, R!Success, R!Handled
<1>2. CASE R!EndpointCommits
    BY <1>2, Committed, RolledBack DEF R!EndpointCommits
<1>3. CASE R!Return
    BY <1>3, Committed, RolledBack DEF R!Return, R!Answer
<1>4. CASE R!Refuse
    BY <1>4, RolledBack DEF R!Refuse
<1>5. CASE R!Raise
    BY <1>5, RolledBack DEF R!Raise
<1> QED
    BY <1>1, <1>2, <1>3, <1>4, <1>5

LEMMA RequestOut ==
    ASSUME RequestInv, R!StartResponse \/ R!SendBody \/ R!Catch \/ R!Log
    PROVE  RequestInv'
<1> USE DEF RequestInv, RequestType, ReadSoFar, NothingSettled, AnswersAllowed, Allows, Before,
            Settled, R!NotYet, R!Success, R!Handled, R!Answer
<1>1. CASE R!StartResponse
    BY <1>1 DEF R!StartResponse
<1>2. CASE R!SendBody
    BY <1>2 DEF R!SendBody
<1>3. CASE R!Catch
    BY <1>3 DEF R!Catch
<1>4. CASE R!Log
    BY <1>4 DEF R!Log
<1> QED
    BY <1>1, <1>2, <1>3, <1>4

LEMMA RequestSays == RequestInv => R!AnswersAreTrue
<1> SUFFICES ASSUME RequestInv PROVE R!AnswersAreTrue
    OBVIOUS
<1> USE DEF RequestInv, RequestType, ReadSoFar, NothingSettled, AnswersAllowed, Allows, Before,
            Settled, R!NotYet, R!Success, R!Handled
<1>1. \/ status = 0 /\ sent = <<>>
      \/ status # 0 /\ sent = <<status>>
    OBVIOUS
<1>2. R!AnsweredOnce
    <2>1. CASE sent = <<>>
        BY <2>1 DEF R!AnsweredOnce
    <2>2. CASE sent = <<status>>
        BY <2>2 DEF R!AnsweredOnce
    <2> QED
        BY <1>1, <2>1, <2>2
<1>3. R!NoLostWrite
    BY <1>1 DEF R!NoLostWrite
<1>4. R!ErrorsLeaveNothing
    BY DEF R!ErrorsLeaveNothing
<1>5. R!BodyIsCapped
    BY DEF R!BodyIsCapped
<1> QED
    BY <1>2, <1>3, <1>4, <1>5 DEF R!AnswersAreTrue

\* main.py, errors.py, db.py: whichever part of a request fails, its answer, its
\* log line and what it left in the database agree.
THEOREM RequestInvariance == R!Spec => []RequestInv
<1>1. RequestInv /\ [R!Next]_(R!vars) => RequestInv'
    <2> SUFFICES ASSUME RequestInv, [R!Next]_(R!vars) PROVE RequestInv'
        OBVIOUS
    <2>1. CASE UNCHANGED R!vars
        BY <2>1 DEF R!vars, RequestInv, RequestType, ReadSoFar, NothingSettled, AnswersAllowed,
                    Allows
    <2> QED
        BY <2>1, RequestIn, RequestInside, RequestOut DEF R!Next
<1> QED
    BY <1>1, RequestInit, PTL DEF R!Spec

-----------------------------------------------------------------------------
(* The token buckets (TokenBucket) *)

LEMMA Products ==
    /\ B!Capacity \in Nat /\ B!Capacity >= Window /\ B!Capacity >= Limit
    /\ \A n \in Nat : n * Limit \in Nat /\ (n + 1) * Limit = n * Limit + Limit
    /\ \A n \in Nat : n >= Window => n * Limit >= B!Capacity
<1>1. Limit \in Nat /\ Limit >= 1 /\ Window \in Nat /\ Window >= 1
    BY PartsAssumption
<1>2. \A n \in Nat : n * Limit \in Nat /\ (n + 1) * Limit = n * Limit + Limit
    BY <1>1
<1>3. \A n \in Nat : n >= Window => n * Limit >= B!Capacity
    BY <1>1 DEF B!Capacity
<1>4. B!Capacity \in Nat /\ B!Capacity >= Window /\ B!Capacity >= Limit
    BY <1>1 DEF B!Capacity
<1> QED
    BY <1>2, <1>3, <1>4

LEMMA RoundsUp ==
    ASSUME NEW n \in Nat, NEW d \in Nat \ {0}
    PROVE  B!CeilDiv(n, d) \in Nat /\ d * B!CeilDiv(n, d) >= n /\ d * B!CeilDiv(n, d) < n + d
BY DEF B!CeilDiv

Expires == TicksPerSecond * (B!CeilDiv(Window, TicksPerSecond) + 1)

LEMMA ExpiresIsLate == Expires \in Nat /\ Expires >= Window
<1> DEFINE seconds == B!CeilDiv(Window, TicksPerSecond)
<1>1. seconds \in Nat /\ TicksPerSecond * seconds >= Window
    BY RoundsUp, PartsAssumption
<1>2. TicksPerSecond * (seconds + 1) = TicksPerSecond * seconds + TicksPerSecond
      /\ TicksPerSecond * seconds \in Nat
    BY <1>1, PartsAssumption
<1> QED
    BY <1>1, <1>2, PartsAssumption DEF Expires

LEMMA WaitIsEnough ==
    ASSUME NEW left \in Nat, left < Window
    PROVE  /\ B!RetryAfter(left) \in Nat
           /\ 0 < B!RetryAfter(left) /\ B!RetryAfter(left) < B!Idle
           /\ left + B!RetryAfter(left) * Limit >= Window
<1> DEFINE S == TicksPerSecond
           n == Window - left
           up == B!CeilDiv(n, Limit * S)
           seconds == IF up < 1 THEN 1 ELSE up
<1>1. /\ Limit \in Nat \ {0} /\ S \in Nat \ {0} /\ Window \in Nat /\ n \in Nat
      /\ Limit * S \in Nat \ {0}
    BY PartsAssumption
<1>2. up \in Nat /\ (Limit * S) * up >= n /\ (Limit * S) * up < n + Limit * S
    BY <1>1, RoundsUp
<1>3. B!RetryAfter(left) = S * seconds
    BY DEF B!RetryAfter
<1>4. /\ seconds \in Nat /\ seconds >= 1
      /\ (Limit * S) * seconds >= n /\ (Limit * S) * seconds < n + Limit * S
  <2> HIDE DEF up
  <2>1. CASE up < 1
    BY <2>1, <1>1, <1>2
  <2>2. CASE ~(up < 1)
    BY <2>2, <1>1, <1>2
  <2> QED BY <2>1, <2>2
<1> HIDE DEF seconds, n, S
<1>5. (Limit * S) * seconds = (S * seconds) * Limit /\ S * seconds \in Nat /\ S * seconds > 0
   BY <1>1, <1>4
<1>6. S * seconds < B!Idle
  <2>1. (S * seconds) * Limit < Window + S * Limit
    BY <1>1, <1>4, <1>5 DEF n
  <2>2. Window =< B!Capacity * Limit
    BY <1>1 DEF B!Capacity
  <2>3. (S * seconds) * Limit < (B!Capacity + S) * Limit
    BY <2>1, <2>2, <1>1, <1>5, Products
  <2> QED BY <2>3, <1>1, <1>5, Products DEF B!Idle, S
<1> QED
    BY <1>1, <1>3, <1>4, <1>5, <1>6 DEF n

BucketType ==
    /\ DOMAIN buckets \subseteq Clients
    /\ \A c \in DOMAIN buckets : buckets[c] \in [tokens : Nat, age : Nat]
    /\ level \in [Clients -> 0 .. B!Capacity]
    /\ promise \in [Clients -> Nat]

\* The rest of a wait is long enough for what is missing of a token.
WaitsAreEnough ==
    \A c \in Clients : promise[c] # B!Idle => level[c] + promise[c] * Limit >= Window

BucketInv == BucketType /\ B!PrunedIsFull /\ WaitsAreEnough

LEMMA BucketInit == B!Init => BucketInv
<1> SUFFICES ASSUME B!Init PROVE BucketInv
    OBVIOUS
<1>1. DOMAIN buckets = {}
    BY DEF B!Init
<1>2. \A c \in Clients : level[c] = B!Capacity /\ promise[c] = B!Idle
    BY DEF B!Init
<1>3. BucketType
    BY <1>1, Products, PartsAssumption DEF B!Init, BucketType, B!Idle
<1> QED
    BY <1>1, <1>2, <1>3 DEF BucketInv, WaitsAreEnough, B!PrunedIsFull, B!Refilled

\* A bucket holds `left` a moment after its last use, and no other is changed,
\* other than dropped when it is full.
LEMMA Used ==
    ASSUME BucketType, B!PrunedIsFull, NEW c \in Clients, NEW left \in 0 .. B!Capacity,
           \/ buckets' = B!With(c, left)
           \/ buckets' = B!Prune(B!With(c, left))
    PROVE  /\ DOMAIN buckets' \subseteq Clients
           /\ \A d \in DOMAIN buckets' : buckets'[d] \in [tokens : Nat, age : Nat]
           /\ B!Refilled(c)' = left
           /\ \A d \in Clients \ {c} : B!Refilled(d)' = level[d]
<1> DEFINE after == B!With(c, left)
<1>1. /\ DOMAIN after = DOMAIN buckets \cup {c}
      /\ after[c] = [tokens |-> left, age |-> 0]
      /\ \A d \in DOMAIN buckets \ {c} : after[d] = buckets[d]
    BY DEF B!With
<1>2. \A d \in DOMAIN after : after[d] \in [tokens : Nat, age : Nat]
    BY <1>1, Products DEF BucketType
<1> HIDE DEF after
<1>3. /\ DOMAIN buckets' \subseteq DOMAIN after
      /\ \A d \in DOMAIN buckets' : buckets'[d] = after[d]
      /\ \A d \in DOMAIN after : d \notin DOMAIN buckets' => after[d].age >= Window
    <2>1. CASE buckets' = after
        BY <2>1
    <2>2. CASE buckets' = B!Prune(after)
        BY <2>2, <1>2, PartsAssumption DEF B!Prune, B!FullAfter
    <2> QED
        BY <2>1, <2>2 DEF after
<1>4. DOMAIN buckets' \subseteq Clients
    BY <1>1, <1>3 DEF BucketType
<1>5. c \in DOMAIN buckets'
    BY <1>1, <1>3, PartsAssumption
<1>6. B!Refilled(c)' = left
    BY <1>1, <1>3, <1>5, Products, PartsAssumption DEF B!Refilled, B!AtMost
<1>7. ASSUME NEW d \in Clients \ {c} PROVE B!Refilled(d)' = level[d]
    <2>1. B!Refilled(d) = level[d]
        BY DEF B!PrunedIsFull
    <2>2. CASE d \in DOMAIN buckets'
        BY <2>1, <2>2, <1>1, <1>3 DEF B!Refilled
    <2>3. CASE d \in DOMAIN buckets /\ d \notin DOMAIN buckets'
        <3>1. /\ buckets[d].age * Limit >= B!Capacity /\ buckets[d].age * Limit \in Nat
              /\ buckets[d].tokens \in Nat
            BY <2>3, <1>1, <1>2, <1>3, Products DEF BucketType
        <3> QED
            BY <2>1, <2>3, <3>1, Products DEF B!Refilled, B!AtMost
    <2>4. CASE d \notin DOMAIN buckets
        BY <2>1, <2>4, <1>1, <1>3 DEF B!Refilled
    <2> QED
        BY <2>2, <2>3, <2>4
<1> QED
    BY <1>2, <1>3, <1>4, <1>6, <1>7

LEMMA BucketAllow ==
    ASSUME BucketInv, NEW c \in Clients, B!Allow(c)
    PROVE  BucketInv'
<1> DEFINE left == B!Refilled(c) - Window
<1>1. B!Refilled(c) = level[c] /\ level[c] \in 0 .. B!Capacity /\ level[c] >= Window
    BY DEF BucketInv, BucketType, B!PrunedIsFull, B!Allow
<1>2. left \in 0 .. B!Capacity /\ left = level[c] - Window
    BY <1>1, PartsAssumption, Products
<1>3. \/ buckets' = B!With(c, left)
      \/ buckets' = B!Prune(B!With(c, left))
    BY DEF B!Allow
<1>4. level' = [level EXCEPT ![c] = left] /\ promise' = [promise EXCEPT ![c] = B!Idle]
    <2>1. (IF level[c] < Window THEN 0 ELSE level[c] - Window) = left
        BY <1>1, <1>2, PartsAssumption, Products
    <2> HIDE DEF left
    <2> QED
        BY <2>1 DEF B!Allow
<1> HIDE DEF left
<1>5. BucketType'
    BY <1>2, <1>3, <1>4, Used, Products, PartsAssumption DEF BucketInv, BucketType, B!Idle
<1>6. B!PrunedIsFull'
    BY <1>2, <1>3, <1>4, Used DEF BucketInv, BucketType, B!PrunedIsFull
<1>7. WaitsAreEnough'
    BY <1>4 DEF BucketInv, BucketType, WaitsAreEnough, B!Idle, B!Capacity
<1> QED
    BY <1>5, <1>6, <1>7 DEF BucketInv

LEMMA BucketRefuse ==
    ASSUME BucketInv, NEW c \in Clients, B!Refuse(c)
    PROVE  BucketInv'
<1> DEFINE left == B!Refilled(c)
<1>1. left = level[c] /\ left \in 0 .. B!Capacity /\ left < Window
    BY DEF BucketInv, BucketType, B!PrunedIsFull, B!Refuse
<1>2. /\ buckets' = B!With(c, left)
      /\ level' = level
      /\ promise' = [promise EXCEPT ![c] = B!RetryAfter(left)]
    BY DEF B!Refuse
<1>3. B!RetryAfter(left) \in Nat /\ left + B!RetryAfter(left) * Limit >= Window
    BY <1>1, WaitIsEnough
<1> HIDE DEF left
<1>4. BucketType'
    BY <1>1, <1>2, <1>3, Used DEF BucketInv, BucketType
<1>5. B!PrunedIsFull'
    BY <1>1, <1>2, Used DEF BucketInv, BucketType, B!PrunedIsFull
<1>6. WaitsAreEnough'
    BY <1>1, <1>2, <1>3 DEF BucketInv, BucketType, WaitsAreEnough, B!Idle, B!Capacity
<1> QED
    BY <1>4, <1>5, <1>6 DEF BucketInv

LEMMA BucketTick ==
    ASSUME BucketInv, B!Tick
    PROVE  BucketInv'
<1>1. PICK kept \in SUBSET DOMAIN buckets :
         /\ buckets' = [c \in kept |-> [buckets[c] EXCEPT !.age = B!AtMost(@ + 1, Expires)]]
         /\ \A c \in DOMAIN buckets \ kept : ~(buckets[c].age + 1 < Expires)
    BY DEF B!Tick, Expires, B!FullAfter
<1>2. /\ DOMAIN buckets' = kept
      /\ \A c \in kept : /\ buckets'[c].tokens = buckets[c].tokens
                         /\ buckets'[c].age = B!AtMost(buckets[c].age + 1, Expires)
    BY <1>1 DEF BucketInv, BucketType
<1>3. /\ \A c \in Clients : level'[c] = B!AtMost(level[c] + Limit, B!Capacity)
      /\ level' \in [Clients -> 0 .. B!Capacity]
    BY Products, PartsAssumption DEF B!Tick, BucketInv, BucketType, B!AtMost
<1>4. BucketType'
    <2>1. \A c \in kept : buckets'[c] \in [tokens : Nat, age : Nat]
        BY <1>1, ExpiresIsLate DEF BucketInv, BucketType, B!AtMost
    <2>2. promise' \in [Clients -> Nat]
        BY DEF B!Tick, BucketInv, BucketType, B!Idle, B!Capacity
    <2> QED
        BY <2>1, <2>2, <1>2, <1>3 DEF BucketInv, BucketType
<1>5. ASSUME NEW c \in Clients PROVE B!Refilled(c)' = level'[c]
    <2>1. B!Refilled(c) = level[c] /\ level[c] \in 0 .. B!Capacity
        BY DEF BucketInv, BucketType, B!PrunedIsFull
    <2>2. CASE c \in DOMAIN buckets
        <3> DEFINE t == buckets[c].tokens
                   a == buckets[c].age
        <3>1. t \in Nat /\ a \in Nat /\ level[c] = B!AtMost(t + a * Limit, B!Capacity)
            BY <2>1, <2>2 DEF BucketInv, BucketType, B!Refilled
        <3> HIDE DEF t, a
        <3>2. a * Limit \in Nat /\ (a + 1) * Limit = a * Limit + Limit
            BY <3>1, Products
        <3>3. level'[c] = B!AtMost(t + (a + 1) * Limit, B!Capacity)
            BY <3>1, <3>2, <1>3, Products, PartsAssumption DEF B!AtMost
        <3>4. CASE a + 1 >= Expires
            <4>1. /\ (a + 1) * Limit >= B!Capacity /\ Expires * Limit >= B!Capacity
                  /\ (a + 1) * Limit \in Nat /\ Expires * Limit \in Nat
                BY <3>1, <3>4, ExpiresIsLate, Products, PartsAssumption
            <4>2. level'[c] = B!Capacity
                BY <4>1, <3>1, <3>3, Products DEF B!AtMost
            <4>3. CASE c \in kept
                <5>1. buckets'[c].tokens = t /\ buckets'[c].age = Expires
                    BY <4>3, <1>2, <3>1, <3>4, ExpiresIsLate DEF B!AtMost, t, a
                <5> QED
                    BY <5>1, <4>1, <4>2, <4>3, <1>2, <3>1, Products DEF B!Refilled, B!AtMost
            <4>4. CASE c \notin kept
                BY <4>2, <4>4, <1>2 DEF B!Refilled
            <4> QED
                BY <4>3, <4>4
        <3>5. CASE a + 1 < Expires
            <4>1. c \in kept
                BY <2>2, <3>5, <1>1 DEF a
            <4>2. buckets'[c].tokens = t /\ buckets'[c].age = a + 1
                BY <4>1, <1>2, <3>5 DEF B!AtMost, t, a
            <4> QED
                BY <4>1, <4>2, <1>2, <3>3 DEF B!Refilled
        <3> QED
            BY <3>1, <3>4, <3>5, ExpiresIsLate
    <2>3. CASE c \notin DOMAIN buckets
        BY <2>1, <2>3, <1>2, <1>3, Products, PartsAssumption DEF B!Refilled, B!AtMost
    <2> QED
        BY <2>2, <2>3
<1>6. WaitsAreEnough'
    <2> SUFFICES ASSUME NEW c \in Clients, promise'[c] # B!Idle
                 PROVE  level'[c] + promise'[c] * Limit >= Window
        BY DEF WaitsAreEnough
    <2>1. /\ promise[c] \in Nat /\ level[c] \in 0 .. B!Capacity
          /\ promise'[c] = IF promise[c] \in {0, B!Idle} THEN promise[c] ELSE promise[c] - 1
        BY DEF B!Tick, BucketInv, BucketType
    <2>2. level[c] + promise[c] * Limit >= Window
        BY <2>1 DEF BucketInv, WaitsAreEnough
    <2>3. CASE promise[c] = 0
        BY <2>1, <2>2, <2>3, <1>3, Products, PartsAssumption DEF B!AtMost
    <2>4. CASE promise[c] # 0
        <3>1. promise'[c] \in Nat /\ promise[c] = promise'[c] + 1
            BY <2>1, <2>4
        <3>2. promise'[c] * Limit \in Nat /\ promise[c] * Limit = promise'[c] * Limit + Limit
            BY <3>1, Products
        <3> QED
            BY <3>2, <2>1, <2>2, <1>3, Products, PartsAssumption DEF B!AtMost
    <2> QED
        BY <2>3, <2>4
<1> QED
    BY <1>4, <1>5, <1>6 DEF BucketInv, B!PrunedIsFull

LEMMA BucketSays == BucketInv => LimiterIsFair
<1> SUFFICES ASSUME BucketInv, NEW c \in Clients, promise[c] = 0 PROVE B!Refilled(c) >= Window
    BY DEF BucketInv, LimiterIsFair, B!RetryAfterIsEnough
<1>1. B!Idle # 0
    BY Products, PartsAssumption DEF B!Idle
<1>2. level[c] + 0 * Limit >= Window /\ B!Refilled(c) = level[c]
    BY <1>1 DEF BucketInv, WaitsAreEnough, B!PrunedIsFull
<1> QED
    BY <1>2, PartsAssumption DEF BucketInv, BucketType

\* ratelimit.py: a bucket that is dropped would be full, one that is kept holds
\* what it would if none was ever dropped, and a wait that was told is long enough for a token.
THEOREM BucketInvariance == B!Spec => []BucketInv
<1>1. BucketInv /\ [B!Next]_(B!vars) => BucketInv'
    <2> SUFFICES ASSUME BucketInv, [B!Next]_(B!vars) PROVE BucketInv'
        OBVIOUS
    <2>1. CASE UNCHANGED B!vars
        BY <2>1 DEF B!vars, BucketInv, BucketType, B!PrunedIsFull, B!Refilled, WaitsAreEnough
    <2> QED
        BY <2>1, BucketAllow, BucketRefuse, BucketTick DEF B!Next
<1> QED
    BY <1>1, BucketInit, PTL DEF B!Spec

-----------------------------------------------------------------------------
(* The composition (MCWorkspace) *)

\* A step of the composition is a step or a stutter of each part.
LEMMA StepsOfTheParts ==
    ASSUME [MCNext]_<<part, vars, accessVars, bucketVars, requestVars>>
    PROVE  /\ [Next]_vars
           /\ [A!Next]_(A!vars)
           /\ [B!Next]_(B!vars)
           /\ [R!Next]_(R!vars)
<1> USE DEF MCNext, accessVars, bucketVars, requestVars
<1>1. [Next]_vars
    OBVIOUS
<1>2. [A!Next]_(A!vars)
    BY DEF A!vars
<1>3. [B!Next]_(B!vars)
    BY DEF B!vars
<1>4. [R!Next]_(R!vars)
    BY DEF R!vars
<1> QED
    BY <1>1, <1>2, <1>3, <1>4

\* A behaviour of the composition is one of each part: the others stutter.
THEOREM PartsCorrect == MCSpec => Spec /\ A!Spec /\ B!Spec /\ R!Spec
<1>1. MCInit => Init /\ A!Init /\ B!Init /\ R!Init
    BY DEF MCInit
<1>2. [MCNext]_<<part, vars, accessVars, bucketVars, requestVars>> => [Next]_vars
    BY StepsOfTheParts
<1>3. [MCNext]_<<part, vars, accessVars, bucketVars, requestVars>> => [A!Next]_(A!vars)
    BY StepsOfTheParts
<1>4. [MCNext]_<<part, vars, accessVars, bucketVars, requestVars>> => [B!Next]_(B!vars)
    BY StepsOfTheParts
<1>5. [MCNext]_<<part, vars, accessVars, bucketVars, requestVars>> => [R!Next]_(R!vars)
    BY StepsOfTheParts
<1> QED
    BY <1>1, <1>2, <1>3, <1>4, <1>5, PTL DEF MCSpec, Spec, A!Spec, B!Spec, R!Spec

\* What a client is answered, its log line and what the request left in the
\* database agree, whatever fails (main.py, errors.py, db.py).
THEOREM AnswersCorrect == MCSpec => []AnswersAreTrue
<1>1. RequestInv => AnswersAreTrue
    BY RequestSays DEF AnswersAreTrue
<1> QED
    BY <1>1, PartsCorrect, RequestInvariance, PTL

\* Nobody gains or loses tokens by idle buckets being dropped, and who waits as
\* long as Retry-After says finds a token (ratelimit.py).
THEOREM LimiterCorrect == MCSpec => []LimiterIsFair
BY BucketSays, PartsCorrect, BucketInvariance, PTL

\* A request is answered for what its credential is entitled to, and no other.
THEOREM AccessCorrect == MCSpec => []OnlyOwnersAreAnswered
<1>1. AccessInv => OnlyOwnersAreAnswered
    BY CommitsAs DEF OnlyOwnersAreAnswered, A!OnlyOwnersAreAnswered, A!At
<1> QED
    BY <1>1, PartsCorrect, AccessInvariance, PTL

\* Once the revocation of a key is committed, no request looks anything up, is refused
\* or commits by the right of that key; what start_run and cancel_run still tell the
\* queue was committed before.
THEOREM RevocationCorrect == MCSpec => RevokedIsOver
<1>1. ASSUME AccessInv
      PROVE  \A q \in Requests :
                /\ calls[q].at \in {"find", "commit"} /\ calls[q].by.kind = "key"
                /\ calls'[q] # calls[q]
                => A!Key(calls[q].by).live
    <2> SUFFICES ASSUME NEW q \in Requests, calls[q].at \in {"find", "commit"},
                        calls[q].by.kind = "key"
                 PROVE  A!Key(calls[q].by).live
        OBVIOUS
    <2>1. PICK k \in keys : k.id = calls[q].by.id /\ k.live
        BY <1>1 DEF AccessInv, Using, Rightful, ByKey
    <2> QED
        BY <1>1, <2>1, KeyRow
<1> QED
    BY <1>1, PartsCorrect, AccessInvariance, PTL DEF RevokedIsOver, A!RevokedIsOver

\* No quota is exceeded by more than the other requests served, neither of an
\* account nor for one, and no email has two accounts (limits.py, auth.py).
THEOREM QuotasCorrect == MCSpec => []QuotasHold
<1>1. AccessInv /\ AccountInv /\ CapOvershootBounded => QuotasHold
    BY AccountsSay DEF QuotasHold
<1> QED
    BY <1>1, PartsCorrect, CapsCorrect, AccessInvariance, AccountInvariance, PTL
===============================================================================
