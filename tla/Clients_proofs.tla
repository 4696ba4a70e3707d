---------------------------- MODULE Clients_proofs ----------------------------
(***************************************************************************)
(* What clients of one shared thing promise, for every number of browsers, *)
(* tabs, CI jobs, processes, attempts, failures and faults: the hook that  *)
(* follows a run has exactly one way to go on (RunStream), the refreshes   *)
(* of a user's tabs break no session unless one of the recorded causes     *)
(* occurred (Session), a green check and a single comment stand for what   *)
(* they say (CiJob), and processes that share the daily quota's file count *)
(* by it, and tear it only when they overlap (QuotaFile).                  *)
(***************************************************************************)
EXTENDS RunStream, Sessions, CiJobs, QuotaFiles, SequenceTheorems, FiniteSetTheorems, TLAPS

S == INSTANCE Session
C == INSTANCE CiJob
Q == INSTANCE QuotaFile

-----------------------------------------------------------------------------
(* The hook (RunStream): OneDriver, from an invariant that ties the        *)
(* connection and the fetches to the hook's state.                         *)

Status == {"running", Ended}

Event == [type : {"attempt"}, status : {"running"}]
           \cup [type : {"status"}, status : {Ended}]
           \cup [type : {"snapshot"}, status : Status]

Fetch == {Idle} \cup [at : {"fetching"}, mine : BOOLEAN]
           \cup [at : {"read"}, mine : BOOLEAN, status : Status]

HookType == [on : BOOLEAN, resolving : BOOLEAN, source : BOOLEAN, watchdog : BOOLEAN,
             retry : BOOLEAN, poll : BOOLEAN, abandoned : BOOLEAN, failures : Nat]

HookTypeOK ==
    /\ run \in Status /\ page \in Status
    /\ wire \in Seq(Event)
    /\ hook \in HookType
    /\ resyncs \in [Kinds -> Fetch]

\* fail() awaits its fetch.
Failing(rs) == rs["fail"] # Idle /\ rs["fail"].mine

\* At most one of what may drive a hook on, and at least one of it.
AtMostOne(h, f) ==
    /\ h.resolving => ~h.source /\ ~h.retry /\ ~h.poll /\ ~f
    /\ h.source => ~h.retry /\ ~h.poll /\ ~f
    /\ h.retry => ~h.poll /\ ~f
    /\ h.poll => ~f
Some(h, f) == h.resolving \/ h.source \/ h.retry \/ h.poll \/ f

\* A hook that is off drives nothing, one that is on has one driver unless it
\* was abandoned, and it is on as long as the page shows a run that runs.
Driven(h, f, p) ==
    /\ AtMostOne(h, f)
    /\ h.on => (h.abandoned <=> ~Some(h, f))
    /\ ~h.on => ~Some(h, f)
    /\ h.watchdog => h.source
    /\ h.on <=> p = "running"

\* Events arrive only over an open source.
Sourced == conn # "none" \/ wire # <<>> => hook.source

HookInv == HookTypeOK /\ Driven(hook, Failing(resyncs), page) /\ Sourced
------------------------------------------------------------------------------
\* What Driven says in terms of the set of drivers.
LEMMA DrivenIsOneDriver == HookInv => OneDriver
<1> SUFFICES ASSUME HookInv PROVE OneDriver
  OBVIOUS
<1> DEFINE f == Failing(resyncs)
<1>1. Drivers = {d \in {"resolving", "source", "retry", "poll"} : hook[d]}
                  \cup (IF f THEN {"fail"} ELSE {})
  BY DEF Drivers, Failing
<1>2. \A d : d \in Drivers <=>
          \/ d = "resolving" /\ hook.resolving
          \/ d = "source" /\ hook.source
          \/ d = "retry" /\ hook.retry
          \/ d = "poll" /\ hook.poll
          \/ d = "fail" /\ f
  BY <1>1
<1>3. CASE Some(hook, f)
  <2>1. \E d \in Drivers : Drivers = {d}
    <3>1. CASE hook.resolving
      <4>1. Drivers = {"resolving"}
        BY <1>2, <3>1 DEF HookInv, Driven, AtMostOne
      <4>2. QED
        BY <4>1
    <3>2. CASE hook.source
      <4>1. Drivers = {"source"}
        BY <1>2, <3>2 DEF HookInv, Driven, AtMostOne
      <4>2. QED
        BY <4>1
    <3>3. CASE hook.retry
      <4>1. Drivers = {"retry"}
        BY <1>2, <3>3 DEF HookInv, Driven, AtMostOne
      <4>2. QED
        BY <4>1
    <3>4. CASE hook.poll
      <4>1. Drivers = {"poll"}
        BY <1>2, <3>4 DEF HookInv, Driven, AtMostOne
      <4>2. QED
        BY <4>1
    <3>5. CASE f
      <4>1. Drivers = {"fail"}
        BY <1>2, <3>5 DEF HookInv, Driven, AtMostOne
      <4>2. QED
        BY <4>1
    <3>6. QED
      BY <1>3, <3>1, <3>2, <3>3, <3>4, <3>5 DEF Some
  <2>2. QED
    BY <1>3, <2>1 DEF HookInv, Driven, OneDriver
<1>4. CASE ~Some(hook, f)
  <2>1. Drivers = {}
    BY <1>2, <1>4 DEF Some
  <2>2. QED
    BY <1>4, <2>1 DEF HookInv, Driven, OneDriver
<1>5. QED
  BY <1>3, <1>4

LEMMA InitInv == Init => HookInv
<1> SUFFICES ASSUME Init PROVE HookInv
  OBVIOUS
<1>1. HookTypeOK
  <2>1. hook \in HookType
    BY DEF Init, HookType, Started, Off
  <2>2. resyncs \in [Kinds -> Fetch]
    BY DEF Init, Fetch
  <2>3. QED
    BY <2>1, <2>2, EmptySeq DEF Init, HookTypeOK, Status
<1>2. ~Failing(resyncs)
  BY DEF Init, Failing, Kinds
<1>3. QED
  BY <1>1, <1>2
  DEF Init, HookInv, Driven, AtMostOne, Some, Sourced, Started, Off

\* Tearing the hook down leaves nothing that drives it.
LEMMA TeardownStops ==
    ASSUME NEW rs \in [Kinds -> Fetch], Teardown(rs)
    PROVE  /\ hook' = Off /\ Off \in HookType
           /\ resyncs' \in [Kinds -> Fetch]
           /\ ~Failing(resyncs')
           /\ wire' = <<>> /\ conn' = "none"
<1>1. hook' = Off /\ resyncs' = Disown(rs) /\ wire' = <<>> /\ conn' = "none"
  BY DEF Teardown
<1>2. Off \in HookType
  BY DEF Off, HookType
<1>3. \A k \in Kinds : /\ rs[k] = Idle => Disown(rs)[k] = Idle
                       /\ rs[k] # Idle => /\ Disown(rs)[k] = [rs[k] EXCEPT !.mine = FALSE]
                                          /\ Disown(rs)[k] \in Fetch
                                          /\ Disown(rs)[k].mine = FALSE
  BY DEF Disown, Fetch
<1>4. Disown(rs) \in [Kinds -> Fetch]
  BY <1>3 DEF Disown, Fetch
<1>5. ~Failing(Disown(rs))
  BY <1>3 DEF Failing, Kinds
<1>6. QED
  BY <1>1, <1>2, <1>4, <1>5

\* The page that is torn down shows that the run has ended.
LEMMA TeardownInv ==
    ASSUME HookInv, NEW rs \in [Kinds -> Fetch], Teardown(rs), page' = Ended, run' \in Status
    PROVE  HookInv'
<1>1. /\ hook' = Off /\ hook' \in HookType
      /\ resyncs' \in [Kinds -> Fetch]
      /\ ~Failing(resyncs')
      /\ wire' = <<>> /\ conn' = "none"
  BY TeardownStops
<1>2. HookTypeOK'
  BY <1>1, EmptySeq DEF HookTypeOK, Status
<1>3. Driven(hook, Failing(resyncs), page)'
  BY <1>1 DEF Driven, AtMostOne, Some, Off, Ended, Failing
<1>4. Sourced'
  BY <1>1 DEF Sourced
<1>5. QED
  BY <1>2, <1>3, <1>4 DEF HookInv

\* A step that leaves the hook, the fetches and the page alone, and sends
\* nothing to a browser without a source.
LEMMA ServerInv ==
    ASSUME HookInv, Server
    PROVE  HookInv'
<1> USE DEF HookInv, HookTypeOK, Status
<1>1. UNCHANGED <<hook, page, resyncs>>
  BY DEF Server, EndRun, PublishAttempt, PublishEnd, Publish, Subscribe, SendSnapshot
<1>2. run' \in Status
  BY DEF Server, EndRun, PublishAttempt, PublishEnd, Publish, Subscribe, SendSnapshot
<1>3. wire' \in Seq(Event) /\ (conn' # "none" \/ wire' # <<>> => conn # "none" \/ wire # <<>>)
  <2>1. CASE EndRun \/ Subscribe
    BY <2>1 DEF EndRun, Subscribe
  <2>2. ASSUME NEW event \in Event, Publish(event)
        PROVE  /\ wire' \in Seq(Event)
               /\ conn' # "none" \/ wire' # <<>> => conn # "none" \/ wire # <<>>
    BY <2>2 DEF Publish
  <2>3. CASE PublishAttempt \/ PublishEnd
    BY <2>2, <2>3 DEF PublishAttempt, PublishEnd, Event
  <2>4. CASE SendSnapshot
    <3> DEFINE snapshot == <<[type |-> "snapshot", status |-> run]>>
    <3>1. snapshot \in Seq(Event)
      BY DEF Event
    <3>2. conn # "none" /\ (wire' = snapshot \/ wire' = snapshot \o wire)
      BY <2>4 DEF SendSnapshot
    <3>3. snapshot \o wire \in Seq(Event)
      BY <3>1
    <3>4. QED
      BY <3>1, <3>2, <3>3
  <2>5. QED
    BY <2>1, <2>3, <2>4 DEF Server
<1>4. QED
  BY <1>1, <1>2, <1>3 DEF Sourced

\* fail() is called by what drives the hook, and drives it on with its fetch.
LEMMA FailInv ==
    ASSUME HookInv, Fail, hook.resolving \/ hook.source
    PROVE  HookInv'
<1> USE DEF HookInv, HookTypeOK
<1>1. /\ hook' = Failed(hook) /\ conn' = "none" /\ wire' = <<>>
      /\ resyncs["fail"] = Idle
      /\ resyncs' = [resyncs EXCEPT !["fail"] = Fetching]
      /\ UNCHANGED <<run, page>>
  BY DEF Fail, Begin
<1>2. hook' \in HookType
  <2>1. hook.failures + 1 \in Nat
    BY DEF HookType
  <2>2. QED
    BY <1>1, <2>1 DEF Failed, HookType
<1>3. resyncs' \in [Kinds -> Fetch] /\ Failing(resyncs') /\ ~Failing(resyncs)
  BY <1>1 DEF Fetch, Fetching, Idle, Kinds, Failing
<1>4. Driven(hook, Failing(resyncs), page)'
  BY <1>1, <1>3 DEF Driven, AtMostOne, Some, Failed, HookType
<1>5. QED
  BY <1>1, <1>2, <1>3, <1>4, EmptySeq DEF Sourced

\* connect opens a source; a timer connects again or starts a fetch.
LEMMA TimersInv ==
    ASSUME HookInv, Connect \/ RetryFires \/ PollFires
    PROVE  HookInv'
<1> USE DEF HookInv, HookTypeOK
<1>1. CASE Connect
  <2>1. hook' \in HookType /\ hook'.source /\ UNCHANGED <<run, page, resyncs>> /\ wire' = <<>>
    BY <1>1 DEF Connect, HookType
  <2>2. Driven(hook, Failing(resyncs), page)'
    BY <1>1, <2>1 DEF Connect, Driven, AtMostOne, Some, HookType, Failing
  <2>3. QED
    BY <2>1, <2>2, EmptySeq DEF Sourced
<1>2. CASE RetryFires
  <2>1. hook' \in HookType /\ UNCHANGED <<run, page, resyncs, wire, conn>>
    BY <1>2 DEF RetryFires, HookType
  <2>2. Driven(hook, Failing(resyncs), page)'
    BY <1>2, <2>1 DEF RetryFires, Driven, AtMostOne, Some, HookType, Failing
  <2>3. Sourced'
    BY <1>2, <2>1 DEF RetryFires, Sourced, HookType
  <2>4. QED
    BY <2>1, <2>2, <2>3
<1>3. CASE PollFires
  <2>1. /\ UNCHANGED <<run, page, hook, wire, conn>>
        /\ resyncs' = [resyncs EXCEPT !["poll"] = Fetching]
    BY <1>3 DEF PollFires, Begin
  <2>2. resyncs' \in [Kinds -> Fetch] /\ resyncs'["fail"] = resyncs["fail"]
    BY <2>1 DEF Fetch, Fetching, Kinds
  <2>3. QED
    BY <2>1, <2>2 DEF Sourced, Failing
<1>4. QED
  BY <1>1, <1>2, <1>3

\* An event is dispatched: it arms the watchdog or tears the hook down.
LEMMA EventsInv ==
    ASSUME HookInv, OnSnapshot \/ OnAttempt \/ OnStatus
    PROVE  HookInv'
<1> USE DEF HookInv, HookTypeOK
<1>1. wire # <<>> /\ Head(wire) \in Event /\ Tail(wire) \in Seq(Event)
  BY DEF OnSnapshot, OnAttempt, OnStatus
<1>2. hook.source /\ hook.on /\ page = "running"
  BY <1>1 DEF Sourced, Driven, Some
<1>3. UNCHANGED run
  BY DEF OnSnapshot, OnAttempt, OnStatus
<1>4. ASSUME NEW k \in Kinds
      PROVE  [resyncs EXCEPT ![k] = Fetching] \in [Kinds -> Fetch]
  BY DEF Fetch, Fetching
<1>5. CASE OnSnapshot
  <2> DEFINE rs == [resyncs EXCEPT !["snapshot"] = Fetching]
  <2>1. rs \in [Kinds -> Fetch] /\ rs["fail"] = resyncs["fail"]
    BY <1>4 DEF Kinds
  <2>2. CASE page' = Ended
    <3>1. Teardown(rs)
      BY <1>5, <2>2 DEF OnSnapshot
    <3>2. QED
      BY <1>3, <2>1, <2>2, <3>1, TeardownInv
  <2>3. CASE page' # Ended
    <3>1. /\ page' = "running"
          /\ hook' = [Rearmed(hook) EXCEPT !.failures = 0]
          /\ wire' = Tail(wire) /\ resyncs' = rs /\ UNCHANGED conn
      BY <1>1, <1>5, <2>3 DEF OnSnapshot, Event, Status
    <3>2. hook' \in HookType
      BY <3>1 DEF Rearmed, HookType
    <3>3. Driven(hook, Failing(resyncs), page)'
      BY <1>2, <2>1, <3>1 DEF Driven, AtMostOne, Some, Rearmed, HookType, Failing
    <3>4. Sourced'
      BY <1>2, <3>1 DEF Sourced, Rearmed, HookType
    <3>5. QED
      BY <1>1, <1>3, <2>1, <3>1, <3>2, <3>3, <3>4 DEF Status
  <2>4. QED
    BY <2>2, <2>3
<1>6. CASE OnAttempt
  <2>1. /\ hook' = Rearmed(hook) /\ wire' = Tail(wire)
        /\ UNCHANGED <<conn, page, resyncs>>
    BY <1>6 DEF OnAttempt
  <2>2. hook' \in HookType
    BY <2>1 DEF Rearmed, HookType
  <2>3. Driven(hook, Failing(resyncs), page)'
    BY <1>2, <2>1 DEF Driven, AtMostOne, Some, Rearmed, HookType, Failing
  <2>4. Sourced'
    BY <1>2, <2>1 DEF Sourced, Rearmed, HookType
  <2>5. QED
    BY <1>1, <1>3, <2>1, <2>2, <2>3, <2>4
<1>7. CASE OnStatus
  <2> DEFINE rs == [resyncs EXCEPT !["final"] = Fetching]
  <2>1. rs \in [Kinds -> Fetch]
    BY <1>4 DEF Kinds
  <2>2. page' = Ended /\ Teardown(rs)
    BY <1>1, <1>7 DEF OnStatus, Event
  <2>3. QED
    BY <1>3, <2>1, <2>2, TeardownInv
<1>8. QED
  BY <1>5, <1>6, <1>7

\* A fetch that is answered, refused or lost: only fail()'s own drives the hook.
LEMMA FetchesInv ==
    ASSUME HookInv, NEW kind \in Kinds,
           ReadRun(kind) \/ Answered(kind) \/ Errs(kind) \/ Rejects(kind)
    PROVE  HookInv'
<1> USE DEF HookInv, HookTypeOK
<1> DEFINE rs == [resyncs EXCEPT ![kind] = Idle]
           own == kind = "fail" /\ resyncs[kind].mine
<1>1. UNCHANGED run
  BY DEF ReadRun, Answered, Errs, Rejects
<1>2. /\ rs \in [Kinds -> Fetch]
      /\ kind = "fail" => ~Failing(rs)
      /\ kind # "fail" => Failing(rs) = Failing(resyncs)
  BY DEF Fetch, Failing, Kinds
<1>3. CASE ReadRun(kind)
  <2>1. /\ resyncs[kind] \in [at : {"fetching"}, mine : BOOLEAN]
        /\ resyncs' = [resyncs EXCEPT
               ![kind] = [at |-> "read", mine |-> resyncs[kind].mine, status |-> run]]
        /\ UNCHANGED <<conn, wire, hook, page>>
    BY <1>3 DEF ReadRun, Fetch, Idle
  <2>2. resyncs' \in [Kinds -> Fetch] /\ Failing(resyncs') = Failing(resyncs)
    BY <2>1 DEF Fetch, Failing, Idle, Kinds
  <2>3. QED
    BY <1>1, <2>1, <2>2 DEF Sourced, Failing
<1>4. CASE Answered(kind)
  <2>1. resyncs[kind] \in [at : {"read"}, mine : BOOLEAN, status : Status]
    BY <1>4 DEF Answered, Fetch, Idle
  <2>2. CASE page' = Ended
    <3>1. Teardown(rs)
      BY <1>4, <2>2 DEF Answered
    <3>2. QED
      BY <1>1, <1>2, <2>2, <3>1, TeardownInv
  <2>3. CASE page' # Ended
    <3>1. /\ page' = "running" /\ resyncs' = rs /\ UNCHANGED <<conn, wire>>
          /\ hook' = IF ~hook.on THEN Started
                     ELSE IF own THEN Continued(hook) ELSE hook
      BY <1>4, <2>1, <2>3 DEF Answered, Status
    <3>2. CASE ~hook.on
      <4>1. hook' \in HookType
        BY <3>1, <3>2 DEF Started, Off, HookType
      <4>2. Driven(hook, Failing(resyncs), page)'
        BY <1>2, <3>1, <3>2, <4>1
        DEF Driven, AtMostOne, Some, Started, Off, Failing
      <4>3. QED
        BY <1>1, <1>2, <3>1, <3>2, <4>1, <4>2 DEF Sourced, Driven, Some, Status
    <3>3. CASE hook.on /\ own
      <4>1. hook' \in HookType /\ hook'.source = hook.source
        BY <3>1, <3>3 DEF Continued, HookType
      <4>2. Failing(resyncs) /\ ~Failing(resyncs')
        BY <1>2, <2>1, <3>1, <3>3 DEF Failing, Idle
      <4>3. Driven(hook, Failing(resyncs), page)'
        BY <3>1, <3>3, <4>2 DEF Driven, AtMostOne, Some, Continued, HookType
      <4>4. QED
        BY <1>1, <1>2, <3>1, <4>1, <4>3 DEF Sourced, Status
    <3>4. CASE hook.on /\ ~own
      <4>1. Failing(resyncs') = Failing(resyncs)
        BY <1>2, <3>1, <3>4 DEF Failing
      <4>2. hook' = hook /\ page' = page
        BY <3>1, <3>4 DEF Driven
      <4>3. QED
        BY <1>1, <1>2, <3>1, <4>1, <4>2 DEF Sourced, Driven
    <3>5. QED
      BY <3>2, <3>3, <3>4
  <2>4. QED
    BY <2>2, <2>3
<1>5. CASE Errs(kind) \/ Rejects(kind)
  <2>1. /\ resyncs[kind] # Idle /\ resyncs[kind].mine \in BOOLEAN
        /\ resyncs' = rs /\ UNCHANGED <<conn, wire, page>>
        /\ \/ hook' = IF own THEN Continued(hook) ELSE hook
           \/ hook' = IF own THEN [hook EXCEPT !.abandoned = TRUE] ELSE hook
    BY <1>5 DEF Errs, Rejects, Fetch
  <2>2. CASE own
    <3>1. hook' \in HookType /\ hook'.source = hook.source
      BY <2>1, <2>2 DEF Continued, HookType
    <3>2. Failing(resyncs) /\ ~Failing(resyncs')
      BY <1>2, <2>1, <2>2 DEF Failing
    <3>3. Driven(hook, Failing(resyncs), page)'
      BY <2>1, <2>2, <3>2 DEF Driven, AtMostOne, Some, Continued, HookType
    <3>4. QED
      BY <1>1, <1>2, <2>1, <3>1, <3>3 DEF Sourced
  <2>3. CASE ~own
    <3>1. Failing(resyncs') = Failing(resyncs)
      BY <1>2, <2>1, <2>3 DEF Failing
    <3>2. QED
      BY <1>1, <1>2, <2>1, <2>3, <3>1 DEF Sourced, Driven
  <2>4. QED
    BY <2>2, <2>3
<1>6. QED
  BY <1>3, <1>4, <1>5

LEMMA NextInv == HookInv /\ [Next]_vars => HookInv'
<1> SUFFICES ASSUME HookInv, [Next]_vars PROVE HookInv'
  OBVIOUS
<1>1. CASE Server
  BY <1>1, ServerInv
<1>2. CASE WatchdogFires \/ ResolveFails \/ SourceErrs
  <2>1. Fail /\ (hook.resolving \/ hook.source)
    BY <1>2 DEF WatchdogFires, ResolveFails, SourceErrs, HookInv, Driven
  <2>2. QED
    BY <2>1, FailInv
<1>3. CASE Connect \/ RetryFires \/ PollFires
  BY <1>3, TimersInv
<1>4. CASE OnSnapshot \/ OnAttempt \/ OnStatus
  BY <1>4, EventsInv
<1>5. CASE Fetches
  BY <1>5, FetchesInv DEF Fetches
<1>6. CASE UNCHANGED vars
  BY <1>6 DEF vars, HookInv, HookTypeOK, Driven, AtMostOne, Some, Sourced, Failing
<1>7. QED
  BY <1>1, <1>2, <1>3, <1>4, <1>5, <1>6 DEF Next, Timers, Events

THEOREM HookInvariance == Spec => []HookInv
BY InitInv, NextInv, PTL DEF Spec

\* useRunStream never has two connections, timers or fetches driving it on, and
\* never none while it runs, for any number of failures, attempts and faults.
THEOREM OneDriverCorrect == Spec => []OneDriver
BY HookInvariance, DrivenIsOneDriver, PTL

-----------------------------------------------------------------------------
(* The sessions of a user's browsers (Session)                             *)

Statuses == {"live", "revoked", "expired"}

\* What a tab remembers, by what it is doing.
Resting   == [pc : {"idle", "refused", "probing", "login", "form", "skeleton", "left"}]
Leaving   == [pc : {"leaving"}, cookie : Nat]
Sending   == [pc : {"sent"}, cookie : Nat, silent : BOOLEAN]
Reading   == [pc : {"read"}, cookie : Nat, silent : BOOLEAN, seen : Statuses \cup {"unknown"}]
Answering == [pc : {"answered"}, silent : BOOLEAN, issued : Nat]

TabRow == Resting \cup Leaving \cup Sending \cup Reading \cup Answering

\* A tab, or its request, has token n.
Has(t, n) ==
    \/ tab[t].pc \in {"leaving", "sent", "read"} /\ tab[t].cookie = n
    \/ tab[t].pc = "answered" /\ tab[t].issued = n

SessionType ==
    /\ tokens \in Seq(Statuses)
    /\ jar \in [Browsers -> [refresh : Nat, access : BOOLEAN]]
    /\ lock \in [Browsers -> Nat]
    /\ tab \in [AllTabs -> TabRow]

\* Tokens have been issued, and no two browsers have one.
Owned ==
    /\ \A b \in Browsers : jar[b].refresh <= Len(tokens)
    /\ \A t \in AllTabs, n \in Nat : Has(t, n) => n <= Len(tokens)
    /\ \A t \in AllTabs : tab[t].pc = "leaving" => tab[t].cookie # 0
    /\ \A t \in AllTabs : tab[t].pc = "read" /\ tab[t].seen # "unknown" => tab[t].cookie # 0
    /\ \A a, b \in Browsers : jar[a].refresh = jar[b].refresh => a = b \/ jar[a].refresh = 0
    /\ \A a \in Browsers, t \in AllTabs : Has(t, jar[a].refresh) => a = t[1] \/ jar[a].refresh = 0
    /\ \A t, u \in AllTabs, n \in Nat \ {0} : Has(t, n) /\ Has(u, n) => t[1] = u[1]

\* A tab that probes or refreshes has its browser's lock; the login page needs none.
LockHeld ==
    \A t \in AllTabs :
        tab[t].pc = "probing" \/ (S!Refreshing(t) /\ ~tab[t].silent) => S!HoldsLock(t)

\* Nothing has happened that may break single use: a browser has one refresh under
\* way, and none beside a sign-out.
Flight ==
    \A t, u \in AllTabs :
        t[1] = u[1] /\ S!Refreshing(t) => (S!Refreshing(u) => t = u) /\ ~S!SigningOut(u)

\* The tab's browser is about to be given another cookie, or none.
Replaced(t) == tab[t].pc = "left" \/ (tab[t].pc = "answered" /\ tab[t].issued # 0)

\* A browser's token is revoked only then.
Fresh == \A b \in Browsers :
    \/ jar[b].refresh = 0
    \/ tokens[jar[b].refresh] # "revoked"
    \/ \E t \in AllTabs : t[1] = b /\ Replaced(t)

\* And then it is; a request carries its browser's token.
Current(t) ==
    /\ tab[t].pc \in {"sent", "read"} => tab[t].cookie = jar[t[1]].refresh
    /\ tab[t].pc = "read" => tab[t].seen # "revoked"
    /\ tab[t].pc = "answered" /\ tab[t].issued # 0 => tokens[tab[t].issued] = "live"
    /\ tab[t].pc = "leaving" => jar[t[1]].refresh \in {0, tab[t].cookie}
    /\ Replaced(t) => jar[t[1]].refresh = 0 \/ tokens[jar[t[1]].refresh] # "live"

Held(n) ==
    \/ \E b \in Browsers : jar[b].refresh = n
    \/ \E t \in AllTabs : tab[t].pc = "answered" /\ tab[t].issued = n

Sane ==
    /\ ~reused /\ Flight /\ Fresh
    /\ \A t \in AllTabs : Current(t)
    /\ \A n \in 1 .. Len(tokens) : tokens[n] = "live" => Held(n)

SessionInv == SessionType /\ Owned /\ LockHeld /\ (causes = {} => Sane)

-----------------------------------------------------------------------------
(* Tabs *)

\* A tab is named by its browser and a number that is not 0.
LEMMA TabNames ==
    /\ \A t \in AllTabs : t[1] \in Browsers /\ t[2] \in Nat /\ t[2] # S!NoTab
    /\ \A t, u \in AllTabs : t[1] = u[1] /\ t[2] = u[2] => t = u
BY Tabs DEF S!NoTab

\* What a tab is doing tells what it remembers.
LEMMA TabShapes ==
    ASSUME NEW r \in TabRow
    PROVE  /\ r.pc = "leaving" => r \in Leaving
           /\ r.pc = "sent" => r \in Sending
           /\ r.pc = "read" => r \in Reading
           /\ r.pc = "answered" => r \in Answering
BY DEF TabRow, Resting, Leaving, Sending, Reading, Answering

LEMMA TabMoves ==
    ASSUME SessionType, NEW t \in AllTabs, NEW r \in TabRow, tab' = [tab EXCEPT ![t] = r]
    PROVE  /\ tab' \in [AllTabs -> TabRow] /\ tab'[t] = r
           /\ \A u \in AllTabs \ {t} : tab'[u] = tab[u]
BY DEF SessionType

LEMMA RestingRows ==
    \A place \in {"idle", "refused", "probing", "login", "form", "skeleton", "left"} :
        S!At(place) \in TabRow /\ S!At(place).pc = place /\ S!Idle = S!At("idle")
BY DEF S!At, S!Idle, TabRow, Resting

\* Three things a step may do to the locks.
LockMoves(t) ==
    \/ lock' = lock
    \/ lock' = S!Unlocked(t)
    \/ S!CanLock(t) /\ lock' = [lock EXCEPT ![t[1]] = t[2]]

LEMMA LockTypes ==
    ASSUME SessionType, NEW t \in AllTabs, LockMoves(t)
    PROVE  lock' \in [Browsers -> Nat]
<1>1. t[1] \in Browsers /\ t[2] \in Nat /\ S!NoTab \in Nat
    BY TabNames DEF S!NoTab
<1>2. CASE lock' = lock
    BY <1>2 DEF SessionType
<1>3. CASE lock' = S!Unlocked(t)
    BY <1>1, <1>3 DEF SessionType, S!Unlocked
<1>4. CASE lock' = [lock EXCEPT ![t[1]] = t[2]]
    BY <1>1, <1>4 DEF SessionType
<1> QED
    BY <1>2, <1>3, <1>4 DEF LockMoves

\* Nobody takes the lock from a tab that holds it.
LEMMA LockStays ==
    ASSUME SessionType, LockHeld, NEW t \in AllTabs, LockMoves(t),
           \A u \in AllTabs \ {t} : tab'[u] = tab[u],
           tab'[t].pc = "probing" \/ (S!Refreshing(t)' /\ ~tab'[t].silent) => S!HoldsLock(t)'
    PROVE  LockHeld'
<1>1. ASSUME NEW u \in AllTabs \ {t}, S!HoldsLock(u) PROVE S!HoldsLock(u)'
    BY <1>1, TabNames DEF SessionType, S!HoldsLock, LockMoves, S!Unlocked, S!CanLock
<1> QED
    BY <1>1 DEF LockHeld, S!Refreshing

\* Two tabs of a browser do not hold its lock.
LEMMA LockIsOne ==
    ASSUME NEW t \in AllTabs, NEW u \in AllTabs, t[1] = u[1], S!HoldsLock(t), S!HoldsLock(u)
    PROVE  t = u
BY TabNames DEF S!HoldsLock

\* What no other browser has: none, what the tab or its browser has, or a token
\* issued in this step.
Mine(t, n) ==
    \/ n = 0
    \/ Has(t, n)
    \/ n = jar[t[1]].refresh
    \/ n = Len(tokens) + 1 /\ n <= Len(tokens')

\* A step of tab t gives it, and its browser, only such tokens.
LEMMA OwnedStays ==
    ASSUME SessionType, SessionType', Owned, NEW t \in AllTabs, Len(tokens) <= Len(tokens'),
           \A u \in AllTabs \ {t} : tab'[u] = tab[u],
           \A b \in Browsers \ {t[1]} : jar'[b].refresh = jar[b].refresh,
           Mine(t, jar'[t[1]].refresh), \A n \in Nat : Has(t, n)' => Mine(t, n),
           tab'[t].pc = "leaving" => tab'[t].cookie # 0,
           tab'[t].pc = "read" /\ tab'[t].seen # "unknown" => tab'[t].cookie # 0
    PROVE  Owned'
<1>1. /\ Len(tokens) \in Nat /\ Len(tokens') \in Nat
      /\ \A b \in Browsers : jar[b].refresh \in Nat /\ jar'[b].refresh \in Nat
      /\ t[1] \in Browsers
    BY TabNames DEF SessionType
<1>2. \A u \in AllTabs \ {t}, n \in Nat : Has(u, n)' <=> Has(u, n)
    BY DEF Has
<1>3. ASSUME NEW n \in Nat \ {0}, Mine(t, n)
      PROVE  /\ n <= Len(tokens')
             /\ \A a \in Browsers : jar[a].refresh = n => a = t[1]
             /\ \A u \in AllTabs : Has(u, n) => u[1] = t[1]
    <2>1. CASE n = Len(tokens) + 1 /\ n <= Len(tokens')
        BY <1>1, <2>1 DEF Owned
    <2>2. CASE Has(t, n)
        BY <1>1, <2>2 DEF Owned
    <2>3. CASE n = jar[t[1]].refresh
        BY <1>1, <2>3 DEF Owned
    <2> QED
        BY <1>3, <2>1, <2>2, <2>3 DEF Mine
<1>4. \A b \in Browsers : jar'[b].refresh <= Len(tokens')
    <2>1. jar'[t[1]].refresh <= Len(tokens')
        BY <1>1, <1>3
    <2>2. \A b \in Browsers \ {t[1]} : jar'[b].refresh <= Len(tokens')
        BY <1>1 DEF Owned
    <2> QED
        BY <2>1, <2>2
<1>5. \A u \in AllTabs, n \in Nat : Has(u, n)' => n <= Len(tokens')
    <2>1. \A u \in AllTabs, n \in Nat : Has(u, n) => n <= Len(tokens')
        BY <1>1 DEF Owned
    <2>2. \A n \in Nat : Has(t, n)' => n <= Len(tokens')
        BY <1>1, <1>3
    <2> QED
        BY <1>2, <2>1, <2>2
<1>6. \A a, b \in Browsers : jar'[a].refresh = jar'[b].refresh => a = b \/ jar'[a].refresh = 0
    <2>1. \A a \in Browsers \ {t[1]} :
              jar'[a].refresh = jar'[t[1]].refresh => jar'[a].refresh = 0
        BY <1>1, <1>3
    <2>2. \A a, b \in Browsers \ {t[1]} :
              jar'[a].refresh = jar'[b].refresh => a = b \/ jar'[a].refresh = 0
        BY DEF Owned
    <2> QED
        BY <2>1, <2>2
<1>7. \A a \in Browsers, u \in AllTabs : Has(u, jar[a].refresh)' => a = u[1] \/ jar'[a].refresh = 0
    <2> SUFFICES ASSUME NEW a \in Browsers, NEW u \in AllTabs, NEW n \in Nat \ {0},
                        n = jar'[a].refresh, Has(u, n)'
                 PROVE  a = u[1]
        BY <1>1 DEF Has
    <2>1. CASE u = t /\ a = t[1]
        BY <2>1
    <2>2. CASE u = t /\ a # t[1]
        <3>1. Mine(t, n) /\ jar[a].refresh = n
            BY <2>2
        <3> QED
            BY <1>3, <2>2, <3>1
    <2>3. CASE u # t /\ a = t[1]
        <3>1. Mine(t, n) /\ Has(u, n)
            BY <1>2, <2>3
        <3> QED
            BY <1>3, <2>3, <3>1
    <2>4. CASE u # t /\ a # t[1]
        <3>1. jar[a].refresh = n /\ Has(u, n)
            BY <1>2, <2>4
        <3>2. Has(u, jar[a].refresh)
            BY <3>1
        <3> QED
            BY <3>1, <3>2 DEF Owned
    <2> QED
        BY <2>1, <2>2, <2>3, <2>4
<1>8. \A u, w \in AllTabs, n \in Nat \ {0} : Has(u, n)' /\ Has(w, n)' => u[1] = w[1]
    <2> SUFFICES ASSUME NEW u \in AllTabs, NEW w \in AllTabs, NEW n \in Nat \ {0},
                        Has(u, n)', Has(w, n)'
                 PROVE  u[1] = w[1]
        OBVIOUS
    <2>1. CASE u # t /\ w # t
        BY <1>2, <2>1 DEF Owned
    <2>2. CASE u = t \/ w = t
        BY <1>2, <1>3, <2>2
    <2> QED
        BY <2>1, <2>2
<1>9. /\ \A u \in AllTabs : tab'[u].pc = "leaving" => tab'[u].cookie # 0
      /\ \A u \in AllTabs : tab'[u].pc = "read" /\ tab'[u].seen # "unknown" => tab'[u].cookie # 0
    BY DEF Owned
<1> QED
    BY <1>4, <1>5, <1>6, <1>7, <1>8, <1>9 DEF Owned

\* Flight is kept if t begins a refresh, or a sign-out, only where it may.
LEMMA FlightStays ==
    ASSUME Flight, NEW t \in AllTabs, \A u \in AllTabs \ {t} : tab'[u] = tab[u],
           S!Refreshing(t)' =>
              S!Refreshing(t) \/ \A u \in S!Others(t) : ~S!Refreshing(u) /\ ~S!SigningOut(u),
           S!SigningOut(t)' => S!SigningOut(t) \/ \A u \in S!Others(t) : ~S!Refreshing(u),
           ~(S!Refreshing(t)' /\ S!SigningOut(t)')
    PROVE  Flight'
BY DEF Flight, S!Refreshing, S!SigningOut, S!Others

\* A step of tab t that changes neither a token nor a cookie.
LEMMA TabOnly ==
    ASSUME SessionInv, NEW t \in AllTabs, UNCHANGED <<tokens, jar, reused>>, LockMoves(t),
           tab' \in [AllTabs -> TabRow], \A u \in AllTabs \ {t} : tab'[u] = tab[u],
           \A n \in Nat : Has(t, n)' => n = 0 \/ Has(t, n) \/ n = jar[t[1]].refresh,
           tab'[t].pc = "leaving" => tab'[t].cookie # 0,
           tab'[t].pc = "read" /\ tab'[t].seen # "unknown" => tab'[t].cookie # 0,
           tab'[t].pc = "probing" \/ (S!Refreshing(t)' /\ ~tab'[t].silent) => S!HoldsLock(t)',
           causes' = {} => causes = {},
           causes' = {} => Flight' /\ Current(t)' /\ (Replaced(t) => tab'[t] = tab[t])
    PROVE  SessionInv'
<1> USE DEF SessionInv
<1>1. SessionType'
    BY LockTypes DEF SessionType
<1>2. Owned'
    <2>1. Mine(t, jar'[t[1]].refresh) /\ \A n \in Nat : Has(t, n)' => Mine(t, n)
        BY DEF Mine
    <2>2. Len(tokens) <= Len(tokens')
        BY DEF SessionType
    <2>3. \A b \in Browsers \ {t[1]} : jar'[b].refresh = jar[b].refresh
        OBVIOUS
    <2> QED
        BY <1>1, <2>1, <2>2, <2>3, OwnedStays
<1>3. LockHeld'
    BY LockStays
<1>4. ASSUME causes' = {} PROVE Sane'
    <2>1. Sane /\ Flight' /\ Current(t)' /\ (Replaced(t) => tab'[t] = tab[t])
        BY <1>4
    <2>2. Fresh'
        BY <2>1 DEF Sane, Fresh, Replaced
    <2>3. \A u \in AllTabs : Current(u)'
        BY <2>1 DEF Sane, Current, Replaced
    <2>4. \A n \in 1 .. Len(tokens) : Held(n) => Held(n)'
        BY <2>1 DEF Held, Replaced
    <2> QED
        BY <2>1, <2>2, <2>3, <2>4 DEF Sane
<1> QED
    BY <1>1, <1>2, <1>3, <1>4

\* The instance counts as this module does.
LEMMA SameCount == S!Cardinality(Browsers) = Cardinality(Browsers)
BY DEF S!Cardinality, Cardinality

\* Every token there is at the start is a browser's.
LEMMA SessionInit == S!Init => SessionInv
<1> SUFFICES ASSUME S!Init PROVE SessionInv
    OBVIOUS
<1> DEFINE K == Cardinality(Browsers)
           f == [b \in Browsers |-> jar[b].refresh]
<1>1. K \in Nat /\ IsFiniteSet(1 .. K) /\ Cardinality(1 .. K) = K
    <2>1. K \in Nat
        BY Bounds, FS_CardinalityType
    <2> HIDE DEF K
    <2> QED
        BY <2>1, FS_Interval
<1>2. /\ tokens \in [1 .. K -> {"live"}] /\ DOMAIN tokens = 1 .. K
      /\ \A t \in AllTabs : tab[t] = S!Idle /\ S!Idle.pc = "idle"
    BY SameCount DEF S!Init, S!Idle
<1>3. tokens \in Seq(Statuses) /\ Len(tokens) = K
    <2>1. tokens \in [1 .. K -> Statuses]
        BY <1>2 DEF Statuses
    <2> HIDE DEF K
    <2>2. tokens \in Seq(Statuses)
        BY <1>1, <2>1
    <2> QED
        BY <1>1, <1>2, <2>2
<1>4. jar \in [Browsers -> [refresh : 1 .. K, access : {TRUE}]]
    BY <1>2 DEF S!Init
<1> HIDE DEF K
<1>5. SessionType
    <2>1. \A r \in 1 .. K : r \in Nat
        BY <1>1
    <2>2. jar \in [Browsers -> [refresh : Nat, access : BOOLEAN]]
        BY <1>4, <2>1
    <2>3. S!Idle \in TabRow
        BY RestingRows
    <2>4. tab \in [AllTabs -> TabRow]
        BY <2>3 DEF S!Init
    <2>5. lock \in [Browsers -> Nat]
        BY DEF S!Init, S!NoTab
    <2> QED
        BY <1>3, <2>2, <2>4, <2>5 DEF SessionType
<1>6. Owned
    <2>1. \A b \in Browsers : jar[b].refresh \in 1 .. K
        BY <1>4
    <2>2. \A t \in AllTabs : \A n : ~Has(t, n)
        BY <1>2 DEF Has
    <2>3. \A b \in Browsers : jar[b].refresh <= Len(tokens)
        <3>1. \A n \in 1 .. K : n <= K
            BY <1>1
        <3> QED
            BY <1>3, <2>1, <3>1
    <2>4. \A a, b \in Browsers : jar[a].refresh = jar[b].refresh => a = b
        BY DEF S!Init
    <2> QED
        BY <1>2, <2>2, <2>3, <2>4 DEF Owned
<1>7. LockHeld
    BY <1>2 DEF LockHeld, S!Refreshing
<1>8. \A n \in 1 .. K : \E b \in Browsers : jar[b].refresh = n
    <2>1. f \in Injection(Browsers, 1 .. K)
        BY <1>4 DEF Injection, IsInjective, S!Init
    <2> HIDE DEF f
    <2>2. f \in Surjection(Browsers, 1 .. K)
        BY <1>1, <2>1, FS_Injection DEF K
    <2> QED
        BY <2>2 DEF Surjection, f
<1>9. Sane
    BY <1>1, <1>2, <1>3, <1>4, <1>8
       DEF Sane, Flight, Fresh, Current, Replaced, Held, S!Refreshing, S!Init
<1> QED
    BY <1>5, <1>6, <1>7, <1>9 DEF SessionInv

-----------------------------------------------------------------------------
(* Steps of a tab *)

\* A tab comes to rest; its browser was to get no cookie, or it is a cause.
LEMMA Rests ==
    ASSUME SessionInv, NEW t \in AllTabs, UNCHANGED <<tokens, jar, reused>>, LockMoves(t),
           NEW place \in {"idle", "refused", "probing", "login", "form", "skeleton"},
           tab' = [tab EXCEPT ![t] = S!At(place)], place = "probing" => S!HoldsLock(t)',
           causes' = {} => causes = {} /\ ~Replaced(t)
    PROVE  SessionInv'
<1>1. /\ tab' \in [AllTabs -> TabRow] /\ tab'[t].pc = place
      /\ \A u \in AllTabs \ {t} : tab'[u] = tab[u]
    BY RestingRows, TabMoves DEF SessionInv
<1>2. \A n \in Nat : ~Has(t, n)'
    BY <1>1 DEF Has
<1>3. ASSUME causes' = {} PROVE Flight' /\ Current(t)'
    BY <1>1, <1>3, FlightStays DEF SessionInv, Sane, Current, Replaced, S!Refreshing, S!SigningOut
<1> QED
    BY <1>1, <1>2, <1>3, TabOnly DEF S!Refreshing

LEMMA Waits ==
    ASSUME SessionInv, NEW t \in AllTabs,
           \/ S!Unauthorized(t) \/ S!TakeLock(t) \/ S!ProbeSucceeds(t) \/ S!ProbeThrows(t)
           \/ S!Expired(t) \/ S!Visit(t) \/ S!Reload(t) \/ S!Lose(t)
           \/ S!LoseSignOut(t)
    PROVE  SessionInv'
<1>1. S!Idle = S!At("idle")
    BY DEF S!Idle, S!At
<1>2. CASE \/ S!Unauthorized(t) \/ S!ProbeSucceeds(t) \/ S!ProbeThrows(t) \/ S!Visit(t)
           \/ S!Reload(t)
    <2>1. ~Replaced(t)
        BY <1>2 DEF Replaced, S!Unauthorized, S!ProbeSucceeds, S!ProbeThrows, S!Visit, S!Reload
    <2> QED
        BY <1>1, <1>2, <2>1, Rests
           DEF S!Unauthorized, S!ProbeSucceeds, S!ProbeThrows, S!Visit, S!Reload, LockMoves
<1>3. CASE S!TakeLock(t)
    <2>1. S!HoldsLock(t)' /\ ~Replaced(t)
        BY <1>3, TabNames DEF S!TakeLock, S!HoldsLock, Replaced, SessionInv, SessionType
    <2> QED
        BY <1>3, <2>1, Rests DEF S!TakeLock, LockMoves
<1>4. CASE S!Expired(t)
    <2>1. ~Replaced(t)
        BY <1>4 DEF Replaced, S!Expired
    <2>2. \E place \in {"form", "login"} : tab' = [tab EXCEPT ![t] = S!At(place)]
        BY <1>4 DEF S!Expired
    <2> QED
        BY <1>4, <2>1, <2>2, Rests DEF S!Expired, LockMoves
<1>5. CASE S!Lose(t)
    <2>1. causes' = {} => causes = {} /\ ~Replaced(t)
        BY <1>5 DEF S!Lose, Replaced, S!Refreshing
    <2>2. \E place \in {"idle", "login", "form", "skeleton"} :
              tab' = [tab EXCEPT ![t] = S!At(place)]
        BY <1>5 DEF S!Lose
    <2> QED
        BY <1>5, <2>1, <2>2, Rests DEF S!Lose, LockMoves
<1>6. CASE S!LoseSignOut(t)
    <2>1. causes' = {} => causes = {} /\ ~Replaced(t)
        BY <1>6 DEF S!LoseSignOut, Replaced, S!SigningOut
    <2>2. \E place \in {"idle", "login"} : tab' = [tab EXCEPT ![t] = S!At(place)]
        BY <1>6 DEF S!LoseSignOut
    <2> QED
        BY <1>6, <2>1, <2>2, Rests DEF S!LoseSignOut, LockMoves
<1> QED
    BY <1>2, <1>3, <1>4, <1>5, <1>6

\* A refresh leaves, under the lock or from the login page.
LEMMA Sends ==
    ASSUME SessionInv, NEW t \in AllTabs, NEW silent \in BOOLEAN, S!Send(t, silent),
           UNCHANGED <<tokens, jar, lock, reused>>,
           \/ tab[t].pc = "probing" /\ ~silent
           \/ tab[t].pc = "login" /\ silent
    PROVE  SessionInv'
<1> DEFINE r == [pc |-> "sent", cookie |-> jar[t[1]].refresh, silent |-> silent]
<1>1. /\ r \in Sending /\ r.pc = "sent" /\ r.cookie = jar[t[1]].refresh /\ r.silent = silent
      /\ tab' = [tab EXCEPT ![t] = r]
    BY TabNames DEF Sending, SessionInv, SessionType, S!Send
<1> HIDE DEF r
<1>2. /\ tab' \in [AllTabs -> TabRow] /\ tab'[t] = r
      /\ \A u \in AllTabs \ {t} : tab'[u] = tab[u]
    BY <1>1, TabMoves DEF TabRow, SessionInv
<1>3. \A n \in Nat : Has(t, n)' => n = jar[t[1]].refresh
    BY <1>1, <1>2 DEF Has
<1>4. S!HoldsLock(t) \/ silent
    BY DEF SessionInv, LockHeld
<1>5. ASSUME causes' = {} PROVE causes = {} /\ Flight' /\ Current(t)'
    <2>1. /\ causes = {}
          /\ \A u \in S!Others(t) : ~S!SigningOut(u)
          /\ \A u \in S!Others(t) : S!Refreshing(u) => ~silent /\ ~tab[u].silent
        BY <1>5 DEF S!Send
    <2>2. \A u \in S!Others(t) : ~S!Refreshing(u)
        BY <1>4, <2>1, LockIsOne DEF S!Others, SessionInv, LockHeld
    <2>3. Flight'
        BY <1>1, <1>2, <2>1, <2>2, FlightStays DEF SessionInv, Sane, S!Refreshing, S!SigningOut
    <2>4. Current(t)'
        BY <1>1, <1>2 DEF Current, Replaced
    <2> QED
        BY <2>1, <2>3, <2>4
<1>6. ~Replaced(t) /\ S!HoldsLock(t)' = S!HoldsLock(t)
    BY DEF Replaced, S!HoldsLock
<1> QED
    BY <1>1, <1>2, <1>3, <1>4, <1>5, <1>6, TabOnly DEF LockMoves

LEMMA Starts ==
    ASSUME SessionInv, NEW t \in AllTabs, S!ProbeFails(t) \/ S!SilentRefresh(t)
    PROVE  SessionInv'
BY Sends DEF S!ProbeFails, S!SilentRefresh

LEMMA SignsOut ==
    ASSUME SessionInv, NEW t \in AllTabs, S!SignOut(t)
    PROVE  SessionInv'
<1> DEFINE r == [pc |-> "leaving", cookie |-> jar[t[1]].refresh]
<1>1. /\ r \in Leaving /\ r.pc = "leaving" /\ r.cookie = jar[t[1]].refresh /\ r.cookie # 0
      /\ tab' = [tab EXCEPT ![t] = r]
    BY TabNames DEF Leaving, SessionInv, SessionType, S!SignOut
<1> HIDE DEF r
<1>2. /\ tab' \in [AllTabs -> TabRow] /\ tab'[t] = r
      /\ \A u \in AllTabs \ {t} : tab'[u] = tab[u]
    BY <1>1, TabMoves DEF TabRow, SessionInv
<1>3. \A n \in Nat : Has(t, n)' => n = jar[t[1]].refresh
    BY <1>1, <1>2 DEF Has
<1>4. ASSUME causes' = {} PROVE causes = {} /\ Flight' /\ Current(t)'
    <2>1. causes = {} /\ \A u \in S!Others(t) : ~S!Refreshing(u)
        BY <1>4 DEF S!SignOut
    <2>2. Flight'
        BY <1>1, <1>2, <2>1, FlightStays DEF SessionInv, Sane, S!Refreshing, S!SigningOut
    <2>3. Current(t)'
        BY <1>1, <1>2 DEF Current, Replaced, S!SignOut
    <2> QED
        BY <2>1, <2>2, <2>3
<1>5. ~Replaced(t)
    BY DEF Replaced, S!SignOut
<1> QED
    BY <1>1, <1>2, <1>3, <1>4, <1>5, TabOnly DEF LockMoves, S!SignOut, S!Refreshing

LEMMA Reads ==
    ASSUME SessionInv, NEW t \in AllTabs, S!ReadToken(t)
    PROVE  SessionInv'
<1>1. /\ tab[t].pc = "sent" /\ tab[t].cookie \in Nat /\ tab[t].silent \in BOOLEAN
    BY TabShapes DEF SessionInv, SessionType, S!ReadToken, Sending
<1>2. /\ S!Status(tab[t].cookie) \in Statuses \cup {"unknown"}
      /\ tab[t].cookie = 0 => S!Status(tab[t].cookie) = "unknown"
    <2>1. Has(t, tab[t].cookie)
        BY <1>1 DEF Has
    <2>2. tab[t].cookie <= Len(tokens)
        BY <1>1, <2>1 DEF SessionInv, Owned
    <2>3. tab[t].cookie # 0 => tab[t].cookie \in 1 .. Len(tokens)
        BY <1>1, <2>2 DEF SessionInv, SessionType
    <2>4. tab[t].cookie # 0 => tokens[tab[t].cookie] \in Statuses
        BY <2>3 DEF SessionInv, SessionType
    <2> QED
        BY <2>4 DEF S!Status
<1> DEFINE r == [pc |-> "read", cookie |-> tab[t].cookie, silent |-> tab[t].silent,
                 seen |-> S!Status(tab[t].cookie)]
<1>3. /\ r \in Reading /\ r.pc = "read" /\ r.cookie = tab[t].cookie /\ r.silent = tab[t].silent
      /\ r.seen = S!Status(tab[t].cookie) /\ tab' = [tab EXCEPT ![t] = r]
    BY <1>1, <1>2 DEF Reading, S!ReadToken
<1> HIDE DEF r
<1>4. /\ tab' \in [AllTabs -> TabRow] /\ tab'[t] = r
      /\ \A u \in AllTabs \ {t} : tab'[u] = tab[u]
    BY <1>3, TabMoves DEF TabRow, SessionInv
<1>5. \A n \in Nat : Has(t, n)' => Has(t, n)
    BY <1>1, <1>3, <1>4 DEF Has
<1>6. ASSUME causes' = {} PROVE causes = {} /\ Flight' /\ Current(t)'
    <2>1. causes = {} /\ Sane
        BY <1>6 DEF SessionInv, S!ReadToken
    <2>2. Flight'
        BY <1>1, <1>3, <1>4, <2>1, FlightStays DEF Sane, S!Refreshing, S!SigningOut
    <2>3. tab[t].cookie = jar[t[1]].refresh
        BY <1>1, <2>1 DEF Sane, Current
    <2>4. \A u \in AllTabs : u[1] = t[1] => ~Replaced(u)
        BY <1>1, <2>1 DEF Sane, Flight, Replaced, S!Refreshing, S!SigningOut
    <2>5. r.seen # "revoked"
        BY <1>3, <2>1, <2>3, <2>4, TabNames DEF Sane, Fresh, S!Status
    <2>6. Current(t)'
        BY <1>3, <1>4, <2>3, <2>5 DEF Current, Replaced, S!ReadToken
    <2> QED
        BY <2>1, <2>2, <2>6
<1>7. ~Replaced(t)
    BY <1>1 DEF Replaced
<1>8. S!Refreshing(t)' /\ ~tab'[t].silent => S!HoldsLock(t)'
    BY <1>1, <1>3, <1>4 DEF SessionInv, LockHeld, S!Refreshing, S!HoldsLock, S!ReadToken
<1> QED
    BY <1>2, <1>3, <1>4, <1>5, <1>6, <1>7, <1>8, TabOnly DEF LockMoves, S!ReadToken

\* What the API answers a refresh.
LEMMA AnswerRow ==
    ASSUME SessionInv, NEW t \in AllTabs, tab[t].pc = "read", NEW n \in Nat,
           tab' = [tab EXCEPT ![t] = S!Answered(t, n)]
    PROVE  /\ tab' \in [AllTabs -> TabRow]
           /\ tab'[t].pc = "answered" /\ tab'[t].issued = n /\ tab'[t].silent = tab[t].silent
           /\ tab[t].cookie \in Nat /\ Has(t, tab[t].cookie)
           /\ \A u \in AllTabs \ {t} : tab'[u] = tab[u]
           /\ \A m \in Nat : Has(t, m)' => m = n
           /\ S!Refreshing(t)' /\ ~tab'[t].silent => S!HoldsLock(t)
           /\ ~Replaced(t)
<1>1. tab[t] \in Reading
    BY TabShapes DEF SessionInv, SessionType
<1> DEFINE r == S!Answered(t, n)
<1>2. r \in Answering /\ r.pc = "answered" /\ r.issued = n /\ r.silent = tab[t].silent
    BY <1>1 DEF S!Answered, Answering, Reading
<1> HIDE DEF r
<1>3. /\ tab' \in [AllTabs -> TabRow] /\ tab'[t] = r
      /\ \A u \in AllTabs \ {t} : tab'[u] = tab[u]
    BY <1>2, TabMoves DEF TabRow, SessionInv, r
<1>4. \A m \in Nat : Has(t, m)' => m = n
    BY <1>2, <1>3 DEF Has
<1>5. tab[t].cookie \in Nat /\ Has(t, tab[t].cookie)
    BY <1>1 DEF Reading, Has
<1>6. ~tab[t].silent => S!HoldsLock(t)
    BY DEF SessionInv, LockHeld, S!Refreshing
<1> QED
    BY <1>2, <1>3, <1>4, <1>5, <1>6 DEF Replaced

LEMMA Refuses ==
    ASSUME SessionInv, NEW t \in AllTabs, S!Refuse(t)
    PROVE  SessionInv'
<1>1. /\ tab[t].pc = "read" /\ tab' = [tab EXCEPT ![t] = S!Answered(t, 0)]
      /\ UNCHANGED <<tokens, jar, lock, reused, causes>> /\ 0 \in Nat
    BY DEF S!Refuse
<1>2. /\ tab' \in [AllTabs -> TabRow]
      /\ tab'[t].pc = "answered" /\ tab'[t].issued = 0
      /\ \A u \in AllTabs \ {t} : tab'[u] = tab[u]
      /\ \A m \in Nat : Has(t, m)' => m = 0
      /\ S!Refreshing(t)' /\ ~tab'[t].silent => S!HoldsLock(t)'
      /\ ~Replaced(t)
    BY <1>1, AnswerRow DEF S!HoldsLock
<1>3. ASSUME causes' = {} PROVE Flight' /\ Current(t)'
    <2>1. Flight'
        BY <1>1, <1>2, <1>3, FlightStays DEF SessionInv, Sane, S!Refreshing, S!SigningOut
    <2> QED
        BY <1>2, <2>1 DEF Current, Replaced
<1> QED
    BY <1>1, <1>2, <1>3, TabOnly DEF LockMoves

-----------------------------------------------------------------------------
(* Steps that issue, revoke or deliver a token *)

\* A step of t that is not of a kind that TabOnly covers: what is left to show is
\* that tokens, cookies and the tab keep to themselves, and what it may change.
LEMMA TokenStep ==
    ASSUME SessionInv, NEW t \in AllTabs, tokens' \in Seq(Statuses), Len(tokens) <= Len(tokens'),
           jar' \in [Browsers -> [refresh : Nat, access : BOOLEAN]],
           tab' \in [AllTabs -> TabRow], LockMoves(t),
           \A u \in AllTabs \ {t} : tab'[u] = tab[u],
           \A b \in Browsers \ {t[1]} : jar'[b].refresh = jar[b].refresh,
           Mine(t, jar'[t[1]].refresh), \A n \in Nat : Has(t, n)' => Mine(t, n),
           tab'[t].pc \notin {"leaving", "read", "probing"},
           S!Refreshing(t)' /\ ~tab'[t].silent => S!HoldsLock(t)',
           causes' = {} => Sane'
    PROVE  SessionInv'
<1>1. SessionType'
    BY LockTypes DEF SessionInv, SessionType
<1>2. Owned'
    BY <1>1, OwnedStays DEF SessionInv
<1>3. LockHeld'
    BY LockStays DEF SessionInv
<1> QED
    BY <1>1, <1>2, <1>3 DEF SessionInv

\* Another browser's cookie is no token that t or its browser has.
LEMMA Apart ==
    ASSUME SessionInv, NEW t \in AllTabs, NEW n \in Nat \ {0}, Has(t, n) \/ n = jar[t[1]].refresh
    PROVE  /\ \A b \in Browsers \ {t[1]} : jar[b].refresh # n
           /\ \A u \in AllTabs : Has(u, n) => u[1] = t[1]
<1>1. t[1] \in Browsers /\ Owned
    BY TabNames DEF SessionInv
<1>2. CASE n = jar[t[1]].refresh
    <2>1. \A b \in Browsers \ {t[1]} : jar[b].refresh # n
        BY <1>1, <1>2 DEF Owned
    <2>2. \A u \in AllTabs : Has(u, jar[t[1]].refresh) => u[1] = t[1]
        BY <1>1, <1>2 DEF Owned
    <2> QED
        BY <1>2, <2>1, <2>2
<1>3. CASE Has(t, n)
    <2>1. \A b \in Browsers : Has(t, jar[b].refresh) => b = t[1] \/ jar[b].refresh = 0
        BY <1>1 DEF Owned
    <2> QED
        BY <1>1, <1>3, <2>1 DEF Owned
<1> QED
    BY <1>2, <1>3

\* The token that is revoked is its browser's own, and the new one is on its way there.
LEMMA Rotates ==
    ASSUME SessionInv, NEW t \in AllTabs, S!Rotate(t)
    PROVE  SessionInv'
<1> DEFINE c == tab[t].cookie
           L == Len(tokens)
           revoked == [tokens EXCEPT ![c] = "revoked"]
<1>1. /\ tab[t].pc = "read" /\ tab[t].seen = "live"
      /\ tab' = [tab EXCEPT ![t] = S!Answered(t, L + 1)]
      /\ tokens' = Append(revoked, "live")
      /\ UNCHANGED <<jar, lock, reused, causes>> /\ L \in Nat /\ L + 1 \in Nat
    BY DEF S!Rotate, S!Rotated, SessionInv, SessionType
<1>2. /\ tab' \in [AllTabs -> TabRow]
      /\ tab'[t].pc = "answered" /\ tab'[t].issued = L + 1
      /\ c \in Nat /\ Has(t, c)
      /\ \A u \in AllTabs \ {t} : tab'[u] = tab[u]
      /\ \A m \in Nat : Has(t, m)' => m = L + 1
      /\ S!Refreshing(t)' /\ ~tab'[t].silent => S!HoldsLock(t)'
    BY <1>1, AnswerRow DEF S!HoldsLock
<1>3. c \in 1 .. L
    BY <1>1, <1>2 DEF SessionInv, Owned
<1>4. /\ revoked \in Seq(Statuses) /\ Len(revoked) = L /\ revoked[c] = "revoked"
      /\ \A n \in 1 .. L : n # c => revoked[n] = tokens[n]
    BY <1>3 DEF SessionInv, SessionType, Statuses
<1> HIDE DEF revoked
<1>5. /\ tokens' \in Seq(Statuses) /\ Len(tokens') = L + 1 /\ tokens'[L + 1] = "live"
      /\ tokens'[c] = "revoked"
      /\ \A n \in 1 .. L : n # c => tokens'[n] = tokens[n]
    BY <1>1, <1>3, <1>4, AppendProperties DEF Statuses
<1>6. Mine(t, jar'[t[1]].refresh) /\ \A n \in Nat : Has(t, n)' => Mine(t, n)
    BY <1>1, <1>2, <1>5 DEF Mine
<1>7. ASSUME causes' = {} PROVE Sane'
    <2>1. Sane /\ c = jar[t[1]].refresh
        BY <1>1, <1>7 DEF SessionInv, Sane, Current
    <2>2. Flight'
        BY <1>1, <1>2, <2>1, FlightStays DEF Sane, S!Refreshing, S!SigningOut
    <2>3. /\ \A b \in Browsers \ {t[1]} : jar[b].refresh # c
          /\ \A u \in AllTabs : Has(u, c) => u[1] = t[1]
        BY <1>2, <1>3, Apart
    <2>4. /\ \A b \in Browsers : jar[b].refresh \in Nat /\ jar[b].refresh <= L
          /\ \A u \in AllTabs \ {t} :
                tab[u].pc = "answered" => tab[u].issued \in Nat /\ tab[u].issued <= L
        <3>1. \A u \in AllTabs : tab[u].pc = "answered" => tab[u].issued \in Nat
            BY TabShapes DEF SessionInv, SessionType, Answering
        <3> QED
            BY <3>1 DEF SessionInv, SessionType, Owned, Has
    <2>5. Replaced(t)'
        BY <1>1, <1>2 DEF Replaced
    <2>6. Fresh'
        <3> SUFFICES ASSUME NEW b \in Browsers, jar[b].refresh # 0
                     PROVE  \/ tokens'[jar[b].refresh] # "revoked"
                            \/ \E u \in AllTabs : u[1] = b /\ Replaced(u)'
            BY <1>1 DEF Fresh
        <3>1. CASE b = t[1]
            BY <2>5, <3>1
        <3>2. CASE b # t[1]
            <4>1. tokens'[jar[b].refresh] = tokens[jar[b].refresh]
                BY <1>5, <2>3, <2>4, <3>2
            <4>2. \A u \in AllTabs : u[1] = b /\ Replaced(u) => Replaced(u)'
                BY <1>2, <3>2 DEF Replaced
            <4> QED
                BY <2>1, <4>1, <4>2 DEF Sane, Fresh
        <3> QED
            BY <3>1, <3>2
    <2>7. ASSUME NEW u \in AllTabs PROVE Current(u)'
        <3>1. CASE u = t
            BY <1>1, <1>2, <1>5, <2>1, <3>1 DEF Current
        <3>2. CASE u # t
            <4>1. Current(u) /\ tab'[u] = tab[u]
                BY <1>2, <2>1, <3>2 DEF Sane
            <4>2. tab[u].pc = "answered" => tab[u].issued # c
                BY <1>1, <2>1, <2>3, <3>2 DEF Sane, Flight, S!Refreshing, Has
            <4>3. tab[u].pc = "answered" /\ tab[u].issued # 0
                    => tokens'[tab[u].issued] = tokens[tab[u].issued]
                BY <1>5, <2>4, <3>2, <4>2
            <4>4. jar[u[1]].refresh # 0 /\ tokens[jar[u[1]].refresh] # "live"
                    => tokens'[jar[u[1]].refresh] # "live"
                BY <1>5, <2>4, TabNames
            <4> QED
                BY <1>1, <4>1, <4>3, <4>4 DEF Current, Replaced
        <3> QED
            BY <3>1, <3>2
    <2>8. ASSUME NEW n \in 1 .. Len(tokens'), tokens'[n] = "live" PROVE Held(n)'
        <3>1. CASE n = L + 1
            BY <1>2, <3>1 DEF Held
        <3>2. CASE n # L + 1
            <4>1. n \in 1 .. L /\ tokens[n] = "live"
                BY <1>1, <1>5, <2>8, <3>2
            <4> QED
                BY <1>1, <1>2, <2>1, <4>1 DEF Sane, Held
        <3> QED
            BY <3>1, <3>2
    <2> QED
        BY <1>1, <2>1, <2>2, <2>6, <2>7, <2>8 DEF Sane
<1>8. jar' \in [Browsers -> [refresh : Nat, access : BOOLEAN]] /\ LockMoves(t) /\ L <= Len(tokens')
    BY <1>1, <1>5 DEF SessionInv, SessionType, LockMoves
<1> QED
    BY <1>1, <1>2, <1>5, <1>6, <1>7, <1>8, TokenStep

\* A reuse has a cause: a browser's refresh reads its own token, which is revoked
\* only when the browser is about to get another.
LEMMA RevokesAll ==
    ASSUME SessionInv, NEW t \in AllTabs, S!RevokeAll(t)
    PROVE  SessionInv'
<1>1. /\ tab[t].pc = "read" /\ tab[t].seen = "revoked"
      /\ tab' = [tab EXCEPT ![t] = S!Answered(t, 0)]
      /\ tokens' = [n \in DOMAIN tokens |-> "revoked"]
      /\ UNCHANGED <<jar, lock, causes>> /\ 0 \in Nat
    BY DEF S!RevokeAll
<1>2. /\ tab' \in [AllTabs -> TabRow]
      /\ tab'[t].pc = "answered" /\ tab'[t].issued = 0
      /\ \A u \in AllTabs \ {t} : tab'[u] = tab[u]
      /\ \A m \in Nat : Has(t, m)' => m = 0
      /\ S!Refreshing(t)' /\ ~tab'[t].silent => S!HoldsLock(t)'
    BY <1>1, AnswerRow DEF S!HoldsLock
<1>3. tokens' \in Seq(Statuses) /\ Len(tokens') = Len(tokens) /\ Len(tokens) \in Nat
    BY <1>1 DEF SessionInv, SessionType, Statuses
<1>4. Mine(t, jar'[t[1]].refresh) /\ \A n \in Nat : Has(t, n)' => Mine(t, n)
    BY <1>1, <1>2 DEF Mine
<1>5. causes # {}
    BY <1>1 DEF SessionInv, Sane, Current
<1>6. jar' \in [Browsers -> [refresh : Nat, access : BOOLEAN]] /\ LockMoves(t)
    BY <1>1 DEF SessionInv, SessionType, LockMoves
<1> QED
    BY <1>1, <1>2, <1>3, <1>4, <1>5, <1>6, TokenStep

\* A reply delivers the cookies.
LEMMA Delivers ==
    ASSUME SessionInv, NEW t \in AllTabs, S!Refreshed(t)
    PROVE  SessionInv'
<1> DEFINE n == tab[t].issued
           row == [refresh |-> n, access |-> TRUE]
<1>1. /\ tab[t].pc = "answered" /\ n # 0 /\ tab' = [tab EXCEPT ![t] = S!Idle]
      /\ jar' = [jar EXCEPT ![t[1]] = row] /\ lock' = S!Unlocked(t)
      /\ UNCHANGED <<tokens, reused, causes>>
    BY DEF S!Refreshed
<1>2. n \in Nat /\ Has(t, n) /\ n <= Len(tokens) /\ Len(tokens) \in Nat /\ t[1] \in Browsers
    <2>1. n \in Nat
        BY <1>1, TabShapes DEF SessionInv, SessionType, Answering
    <2>2. Has(t, n)
        BY <1>1 DEF Has
    <2> QED
        BY <2>1, <2>2, TabNames DEF SessionInv, SessionType, Owned
<1>3. row \in [refresh : Nat, access : BOOLEAN] /\ row.refresh = n
    BY <1>2
<1> HIDE DEF row
<1>4. /\ jar' \in [Browsers -> [refresh : Nat, access : BOOLEAN]] /\ jar'[t[1]].refresh = n
      /\ \A b \in Browsers \ {t[1]} : jar'[b].refresh = jar[b].refresh
    BY <1>1, <1>2, <1>3 DEF SessionInv, SessionType
<1>5. /\ tab' \in [AllTabs -> TabRow] /\ tab'[t].pc = "idle"
      /\ \A u \in AllTabs \ {t} : tab'[u] = tab[u]
    BY <1>1, RestingRows, TabMoves DEF SessionInv
<1>6. Mine(t, jar'[t[1]].refresh) /\ \A m \in Nat : Has(t, m)' => Mine(t, m)
    BY <1>2, <1>4, <1>5 DEF Mine, Has
<1>7. ASSUME causes' = {} PROVE Sane'
    <2>1. Sane /\ Replaced(t)
        BY <1>1, <1>7 DEF SessionInv, Replaced
    <2>2. tokens[n] = "live" /\ (jar[t[1]].refresh = 0 \/ tokens[jar[t[1]].refresh] # "live")
        BY <1>1, <2>1 DEF Sane, Current
    <2>3. Flight'
        BY <1>5, <2>1, FlightStays DEF Sane, S!Refreshing, S!SigningOut
    <2>4. \A u \in AllTabs \ {t} : u[1] = t[1] => ~S!Refreshing(u) /\ ~S!SigningOut(u)
        BY <1>1, <2>1 DEF Sane, Flight, S!Refreshing
    <2>5. Fresh'
        <3> SUFFICES ASSUME NEW b \in Browsers, b # t[1], jar[b].refresh # 0,
                            tokens[jar[b].refresh] = "revoked"
                     PROVE  \E u \in AllTabs : u[1] = b /\ Replaced(u)'
            BY <1>1, <1>4, <2>2 DEF Fresh
        <3>1. PICK u \in AllTabs : u[1] = b /\ Replaced(u)
            BY <2>1 DEF Sane, Fresh
        <3> QED
            BY <1>5, <3>1 DEF Replaced
    <2>6. ASSUME NEW u \in AllTabs PROVE Current(u)'
        <3>1. CASE u = t \/ u[1] = t[1]
            BY <1>5, <2>4, <3>1 DEF Current, Replaced, S!Refreshing, S!SigningOut
        <3>2. CASE u # t /\ u[1] # t[1]
            <4>1. Current(u) /\ tab'[u] = tab[u] /\ jar'[u[1]].refresh = jar[u[1]].refresh
                BY <1>4, <1>5, <2>1, <3>2, TabNames DEF Sane
            <4> QED
                BY <1>1, <4>1 DEF Current, Replaced
        <3> QED
            BY <3>1, <3>2
    <2>7. ASSUME NEW m \in 1 .. Len(tokens), tokens[m] = "live" PROVE Held(m)'
        <3>1. CASE m = n
            BY <1>2, <1>4, <3>1 DEF Held
        <3>2. ASSUME NEW b \in Browsers, jar[b].refresh = m PROVE Held(m)'
            <4>1. b # t[1]
                BY <1>2, <2>2, <2>7, <3>2
            <4> QED
                BY <1>4, <3>2, <4>1 DEF Held
        <3>3. ASSUME NEW u \in AllTabs, m # n, tab[u].pc = "answered", tab[u].issued = m
              PROVE  Held(m)'
            BY <1>5, <3>3 DEF Held
        <3> QED
            BY <2>1, <2>7, <3>1, <3>2, <3>3 DEF Sane, Held
    <2> QED
        BY <1>1, <2>1, <2>3, <2>5, <2>6, <2>7 DEF Sane
<1>8. /\ tokens' \in Seq(Statuses) /\ Len(tokens) <= Len(tokens') /\ LockMoves(t)
      /\ ~S!Refreshing(t)'
    BY <1>1, <1>2, <1>5 DEF SessionInv, SessionType, LockMoves, S!Refreshing
<1> QED
    BY <1>4, <1>5, <1>6, <1>7, <1>8, TokenStep

\* A sign-in without a cause finds no live token in its browser, and nothing under way.
LEMMA SignsIn ==
    ASSUME SessionInv, NEW t \in AllTabs, S!SignIn(t)
    PROVE  SessionInv'
<1> DEFINE L == Len(tokens)
           row == [refresh |-> L + 1, access |-> TRUE]
<1>1. /\ tab[t].pc = "form" /\ tab' = [tab EXCEPT ![t] = S!Idle]
      /\ tokens' = Append(tokens, "live") /\ jar' = [jar EXCEPT ![t[1]] = row]
      /\ UNCHANGED <<lock, reused>> /\ L \in Nat /\ L + 1 \in Nat /\ t[1] \in Browsers
    BY TabNames DEF S!SignIn, SessionInv, SessionType
<1>2. row \in [refresh : Nat, access : BOOLEAN] /\ row.refresh = L + 1
    BY <1>1
<1> HIDE DEF row
<1>3. /\ jar' \in [Browsers -> [refresh : Nat, access : BOOLEAN]] /\ jar'[t[1]].refresh = L + 1
      /\ \A b \in Browsers \ {t[1]} : jar'[b].refresh = jar[b].refresh
    BY <1>1, <1>2 DEF SessionInv, SessionType
<1>4. /\ tab' \in [AllTabs -> TabRow] /\ tab'[t].pc = "idle"
      /\ \A u \in AllTabs \ {t} : tab'[u] = tab[u]
    BY <1>1, RestingRows, TabMoves DEF SessionInv
<1>5. /\ tokens' \in Seq(Statuses) /\ Len(tokens') = L + 1 /\ tokens'[L + 1] = "live"
      /\ \A n \in 1 .. L : tokens'[n] = tokens[n]
    BY <1>1, AppendProperties DEF Statuses, SessionInv, SessionType
<1>6. Mine(t, jar'[t[1]].refresh) /\ \A m \in Nat : Has(t, m)' => Mine(t, m)
    BY <1>1, <1>3, <1>4, <1>5 DEF Mine, Has
<1>7. ASSUME causes' = {} PROVE Sane'
    <2>1. /\ Sane /\ S!Status(jar[t[1]].refresh) # "live"
          /\ \A u \in S!Others(t) : ~S!Refreshing(u) /\ ~S!SigningOut(u)
        BY <1>7 DEF S!SignIn, SessionInv
    <2>2. jar[t[1]].refresh = 0 \/ tokens[jar[t[1]].refresh] # "live"
        BY <2>1 DEF S!Status
    <2>3. Flight'
        BY <1>4, <2>1, FlightStays DEF Sane, S!Refreshing, S!SigningOut
    <2>4. \A u \in AllTabs \ {t} : u[1] = t[1] => ~S!Refreshing(u) /\ ~S!SigningOut(u)
        BY <2>1 DEF S!Others
    <2>5. /\ \A b \in Browsers : jar[b].refresh \in Nat /\ jar[b].refresh <= L
          /\ \A u \in AllTabs :
                tab[u].pc = "answered" => tab[u].issued \in Nat /\ tab[u].issued <= L
        <3>1. \A u \in AllTabs : tab[u].pc = "answered" => tab[u].issued \in Nat
            BY TabShapes DEF SessionInv, SessionType, Answering
        <3> QED
            BY <3>1 DEF SessionInv, SessionType, Owned, Has
    <2>6. Fresh'
        <3> SUFFICES ASSUME NEW b \in Browsers, b # t[1], jar[b].refresh # 0,
                            tokens'[jar[b].refresh] = "revoked"
                     PROVE  \E u \in AllTabs : u[1] = b /\ Replaced(u)'
            BY <1>3, <1>5 DEF Fresh
        <3>1. tokens[jar[b].refresh] = "revoked"
            BY <1>5, <2>5
        <3>2. PICK u \in AllTabs : u[1] = b /\ Replaced(u)
            BY <2>1, <3>1 DEF Sane, Fresh
        <3> QED
            BY <1>4, <3>2 DEF Replaced
    <2>7. ASSUME NEW u \in AllTabs PROVE Current(u)'
        <3>1. CASE u = t \/ u[1] = t[1]
            BY <1>4, <2>4, <3>1 DEF Current, Replaced, S!Refreshing, S!SigningOut
        <3>2. CASE u # t /\ u[1] # t[1]
            <4>1. Current(u) /\ tab'[u] = tab[u] /\ jar'[u[1]].refresh = jar[u[1]].refresh
                BY <1>3, <1>4, <2>1, <3>2, TabNames DEF Sane
            <4>2. /\ tab[u].pc = "answered" /\ tab[u].issued # 0
                        => tokens'[tab[u].issued] = tokens[tab[u].issued]
                  /\ jar[u[1]].refresh # 0 => tokens'[jar[u[1]].refresh] = tokens[jar[u[1]].refresh]
                BY <1>5, <2>5, TabNames
            <4> QED
                BY <4>1, <4>2 DEF Current, Replaced
        <3> QED
            BY <3>1, <3>2
    <2>8. ASSUME NEW m \in 1 .. Len(tokens'), tokens'[m] = "live" PROVE Held(m)'
        <3>1. CASE m = L + 1
            BY <1>1, <1>3, <3>1 DEF Held
        <3>2. CASE m \in 1 .. L
            <4>1. tokens[m] = "live" /\ Held(m)
                BY <1>5, <2>1, <2>8, <3>2 DEF Sane
            <4>2. ASSUME NEW b \in Browsers, jar[b].refresh = m PROVE Held(m)'
                <5>1. b # t[1]
                    BY <1>1, <2>2, <3>2, <4>1, <4>2
                <5> QED
                    BY <1>3, <4>2, <5>1 DEF Held
            <4>3. ASSUME NEW u \in AllTabs, tab[u].pc = "answered", tab[u].issued = m
                  PROVE  Held(m)'
                BY <1>1, <1>4, <4>3 DEF Held
            <4> QED
                BY <4>1, <4>2, <4>3 DEF Held
        <3> QED
            BY <1>1, <1>5, <3>1, <3>2
    <2> QED
        BY <1>1, <2>1, <2>3, <2>6, <2>7, <2>8 DEF Sane
<1>8. LockMoves(t) /\ L <= Len(tokens') /\ ~S!Refreshing(t)'
    BY <1>1, <1>4, <1>5 DEF LockMoves, S!Refreshing
<1> QED
    BY <1>1, <1>3, <1>4, <1>5, <1>6, <1>7, <1>8, TokenStep

\* A sign-out without a cause revokes its browser's own token.
LEMMA LogsOut ==
    ASSUME SessionInv, NEW t \in AllTabs, S!Logout(t)
    PROVE  SessionInv'
<1> DEFINE c == tab[t].cookie
           L == Len(tokens)
<1>1. /\ tab[t].pc = "leaving" /\ tab' = [tab EXCEPT ![t] = S!At("left")]
      /\ tokens' = [tokens EXCEPT ![c] = "revoked"]
      /\ UNCHANGED <<jar, lock, reused, causes>> /\ L \in Nat
    BY DEF S!Logout, SessionInv, SessionType
<1>2. c \in 1 .. L /\ Has(t, c)
    <2>1. c \in Nat
        BY <1>1, TabShapes DEF SessionInv, SessionType, Leaving
    <2>2. Has(t, c)
        BY <1>1 DEF Has
    <2> QED
        BY <1>1, <2>1, <2>2 DEF SessionInv, Owned
<1>3. /\ tab' \in [AllTabs -> TabRow] /\ tab'[t].pc = "left"
      /\ \A u \in AllTabs \ {t} : tab'[u] = tab[u]
    BY <1>1, RestingRows, TabMoves DEF SessionInv
<1>4. /\ tokens' \in Seq(Statuses) /\ Len(tokens') = L /\ tokens'[c] = "revoked"
      /\ \A n \in 1 .. L : n # c => tokens'[n] = tokens[n]
    BY <1>1, <1>2 DEF SessionInv, SessionType, Statuses
<1>5. Mine(t, jar'[t[1]].refresh) /\ \A m \in Nat : Has(t, m)' => Mine(t, m)
    BY <1>1, <1>3 DEF Mine, Has
<1>6. ASSUME causes' = {} PROVE Sane'
    <2>1. Sane /\ jar[t[1]].refresh \in {0, c}
        BY <1>1, <1>6 DEF SessionInv, Sane, Current
    <2>2. Flight'
        BY <1>1, <1>3, <2>1, FlightStays DEF Sane, S!Refreshing, S!SigningOut
    <2>3. /\ \A b \in Browsers \ {t[1]} : jar[b].refresh # c
          /\ \A u \in AllTabs : tab[u].pc = "answered" => tab[u].issued # c
        <3>1. /\ \A b \in Browsers \ {t[1]} : jar[b].refresh # c
              /\ \A u \in AllTabs : Has(u, c) => u[1] = t[1]
            BY <1>2, Apart
        <3> QED
            BY <1>1, <2>1, <3>1 DEF Sane, Flight, S!Refreshing, S!SigningOut, Has
    <2>4. /\ \A b \in Browsers : jar[b].refresh \in Nat /\ jar[b].refresh <= L
          /\ \A u \in AllTabs :
                tab[u].pc = "answered" => tab[u].issued \in Nat /\ tab[u].issued <= L
        <3>1. \A u \in AllTabs : tab[u].pc = "answered" => tab[u].issued \in Nat
            BY TabShapes DEF SessionInv, SessionType, Answering
        <3> QED
            BY <3>1 DEF SessionInv, SessionType, Owned, Has
    <2>5. Replaced(t)'
        BY <1>3 DEF Replaced
    <2>6. Fresh'
        <3> SUFFICES ASSUME NEW b \in Browsers, jar[b].refresh # 0, b # t[1]
                     PROVE  \/ tokens'[jar[b].refresh] # "revoked"
                            \/ \E u \in AllTabs : u[1] = b /\ Replaced(u)'
            BY <1>1, <2>5 DEF Fresh
        <3>1. tokens'[jar[b].refresh] = tokens[jar[b].refresh]
            BY <1>4, <2>3, <2>4
        <3>2. \A u \in AllTabs : u[1] = b /\ Replaced(u) => Replaced(u)'
            BY <1>3 DEF Replaced
        <3> QED
            BY <2>1, <3>1, <3>2 DEF Sane, Fresh
    <2>7. ASSUME NEW u \in AllTabs PROVE Current(u)'
        <3>1. CASE u = t
            BY <1>1, <1>3, <1>4, <2>1, <3>1 DEF Current
        <3>2. CASE u # t
            <4>1. Current(u) /\ tab'[u] = tab[u]
                BY <1>3, <2>1, <3>2 DEF Sane
            <4>2. tab[u].pc = "answered" /\ tab[u].issued # 0
                    => tokens'[tab[u].issued] = tokens[tab[u].issued]
                BY <1>4, <2>3, <2>4
            <4>3. jar[u[1]].refresh # 0 /\ tokens[jar[u[1]].refresh] # "live"
                    => tokens'[jar[u[1]].refresh] # "live"
                BY <1>4, <2>4, TabNames
            <4> QED
                BY <1>1, <4>1, <4>2, <4>3 DEF Current, Replaced
        <3> QED
            BY <3>1, <3>2
    <2>8. ASSUME NEW n \in 1 .. Len(tokens'), tokens'[n] = "live" PROVE Held(n)'
        <3>1. n \in 1 .. L /\ tokens[n] = "live"
            BY <1>4, <2>8
        <3> QED
            BY <1>1, <1>3, <2>1, <3>1 DEF Sane, Held
    <2> QED
        BY <1>1, <2>1, <2>2, <2>6, <2>7, <2>8 DEF Sane
<1>7. /\ jar' \in [Browsers -> [refresh : Nat, access : BOOLEAN]] /\ LockMoves(t)
      /\ L <= Len(tokens') /\ ~S!Refreshing(t)'
    BY <1>1, <1>3, <1>4 DEF SessionInv, SessionType, LockMoves, S!Refreshing
<1> QED
    BY <1>1, <1>3, <1>4, <1>5, <1>6, <1>7, TokenStep

LEMMA ClearsCookies ==
    ASSUME SessionInv, NEW t \in AllTabs, S!SignedOut(t)
    PROVE  SessionInv'
<1> DEFINE row == [refresh |-> 0, access |-> FALSE]
<1>1. /\ tab[t].pc = "left" /\ tab' = [tab EXCEPT ![t] = S!At("login")]
      /\ jar' = [jar EXCEPT ![t[1]] = row]
      /\ UNCHANGED <<tokens, lock, reused, causes>> /\ t[1] \in Browsers
    BY TabNames DEF S!SignedOut
<1>2. row \in [refresh : Nat, access : BOOLEAN] /\ row.refresh = 0
    OBVIOUS
<1> HIDE DEF row
<1>3. /\ jar' \in [Browsers -> [refresh : Nat, access : BOOLEAN]] /\ jar'[t[1]].refresh = 0
      /\ \A b \in Browsers \ {t[1]} : jar'[b].refresh = jar[b].refresh
    BY <1>1, <1>2 DEF SessionInv, SessionType
<1>4. /\ tab' \in [AllTabs -> TabRow] /\ tab'[t].pc = "login"
      /\ \A u \in AllTabs \ {t} : tab'[u] = tab[u]
    BY <1>1, RestingRows, TabMoves DEF SessionInv
<1>5. Mine(t, jar'[t[1]].refresh) /\ \A m \in Nat : Has(t, m)' => Mine(t, m)
    BY <1>3, <1>4 DEF Mine, Has
<1>6. ASSUME causes' = {} PROVE Sane'
    <2>1. Sane /\ Replaced(t)
        BY <1>1, <1>6 DEF SessionInv, Replaced
    <2>2. jar[t[1]].refresh = 0 \/ tokens[jar[t[1]].refresh] # "live"
        BY <2>1 DEF Sane, Current
    <2>3. Flight'
        BY <1>4, <2>1, FlightStays DEF Sane, S!Refreshing, S!SigningOut
    <2>4. \A u \in AllTabs : u[1] = t[1] => ~S!Refreshing(u)
        BY <1>1, <2>1 DEF Sane, Flight, S!SigningOut
    <2>5. Fresh'
        <3> SUFFICES ASSUME NEW b \in Browsers, b # t[1], jar[b].refresh # 0,
                            tokens[jar[b].refresh] = "revoked"
                     PROVE  \E u \in AllTabs : u[1] = b /\ Replaced(u)'
            BY <1>1, <1>3 DEF Fresh
        <3>1. PICK u \in AllTabs : u[1] = b /\ Replaced(u)
            BY <2>1 DEF Sane, Fresh
        <3> QED
            BY <1>4, <3>1 DEF Replaced
    <2>6. ASSUME NEW u \in AllTabs PROVE Current(u)'
        <3>1. CASE u = t \/ u[1] = t[1]
            BY <1>3, <1>4, <2>4, <3>1 DEF Current, Replaced, S!Refreshing
        <3>2. CASE u # t /\ u[1] # t[1]
            <4>1. Current(u) /\ tab'[u] = tab[u] /\ jar'[u[1]].refresh = jar[u[1]].refresh
                BY <1>3, <1>4, <2>1, <3>2, TabNames DEF Sane
            <4> QED
                BY <1>1, <4>1 DEF Current, Replaced
        <3> QED
            BY <3>1, <3>2
    <2>7. ASSUME NEW m \in 1 .. Len(tokens), tokens[m] = "live" PROVE Held(m)'
        <3>1. ASSUME NEW b \in Browsers, jar[b].refresh = m PROVE Held(m)'
            <4>1. b # t[1]
                BY <2>2, <2>7, <3>1 DEF SessionInv, SessionType
            <4> QED
                BY <1>3, <3>1, <4>1 DEF Held
        <3>2. ASSUME NEW u \in AllTabs, tab[u].pc = "answered", tab[u].issued = m PROVE Held(m)'
            BY <1>1, <1>4, <3>2 DEF Held
        <3> QED
            BY <2>1, <2>7, <3>1, <3>2 DEF Sane, Held
    <2> QED
        BY <1>1, <2>1, <2>3, <2>5, <2>6, <2>7 DEF Sane
<1>7. /\ tokens' \in Seq(Statuses) /\ Len(tokens) <= Len(tokens') /\ LockMoves(t)
      /\ ~S!Refreshing(t)'
    BY <1>1, <1>4 DEF SessionInv, SessionType, LockMoves, S!Refreshing
<1> QED
    BY <1>1, <1>3, <1>4, <1>5, <1>6, <1>7, TokenStep

-----------------------------------------------------------------------------
(* Time *)

\* Whatever expires, no browser's token is revoked by it.
LEMMA AccessEnds ==
    ASSUME SessionInv, NEW b \in Browsers, S!AccessExpires(b)
    PROVE  SessionInv'
<1>1. /\ jar' \in [Browsers -> [refresh : Nat, access : BOOLEAN]]
      /\ \A a \in Browsers : jar'[a].refresh = jar[a].refresh
    BY DEF S!AccessExpires, SessionInv, SessionType
<1>2. UNCHANGED <<tokens, lock, tab, reused, causes>>
    BY DEF S!AccessExpires
<1>3. SessionType'
    BY <1>1, <1>2 DEF SessionInv, SessionType
<1>4. Owned'
    <2>1. /\ \A t \in AllTabs : \A n \in Nat : Has(t, n)' <=> Has(t, n)
          /\ \A a \in Browsers, t \in AllTabs : Has(t, jar[a].refresh)' <=> Has(t, jar[a].refresh)
        BY <1>1, <1>2 DEF Has
    <2>2. /\ \A a, d \in Browsers :
                jar'[a].refresh = jar'[d].refresh => a = d \/ jar'[a].refresh = 0
          /\ \A a \in Browsers : jar'[a].refresh <= Len(tokens')
        BY <1>1, <1>2 DEF SessionInv, Owned
    <2>3. /\ \A t \in AllTabs, n \in Nat : Has(t, n)' => n <= Len(tokens')
          /\ \A a \in Browsers, t \in AllTabs :
                Has(t, jar[a].refresh)' => a = t[1] \/ jar'[a].refresh = 0
          /\ \A t, u \in AllTabs, n \in Nat \ {0} : Has(t, n)' /\ Has(u, n)' => t[1] = u[1]
        BY <1>1, <1>2, <2>1 DEF SessionInv, Owned
    <2> QED
        BY <1>2, <2>2, <2>3 DEF SessionInv, Owned
<1>5. LockHeld'
    BY <1>2 DEF SessionInv, LockHeld, S!Refreshing, S!HoldsLock
<1>6. ASSUME causes' = {} PROVE Sane'
    <2>1. Sane
        BY <1>2, <1>6 DEF SessionInv
    <2>2. Flight'
        BY <1>2, <2>1 DEF Sane, Flight, S!Refreshing, S!SigningOut
    <2>3. Fresh'
        BY <1>1, <1>2, <2>1 DEF Sane, Fresh, Replaced
    <2>4. \A t \in AllTabs : Current(t)'
        BY <1>1, <1>2, <2>1, TabNames DEF Sane, Current, Replaced
    <2>5. \A n \in 1 .. Len(tokens) : Held(n) => Held(n)'
        BY <1>1, <1>2 DEF Held
    <2> QED
        BY <1>2, <2>1, <2>2, <2>3, <2>4, <2>5 DEF Sane
<1> QED
    BY <1>3, <1>4, <1>5, <1>6 DEF SessionInv

LEMMA RefreshTokenEnds ==
    ASSUME SessionInv, NEW b \in Browsers, S!RefreshExpires(b)
    PROVE  SessionInv'
<1> DEFINE c == jar[b].refresh
           L == Len(tokens)
<1>1. /\ c \in 1 .. L /\ tokens' = [tokens EXCEPT ![c] = "expired"]
      /\ UNCHANGED <<jar, lock, tab, reused, causes>>
      /\ \A t \in AllTabs : t[1] = b => ~S!Refreshing(t)
    BY DEF S!RefreshExpires, SessionInv, SessionType, Owned
<1>2. /\ tokens' \in Seq(Statuses) /\ Len(tokens') = L /\ tokens'[c] = "expired"
      /\ \A n \in 1 .. L : n # c => tokens'[n] = tokens[n]
    BY <1>1 DEF SessionInv, SessionType, Statuses
<1>3. SessionType'
    BY <1>1, <1>2 DEF SessionInv, SessionType
<1>4. Owned'
    BY <1>1, <1>2 DEF SessionInv, Owned, Has
<1>5. LockHeld'
    BY <1>1 DEF SessionInv, LockHeld, S!Refreshing, S!HoldsLock
<1>6. ASSUME causes' = {} PROVE Sane'
    <2>1. Sane
        BY <1>1, <1>6 DEF SessionInv
    <2>2. Flight'
        BY <1>1, <2>1 DEF Sane, Flight, S!Refreshing, S!SigningOut
    <2>3. /\ \A a \in Browsers : jar[a].refresh \in Nat /\ jar[a].refresh <= L
          /\ \A u \in AllTabs :
                tab[u].pc = "answered" => tab[u].issued \in Nat /\ tab[u].issued <= L
        <3>1. \A u \in AllTabs : tab[u].pc = "answered" => tab[u].issued \in Nat
            BY TabShapes DEF SessionInv, SessionType, Answering
        <3> QED
            BY <3>1 DEF SessionInv, SessionType, Owned, Has
    <2>4. \A u \in AllTabs : tab[u].pc = "answered" => tab[u].issued # c
        <3>1. \A u \in AllTabs : Has(u, c) => b = u[1]
            BY <1>1 DEF SessionInv, Owned
        <3> QED
            BY <1>1, <3>1 DEF Has, S!Refreshing
    <2>5. \A a \in Browsers : jar[a].refresh # 0 =>
              /\ tokens'[jar[a].refresh] = "revoked" => tokens[jar[a].refresh] = "revoked"
              /\ tokens'[jar[a].refresh] = "live" => tokens[jar[a].refresh] = "live"
        BY <1>2, <2>3
    <2>6. Fresh'
        BY <1>1, <2>1, <2>5 DEF Sane, Fresh, Replaced
    <2>7. ASSUME NEW u \in AllTabs PROVE Current(u)'
        <3>1. tab[u].pc = "answered" /\ tab[u].issued # 0
                => tokens'[tab[u].issued] = tokens[tab[u].issued]
            BY <1>2, <2>3, <2>4
        <3>2. u[1] \in Browsers /\ Current(u)
            BY <2>1, TabNames DEF Sane
        <3> QED
            BY <1>1, <2>5, <3>1, <3>2 DEF Current, Replaced
    <2>8. ASSUME NEW n \in 1 .. Len(tokens'), tokens'[n] = "live" PROVE Held(n)'
        <3>1. n \in 1 .. L /\ tokens[n] = "live"
            BY <1>2, <2>8
        <3> QED
            BY <1>1, <2>1, <3>1 DEF Sane, Held
    <2> QED
        BY <1>1, <2>1, <2>2, <2>6, <2>7, <2>8 DEF Sane
<1> QED
    BY <1>3, <1>4, <1>5, <1>6 DEF SessionInv

-----------------------------------------------------------------------------
\* As long as nothing has happened that may break single use, every browser has one
\* refresh under way, with the token it holds; and no token is lost.
THEOREM SessionInvariance == S!Spec => []SessionInv
<1>1. SessionInv /\ [S!Next]_(S!vars) => SessionInv'
    <2> SUFFICES ASSUME SessionInv, [S!Next]_(S!vars) PROVE SessionInv'
        OBVIOUS
    <2>1. ASSUME NEW t \in AllTabs, S!TabStep(t) PROVE SessionInv'
        BY <2>1, Waits, Starts, SignsOut, Reads, Refuses, Rotates, RevokesAll, Delivers, SignsIn,
           LogsOut, ClearsCookies DEF S!TabStep, S!Answer
    <2>2. CASE UNCHANGED S!vars
        <3> USE <2>2 DEF S!vars
        <3>1. SessionType' /\ LockHeld'
            BY DEF SessionInv, SessionType, LockHeld, S!Refreshing, S!HoldsLock
        <3>2. Owned'
            BY DEF SessionInv, Owned, Has
        <3>3. causes' = {} => Sane'
            BY DEF SessionInv, Sane, Flight, Fresh, Current, Held, Replaced, S!Refreshing,
                   S!SigningOut
        <3> QED
            BY <3>1, <3>2, <3>3 DEF SessionInv
    <2> QED
        BY <2>1, <2>2, AccessEnds, RefreshTokenEnds DEF S!Next
<1> QED
    BY <1>1, SessionInit, PTL DEF S!Spec

\* session.ts, auth.py: the API sees a reuse, and ends every session of the user,
\* only after a lost reply, a refresh by the login page beside a tab's, or a
\* sign-out or sign-in that raced a refresh.
THEOREM ReuseCorrect == S!Spec => []ReuseHasACause
<1>1. SessionInv => ReuseHasACause
    BY DEF SessionInv, Sane, ReuseHasACause
<1> QED
    BY <1>1, SessionInvariance, PTL

\* And until then every live token is one that a browser holds or is being given.
THEOREM OrphansCorrect == S!Spec => []NoOrphanSession
<1>1. SessionInv => NoOrphanSession
    <2>1. SessionInv => DOMAIN tokens = 1 .. Len(tokens)
        BY DEF SessionInv, SessionType
    <2> QED
        BY <2>1 DEF SessionInv, Sane, Held, NoOrphanSession
<1> QED
    BY <1>1, SessionInvariance, PTL

-----------------------------------------------------------------------------
(* The CI jobs of a pull request (CiJob): a job's verdict is followed from *)
(* its exit code to the run the server has committed for it.               *)

Places == {"start", "run", "push", "waiting", "format", "find", "write", "done"}
Asked == {"received", "insert", "cluster", "compare", "commit"}
Rows == {"run", "results", "summary", "findings"}
Whole == {"run", "results", "summary"}
Base == C!Levels \cup {None}
Codes == {"OK", "USAGE", "INFRA", "REGRESSION", "THRESHOLD", "FORMAT"}

JobType == [at : Places, base : Base, run : C!Results \cup {None}, saved : BOOLEAN,
            output : BOOLEAN, code : Codes, comment : Nat]

RequestType == [at : Asked \cup {"none", "refused", "replied", "lost"},
                identity : {"agent", "agent_name"}, rows : SUBSET Rows, against : Base,
                verdict : {"no_baseline", "regression", "no_change"}]

JobsTypeOK ==
    /\ job \in [Jobs -> JobType]
    /\ request \in [Jobs -> RequestType]
    /\ baselines \in [{"agent", "agent_name"} -> Base]
    /\ file \in Base
    /\ comments \in Seq(Jobs)
    /\ overlapped \in BOOLEAN
    /\ \A r \in runs : r.level \in C!Levels /\ r.identity \in {"agent", "agent_name"}

\* A job has a run from `run` on; the request comes after it.
Ran(j) == job[j].at \in {"push", "waiting"} \/ request[j].at # "none"

Ordered ==
    \A j \in Jobs :
        /\ Ran(j) => job[j].run \in C!Results
        /\ request[j].at # "none" => job[j].at \notin {"start", "run", "push"}
        /\ job[j].saved => job[j].run \in C!Results

\* Past its run, a job whose code is OK has a run that is fine by itself.
Fine(j) ==
    job[j].at \notin {"start", "run"} /\ job[j].code = "OK" =>
        /\ job[j].run \in C!Results
        /\ ~job[j].run.infra /\ ~job[j].run.below
        /\ ~C!Regresses(job[j].base, job[j].run.level)

Stored(j, against) ==
    \E r \in runs : r.job = j /\ Whole \subseteq r.rows /\ r.against = against

\* A transaction's rows, and the verdict it commits and replies.
Replied ==
    \A j \in Jobs :
        /\ request[j].at \in {"cluster", "compare", "commit"} => Whole \subseteq request[j].rows
        /\ request[j].at \in {"commit", "replied"} =>
              request[j].verdict = C!Verdict(request[j].against, job[j].run.level)
        /\ request[j].at = "replied" => Stored(j, request[j].against)

\* Past the push, a job whose code is OK has its run on the server.
Pushed_OK(j) ==
    job[j].at \in {"format", "find", "write", "done"} /\ job[j].code = "OK" /\ j \in Pushing =>
        \E r \in runs : /\ r.job = j /\ Whole \subseteq r.rows
                        /\ ~C!Regresses(r.against, job[j].run.level)

Green == \A j \in Jobs : Fine(j) /\ Pushed_OK(j)

\* Unless two jobs overlapped, a job that found no comment writes the first.
Commented ==
    /\ \A i, j \in Jobs : C!At(i, "write") /\ C!At(j, "write") /\ i # j => overlapped
    /\ \A j \in Jobs : C!At(j, "write") /\ job[j].comment = 0 /\ ~overlapped => comments = <<>>
    /\ OneComment

JobsInv == JobsTypeOK /\ Ordered /\ Replied /\ Green /\ Commented
-----------------------------------------------------------------------------
LEMMA JobsInit == C!Init => JobsInv
<1> SUFFICES ASSUME C!Init PROVE JobsInv
  OBVIOUS
<1>1. job \in [Jobs -> JobType]
  BY DEF C!Init, JobType, Places, Base, Codes
<1>2. request \in [Jobs -> RequestType]
  BY DEF C!Init, RequestType, Base
<1>3. baselines \in [{"agent", "agent_name"} -> Base] /\ file \in Base
  BY DEF C!Init, Base, C!Levels
<1>4. JobsTypeOK
  BY <1>1, <1>2, <1>3, EmptySeq DEF C!Init, JobsTypeOK
<1>5. Ordered /\ Replied /\ Green
  BY DEF C!Init, Ordered, Ran, Replied, Green, Fine, Pushed_OK
<1>6. Commented
  BY EmptySeq DEF C!Init, Commented, C!At, OneComment
<1>7. QED
  BY <1>4, <1>5, <1>6 DEF JobsInv

\* Nobody but job j moves, and not to where it looks for a comment.
Moves(j) ==
    /\ job' \in [Jobs -> JobType]
    /\ \A i \in Jobs \ {j} : job'[i] = job[i]
    /\ UNCHANGED <<baselines, registered, file, comments, overlapped>>
    /\ job'[j].at # "write"

\* A job whose record becomes x.
LEMMA JobBecomes ==
    ASSUME job \in [Jobs -> JobType], NEW j \in Jobs, NEW x \in JobType,
           job' = [job EXCEPT ![j] = x]
    PROVE  /\ job' \in [Jobs -> JobType] /\ job'[j] = x
           /\ \A i \in Jobs \ {j} : job'[i] = job[i]
  OBVIOUS

\* A step of the CLI that leaves the server alone.
LEMMA CliStep ==
    ASSUME JobsInv, NEW j \in Jobs, Moves(j), UNCHANGED <<request, runs>>,
           job'[j].saved => job'[j].run \in C!Results,
           Ran(j)' => job'[j].run \in C!Results,
           request[j].at # "none" =>
              job'[j].at \notin {"start", "run", "push"} /\ job'[j].run = job[j].run,
           Fine(j)', Pushed_OK(j)'
    PROVE  JobsInv'
<1> USE DEF JobsInv, Moves
<1>1. JobsTypeOK'
  BY DEF JobsTypeOK
<1>2. Ordered'
  BY DEF Ordered, Ran
<1>3. Replied'
  BY DEF Replied, Stored
<1>4. Green'
  BY DEF Green, Fine, Pushed_OK
<1>5. Commented'
  BY DEF Commented, C!At, OneComment
<1>6. QED
  BY <1>1, <1>2, <1>3, <1>4, <1>5

\* _exit_code is OK only for a run that is fine by itself.
LEMMA ExitCodeOK ==
    ASSUME NEW r \in C!Results, NEW base
    PROVE  /\ C!ExitCode(r, base) \in Codes
           /\ C!ExitCode(r, base) = "OK" =>
                ~r.infra /\ ~r.below /\ ~C!Regresses(base, r.level)
<1>1. r.infra \in BOOLEAN /\ r.below \in BOOLEAN
  BY DEF C!Results
<1>2. CASE r.infra
  BY <1>1, <1>2 DEF C!ExitCode, Codes
<1>3. CASE ~r.infra /\ C!Regresses(base, r.level)
  BY <1>1, <1>3 DEF C!ExitCode, Codes
<1>4. CASE ~r.infra /\ ~C!Regresses(base, r.level) /\ r.below
  BY <1>1, <1>4 DEF C!ExitCode, Codes
<1>5. CASE ~r.infra /\ ~C!Regresses(base, r.level) /\ ~r.below
  BY <1>1, <1>5 DEF C!ExitCode, Codes
<1>6. QED
  BY <1>1, <1>2, <1>3, <1>4, <1>5

LEMMA CliInv ==
    ASSUME JobsInv, NEW j \in Jobs,
           \/ C!Start(j) \/ C!Misused(j) \/ \E r \in C!Results : C!Run(j, r)
           \/ C!Pushed(j) \/ C!Refused(j) \/ C!Unreached(j)
           \/ C!Format(j) \/ C!NoComment(j)
    PROVE  JobsInv'
<1> USE DEF JobsInv, JobsTypeOK, C!At
<1>1. job[j] \in JobType /\ request[j] \in RequestType
  OBVIOUS
<1>2. ASSUME C!Start(j) \/ C!Misused(j) PROVE JobsInv'
  <2>1. /\ UNCHANGED <<request, runs>> /\ job[j].at = "start"
        /\ job'[j].at \in {"run", "format"} /\ job'[j].run = job[j].run
        /\ job'[j].saved = job[j].saved
        /\ job'[j].at = "format" => job'[j].code = "USAGE"
    BY <1>1, <1>2 DEF C!Start, C!Misused, JobType
  <2>2. Moves(j)
    <3>1. CASE C!Start(j)
      <4>1. (IF j \in Pushing THEN None ELSE file) \in Base
        BY DEF Base
      <4>2. job' \in [Jobs -> JobType]
        BY <1>1, <3>1, <4>1 DEF C!Start, JobType, Places
      <4>3. QED
        BY <2>1, <3>1, <4>2 DEF C!Start, Moves
    <3>2. CASE C!Misused(j)
      <4>1. job' \in [Jobs -> JobType]
        BY <1>1, <3>2 DEF C!Misused, JobType, Places, Codes
      <4>2. QED
        BY <2>1, <3>2, <4>1 DEF C!Misused, Moves
    <3>3. QED
      BY <1>2, <3>1, <3>2
  <2>3. request[j].at = "none"
    BY <2>1 DEF Ordered
  <2>4. QED
    BY <2>1, <2>2, <2>3, CliStep DEF Ordered, Ran, Fine, Pushed_OK
<1>3. ASSUME NEW r \in C!Results, C!Run(j, r) PROVE JobsInv'
  <2> DEFINE x == [job[j] EXCEPT !.at = IF j \in Pushing THEN "push" ELSE "format",
                                 !.run = r, !.saved = TRUE, !.output = j \notin Pushing,
                                 !.code = C!ExitCode(r, job[j].base)]
  <2>a. job' = [job EXCEPT ![j] = x]
    BY <1>3 DEF C!Run
  <2>b. C!ExitCode(r, job[j].base) \in Codes
    BY ExitCodeOK
  <2>c. x \in JobType
    BY <1>1, <2>b DEF JobType, Places
  <2>d. /\ x.at = IF j \in Pushing THEN "push" ELSE "format"
        /\ x.run = r /\ x.base = job[j].base /\ x.code = C!ExitCode(r, job[j].base)
    BY <1>1 DEF JobType
  <2> HIDE DEF x
  <2>e. /\ job' \in [Jobs -> JobType] /\ job'[j] = x
        /\ \A i \in Jobs \ {j} : job'[i] = job[i]
    BY <2>a, <2>c, JobBecomes
  <2>1. /\ UNCHANGED <<request, runs>> /\ job[j].at = "run"
        /\ job'[j].at = IF j \in Pushing THEN "push" ELSE "format"
        /\ job'[j].run = r /\ job'[j].base = job[j].base
        /\ job'[j].code = C!ExitCode(r, job[j].base)
    BY <1>3, <2>d, <2>e DEF C!Run
  <2>g. UNCHANGED <<baselines, registered, file, comments, overlapped>>
    BY <1>3 DEF C!Run
  <2>2. Moves(j)
    BY <2>1, <2>e, <2>g DEF Moves
  <2>3. request[j].at = "none"
    BY <2>1 DEF Ordered
  <2>4. Fine(j)' /\ Pushed_OK(j)'
    BY <2>1, ExitCodeOK DEF Fine, Pushed_OK
  <2>5. QED
    BY <2>1, <2>2, <2>3, <2>4, CliStep
<1>4. ASSUME C!Pushed(j) PROVE JobsInv'
  <2> DEFINE code == IF request[j].verdict = "regression" /\ job[j].code # "INFRA"
                     THEN "REGRESSION" ELSE job[j].code
             x == [job[j] EXCEPT !.at = "format", !.output = TRUE, !.code = code]
  <2>a. job' = [job EXCEPT ![j] = x]
    BY <1>4 DEF C!Pushed
  <2>b. job[j].code \in Codes
    BY <1>1 DEF JobType
  <2>c. code \in Codes /\ (code = "OK" => job[j].code = "OK" /\ request[j].verdict # "regression")
    BY <2>b DEF Codes
  <2> HIDE DEF code
  <2>d. x \in JobType
    BY <1>1, <2>c DEF JobType, Places
  <2>e. /\ x.at = "format" /\ x.run = job[j].run /\ x.base = job[j].base
        /\ x.saved = job[j].saved /\ x.code = code
    BY <1>1 DEF JobType
  <2> HIDE DEF x
  <2>f. /\ job' \in [Jobs -> JobType] /\ job'[j] = x
        /\ \A i \in Jobs \ {j} : job'[i] = job[i]
    BY <2>a, <2>d, JobBecomes
  <2>1. /\ UNCHANGED <<request, runs>> /\ job[j].at = "waiting" /\ request[j].at = "replied"
        /\ job'[j].at = "format" /\ job'[j].run = job[j].run /\ job'[j].base = job[j].base
        /\ job'[j].saved = job[j].saved
        /\ job'[j].code = "OK" => job[j].code = "OK" /\ request[j].verdict # "regression"
    BY <1>4, <2>c, <2>e, <2>f DEF C!Pushed
  <2>g. UNCHANGED <<baselines, registered, file, comments, overlapped>>
    BY <1>4 DEF C!Pushed
  <2>2. Moves(j)
    BY <2>1, <2>f, <2>g DEF Moves
  <2>3. Fine(j)'
    BY <2>1 DEF Fine, Green
  <2>4. Pushed_OK(j)'
    <3>1. PICK r \in runs : r.job = j /\ Whole \subseteq r.rows /\ r.against = request[j].against
      BY <2>1 DEF Replied, Stored
    <3>2. job'[j].code = "OK" => ~C!Regresses(r.against, job[j].run.level)
      BY <2>1, <3>1, CiJobAssumption DEF Replied, C!Verdict, C!Regresses
    <3>3. QED
      BY <2>1, <3>1, <3>2 DEF Pushed_OK
  <2>5. job[j].run \in C!Results /\ request[j].at # "none"
    BY <2>1 DEF Ordered, Ran
  <2>6. QED
    BY <2>1, <2>2, <2>3, <2>4, <2>5, CliStep
<1>5. ASSUME C!Refused(j) \/ C!Unreached(j) PROVE JobsInv'
  <2>1. /\ UNCHANGED <<request, runs>> /\ job[j].at = "waiting"
        /\ job'[j].at = "format" /\ job'[j].run = job[j].run
        /\ job'[j].saved = job[j].saved /\ job'[j].code # "OK"
    <3>1. PICK reason \in {"USAGE", "INFRA"} :
            /\ job' = [job EXCEPT ![j] = C!AfterFailedPush(job[j], reason)]
            /\ job[j].at = "waiting" /\ UNCHANGED <<request, runs>>
      BY <1>5 DEF C!Refused, C!Unreached
    <3>2. job'[j] = C!AfterFailedPush(job[j], reason)
      BY <3>1
    <3>3. QED
      BY <1>1, <3>1, <3>2 DEF C!AfterFailedPush, JobType
  <2>2. Moves(j)
    <3>1. PICK reason \in {"USAGE", "INFRA"} :
            job' = [job EXCEPT ![j] = C!AfterFailedPush(job[j], reason)]
      BY <1>5 DEF C!Refused, C!Unreached
    <3>2. C!AfterFailedPush(job[j], reason) \in JobType
      BY <1>1 DEF C!AfterFailedPush, JobType, Places, Codes
    <3>3. QED
      BY <1>5, <2>1, <3>1, <3>2 DEF C!Refused, C!Unreached, Moves
  <2>3. QED
    BY <2>1, <2>2, CliStep DEF Ordered, Ran, Fine, Pushed_OK
<1>6. ASSUME C!Format(j) \/ C!NoComment(j) PROVE JobsInv'
  <2>1. /\ UNCHANGED <<request, runs>> /\ job[j].at \in {"format", "find", "write"}
        /\ job'[j].at \in {"find", "done"} /\ job'[j].run = job[j].run
        /\ job'[j].base = job[j].base /\ job'[j].saved = job[j].saved
        /\ job'[j].code = "OK" => job[j].code = "OK"
    BY <1>1, <1>6 DEF C!Format, C!NoComment, JobType
  <2>2. Moves(j)
    <3>1. CASE C!Format(j)
      <4>1. job' \in [Jobs -> JobType]
        BY <1>1, <3>1 DEF C!Format, JobType, Places, Codes
      <4>2. QED
        BY <2>1, <3>1, <4>1 DEF C!Format, Moves
    <3>2. CASE C!NoComment(j)
      <4>1. job' \in [Jobs -> JobType]
        BY <1>1, <3>2 DEF C!NoComment, JobType, Places
      <4>2. QED
        BY <2>1, <3>2, <4>1 DEF C!NoComment, Moves
    <3>3. QED
      BY <1>6, <3>1, <3>2
  <2>3. QED
    BY <2>1, <2>2, CliStep DEF Ordered, Ran, Fine, Pushed_OK, Green
<1>7. QED
  BY <1>2, <1>3, <1>4, <1>5, <1>6

\* The payload is on its way to the server.
LEMMA PushInv ==
    ASSUME JobsInv, NEW j \in Jobs, C!Push(j)
    PROVE  JobsInv'
<1> USE DEF JobsInv
<1>1. /\ job[j].at = "push" /\ job[j] \in JobType /\ request[j] \in RequestType
      /\ job' = [job EXCEPT ![j].at = "waiting"]
      /\ request' = [request EXCEPT ![j].at = "received"]
      /\ UNCHANGED <<runs, baselines, registered, file, comments, overlapped>>
  BY DEF C!Push, C!At, JobsTypeOK
<1>2. /\ job' \in [Jobs -> JobType] /\ request' \in [Jobs -> RequestType]
      /\ \A i \in Jobs \ {j} : job'[i] = job[i] /\ request'[i] = request[i]
      /\ job'[j].at = "waiting" /\ job'[j].run = job[j].run /\ job'[j].base = job[j].base
      /\ job'[j].code = job[j].code /\ job'[j].saved = job[j].saved
      /\ request'[j].at = "received"
  BY <1>1 DEF JobsTypeOK, JobType, Places, RequestType, Asked
<1>3. (JobsTypeOK /\ Ordered)'
  BY <1>1, <1>2 DEF JobsTypeOK, Ordered, Ran
<1>4. (Replied /\ Green)'
  BY <1>1, <1>2 DEF Replied, Stored, Green, Fine, Pushed_OK
<1>5. Commented'
  BY <1>1, <1>2 DEF Commented, C!At, OneComment
<1>6. QED
  BY <1>3, <1>4, <1>5

\* Requests change neither jobs nor comments, and runs are only added.
LEMMA RequestServed ==
    ASSUME JobsInv, NEW j \in Jobs, C!Server(j)
    PROVE  JobsInv'
<1> USE DEF JobsInv
<1>1. /\ UNCHANGED <<job, baselines, registered, file, comments, overlapped>>
      /\ runs \subseteq runs'
  BY DEF C!Server, C!Refuse, C!FindAgent, C!Insert, C!Cluster, C!Compare, C!Commit, C!Abort
<1>2. request[j] \in RequestType /\ request[j].at \in Asked
  BY DEF C!Server, C!Refuse, C!FindAgent, C!Insert, C!Cluster, C!Compare, C!Commit, C!Abort, JobsTypeOK, Asked
<1>3. job[j].run \in C!Results
  BY <1>2 DEF Ordered, Ran, Asked
<1>4. /\ request' \in [Jobs -> RequestType]
      /\ \A i \in Jobs \ {j} : request'[i] = request[i]
      /\ request'[j].at # "none"
  <2>1. CASE C!Refuse(j) \/ C!FindAgent(j) \/ C!Commit(j) \/ C!Abort(j)
    <3>1. CASE C!FindAgent(j)
      BY <1>2, <3>1 DEF C!FindAgent, JobsTypeOK, RequestType, Asked
    <3>2. CASE C!Refuse(j) \/ C!Commit(j) \/ C!Abort(j)
      <4>1. PICK place \in {"refused", "replied", "lost"} :
              request' = [request EXCEPT ![j].at = place]
        BY <3>2 DEF C!Refuse, C!Commit, C!Abort, C!Goto
      <4>2. QED
        BY <1>2, <4>1 DEF JobsTypeOK, RequestType
    <3>3. QED
      BY <2>1, <3>1, <3>2
  <2>2. CASE C!Insert(j) \/ C!Cluster(j)
    <3>1. CASE C!Insert(j)
      <4>1. {"run", "results", "summary"} \in SUBSET Rows
        BY DEF Rows
      <4>2. QED
        BY <1>2, <3>1, <4>1 DEF C!Insert, JobsTypeOK, RequestType, Asked
    <3>2. CASE C!Cluster(j)
      <4>1. request[j].rows \cup {"findings"} \in SUBSET Rows
        BY <1>2 DEF Rows, RequestType
      <4>2. PICK rows \in SUBSET Rows :
              request' = [request EXCEPT ![j].at = "compare", ![j].rows = rows]
        <5>1. CASE request' = [request EXCEPT ![j].at = "compare",
                                              ![j].rows = @ \cup {"findings"}]
          BY <4>1, <5>1
        <5>2. CASE C!Goto(j, "compare")
          <6>1. request' = [request EXCEPT ![j].at = "compare", ![j].rows = request[j].rows]
            BY <1>2, <5>2 DEF C!Goto, JobsTypeOK, RequestType
          <6>2. QED
            BY <1>2, <6>1 DEF RequestType
        <5>3. QED
          BY <3>2, <5>1, <5>2 DEF C!Cluster
      <4>3. QED
        BY <1>2, <4>2 DEF JobsTypeOK, RequestType, Asked
    <3>3. QED
      BY <2>2, <3>1, <3>2
  <2>3. CASE C!Compare(j)
    <3>1. /\ baselines[request[j].identity] \in Base
          /\ C!Verdict(baselines[request[j].identity], job[j].run.level) \in
                {"no_baseline", "regression", "no_change"}
      BY <1>2 DEF JobsTypeOK, RequestType, C!Verdict
    <3>2. PICK base \in Base, v \in {"no_baseline", "regression", "no_change"} :
            request' = [request EXCEPT ![j].at = "commit", ![j].against = base, ![j].verdict = v]
      BY <2>3, <3>1 DEF C!Compare
    <3>3. QED
      BY <1>2, <3>2 DEF JobsTypeOK, RequestType, Asked
  <2>4. QED
    BY <2>1, <2>2, <2>3 DEF C!Server
<1>5. \A r \in runs' : r.level \in C!Levels /\ r.identity \in {"agent", "agent_name"}
  BY <1>2, <1>3
  DEF JobsTypeOK, RequestType, C!Results, C!Server, C!Refuse, C!FindAgent, C!Insert, C!Cluster, C!Compare,
      C!Commit, C!Abort
<1>6. (JobsTypeOK /\ Ordered)'
  BY <1>1, <1>2, <1>4, <1>5 DEF JobsTypeOK, Ordered, Ran, Asked
<1>7. Replied'
  <2>1. /\ request'[j].at \in {"cluster", "compare", "commit"} => Whole \subseteq request'[j].rows
        /\ request'[j].at \in {"commit", "replied"} =>
              request'[j].verdict = C!Verdict(request'[j].against, job[j].run.level)
        /\ request'[j].at = "replied" =>
              \E r \in runs' : r.job = j /\ Whole \subseteq r.rows /\ r.against = request'[j].against
    <3>1. CASE C!Refuse(j) \/ C!FindAgent(j) \/ C!Abort(j)
      BY <1>2, <3>1 DEF C!Refuse, C!FindAgent, C!Abort, C!Goto, JobsTypeOK, RequestType
    <3>2. CASE C!Insert(j)
      BY <1>2, <3>2 DEF C!Insert, JobsTypeOK, RequestType, Whole
    <3>3. CASE C!Cluster(j)
      BY <1>2, <3>3 DEF C!Cluster, C!Goto, JobsTypeOK, RequestType, Whole, Replied
    <3>4. CASE C!Compare(j)
      BY <1>2, <3>4 DEF C!Compare, JobsTypeOK, RequestType, Replied
    <3>5. CASE C!Commit(j)
      <4>1. /\ request'[j].at = "replied" /\ request'[j].against = request[j].against
            /\ request'[j].verdict = request[j].verdict
        BY <1>2, <3>5 DEF C!Commit, C!Goto, JobsTypeOK, RequestType
      <4>2. \E r \in runs' : /\ r.job = j /\ r.rows = request[j].rows
                             /\ r.against = request[j].against
        <5> DEFINE r == [job |-> j, level |-> job[j].run.level,
                         identity |-> request[j].identity,
                         rows |-> request[j].rows, against |-> request[j].against]
        <5>1. r \in runs'
          BY <3>5 DEF C!Commit
        <5>2. QED
          BY <5>1
      <4>3. /\ Whole \subseteq request[j].rows
            /\ request[j].verdict = C!Verdict(request[j].against, job[j].run.level)
        BY <3>5 DEF C!Commit, Replied
      <4>4. QED
        BY <4>1, <4>2, <4>3
    <3>6. QED
      BY <3>1, <3>2, <3>3, <3>4, <3>5 DEF C!Server
  <2>2. QED
    BY <1>1, <1>4, <2>1 DEF Replied, Stored
<1>8. Green'
  BY <1>1 DEF Green, Fine, Pushed_OK
<1>9. Commented'
  BY <1>1 DEF Commented, C!At, OneComment
<1>10. QED
  BY <1>6, <1>7, <1>8, <1>9

\* Baselines, and the agent's registration.
LEMMA BaselineInv ==
    ASSUME JobsInv,
           \/ \E j \in Jobs : C!BaselineSet(j)
           \/ \E r \in runs : C!SetBaseline(r)
           \/ C!Register
    PROVE  JobsInv'
<1> USE DEF JobsInv
<1>1. UNCHANGED <<job, request, runs, comments, overlapped>>
  BY DEF C!BaselineSet, C!SetBaseline, C!Register
<1>2. baselines' \in [{"agent", "agent_name"} -> Base] /\ file' \in Base
  BY DEF C!BaselineSet, C!SetBaseline, C!Register, JobsTypeOK, Ordered, C!Results, Base
<1>3. QED
  BY <1>1, <1>2
  DEF JobsTypeOK, Ordered, Ran, Replied, Stored, Green, Fine, Pushed_OK, Commented, C!At, OneComment

\* Looking for the comment, and writing it.
LEMMA CommentInv ==
    ASSUME JobsInv, NEW j \in Jobs, C!Find(j) \/ C!Write(j)
    PROVE  JobsInv'
<1> USE DEF JobsInv
<1>1. job[j] \in JobType /\ Len(comments) \in Nat
  BY LenProperties DEF JobsTypeOK
<1>2. /\ UNCHANGED <<request, runs, baselines, registered, file>>
      /\ \A i \in Jobs \ {j} : job'[i] = job[i]
      /\ job[j].at \in {"find", "write"} /\ job'[j].at \in {"write", "done"}
      /\ job'[j].run = job[j].run /\ job'[j].base = job[j].base
      /\ job'[j].code = job[j].code /\ job'[j].saved = job[j].saved
  BY <1>1 DEF C!Find, C!Write, C!At, JobsTypeOK, JobType
<1>3. ASSUME job' \in [Jobs -> JobType], comments' \in Seq(Jobs), overlapped' \in BOOLEAN
      PROVE  (JobsTypeOK /\ Ordered /\ Replied /\ Green)'
  <2>1. (JobsTypeOK /\ Ordered)'
    BY <1>2, <1>3 DEF JobsTypeOK, Ordered, Ran
  <2>2. (Replied /\ Green)'
    BY <1>2 DEF Replied, Stored, Green, Fine, Pushed_OK
  <2>3. QED
    BY <2>1, <2>2
<1>4. ASSUME C!Find(j) PROVE JobsInv'
  <2> DEFINE found == IF C!Found(j) = {} THEN 0
                      ELSE CHOOSE n \in C!Found(j) : \A m \in C!Found(j) : n <= m
  <2>1. /\ job' = [job EXCEPT ![j].at = "write", ![j].comment = found]
        /\ overlapped' = (overlapped \/ \E i \in Jobs : C!At(i, "write"))
        /\ UNCHANGED comments
    BY <1>4 DEF C!Find
  <2>2. found \in Nat /\ (found = 0 => comments = <<>>)
    <3>1. CASE C!Found(j) = {}
      <4>1. Len(comments) = 0
        <5>1. 1 \notin 1 .. Len(comments)
          BY <3>1 DEF C!Found
        <5>2. QED
          BY <1>1, <5>1
      <4>2. QED
        BY <3>1, <4>1, EmptySeq DEF JobsTypeOK
    <3>2. CASE C!Found(j) # {}
      <4>1. Len(comments) >= 1 /\ C!Found(j) = 1 .. Len(comments)
        <5>1. C!Found(j) = 1 .. Len(comments)
          BY DEF C!Found
        <5>2. QED
          BY <1>1, <3>2, <5>1
      <4>2. \E n \in C!Found(j) : \A m \in C!Found(j) : n <= m
        <5>1. 1 \in C!Found(j) /\ \A m \in C!Found(j) : 1 <= m
          BY <1>1, <4>1
        <5>2. QED
          BY <5>1
      <4>3. found \in C!Found(j)
        BY <3>2, <4>2
      <4> HIDE DEF found
      <4>4. found \in 1 .. Len(comments)
        BY <4>1, <4>3
      <4>5. QED
        BY <1>1, <4>4
    <3>3. QED
      BY <3>1, <3>2
  <2> HIDE DEF found
  <2>3. job' \in [Jobs -> JobType] /\ job'[j].at = "write" /\ job'[j].comment = found
    BY <1>1, <2>1, <2>2 DEF JobsTypeOK, JobType, Places
  <2>4. (JobsTypeOK /\ Ordered /\ Replied /\ Green)'
    BY <1>3, <2>1, <2>3 DEF JobsTypeOK
  <2>5. Commented'
    <3>1. \A i, k \in Jobs : C!At(i, "write")' /\ C!At(k, "write")' /\ i # k => overlapped'
      <4>1. SUFFICES ASSUME NEW i \in Jobs, NEW k \in Jobs, i # k,
                            job'[i].at = "write", job'[k].at = "write"
                     PROVE  overlapped'
        BY DEF C!At
      <4>2. CASE i = j
        BY <1>2, <2>1, <4>1, <4>2 DEF C!At
      <4>3. CASE k = j
        BY <1>2, <2>1, <4>1, <4>3 DEF C!At
      <4>4. CASE i # j /\ k # j
        BY <1>2, <2>1, <4>1, <4>4 DEF C!At, Commented
      <4>5. QED
        BY <4>2, <4>3, <4>4
    <3>2. \A i \in Jobs : C!At(i, "write")' /\ job'[i].comment = 0 /\ ~overlapped' => comments' = <<>>
      BY <1>2, <2>1, <2>2, <2>3 DEF C!At, Commented
    <3>3. OneComment'
      BY <2>1 DEF OneComment, Commented
    <3>4. QED
      BY <3>1, <3>2, <3>3 DEF Commented
  <2>6. QED
    BY <2>4, <2>5
<1>5. ASSUME C!Write(j) PROVE JobsInv'
  <2>1. /\ job' = [job EXCEPT ![j].at = "done"] /\ UNCHANGED overlapped
        /\ comments' = IF job[j].comment = 0 THEN Append(comments, j)
                       ELSE [comments EXCEPT ![job[j].comment] = j]
        /\ C!At(j, "write")
    BY <1>5 DEF C!Write
  <2>2. /\ comments' \in Seq(Jobs)
        /\ job[j].comment # 0 => Len(comments') = Len(comments)
        /\ job[j].comment = 0 => Len(comments') = Len(comments) + 1
    <3>1. CASE job[j].comment = 0
      BY <2>1, <3>1 DEF JobsTypeOK
    <3>2. CASE job[j].comment # 0
      <4>1. comments \in Seq(Jobs) /\ comments' = [comments EXCEPT ![job[j].comment] = j]
        BY <2>1, <3>2 DEF JobsTypeOK
      <4>2. CASE job[j].comment \in 1 .. Len(comments)
        BY <3>2, <4>1, <4>2, ExceptSeq
      <4>3. CASE job[j].comment \notin 1 .. Len(comments)
        <5>1. comments' = comments
          BY <4>1, <4>3
        <5>2. QED
          BY <3>2, <4>1, <5>1
      <4>4. QED
        BY <4>2, <4>3
    <3>3. QED
      BY <3>1, <3>2
  <2>3. job' \in [Jobs -> JobType] /\ job'[j].at = "done"
    BY <1>1, <2>1 DEF JobsTypeOK, JobType, Places
  <2>4. (JobsTypeOK /\ Ordered /\ Replied /\ Green)'
    BY <1>3, <2>1, <2>2, <2>3 DEF JobsTypeOK
  <2>5. Commented'
    <3>1. \A i, k \in Jobs : C!At(i, "write")' /\ C!At(k, "write")' /\ i # k => overlapped'
      BY <1>2, <2>1, <2>3 DEF C!At, Commented
    <3>2. \A i \in Jobs : C!At(i, "write")' => overlapped
      BY <1>2, <2>1, <2>3 DEF C!At, Commented
    <3>3. OneComment'
      <4>1. job[j].comment = 0 /\ ~overlapped => Len(comments) = 0
        BY <2>1, EmptySeq DEF Commented
      <4>2. QED
        BY <1>1, <2>1, <2>2, <4>1 DEF OneComment, Commented
    <3>4. QED
      BY <2>1, <3>1, <3>2, <3>3 DEF Commented
  <2>6. QED
    BY <2>4, <2>5
<1>6. QED
  BY <1>4, <1>5

LEMMA JobsStutter == ASSUME JobsInv, UNCHANGED C!vars PROVE JobsInv'
BY DEF C!vars, JobsInv, JobsTypeOK, Ordered, Ran, Replied, Stored, Green, Fine, Pushed_OK, Commented,
       C!At, OneComment

LEMMA JobsNext == JobsInv /\ [C!Next]_(C!vars) => JobsInv'
BY CliInv, PushInv, RequestServed, BaselineInv, CommentInv, JobsStutter DEF C!Next, C!Cli, C!Action

THEOREM JobsInvariance == C!Spec => []JobsInv
BY JobsInit, JobsNext, PTL DEF C!Spec

\* Whatever is pushed, refused, lost, aborted or set as a baseline meanwhile, a
\* green check was earned, for any number of jobs.
THEOREM GreenCorrect == C!Spec => []GreenIsEarned
<1>1. JobsInv => GreenIsEarned
  BY DEF JobsInv, Green, Fine, Pushed_OK, Whole, GreenIsEarned, Regresses, C!Regresses
<1>2. QED
  BY <1>1, JobsInvariance, PTL

\* A second comment means that two jobs looked for one and wrote it at once.
THEOREM CommentCorrect == C!Spec => []OneComment
<1>1. JobsInv => OneComment
  BY DEF JobsInv, Commented
<1>2. QED
  BY <1>1, JobsInvariance, PTL
------------------------------------------------------------------------------
(* The quota file (QuotaFile): never half written unless processes         *)
(* overlap, and of processes that follow each other it is the counter that *)
(* DailyQuota promises.                                                    *)

\* Two paths name different inodes, and what both name is whole or being written.
PathsInv ==
    /\ path["quota"] # NoInode => path["quota"] # path["tmp"]
    /\ overlap => \A x \in Paths : path[x] # NoInode /\ disk[path[x]] = Torn =>
          \E p \in Procs : Q!At(p, "write") /\ opened[p] = path[x]

\* A process that follows another has the files for itself.
AloneInv ==
    /\ \A p, q \in Procs : p # q => Q!At(p, "idle") \/ Q!At(q, "idle")
    /\ path["quota"] # NoInode => /\ disk[path["quota"]] \in States
                                  /\ disk[path["quota"]].date <= day
    /\ \A p \in Procs : Q!At(p, "write") => path["tmp"] # NoInode /\ opened[p] = path["tmp"]
    /\ \A p \in Procs : Q!At(p, "replace") => /\ path["tmp"] # NoInode
                                            /\ disk[path["tmp"]] = state[p]

\* The requests that process p is about to save follow from what it read.
Saves(p) ==
    /\ state[p].date <= day
    /\ state[p].date = day =>
          state[p].requests = Counted + (IF op[p] = "reserve_request" THEN 1 ELSE 0)
    /\ state[p].date # day => Counted = 0 /\ sent[day] = 0
    /\ op[p] = "reserve_request" => sent[state[p].date] < state[p].requests

CountInv ==
    /\ \A p \in Procs : ~Q!At(p, "idle") => Saves(p)
    /\ \A d \in Days : d > day => sent[d] = 0
    /\ sent[day] <= Counted
    /\ CapHolds

QuotaInv == QuotaTypeOK /\ PathsInv /\ (~overlap => AloneInv /\ CountInv)

\* What QuotaFile steps through is the state of QuotaFiles.
LEMMA SameState ==
    /\ Q!NoInode = NoInode /\ Q!Paths = Paths /\ Q!Days = Days /\ Q!Torn = Torn
    /\ Q!Inodes = Inodes /\ Q!Loaded = Loaded
<1>1. Q!NoInode = NoInode /\ Q!Paths = Paths /\ Q!Days = Days /\ Q!Torn = Torn
    BY DEF Q!NoInode, Q!Paths, Q!Days, Q!Torn, NoInode, Paths, Days, Torn
<1>2. Q!Cardinality(Procs) = Cardinality(Procs)
    BY DEF Q!Cardinality, Cardinality
<1>3. Q!Inodes = Inodes
    BY <1>2 DEF Q!Inodes, Inodes
<1>4. Q!Loaded = Loaded
    BY <1>1 DEF Q!Loaded, Q!Usable, Q!Empty, Loaded, Usable, Empty
<1> QED
    BY <1>1, <1>3, <1>4

\* A torn file is no state.
LEMMA TornIsNoState == Torn \notin States
BY DEF Torn, States

LEMMA LoadedType == ASSUME QuotaTypeOK PROVE Loaded \in States /\ Counted \in 0 .. Rpd
<1>1. Empty \in States
    BY QuotaFileAssumption DEF QuotaTypeOK, Empty, States
<1>2. Usable => disk[path["quota"]] \in States
    BY DEF Usable, QuotaTypeOK, Contents, Paths
<1>3. Loaded \in States
    BY <1>1, <1>2 DEF Loaded
<1> QED
    BY <1>3 DEF Counted, States

\* Two paths and an open file per process leave an inode free.
LEMMA OneIsFree ==
    ASSUME QuotaTypeOK
    PROVE  LET j == CHOOSE i \in Inodes : Q!IsFree(i) IN j \in Inodes /\ Q!IsFree(j)
<1> DEFINE Files == {opened[p] : p \in Procs}
           Two == Files \cup {path["quota"]}
           Taken == Two \cup {path["tmp"]}
           n == Cardinality(Procs)
<1>1. n \in Nat /\ IsFiniteSet(Procs)
    BY QuotaFileAssumption, FS_CardinalityType
<1>2. IsFiniteSet(Files) /\ Cardinality(Files) <= n /\ Cardinality(Files) \in Nat
    <2>1. opened \in Surjection(Procs, Files)
        BY DEF QuotaTypeOK, Surjection
    <2> QED
        BY <1>1, <2>1, FS_Surjection, FS_CardinalityType
<1>3. /\ IsFiniteSet(Taken) /\ Cardinality(Taken) \in Nat
      /\ Cardinality(Taken) <= n + 2
    <2> HIDE DEF Files, n
    <2>0. \A x : /\ IsFiniteSet(Files \cup {x}) /\ Cardinality(Files \cup {x}) \in Nat
                  /\ Cardinality(Files \cup {x}) <= Cardinality(Files) + 1
        BY <1>2, FS_AddElement, FS_CardinalityType
    <2>1. /\ IsFiniteSet(Two) /\ Cardinality(Two) \in Nat
          /\ Cardinality(Two) <= Cardinality(Files) + 1
        BY <2>0
    <2> HIDE DEF Two
    <2>2. /\ IsFiniteSet(Taken) /\ Cardinality(Taken) \in Nat
          /\ Cardinality(Taken) <= Cardinality(Two) + 1
        BY <2>1, FS_AddElement, FS_CardinalityType
    <2> QED
        BY <1>1, <1>2, <2>1, <2>2
<1>4. Cardinality(Inodes) = n + 3
    BY <1>1, FS_Interval DEF Inodes
<1>5. PICK i \in Inodes : i \notin Taken
    <2> SUFFICES ASSUME Inodes \subseteq Taken PROVE FALSE
        OBVIOUS
    <2> HIDE DEF Taken
    <2>1. Cardinality(Inodes) <= Cardinality(Taken)
        BY <1>3, FS_Subset
    <2> QED
        BY <1>1, <1>3, <1>4, <2>1
<1>6. Q!IsFree(i)
    BY <1>5, SameState DEF Q!IsFree, Paths
<1> QED
    BY <1>6

\* The inode that an open process writes to: not the quota file's.
LEMMA OpenInode ==
    ASSUME QuotaInv, NEW p \in Procs, Q!Open(p)
    PROVE  \E i \in Inodes :
              /\ i # path["quota"]
              /\ path' = [path EXCEPT !["tmp"] = i]
              /\ disk' = [disk EXCEPT ![i] = Torn]
              /\ opened' = [opened EXCEPT ![p] = i]
<1> DEFINE i == IF path["tmp"] # NoInode THEN path["tmp"]
                ELSE CHOOSE j \in Inodes : Q!IsFree(j)
<1>1. i \in Inodes /\ i # path["quota"]
    <2>1. CASE path["tmp"] # NoInode
        BY <2>1 DEF QuotaInv, QuotaTypeOK, PathsInv, Paths, NoInode, Inodes
    <2>2. CASE path["tmp"] = NoInode
        BY <2>2, OneIsFree, SameState DEF QuotaInv, Q!IsFree, Paths
    <2> QED
        BY <2>1, <2>2
<1>2. /\ path' = [path EXCEPT !["tmp"] = i]
      /\ disk' = [disk EXCEPT ![i] = Torn]
      /\ opened' = [opened EXCEPT ![p] = i]
    BY SameState DEF Q!Open, Q!Target
<1> HIDE DEF i
<1> QED
    BY <1>1, <1>2

LEMMA QuotaTypeStep ==
    ASSUME QuotaInv, [Q!Next]_Q!vars
    PROVE  QuotaTypeOK'
<1> USE DEF QuotaInv, QuotaTypeOK
<1>1. CASE Q!Midnight
    BY <1>1, QuotaFileAssumption DEF Q!Midnight, Days
<1>2. ASSUME NEW p \in Procs, Q!Load(p) PROVE QuotaTypeOK'
    <2>1. PICK o \in Ops : /\ o = "reserve_request" => ~Q!IsFull(Loaded)
                           /\ op' = [op EXCEPT ![p] = o]
                           /\ state' = [state EXCEPT ![p] =
                                IF o = "reserve_request"
                                THEN [Loaded EXCEPT !.requests = @ + 1]
                                ELSE Loaded]
        BY <1>2, SameState DEF Q!Load
    <2>2. o = "reserve_request" => [Loaded EXCEPT !.requests = @ + 1] \in States
        BY <2>1, LoadedType, QuotaFileAssumption DEF States, Q!IsFull
    <2>3. state' \in [Procs -> States]
        BY <2>1, <2>2, LoadedType
    <2> QED
        BY <1>2, <2>1, <2>3, QuotaFileAssumption DEF Q!Load, Q!Goto
<1>3. ASSUME NEW p \in Procs, Q!Open(p) PROVE QuotaTypeOK'
    <2>1. PICK i \in Inodes : /\ path' = [path EXCEPT !["tmp"] = i]
                              /\ disk' = [disk EXCEPT ![i] = Torn]
                              /\ opened' = [opened EXCEPT ![p] = i]
        BY <1>3, OpenInode
    <2>2. path' \in [Paths -> Inodes \cup {NoInode}]
        BY <2>1
    <2>3. disk' \in [Inodes -> Contents] /\ opened' \in [Procs -> Inodes \cup {NoInode}]
        BY <2>1 DEF Contents
    <2> QED
        BY <1>3, <2>2, <2>3 DEF Q!Open, Q!Goto
<1>4. ASSUME NEW p \in Procs, Q!Write(p) PROVE QuotaTypeOK'
    <2>1. disk' \in [Inodes -> Contents]
        BY <1>4 DEF Q!Write, Contents
    <2> QED
        BY <1>4, <2>1, SameState DEF Q!Write, Q!Goto
<1>5. ASSUME NEW p \in Procs, Q!Replace(p) PROVE QuotaTypeOK'
    <2>1. state[p].date \in Days
        BY DEF States
    <2>2. sent' \in [Days -> 0 .. Rpd + 1]
        BY <1>5, <2>1, QuotaFileAssumption DEF Q!Replace
    <2> QED
        BY <1>5, <2>2, SameState DEF Q!Replace, Q!Goto, Paths
<1>6. ASSUME NEW p \in Procs, Q!ReplaceRaises(p) \/ Q!Crash(p) PROVE QuotaTypeOK'
    BY <1>6, SameState DEF Q!ReplaceRaises, Q!Crash, Q!Goto
<1>7. CASE UNCHANGED Q!vars
    BY <1>7 DEF Q!vars
<1> QED
    BY <1>1, <1>2, <1>3, <1>4, <1>5, <1>6, <1>7 DEF Q!Next

\* The inductive invariant, conjunct by conjunct.

LEMMA PathsStep ==
    ASSUME QuotaInv, [Q!Next]_Q!vars
    PROVE  PathsInv'
<1> USE DEF QuotaInv, QuotaTypeOK, PathsInv
<1>1. ASSUME UNCHANGED <<overlap, path, disk>>,
             overlap => \A p \in Procs : Q!At(p, "write") => Q!At(p, "write")' /\ opened'[p] = opened[p]
      PROVE  PathsInv'
    BY <1>1 DEF Q!At
<1>2. CASE Q!Midnight
    BY <1>1, <1>2 DEF Q!Midnight, Q!At
<1>3. ASSUME NEW p \in Procs, Q!Load(p) PROVE PathsInv'
    BY <1>1, <1>3 DEF Q!Load, Q!At, Q!Goto
<1>4. ASSUME NEW p \in Procs, Q!Open(p) PROVE PathsInv'
    <2>1. PICK i \in Inodes : /\ i # path["quota"]
                              /\ path' = [path EXCEPT !["tmp"] = i]
                              /\ disk' = [disk EXCEPT ![i] = Torn]
                              /\ opened' = [opened EXCEPT ![p] = i]
        BY <1>4, OpenInode
    <2>2. path'["quota"] = path["quota"] /\ path'["tmp"] = i
        BY <2>1 DEF Paths
    <2>3. Q!At(p, "write")' /\ opened'[p] = i
        BY <1>4, <2>1 DEF Q!Open, Q!Goto, Q!At
    <2>4. ASSUME overlap, path["quota"] # NoInode, disk'[path["quota"]] = Torn
          PROVE  \E q \in Procs : Q!At(q, "write")' /\ opened'[q] = path["quota"]
        <3>1. path["quota"] \in Inodes /\ disk[path["quota"]] = Torn
            BY <2>1, <2>4 DEF Paths
        <3>2. PICK q \in Procs : Q!At(q, "write") /\ opened[q] = path["quota"]
            BY <2>4, <3>1 DEF Paths
        <3>3. q # p
            BY <1>4, <3>2 DEF Q!Open, Q!At
        <3> QED
            BY <1>4, <2>1, <3>2, <3>3 DEF Q!Open, Q!Goto, Q!At
    <2> QED
        BY <1>4, <2>1, <2>2, <2>3, <2>4 DEF Q!Open, Paths
<1>5. ASSUME NEW p \in Procs, Q!Write(p) PROVE PathsInv'
    <2>1. ASSUME overlap, NEW x \in Paths, path[x] # NoInode, disk'[path[x]] = Torn
          PROVE  \E q \in Procs : Q!At(q, "write")' /\ opened'[q] = path[x]
        <3>1. path[x] \in Inodes /\ state[p] \in States
            BY <2>1
        <3>2. path[x] # opened[p]
            BY <1>5, <2>1, <3>1, TornIsNoState DEF Q!Write
        <3>3. disk[path[x]] = Torn
            BY <1>5, <2>1, <3>1, <3>2 DEF Q!Write
        <3>4. PICK q \in Procs : Q!At(q, "write") /\ opened[q] = path[x]
            BY <2>1, <3>3
        <3> QED
            BY <1>5, <3>2, <3>4 DEF Q!Write, Q!Goto, Q!At
    <2> QED
        BY <1>5, <2>1 DEF Q!Write
<1>6. ASSUME NEW p \in Procs, Q!Replace(p) PROVE PathsInv'
    <2>1. path'["quota"] = path["tmp"] /\ path'["tmp"] = NoInode
        BY <1>6, SameState DEF Q!Replace, Paths
    <2>2. \A q \in Procs : Q!At(q, "write") => Q!At(q, "write")' /\ opened'[q] = opened[q]
        BY <1>6 DEF Q!Replace, Q!At, Q!Goto
    <2> QED
        BY <1>6, <2>1, <2>2 DEF Q!Replace, Paths
<1>7. ASSUME NEW p \in Procs, Q!ReplaceRaises(p) \/ Q!Crash(p) PROVE PathsInv'
    BY <1>1, <1>7 DEF Q!ReplaceRaises, Q!Crash, Q!At, Q!Goto
<1>8. CASE UNCHANGED Q!vars
    BY <1>1, <1>8 DEF Q!vars, Q!At
<1> QED
    BY <1>2, <1>3, <1>4, <1>5, <1>6, <1>7, <1>8 DEF Q!Next

LEMMA AloneStep ==
    ASSUME QuotaInv, ~overlap, [Q!Next]_Q!vars
    PROVE  AloneInv' /\ ~overlap'
<1> USE DEF QuotaInv, QuotaTypeOK, PathsInv, AloneInv
<1>0. ~overlap'
    BY DEF Q!Next, Q!Midnight, Q!Load, Q!Open, Q!Write, Q!Replace, Q!ReplaceRaises, Q!Crash, Q!vars
<1>1. CASE Q!Midnight
    <2>1. day \in Int /\ day' = day + 1
        BY <1>1 DEF Q!Midnight, Days
    <2>2. path["quota"] # NoInode => disk[path["quota"]].date \in Int
        BY DEF States, Days
    <2> QED
        BY <1>0, <1>1, <2>1, <2>2 DEF Q!Midnight, Q!At
<1>2. ASSUME NEW p \in Procs, Q!Load(p) PROVE AloneInv'
    BY <1>2 DEF Q!Load, Q!At, Q!Goto
<1>3. ASSUME NEW p \in Procs, Q!Open(p) PROVE AloneInv'
    <2>1. PICK i \in Inodes : /\ i # path["quota"]
                              /\ path' = [path EXCEPT !["tmp"] = i]
                              /\ disk' = [disk EXCEPT ![i] = Torn]
                              /\ opened' = [opened EXCEPT ![p] = i]
        BY <1>3, OpenInode
    <2>2. /\ path'["quota"] = path["quota"] /\ path'["tmp"] = i /\ i # NoInode
          /\ opened'[p] = i
          /\ path["quota"] # NoInode => disk'[path["quota"]] = disk[path["quota"]]
        BY <2>1 DEF Paths, Inodes, NoInode
    <2>3. \A q \in Procs \ {p} : Q!At(q, "idle") /\ Q!At(q, "idle")'
        BY <1>3 DEF Q!Open, Q!At, Q!Goto
    <2>4. Q!At(p, "write")' /\ day' = day
        BY <1>3 DEF Q!Open, Q!At, Q!Goto
    <2> QED
        BY <2>2, <2>3, <2>4 DEF Q!At
<1>4. ASSUME NEW p \in Procs, Q!Write(p) PROVE AloneInv'
    <2>1. \A q \in Procs \ {p} : Q!At(q, "idle") /\ Q!At(q, "idle")'
        BY <1>4 DEF Q!Write, Q!At, Q!Goto
    <2>2. opened[p] = path["tmp"] /\ path["tmp"] # NoInode /\ path["tmp"] \in Inodes
        BY <1>4 DEF Q!Write, Paths
    <2>3. /\ Q!At(p, "replace")' /\ UNCHANGED <<path, day, state>>
          /\ disk'[path["tmp"]] = state[p]
          /\ path["quota"] # NoInode => disk'[path["quota"]] = disk[path["quota"]]
        BY <1>4, <2>2 DEF Q!Write, Q!At, Q!Goto, Paths
    <2> QED
        BY <2>1, <2>2, <2>3 DEF Q!At
<1>5. ASSUME NEW p \in Procs, Q!Replace(p) PROVE AloneInv'
    <2>1. \A q \in Procs : Q!At(q, "idle")'
        BY <1>5 DEF Q!Replace, Q!At, Q!Goto
    <2>2. path'["quota"] = path["tmp"] /\ disk[path["tmp"]] = state[p]
        BY <1>5 DEF Q!Replace, Paths
    <2>3. state[p] \in States /\ state[p].date <= day
        BY <1>5 DEF CountInv, Saves, Q!Replace, Q!At
    <2> QED
        BY <1>5, <2>1, <2>2, <2>3 DEF Q!Replace, Q!At
<1>6. ASSUME NEW p \in Procs, Q!ReplaceRaises(p) \/ Q!Crash(p) PROVE AloneInv'
    BY <1>6 DEF Q!ReplaceRaises, Q!Crash, Q!At, Q!Goto
<1>7. CASE UNCHANGED Q!vars
    BY <1>7 DEF Q!vars, Q!At
<1> QED
    BY <1>0, <1>1, <1>2, <1>3, <1>4, <1>5, <1>6, <1>7 DEF Q!Next

\* What the next process counts depends on the quota file and the day alone.
LEMMA CountedStays ==
    ASSUME path'["quota"] = path["quota"], day' = day,
           path["quota"] # NoInode => disk'[path["quota"]] = disk[path["quota"]]
    PROVE  Counted' = Counted
<1>1. Usable' = Usable
    BY DEF Usable
<1>2. Loaded' = Loaded
    <2>1. CASE Usable
        BY <1>1, <2>1 DEF Loaded, Usable, Empty
    <2>2. CASE ~Usable
        BY <1>1, <2>2 DEF Loaded, Empty
    <2> QED
        BY <2>1, <2>2
<1> QED
    BY <1>2 DEF Counted

\* A process that goes on, or dies, with the counts as they are.
LEMMA CountsStay ==
    ASSUME QuotaInv, CountInv, UNCHANGED <<day, sent, state, op>>, Counted' = Counted, ~overlap,
           \A p \in Procs : Q!At(p, "idle") => Q!At(p, "idle")'
    PROVE  CountInv'
<1>1. ASSUME NEW p \in Procs, ~Q!At(p, "idle")' PROVE Saves(p)'
    <2>1. Saves(p)
        BY <1>1 DEF CountInv
    <2> QED
        BY <2>1 DEF Saves
<1>2. sent' = sent /\ day' = day /\ sent[day] <= Counted'
    BY DEF CountInv
<1> QED
    BY <1>1, <1>2 DEF CountInv, CapHolds

LEMMA CountStep ==
    ASSUME QuotaInv, ~overlap, [Q!Next]_Q!vars
    PROVE  CountInv'
<1> USE DEF QuotaInv, QuotaTypeOK
<1>0. AloneInv /\ CountInv /\ ~overlap' /\ Rpd \in Nat
    BY AloneStep, QuotaFileAssumption
<1>1. day \in Int /\ Counted \in 0 .. Rpd /\ \A p \in Procs : state[p].date \in Int
    BY LoadedType DEF Days, States
<1>2. CASE Q!Midnight
    <2>1. day' = day + 1 /\ UNCHANGED <<path, disk, pc, op, state, opened, sent>>
        BY <1>2 DEF Q!Midnight
    <2>2. day' \in Days
        BY <2>1, QuotaTypeStep
    <2>3. Counted' = 0
        <3>1. Usable => disk[path["quota"]].date # day + 1
            BY <1>0, <1>1 DEF AloneInv, Usable, States, Days
        <3>2. Loaded' = Empty'
            BY <2>1, <3>1 DEF Loaded, Usable
        <3> QED
            BY <3>2 DEF Counted, Empty
    <2>4. sent[day'] = 0
        BY <1>0, <1>1, <2>1, <2>2 DEF CountInv
    <2>5. \A d \in Days : d > day' => sent[d] = 0
        BY <1>0, <1>1, <2>1 DEF CountInv, Days
    <2>6. ASSUME NEW p \in Procs, ~Q!At(p, "idle")' PROVE Saves(p)'
        <3>1. Saves(p)
            BY <1>0, <2>1, <2>6 DEF CountInv, Q!At
        <3> QED
            BY <1>1, <2>1, <2>3, <2>4, <3>1 DEF Saves
    <2> QED
        BY <1>0, <2>1, <2>3, <2>4, <2>5, <2>6 DEF CountInv, CapHolds
<1>3. ASSUME NEW p \in Procs, Q!Load(p) PROVE CountInv'
    <2>1. PICK o \in Ops : /\ o = "reserve_request" => ~Q!IsFull(Loaded)
                           /\ op' = [op EXCEPT ![p] = o]
                           /\ state' = [state EXCEPT ![p] =
                                IF o = "reserve_request"
                                THEN [Loaded EXCEPT !.requests = @ + 1]
                                ELSE Loaded]
        BY <1>3, SameState DEF Q!Load
    <2>2. UNCHANGED <<overlap, day, path, disk, opened, sent>> /\ Counted' = Counted
        BY <1>3, CountedStays DEF Q!Load
    <2>3. op'[p] = o /\ \A q \in Procs \ {p} : Q!At(q, "idle")'
        BY <1>0, <1>3, <2>1 DEF Q!Load, Q!At, Q!Goto
    <2>4. Loaded \in States /\ Loaded.requests = Counted
        BY LoadedType DEF Counted
    <2>5. /\ state'[p].date = Loaded.date
          /\ state'[p].requests = Counted + (IF o = "reserve_request" THEN 1 ELSE 0)
        BY <1>1, <2>1, <2>4 DEF States
    <2>6. Loaded.date = day
        BY DEF Loaded, Empty
    <2>7. sent[day] <= Counted /\ sent[day] \in Nat
        BY <1>0, QuotaFileAssumption DEF CountInv
    <2>8. Saves(p)'
        BY <1>1, <2>2, <2>3, <2>5, <2>6, <2>7 DEF Saves
    <2> QED
        BY <1>0, <2>2, <2>3, <2>8 DEF CountInv, CapHolds
<1>4. ASSUME NEW p \in Procs, Q!Open(p) PROVE CountInv'
    <2>1. PICK i \in Inodes : /\ i # path["quota"]
                              /\ path' = [path EXCEPT !["tmp"] = i]
                              /\ disk' = [disk EXCEPT ![i] = Torn]
        BY <1>4, OpenInode
    <2>2. /\ path'["quota"] = path["quota"]
          /\ path["quota"] # NoInode => disk'[path["quota"]] = disk[path["quota"]]
        BY <2>1 DEF Paths
    <2>3. Counted' = Counted
        BY <1>4, <2>2, CountedStays DEF Q!Open
    <2> QED
        BY <1>0, <1>4, <2>3, CountsStay DEF Q!Open, Q!Goto, Q!At
<1>5. ASSUME NEW p \in Procs, Q!Write(p) PROVE CountInv'
    <2>1. opened[p] # path["quota"] \/ path["quota"] = NoInode
        BY <1>0, <1>5 DEF Q!Write, AloneInv, PathsInv
    <2>2. path["quota"] # NoInode => disk'[path["quota"]] = disk[path["quota"]]
        BY <1>5, <2>1 DEF Q!Write, Paths
    <2>3. Counted' = Counted
        BY <1>5, <2>2, CountedStays DEF Q!Write
    <2> QED
        BY <1>0, <1>5, <2>3, CountsStay DEF Q!Write, Q!Goto, Q!At
<1>6. ASSUME NEW p \in Procs, Q!Replace(p) PROVE CountInv'
    <2>1. Saves(p) /\ disk[path["tmp"]] = state[p] /\ path["tmp"] # NoInode
        BY <1>0, <1>6 DEF CountInv, AloneInv, Q!Replace, Q!At
    <2>2. \A q \in Procs : Q!At(q, "idle")'
        BY <1>0, <1>6 DEF AloneInv, Q!Replace, Q!At, Q!Goto
    <2>3. /\ path'["quota"] = path["tmp"] /\ UNCHANGED <<day, disk>>
          /\ state[p] \in States /\ state[p] # Torn
        BY <1>6, TornIsNoState DEF Q!Replace, Paths
    <2>4. Loaded' = IF state[p].date = day THEN state[p] ELSE Empty
        BY <2>1, <2>3 DEF Loaded, Usable, Empty
    <2>5. Counted' = IF state[p].date = day THEN state[p].requests ELSE 0
        BY <2>4 DEF Counted, Empty
    <2>6. state[p].date \in Days /\ state[p].requests \in 0 .. Rpd
        BY DEF States
    <2>7. CASE op[p] # "reserve_request"
        <3>1. sent' = sent
            BY <1>6, <2>7 DEF Q!Replace
        <3> QED
            BY <1>0, <1>1, <2>1, <2>2, <2>3, <2>5, <2>7, <3>1 DEF CountInv, CapHolds, Saves
    <2>8. CASE op[p] = "reserve_request"
        <3>1. sent[state[p].date] < state[p].requests /\ sent[state[p].date] \in 0 .. Rpd + 1
            BY <2>1, <2>6, <2>8 DEF Saves
        <3>2. sent' = [sent EXCEPT ![state[p].date] = @ + 1]
            <4>1. ~(sent[state[p].date] > Rpd)
                BY <1>0, <2>6, <3>1
            <4>2. sent' = [sent EXCEPT ![state[p].date] =
                              IF sent[state[p].date] > Rpd THEN sent[state[p].date]
                              ELSE sent[state[p].date] + 1]
                BY <1>6, <2>8 DEF Q!Replace
            <4> QED
                BY <4>1, <4>2
        <3>3. \A d \in Days : /\ d # state[p].date => sent'[d] = sent[d]
                              /\ d = state[p].date => sent'[d] = sent[state[p].date] + 1
            BY <2>6, <3>2
        <3>4. sent'[state[p].date] <= state[p].requests /\ sent'[state[p].date] <= Rpd
            BY <1>0, <2>6, <3>1, <3>3
        <3>5. \A d \in Days : d > day => sent'[d] = 0
            BY <1>0, <1>1, <2>1, <3>3 DEF CountInv, Saves, Days
        <3>6. \A d \in Days : sent'[d] <= Rpd
            BY <1>0, <3>3, <3>4 DEF CountInv, CapHolds
        <3>7. sent'[day] <= Counted'
            BY <2>1, <2>5, <3>3, <3>4 DEF Saves
        <3> QED
            BY <1>0, <2>2, <2>3, <3>5, <3>6, <3>7 DEF CountInv, CapHolds
    <2> QED
        BY <2>7, <2>8
<1>7. ASSUME NEW p \in Procs, Q!ReplaceRaises(p) \/ Q!Crash(p) PROVE CountInv'
    <2>1. Counted' = Counted
        BY <1>7, CountedStays DEF Q!ReplaceRaises, Q!Crash
    <2> QED
        BY <1>0, <1>7, <2>1, CountsStay DEF Q!ReplaceRaises, Q!Crash, Q!Goto, Q!At
<1>8. CASE UNCHANGED Q!vars
    <2>1. Counted' = Counted
        BY <1>8, CountedStays DEF Q!vars
    <2> QED
        BY <1>0, <1>8, <2>1, CountsStay DEF Q!vars, Q!At
<1> QED
    BY <1>2, <1>3, <1>4, <1>5, <1>6, <1>7, <1>8 DEF Q!Next

LEMMA QuotaInit == Q!Init => QuotaInv
<1> SUFFICES ASSUME Q!Init PROVE QuotaInv
    OBVIOUS
<1>1. QuotaTypeOK
    BY QuotaFileAssumption, SameState DEF Q!Init, QuotaTypeOK, Days, States, Contents
<1>2. PathsInv
    BY SameState DEF Q!Init, PathsInv, Paths
<1>3. Counted = 0
    BY SameState DEF Q!Init, Counted, Loaded, Usable, Empty, Paths
<1>4. AloneInv
    BY SameState DEF Q!Init, AloneInv, Q!At, Paths
<1>5. CountInv
    BY <1>3, QuotaFileAssumption, SameState DEF Q!Init, CountInv, CapHolds, Q!At, Days
<1> QED
    BY <1>1, <1>2, <1>4, <1>5 DEF QuotaInv

\* Whether processes overlap never changes in a behaviour.
LEMMA OverlapStays == ASSUME [Q!Next]_Q!vars PROVE overlap' = overlap
BY DEF Q!Next, Q!Midnight, Q!Load, Q!Open, Q!Write, Q!Replace, Q!ReplaceRaises, Q!Crash, Q!vars

\* The inductive invariant.
THEOREM QuotaInvariance == Q!Spec => []QuotaInv
<1>1. QuotaInv /\ [Q!Next]_Q!vars => QuotaInv'
    <2> SUFFICES ASSUME QuotaInv, [Q!Next]_Q!vars PROVE QuotaInv'
        OBVIOUS
    <2> QED
        BY QuotaTypeStep, PathsStep, AloneStep, CountStep, OverlapStays DEF QuotaInv
<1> QED
    BY <1>1, QuotaInit, PTL DEF Q!Spec

\* The quota file is never torn but by processes that overlap, and the cap of a
\* day holds whatever step the process before died in (DailyQuota._save).
THEOREM QuotaCorrect == Q!Spec => []QuotaHolds
<1>1. QuotaInv => QuotaHolds
    <2> SUFFICES ASSUME QuotaInv PROVE QuotaHolds
        OBVIOUS
    <2>1. FileIsWhole
        <3>1. CASE overlap
            BY <3>1 DEF QuotaInv, PathsInv, FileIsWhole, Paths, Q!At
        <3>2. CASE ~overlap
            BY <3>2, TornIsNoState DEF QuotaInv, AloneInv, FileIsWhole
        <3> QED
            BY <3>1, <3>2
    <2>2. CapHolds
        BY DEF QuotaInv, CountInv, CapHolds
    <2> QED
        BY <2>1, <2>2 DEF QuotaHolds, QuotaInv
<1> QED
    BY <1>1, QuotaInvariance, PTL

LEMMA QuotaStep ==
    ASSUME QuotaInv, [Q!Next]_Q!vars
    PROVE  [Quota!Next]_<<day, IF overlap THEN 0 ELSE Counted>>
<1> DEFINE count == IF overlap THEN 0 ELSE Counted
<1>0. overlap' = overlap
    BY OverlapStays
<1>1. CASE overlap
    <2>1. day' = day
        BY <1>1 DEF Q!Next, Q!Midnight, Q!Load, Q!Open, Q!Write, Q!Replace, Q!ReplaceRaises, Q!Crash, Q!vars
    <2> QED
        BY <1>0, <1>1, <2>1
<1>2. CASE ~overlap
    <2>1. SUFFICES ASSUME ~(day' = day /\ Counted' = Counted)
                   PROVE  Quota!Next
        BY <1>0, <1>2
    <2>2. CASE Q!Midnight
        <3>1. Counted' = 0
            <4>1. Usable => disk[path["quota"]].date # day + 1
                BY <1>2 DEF QuotaInv, QuotaTypeOK, AloneInv, Usable, States, Days
            <4>2. Loaded' = Empty'
                BY <2>2, <4>1 DEF Q!Midnight, Loaded, Usable
            <4> QED
                BY <4>2 DEF Counted, Empty
        <3> QED
            BY <1>0, <1>2, <2>2, <3>1 DEF Q!Midnight, Quota!Next, Quota!Midnight
    <2>3. ASSUME NEW p \in Procs, Q!Replace(p) PROVE Quota!Next
        <3>1. Saves(p) /\ disk[path["tmp"]] = state[p] /\ path["tmp"] # NoInode
            BY <1>2, <2>3 DEF QuotaInv, CountInv, AloneInv, Q!Replace, Q!At
        <3>2. /\ path'["quota"] = path["tmp"] /\ UNCHANGED <<day, disk>>
              /\ state[p] \in States /\ state[p] # Torn
            BY <2>3, TornIsNoState DEF QuotaInv, QuotaTypeOK, Q!Replace, Paths
        <3>3. Counted' = IF state[p].date = day THEN state[p].requests ELSE 0
            BY <3>1, <3>2 DEF Counted, Loaded, Usable, Empty
        <3>4. Counted' = Counted + 1 /\ Counted' <= Rpd /\ Counted \in 0 .. Rpd
            <4>1. Counted \in 0 .. Rpd
                BY LoadedType DEF QuotaInv
            <4> QED
                BY <2>1, <3>1, <3>2, <3>3, <4>1 DEF Saves, States
        <3>5. Counted < Rpd
            BY <3>4, QuotaFileAssumption
        <3> QED
            BY <1>0, <1>2, <3>2, <3>4, <3>5 DEF Quota!Next, Quota!ReserveRequest
    <2>4. ASSUME NEW p \in Procs, Q!Load(p) \/ Q!ReplaceRaises(p) \/ Q!Crash(p) PROVE FALSE
        BY <2>1, <2>4, CountedStays DEF Q!Load, Q!ReplaceRaises, Q!Crash
    <2>5. ASSUME NEW p \in Procs, Q!Open(p) PROVE FALSE
        <3>1. PICK i \in Inodes : /\ i # path["quota"]
                                  /\ path' = [path EXCEPT !["tmp"] = i]
                                  /\ disk' = [disk EXCEPT ![i] = Torn]
            BY <2>5, OpenInode
        <3>2. /\ path'["quota"] = path["quota"]
              /\ path["quota"] # NoInode => disk'[path["quota"]] = disk[path["quota"]]
            BY <3>1 DEF QuotaInv, QuotaTypeOK, Paths
        <3> QED
            BY <2>1, <2>5, <3>2, CountedStays DEF Q!Open
    <2>6. ASSUME NEW p \in Procs, Q!Write(p) PROVE FALSE
        <3>1. path["quota"] # NoInode => disk'[path["quota"]] = disk[path["quota"]]
            BY <1>2, <2>6 DEF Q!Write, QuotaInv, QuotaTypeOK, AloneInv, PathsInv, Paths
        <3> QED
            BY <2>1, <2>6, <3>1, CountedStays DEF Q!Write
    <2>7. CASE UNCHANGED Q!vars
        BY <2>1, <2>7, CountedStays DEF Q!vars
    <2> QED
        BY <2>2, <2>3, <2>4, <2>5, <2>6, <2>7 DEF Q!Next
<1> QED
    BY <1>1, <1>2

\* Processes that follow each other, dying at any step: the file is the counter
\* of DailyQuota, reserved from in one step.
THEOREM QuotaRefinement == Q!Spec => ImplementsQuota
<1>1. Q!Init => Quota!Init
    BY SameState DEF Q!Init, Quota!Init, Counted, Loaded, Usable, Empty, Paths
<1>2. QuotaInv /\ [Q!Next]_Q!vars => [Quota!Next]_<<day, IF overlap THEN 0 ELSE Counted>>
    BY QuotaStep
<1> QED
    BY <1>1, <1>2, QuotaInvariance, PTL DEF Q!Spec, ImplementsQuota, Quota!Spec
==============================================================================
