------------------------------ MODULE RunStream ------------------------------
(***************************************************************************)
(* How a browser follows a run: the API's event stream (stream_run over    *)
(* the progress bus), the hook useRunStream that keeps a connection to it, *)
(* and the run page whose state decides whether the hook runs at all.      *)
(*                                                                         *)
(* The run is executed elsewhere (RedisRun, InlineRun); here it ends.  Of  *)
(* its progress only the status is kept: an attempt event differs from a   *)
(* keep-alive in that it rearms the watchdog and nothing else.             *)
(*                                                                         *)
(* The bus and the network lose, delay and cut; a timer fires no earlier   *)
(* than it is set and otherwise whenever it likes.  MaxFaults bounds how   *)
(* often the API answers a fetch with an error.                            *)
(***************************************************************************)
EXTENDS Naturals, Sequences

CONSTANTS
    MaxFailures,   \* useRunStream's maxFailures
    MaxAttempts,   \* attempt events the run publishes
    MaxFaults

ASSUME RunStreamAssumption ==
    MaxFailures \in Nat \ {0} /\ MaxAttempts \in Nat /\ MaxFaults \in Nat

VARIABLES
    run,       \* the row's status
    outbox,    \* what is still to be published: attempts left, and the end
    conn,      \* the connection at the server
    wire,      \* events sent to the browser and not yet dispatched
    hook,      \* the closure of the effect that runs, and its timers
    page,      \* the run's status as the page shows it
    resyncs,   \* the page's fetches under way, one of each kind
    faults

vars == <<run, outbox, conn, wire, hook, page, resyncs, faults>>

Ended == "ended"      \* completed, failed or cancelled
Kinds == {"fail", "snapshot", "poll", "final"}

------------------------------------------------------------------------------
(* The server *)

\* finish or save_summary commits, or cancel_run does.
EndRun ==
    /\ run # Ended
    /\ run' = Ended
    /\ outbox' = [outbox EXCEPT !.end = TRUE]
    /\ UNCHANGED <<conn, wire, hook, page, resyncs, faults>>

\* publish reaches the subscription, or Redis pub/sub loses it.
Publish(event) ==
    /\ \/ conn \in {"subscribed", "streaming"} /\ wire' = Append(wire, event)
       \/ UNCHANGED wire
    /\ UNCHANGED <<run, conn, hook, page, resyncs, faults>>

PublishAttempt ==
    /\ outbox.attempts > 0
    /\ outbox' = [outbox EXCEPT !.attempts = @ - 1]
    /\ Publish([type |-> "attempt", status |-> "running"])

PublishEnd ==
    /\ outbox.end
    /\ outbox' = [outbox EXCEPT !.end = FALSE]
    /\ Publish([type |-> "status", status |-> Ended])

\* stream_run subscribes, and only then reads the run for the snapshot.
Subscribe ==
    /\ conn = "requested"
    /\ conn' = "subscribed"
    /\ UNCHANGED <<run, outbox, wire, hook, page, resyncs, faults>>

\* _events: the snapshot, and nothing more if the run has ended; else what the
\* subscription has received since it was opened.
SendSnapshot ==
    /\ conn = "subscribed"
    /\ LET snapshot == <<[type |-> "snapshot", status |-> run]>> IN
       IF run = Ended THEN conn' = "closed" /\ wire' = snapshot
       ELSE conn' = "streaming" /\ wire' = snapshot \o wire
    /\ UNCHANGED <<run, outbox, hook, page, resyncs, faults>>

------------------------------------------------------------------------------
(* The hook: what may drive it on is one of these at a time *)

Off == [on |-> FALSE, resolving |-> FALSE, source |-> FALSE, watchdog |-> FALSE,
        retry |-> FALSE, poll |-> FALSE, abandoned |-> FALSE, failures |-> 0]

\* The effect starts, with connect().
Started == [Off EXCEPT !.on = TRUE, !.resolving = TRUE]

Idle == [at |-> "idle"]
Fetching == [at |-> "fetching", mine |-> TRUE]
Begin(kind) == resyncs[kind] = Idle /\ resyncs' = [resyncs EXCEPT ![kind] = Fetching]

\* teardown stops the closure: its connection is closed, and a fetch of its own
\* that is still under way can only change what the page shows.
Disown(rs) == [k \in Kinds |-> IF rs[k] = Idle THEN Idle ELSE [rs[k] EXCEPT !.mine = FALSE]]
Teardown(rs) == hook' = Off /\ conn' = "none" /\ wire' = <<>> /\ resyncs' = Disown(rs)

\* connect: resolveUrl gives a URL and the source is opened, watched.
Connect ==
    /\ hook.resolving
    /\ hook' = [hook EXCEPT !.resolving = FALSE, !.source = TRUE, !.watchdog = TRUE]
    /\ conn' = "requested" /\ wire' = <<>>
    /\ UNCHANGED <<run, outbox, page, resyncs, faults>>

\* Mutant: the watchdog of the closed source still runs.
Failed_Watched(h) == [h EXCEPT !.source = FALSE, !.resolving = FALSE, !.failures = @ + 1]

\* fail(), up to its await: the source is closed and one more failure counted.
Failed(h) == [h EXCEPT !.source = FALSE, !.watchdog = FALSE, !.resolving = FALSE,
                       !.failures = @ + 1]

Fail ==
    /\ hook' = Failed(hook)
    /\ conn' = "none" /\ wire' = <<>>
    /\ Begin("fail")
    /\ UNCHANGED <<run, outbox, page, faults>>

ResolveFails == hook.resolving /\ Fail
SourceErrs == hook.source /\ Fail
WatchdogFires == hook.watchdog /\ Fail

RetryFires ==
    /\ hook.retry
    /\ hook' = [hook EXCEPT !.retry = FALSE, !.resolving = TRUE]
    /\ UNCHANGED <<run, outbox, conn, wire, page, resyncs, faults>>

PollFires ==
    /\ hook.poll
    /\ Begin("poll")
    /\ UNCHANGED <<run, outbox, conn, wire, hook, page, faults>>

\* Mutant: an event stops the watchdog and does not start it again.
Rearmed_Never(h) == [h EXCEPT !.watchdog = FALSE]

\* arm(idleMs)
Rearmed(h) == [h EXCEPT !.watchdog = TRUE]

OnSnapshot ==
    /\ wire # <<>> /\ Head(wire).type = "snapshot" /\ resyncs["snapshot"] = Idle
    /\ page' = Head(wire).status
    /\ LET rs == [resyncs EXCEPT !["snapshot"] = Fetching] IN
       IF page' = Ended THEN Teardown(rs)
       ELSE /\ hook' = [Rearmed(hook) EXCEPT !.failures = 0]
            /\ wire' = Tail(wire) /\ resyncs' = rs /\ UNCHANGED conn
    /\ UNCHANGED <<run, outbox, faults>>

OnAttempt ==
    /\ wire # <<>> /\ Head(wire).type = "attempt"
    /\ hook' = Rearmed(hook)
    /\ wire' = Tail(wire)
    /\ UNCHANGED <<run, outbox, conn, page, resyncs, faults>>

OnStatus ==
    /\ wire # <<>> /\ Head(wire).type = "status" /\ resyncs["final"] = Idle
    /\ page' = Head(wire).status
    /\ Teardown([resyncs EXCEPT !["final"] = Fetching])
    /\ UNCHANGED <<run, outbox, faults>>

------------------------------------------------------------------------------
(* The page's fetches *)

\* The API reads the run.
ReadRun(kind) ==
    /\ resyncs[kind].at = "fetching"
    /\ resyncs' = [resyncs EXCEPT ![kind] = [at |-> "read", mine |-> @.mine, status |-> run]]
    /\ UNCHANGED <<run, outbox, conn, wire, hook, page, faults>>

\* After fail()'s await: poll from now on, or connect again after a while.
Continued(h) == IF h.failures >= MaxFailures THEN [h EXCEPT !.poll = TRUE]
                ELSE [h EXCEPT !.retry = TRUE]

\* The answer: the page shows it, however old it is.  A run that has ended
\* disables the hook; one that runs enables it, anew if it was disabled.
Answered(kind) ==
    /\ resyncs[kind].at = "read"
    /\ page' = resyncs[kind].status
    /\ LET rs == [resyncs EXCEPT ![kind] = Idle] IN
       IF page' = Ended THEN Teardown(rs)
       ELSE /\ resyncs' = rs
            /\ hook' = IF ~hook.on THEN Started
                       ELSE IF kind = "fail" /\ resyncs[kind].mine THEN Continued(hook)
                       ELSE hook
            /\ UNCHANGED <<conn, wire>>
    /\ UNCHANGED <<run, outbox, faults>>

\* An error of the API: resync returns null and the page stays as it is.
Errs(kind) ==
    /\ resyncs[kind] # Idle /\ faults < MaxFaults
    /\ faults' = faults + 1
    /\ resyncs' = [resyncs EXCEPT ![kind] = Idle]
    /\ hook' = IF kind = "fail" /\ resyncs[kind].mine THEN Continued(hook) ELSE hook
    /\ UNCHANGED <<run, outbox, conn, wire, page>>

\* No answer: awakeFetch gives up and the page's resync rejects, which ends
\* fail() at its await.
Rejects(kind) ==
    /\ resyncs[kind] # Idle /\ faults < MaxFaults
    /\ faults' = faults + 1
    /\ resyncs' = [resyncs EXCEPT ![kind] = Idle]
    /\ hook' = IF kind = "fail" /\ resyncs[kind].mine THEN [hook EXCEPT !.abandoned = TRUE]
               ELSE hook
    /\ UNCHANGED <<run, outbox, conn, wire, page>>

------------------------------------------------------------------------------

Init ==
    /\ run = "running" /\ outbox = [attempts |-> MaxAttempts, end |-> FALSE]
    /\ conn = "none" /\ wire = <<>>
    /\ hook = Started /\ page = "running"
    /\ resyncs = [k \in Kinds |-> Idle]
    /\ faults = 0

Server == EndRun \/ PublishAttempt \/ PublishEnd \/ Subscribe \/ SendSnapshot
Timers == WatchdogFires \/ RetryFires \/ PollFires
Events == Connect \/ ResolveFails \/ SourceErrs \/ OnSnapshot \/ OnAttempt \/ OnStatus
Fetches == \E k \in Kinds : ReadRun(k) \/ Answered(k) \/ Errs(k) \/ Rejects(k)

Next == Server \/ Timers \/ Events \/ Fetches

Spec == Init /\ [][Next]_vars

\* The run ends (RedisRun's EveryRunEnds); a fetch and a resolved URL come
\* back in the end, and a timer that is set fires.  Nothing is assumed of the
\* stream itself: it may never deliver an event.
Fairness ==
    /\ WF_vars(EndRun)
    /\ WF_vars(Connect \/ ResolveFails)
    /\ WF_vars(WatchdogFires) /\ WF_vars(RetryFires) /\ WF_vars(PollFires)
    /\ \A k \in Kinds : WF_vars(ReadRun(k)) /\ WF_vars(Answered(k) \/ Errs(k) \/ Rejects(k))

FairSpec == Spec /\ Fairness

------------------------------------------------------------------------------
(* Properties *)

\* What drives the hook on: a URL being resolved, an open source, the retry
\* timer, the poll timer, or fail() awaiting its fetch.
Drivers == {d \in {"resolving", "source", "retry", "poll"} : hook[d]}
             \cup (IF resyncs["fail"] # Idle /\ resyncs["fail"].mine THEN {"fail"} ELSE {})

\* Whatever errors, timers and late answers come together, the hook has exactly
\* one way to go on, a watchdog only over a source, and none at all only once
\* stopped or after fail()'s own fetch was rejected (use-run-stream.ts:104).
OneDriver ==
    /\ hook.on => IF hook.abandoned THEN Drivers = {} ELSE \E d \in Drivers : Drivers = {d}
    /\ hook.watchdog => hook.source
    /\ hook.on <=> page = "running"

\* The page ends up showing that the run has ended, and goes on showing it,
\* whatever was lost, late or cut on the way, unless the hook was abandoned.
PageSettles == <>[](page = Ended \/ hook.abandoned)

==============================================================================
