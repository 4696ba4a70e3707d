----------------------------- MODULE DailyQuota -----------------------------
(***************************************************************************)
(* What DailyQuota of packages/core/src/agentprobe_core/llm/limits.py      *)
(* promises of one model's requests: a counter that is reserved from in    *)
(* one step, up to the day's cap, and starts again with the next day.      *)
(***************************************************************************)
EXTENDS Integers

CONSTANTS Rpd, MaxDays

VARIABLES day, count

Init == day = 0 /\ count = 0

ReserveRequest ==
    /\ count < Rpd
    /\ count' = count + 1
    /\ UNCHANGED day

Midnight ==
    /\ day < MaxDays
    /\ day' = day + 1
    /\ count' = 0

Next == ReserveRequest \/ Midnight

Spec == Init /\ [][Next]_<<day, count>>
=============================================================================
