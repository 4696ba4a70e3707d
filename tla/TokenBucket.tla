------------------------------ MODULE TokenBucket ------------------------------
(***************************************************************************)
(* The token buckets that limit requests (ratelimit.py): one per API key,  *)
(* per account or per address, in the process's memory or in Redis, where  *)
(* buckets nobody uses any more are dropped.                               *)
(*                                                                         *)
(* Time goes in ticks, and a bucket keeps its age, not a time stamp.       *)
(* Tokens are counted in parts of 1/Window token, so that a tick refills   *)
(* Limit parts and a request takes Window: the arithmetic is exact, where  *)
(* the code's is floating point.                                           *)
(***************************************************************************)
EXTENDS Naturals, FiniteSets

CONSTANTS
    Clients,     \* what the limit is keyed on
    Limit,       \* requests per window
    Window,      \* ticks per window
    Second,      \* ticks per second
    MaxBuckets   \* _MAX_BUCKETS of the memory backend

VARIABLES
    backend,  \* RATE_LIMIT_BACKEND: "memory" or "redis"
    buckets,  \* the buckets there are: client -> [tokens, age of its last use]
    level,    \* history: the tokens each client has if no bucket is ever dropped
    promise   \* history: ticks left of the Retry-After a client waits out, or Idle

vars == <<backend, buckets, level, promise>>

Capacity == Limit * Window
Idle == Capacity + Second   \* no promise is as long
FullAfter == Window         \* capacity / rate
AtMost(n, max) == IF n < max THEN n ELSE max
CeilDiv(n, d) == (n + d - 1) \div d

\* The bucket an acquire starts from: a missing one is full.
Refilled(c) ==
    IF c \in DOMAIN buckets
    THEN AtMost(buckets[c].tokens + buckets[c].age * Limit, Capacity) ELSE Capacity

With(c, tokens) ==
    [d \in DOMAIN buckets \cup {c} |-> IF d = c THEN [tokens |-> tokens, age |-> 0] ELSE buckets[d]]

\* Mutant: an off-by-one in the age a bucket may be dropped at.
Prune_Early(b) == [c \in {d \in DOMAIN b : b[d].age < FullAfter - 1} |-> b[c]]

\* _prune: what has had the time to refill.
Prune(b) == [c \in {d \in DOMAIN b : b[d].age < FullAfter} |-> b[c]]

\* retry_after_header of the seconds until a token is free, in ticks.
RetryAfter(tokens) ==
    LET seconds == CeilDiv(Window - tokens, Limit * Second)
    IN  Second * (IF seconds < 1 THEN 1 ELSE seconds)

\* acquire finds a token: the request goes on.
Allow(c) ==
    /\ Refilled(c) >= Window
    /\ LET after == With(c, Refilled(c) - Window)
       IN  buckets' = IF backend = "memory" /\ Cardinality(DOMAIN after) > MaxBuckets
                      THEN Prune(after) ELSE after
    /\ level' = [level EXCEPT ![c] = IF @ < Window THEN 0 ELSE @ - Window]
    /\ promise' = [promise EXCEPT ![c] = Idle]
    /\ UNCHANGED backend

\* It finds none: 429, with how long to wait.
Refuse(c) ==
    /\ Refilled(c) < Window
    /\ buckets' = With(c, Refilled(c))
    /\ promise' = [promise EXCEPT ![c] = RetryAfter(Refilled(c))]
    /\ UNCHANGED <<backend, level>>

\* A tick; Redis drops a key EXPIRE seconds after its last use.
Tick ==
    /\ LET expires == Second * (CeilDiv(FullAfter, Second) + 1)
           kept == {c \in DOMAIN buckets : backend = "memory" \/ buckets[c].age + 1 < expires}
       IN  buckets' = [c \in kept |-> [buckets[c] EXCEPT !.age = AtMost(@ + 1, expires)]]
    /\ level' = [c \in Clients |-> AtMost(level[c] + Limit, Capacity)]
    /\ promise' = [c \in Clients |-> IF promise[c] \in {0, Idle} THEN promise[c] ELSE promise[c] - 1]
    /\ UNCHANGED backend

Init ==
    /\ backend \in {"memory", "redis"}
    /\ buckets = [c \in {} |-> 0]
    /\ level = [c \in Clients |-> Capacity]
    /\ promise = [c \in Clients |-> Idle]

Next == (\E c \in Clients : Allow(c) \/ Refuse(c)) \/ Tick

Spec == Init /\ [][Next]_vars

------------------------------------------------------------------------------
(* Properties *)

\* Dropping buckets lets no client send more, or less, than it could if every
\* bucket was kept: a bucket that is pruned or expires has refilled by then
\* (_prune's comment, the EXPIRE of the script).
PrunedIsFull == \A c \in Clients : Refilled(c) = level[c]

\* A client that waits the Retry-After it was told, and sends nothing
\* meanwhile, is let through, in whatever fraction of a second it was refused.
RetryAfterIsEnough == \A c \in Clients : promise[c] = 0 => Refilled(c) >= Window

==============================================================================
