------------------------------ MODULE LlmClient ------------------------------
(***************************************************************************)
(* The LLM client of one run: the calls that judges and clustering make    *)
(* concurrently through Client._call of                                    *)
(* packages/core/src/agentprobe_core/llm/client.py, and what holds them    *)
(* back (limits.py): the run's budget, the concurrency semaphore, the      *)
(* sliding window and daily quota of RateLimiter, and with_backoff.        *)
(*                                                                         *)
(* The calls share one event loop, so a call is split where it awaits: the *)
(* semaphore, the limiter's lock, a sleep, the provider.  It may be        *)
(* cancelled at each of them.  One model is modelled: every model has a    *)
(* window, a lock and a quota of its own.  Tokens and USD are capped the   *)
(* same way, so one amount, spent, stands for both.  Time is an age: how   *)
(* long ago a request was sent, up to the minute after which it no longer  *)
(* matters, so it passes without a bound.                                  *)
(***************************************************************************)
EXTENDS Integers, Sequences, FiniteSets

CONSTANTS
    Calls,         \* the logical calls (complete, embed) made on this client
    MaxCalls,      \* max_calls_per_run
    MaxSpend,      \* max_tokens_per_run, and max_usd_per_run with it
    MaxUsage,      \* the most that one call can cost
    Concurrency,   \* max_concurrency
    Rpm,           \* rpm
    Rpd,           \* rpd
    Window,        \* ticks in the limiter's 60 seconds
    MaxRetries,    \* max_retries
    MaxDelay       \* ticks of the longest backoff, and of MAX_RETRY_AFTER_S

ASSUME Parameters ==
    /\ IsFiniteSet(Calls)
    /\ "nobody" \notin Calls
    /\ {MaxCalls, MaxSpend, MaxUsage, Concurrency, Rpm, Rpd, Window}
           \subseteq Nat \ {0}
    /\ {MaxRetries, MaxDelay} \subseteq Nat
-----------------------------------------------------------------------------
Nobody == "nobody"
Points == {"new", "semaphore", "lock", "window", "quota", "provider",
           "backoff", "answered", "failed"}
Ages   == 0 .. Window

\* Where a call is inside `async with self._concurrency`, and inside the lock.
InSlot == {"lock", "window", "quota", "provider", "backoff"}
InLock == {"window", "quota"}

VARIABLES
    pc,         \* where each call is
    tries,      \* with_backoff's n: the attempts that failed
    wait,       \* how long each call still sleeps
    calls,      \* BudgetGuard.calls
    spent,      \* BudgetGuard.tokens and usd
    slots,      \* the semaphore's value
    lock,       \* the call that holds the limiter's lock
    window,     \* the limiter's deque: ages of admitted requests, oldest first
    used,       \* DailyQuota: today's requests
    requests    \* history: the ages of the requests sent to the provider

budget  == <<calls, spent>>
limiter == <<lock, window, used>>
vars    == <<pc, tries, wait, budget, slots, limiter, requests>>

TypeOK ==
    /\ pc \in [Calls -> Points]
    /\ tries \in [Calls -> 0 .. MaxRetries]
    /\ wait \in [Calls -> Nat]
    /\ calls \in 0 .. MaxCalls
    /\ spent \in Nat
    /\ slots \in 0 .. Concurrency
    /\ lock \in Calls \cup {Nobody}
    /\ window \in Seq(Ages)
    /\ used \in 0 .. Rpd
    /\ requests \in Seq(Ages)

\* A new client.  Other runs may have used a part of the day's requests.
Init ==
    /\ pc = [c \in Calls |-> "new"]
    /\ tries = [c \in Calls |-> 0]
    /\ wait = [c \in Calls |-> 0]
    /\ calls = 0
    /\ spent = 0
    /\ slots = Concurrency
    /\ lock = Nobody
    /\ window = <<>>
    /\ used \in 0 .. Rpd
    /\ requests = <<>>
-----------------------------------------------------------------------------
At(c, point)   == pc[c] = point
Goto(c, point) == pc' = [pc EXCEPT ![c] = point]

HasLock_Dropped(c) == FALSE
HasLock(c) == pc[c] \in InLock

HasSlot(c) == pc[c] \in InSlot

\* Leaving the two `async with` blocks, by a result or by an exception.
Unlock(c) == lock' = IF HasLock(c) THEN Nobody ELSE lock
Leave(c, point) ==
    /\ Goto(c, point)
    /\ slots' = IF HasSlot(c) THEN slots + 1 ELSE slots
    /\ Unlock(c)
-----------------------------------------------------------------------------
(* One call, from the cache and the budget to the answer *)

\* LLM_CACHE: an earlier call, of this run or another, left the same answer on
\* disk; nothing is reserved, sent or accounted.
CacheHit(c) ==
    /\ At(c, "new")
    /\ Goto(c, "answered")
    /\ UNCHANGED <<tries, wait, budget, slots, limiter, requests>>

WithinBudget == calls < MaxCalls /\ spent < MaxSpend

\* check_usd and reserve_call: refuse the call, or count it before it is sent.
ReserveCall(c) ==
    /\ At(c, "new")
    /\ IF WithinBudget
       THEN calls' = calls + 1 /\ Goto(c, "semaphore")
       ELSE UNCHANGED calls /\ Goto(c, "failed")
    /\ UNCHANGED <<tries, wait, spent, slots, limiter, requests>>

EnterSemaphore(c) ==
    /\ At(c, "semaphore")
    /\ slots > 0
    /\ slots' = slots - 1
    /\ Goto(c, "lock")
    /\ UNCHANGED <<tries, wait, budget, limiter, requests>>

TakeLock(c) ==
    /\ At(c, "lock")
    /\ lock = Nobody
    /\ lock' = c
    /\ Goto(c, "window")
    /\ UNCHANGED <<tries, wait, budget, slots, window, used, requests>>

Old_Early(age) == age >= Window - 1
Old(age) == age >= Window

HasRoom(w) == Len(w) < Rpm

\* k is how many requests at the head of the deque are too old to count.
IsExpired(k, w) ==
    /\ \A i \in 1 .. k : Old(w[i])
    /\ k < Len(w) => ~Old(w[k + 1])

\* One turn of acquire's loop: drop what expired, then go on, or sleep until
\* the oldest request expires and look again.
CheckWindow(c) ==
    /\ At(c, "window")
    /\ wait[c] = 0
    /\ \E k \in 0 .. Len(window) :
        /\ IsExpired(k, window)
        /\ window' = SubSeq(window, k + 1, Len(window))
    /\ IF HasRoom(window')
       THEN Goto(c, "quota") /\ UNCHANGED wait
       ELSE wait' = [wait EXCEPT ![c] = Window - window'[1]] /\ UNCHANGED pc
    /\ UNCHANGED <<tries, budget, slots, lock, used, requests>>

CountRequest_First(c) == IF tries[c] = 0 THEN used + 1 ELSE used
CountRequest(c) == used + 1

\* reserve_request finds room in the day, the window records the request and
\* the provider is called, without an await in between.
SendRequest(c) ==
    /\ At(c, "quota")
    /\ used < Rpd
    /\ used' = CountRequest(c)
    /\ window' = Append(window, 0)
    /\ requests' = Append(requests, 0)
    /\ Unlock(c)
    /\ Goto(c, "provider")
    /\ UNCHANGED <<tries, wait, budget, slots>>

\* The day is used up (QuotaExhausted), or the quota file cannot be written.
QuotaRaises(c) ==
    /\ At(c, "quota")
    /\ Leave(c, "failed")
    /\ UNCHANGED <<tries, wait, budget, window, used, requests>>

\* The answer is accounted before anything else runs; a blocked completion is
\* an answer that may have cost nothing (_account).
Account == \E usage \in 0 .. MaxUsage : spent' = spent + usage

Answer(c) ==
    /\ At(c, "provider")
    /\ Leave(c, "answered")
    /\ Account
    /\ UNCHANGED <<tries, wait, calls, window, used, requests>>

\* The vectors have another dimension than EMBEDDING_DIM, or the quota file or
\* the cache cannot be written: the call fails, and has been paid for.
UnusableAnswer(c) ==
    /\ At(c, "provider")
    /\ Leave(c, "failed")
    /\ Account
    /\ UNCHANGED <<tries, wait, calls, window, used, requests>>

\* What the provider raises, and the error the client makes of it (classify).
\* retryAfter is 0 where the provider announces none.
ProviderErrors ==
    [status : {"429", "5xx or timeout", "other"}, perDay : BOOLEAN,
     retryAfter : 0 .. MaxDelay + 1]

IsTransient(error) ==
    \/ error.status = "429" /\ ~error.perDay
    \/ error.status = "5xx or timeout"

\* What with_backoff does not wait for.
TooLong(error) == error.retryAfter > MaxDelay

LastTry(c) == tries[c] = MaxRetries

Retries(c, error) == IsTransient(error) /\ ~LastTry(c) /\ ~TooLong(error)

ProviderBusy_FreesSlot(c) ==
    /\ At(c, "provider")
    /\ ~LastTry(c)
    /\ tries' = [tries EXCEPT ![c] = @ + 1]
    /\ slots' = slots + 1
    /\ Goto(c, "backoff")
    /\ UNCHANGED <<wait, budget, limiter, requests>>

\* Sleep, in the slot, a random time and the Retry-After at least, and try
\* again.
ProviderBusy(c) ==
    /\ At(c, "provider")
    /\ \E error \in ProviderErrors :
        /\ Retries(c, error)
        /\ \E delay \in error.retryAfter .. MaxDelay :
            wait' = [wait EXCEPT ![c] = delay]
    /\ tries' = [tries EXCEPT ![c] = @ + 1]
    /\ Goto(c, "backoff")
    /\ UNCHANGED <<budget, slots, limiter, requests>>

\* The last transient error, a Retry-After that is too long, any other error.
ProviderFails(c) ==
    /\ At(c, "provider")
    /\ \E error \in ProviderErrors : ~Retries(c, error)
    /\ Leave(c, "failed")
    /\ UNCHANGED <<tries, wait, budget, window, used, requests>>

TryAgain(c) ==
    /\ At(c, "backoff")
    /\ wait[c] = 0
    /\ Goto(c, "lock")
    /\ UNCHANGED <<tries, wait, budget, slots, limiter, requests>>

\* The task is cancelled where it awaits (not between the window's check and
\* the request, where it does not await).
Cancel(c) ==
    /\ \/ pc[c] \in {"semaphore", "lock", "provider", "backoff"}
       \/ At(c, "window") /\ wait[c] > 0
    /\ Leave(c, "failed")
    /\ wait' = [wait EXCEPT ![c] = 0]
    /\ UNCHANGED <<tries, budget, window, used, requests>>

Older(ages) ==
    [i \in DOMAIN ages |-> IF ages[i] = Window THEN Window ELSE ages[i] + 1]

\* Time passes, in the middle of a step without awaits too.
Tick ==
    /\ window' = Older(window)
    /\ requests' = Older(requests)
    /\ wait' = [c \in Calls |-> IF wait[c] = 0 THEN 0 ELSE wait[c] - 1]
    /\ UNCHANGED <<pc, tries, budget, slots, lock, used>>
-----------------------------------------------------------------------------
\* What a call does, once begun, until it ends.
Proceed(c) ==
    \/ EnterSemaphore(c) \/ TakeLock(c) \/ CheckWindow(c)
    \/ SendRequest(c) \/ QuotaRaises(c)
    \/ Answer(c) \/ UnusableAnswer(c)
    \/ ProviderBusy(c) \/ ProviderFails(c) \/ TryAgain(c)

CallStep(c) == CacheHit(c) \/ ReserveCall(c) \/ Proceed(c) \/ Cancel(c)

Next == Tick \/ \E c \in Calls : CallStep(c)

Spec == Init /\ [][Next]_vars

\* The event loop runs what can run, the provider answers or times out, and
\* time passes.  Nobody has to begin a call, and nobody has to cancel one.
FairSpec == Spec /\ WF_vars(Tick) /\ \A c \in Calls : WF_vars(Proceed(c))
-----------------------------------------------------------------------------
(* Properties *)

\* LLM_RPM: all but the last Rpm requests were sent at least a minute ago,
\* whatever waited, was retried or was cancelled in between.  The window is
\* pruned lazily, and read before a sleep and after it.
RpmHolds == \A i \in 1 .. Len(requests) - Rpm : requests[i] = Window

\* LLM_RPD: every request counts against the day, retries included.
RequestsCounted == Len(requests) <= used

\* LLM_MAX_CONCURRENCY: never more requests at the provider at once, although
\* a call keeps its slot while it sleeps and gives it back on seven paths.
ConcurrencyHolds ==
    Cardinality({c \in Calls : At(c, "provider")}) <= Concurrency

\* The budget of calls bounds the requests: a reserved call, and nobody else,
\* sends at most MaxRetries + 1 of them.
RequestsBounded == Len(requests) <= calls * (MaxRetries + 1)

\* A request is never free, of the day or of the run.
RequestsHold == RequestsCounted /\ RequestsBounded

\* A call that began ends: no slot and no lock is leaked, nobody sleeps for
\* ever, and the calls do not wait for each other.
EveryCallEnds ==
    \A c \in Calls : ~At(c, "new") ~> pc[c] \in {"answered", "failed"}

-----------------------------------------------------------------------------
(* The inductive invariant of the proofs *)

Holders == {c \in Calls : pc[c] \in InSlot}

\* The semaphore's value and the calls inside it make up its capacity.
SlotsBalance == slots + Cardinality(Holders) = Concurrency

\* The lock is held by the one call that is inside it.
LockIsHeld == \A c \in Calls : HasLock(c) <=> lock = c

\* The window never has more than Rpm entries, and it has room for the request
\* of a call that found room.
WindowHasRoom ==
    /\ Len(window) <= Rpm
    /\ \A c \in Calls : At(c, "quota") => HasRoom(window)

\* The window is the tail of the requests, and what it dropped is old.
WindowIsTail ==
    LET dropped == Len(requests) - Len(window) IN
    /\ dropped >= 0
    /\ \A i \in 1 .. Len(window) : window[i] = requests[dropped + i]
    /\ \A i \in 1 .. dropped : requests[i] = Window

IInv ==
    /\ TypeOK
    /\ SlotsBalance
    /\ LockIsHeld
    /\ WindowHasRoom
    /\ WindowIsTail
    /\ RequestsCounted
=============================================================================
