----------------------------- MODULE MCWorkspace -----------------------------
(***************************************************************************)
(* What the API does before and around a run, checked in one instance:     *)
(* the requests on an account's suites, agents and runs (Workspace), who   *)
(* may make which (Access), how often (TokenBucket), and what each is      *)
(* answered (Request).  The four share no state: every behaviour is of one *)
(* part, and the others stay as they are.  Requests are interchangeable;   *)
(* all are served at a time in Workspace, and two in Access.               *)
(***************************************************************************)
EXTENDS Workspace, TLC

CONSTANTS
    Second, Other, AccessOpen, Slots, SignupCap, ProjectCap,    \* Access
    Clients, Limit, Window, TicksPerSecond, MaxBuckets,         \* TokenBucket
    Cap, MaxBody                                                \* Request

ASSUME PartsAssumption ==
    /\ {Second, Other, None} \cap Requests = {}
    /\ First # Second /\ First # Other /\ None \notin {Second, Other}
    /\ AccessOpen \in Nat \ {0} /\ SignupCap \in Nat /\ ProjectCap \in Nat \ {0, 1}
    /\ Limit \in Nat \ {0} /\ Window \in Nat \ {0} /\ TicksPerSecond \in Nat \ {0}
    /\ Cap \in Nat /\ MaxBody \in Nat

VARIABLES
    part,                                                       \* the part this behaviour is of
    accounts, sessions, projects, keys, tokens, links, calls,   \* Access
    backend, buckets, level, promise,                           \* TokenBucket
    request, at, received, pending, stored, lost,               \* Request
    response, status, sent, logged

A == INSTANCE Access
        WITH MaxOpen <- AccessOpen, req <- calls

B == INSTANCE TokenBucket WITH Second <- TicksPerSecond

R == INSTANCE Request

accessVars == <<accounts, sessions, projects, keys, tokens, links, calls>>
bucketVars == <<backend, buckets, level, promise>>
requestVars ==
    <<request, at, received, pending, stored, lost, response, status, sent, logged>>

Symmetry == Permutations(Requests)

MCInit ==
    /\ part \in {"workspace", "access", "bucket", "request"}
    /\ Init /\ A!Init
    /\ B!Init /\ (part # "bucket" => backend = "memory")
    /\ R!Init /\ (part # "request" => request = [body |-> 0, declared |-> 0])

MCNext ==
    \/ part = "workspace" /\ Next /\ UNCHANGED <<part, accessVars, bucketVars, requestVars>>
    \/ part = "access" /\ A!Next /\ UNCHANGED <<part, vars, bucketVars, requestVars>>
    \/ part = "bucket" /\ B!Next /\ UNCHANGED <<part, vars, accessVars, requestVars>>
    \/ part = "request" /\ R!Next /\ UNCHANGED <<part, vars, accessVars, bucketVars>>

MCSpec == MCInit /\ [][MCNext]_<<part, vars, accessVars, bucketVars, requestVars>>

\* Who is answered, and until when (Access).
OnlyOwnersAreAnswered == A!OnlyOwnersAreAnswered
RevokedIsOver         == A!RevokedIsOver

\* No quota of limits.py, of an account or for one, is exceeded by more than the
\* requests served at that moment, and no account is made twice.
QuotasHold == CapOvershootBounded /\ A!AccountsHold

\* A client notices neither that idle buckets are dropped, nor a token missing
\* when it comes back as late as it was told to (TokenBucket).
LimiterIsFair == B!PrunedIsFull /\ B!RetryAfterIsEnough

\* The answer of a request, its log line and what it left in the database agree
\* (Request).
AnswersAreTrue == R!AnswersAreTrue
=============================================================================
