----------------------------- MODULE Regression -----------------------------
(***************************************************************************)
(* compare_runs (core's stats/regression.py and significance.py): whether  *)
(* a candidate run is worse than its baseline.  A one-sided Fisher exact   *)
(* test per shared case, a step-down over the cases that leaves out those  *)
(* that could never be significant (Tarone, Holm), a sign-flip test over   *)
(* the suite, and a minimal drop.                                          *)
(*                                                                         *)
(* The code's p-values are exact fractions, and so are these: every case   *)
(* has Runs attempts in both runs, so all of Fisher's have the denominator *)
(* Tables and are natural numbers here.  The means, latencies and costs    *)
(* that decide nothing are left out, and so is the Monte Carlo fallback of *)
(* the sign-flip test, which needs more than 20 changed cases.             *)
(*                                                                         *)
(* How much the verdict may err is StatisticsConfig's (core's suite): the  *)
(* suite's `statistics` block and the flags of the command line.           *)
(***************************************************************************)
EXTENDS Integers, Sequences, FiniteSets, FiniteSetsExt, Sorting

CONSTANTS
    NumCases,   \* bound: cases that both runs share
    Runs,       \* attempts per case in each run
    Alphas,     \* budgets that a suite or a flag asks for, fractions <<n, d>>
    CaseShares, \* shares of the per-case family that a suite sets
    SuiteShares,\* shares of the suite test that a suite sets
    MinDrop     \* StatisticsConfig.min_drop, in passes per case

ASSUME Parameters ==
    /\ NumCases \in Nat
    /\ Runs \in Nat \ {0}
    /\ \A alpha \in Alphas \cup CaseShares \cup SuiteShares :
          alpha \in Nat \X Nat /\ 0 < alpha[1] /\ alpha[1] < alpha[2]
    /\ MinDrop \in Nat \ {0}

VARIABLES
    config,     \* StatisticsConfig of the suite, or of the flags on top of it
    totals,     \* passes of each shared case over both runs
    after,      \* passes of each shared case in the candidate
    report      \* what compare_runs says

vars == <<config, totals, after, report>>
-----------------------------------------------------------------------------
(* StatisticsConfig *)

Unset   == <<>>
Unread  == [alpha |-> "unread"]
Refused == [alpha |-> "refused"]    \* SuiteParseError, or ConfigError

Blocks ==
    [alpha : Alphas, alpha_cases : CaseShares \cup {Unset},
     alpha_suite : SuiteShares \cup {Unset}]

Half(alpha) == <<alpha[1], 2 * alpha[2]>>

\* A share that nobody set is half of the budget.
CasesShare(c) == IF c.alpha_cases = Unset THEN Half(c.alpha) ELSE c.alpha_cases
SuiteShare(c) == IF c.alpha_suite = Unset THEN Half(c.alpha) ELSE c.alpha_suite

WithinBudget(c) ==
    LET a == CasesShare(c)  b == SuiteShare(c) IN
    (a[1] * b[2] + b[1] * a[2]) * c.alpha[2] <= c.alpha[1] * a[2] * b[2]

\* The flags change alpha; shares have none, and stay as the suite set them.
Overridden_Unvalidated(c, alpha) == [c EXCEPT !.alpha = alpha]
Overridden(c, alpha) ==
    LET given == [c EXCEPT !.alpha = alpha] IN
    IF WithinBudget(given) THEN given ELSE Refused

CasesAlpha == CasesShare(config)
SuiteAlpha == SuiteShare(config)
-----------------------------------------------------------------------------
(* Fisher's exact test *)

Sum(f)     == MapThenSumSet(LAMBDA x : f[x], DOMAIN f)
Product(f) == FoldSet(LAMBDA x, a : f[x] * a, 1, DOMAIN f)

Choose[n \in 0 .. 2 * Runs] ==
    [k \in 0 .. 2 * Runs |->
        IF k = 0 THEN 1 ELSE IF n = 0 THEN 0
        ELSE Choose[n - 1][k - 1] + Choose[n - 1][k]]

Tables == Choose[2 * Runs][Runs]

\* How many of the Tables have x of a case's total passes in the candidate.
Weight[total \in 0 .. 2 * Runs] ==
    [x \in 0 .. Runs |->
        Choose[total][x] * Choose[2 * Runs - total][Runs - x]]

Support[total \in 0 .. 2 * Runs] == {x \in 0 .. Runs : Weight[total][x] > 0}

PWorse[total \in 0 .. 2 * Runs] ==
    [x \in 0 .. Runs |-> Sum([y \in 0 .. x |-> Weight[total][y]])]
PBetter[total \in 0 .. 2 * Runs] ==
    [x \in 0 .. Runs |-> Sum([y \in x .. Runs |-> Weight[total][y]])]
MinWorse[total \in 0 .. 2 * Runs]  == Weight[total][Min(Support[total])]
MinBetter[total \in 0 .. 2 * Runs] == Weight[total][Max(Support[total])]
-----------------------------------------------------------------------------
(* Tarone and Holm's step-down, over hypotheses with p-values p and smallest *)
(* attainable p-values m (sequences)                                         *)

\* value <= alpha / k
AtMost(value, alpha, k) == value * alpha[2] * k <= alpha[1] * Tables

\* bisect_right: the hypotheses of S that can reach alpha / k.
CanReach(m, S, alpha, k) ==
    Cardinality({i \in S : AtMost(m[i], alpha, k)})

\* _tarone_family_size, by binary search between 1 and the size of S.
FamilySize(m, S, alpha) ==
    LET Search[low \in 1 .. NumCases + 1] ==
            [high \in 1 .. NumCases + 1 |->
                IF low >= high THEN low
                ELSE LET middle == (low + high) \div 2 IN
                     IF CanReach(m, S, alpha, middle) <= middle
                     THEN Search[low][middle] ELSE Search[middle + 1][high]]
    IN Search[1][Max({1, Cardinality(S)})]

\* By p-value; ties keep the order of the input.
Order(p) ==
    Ordered(DOMAIN p, {q \in (DOMAIN p) \X (DOMAIN p) :
                          p[q[1]] < p[q[2]] \/ (p[q[1]] = p[q[2]] /\ q[1] < q[2])})

\* At each step the family is what has not been rejected yet; the first p-value
\* above alpha / K ends it.
Holds_WholeFamily(p, m, order, alpha, step) ==
    AtMost(p[order[step]], alpha, FamilySize(m, DOMAIN p, alpha))
Holds(p, m, order, alpha, step) ==
    LET rest == {order[i] : i \in step .. Len(order)} IN
    AtMost(p[order[step]], alpha, FamilySize(m, rest, alpha))

Rejected(p, m, order, alpha) ==
    {order[i] : i \in {j \in DOMAIN order :
                         \A s \in 1 .. j : Holds(p, m, order, alpha, s)}}
-----------------------------------------------------------------------------
(* The sign-flip test over the cases' deltas *)

\* How many sign assignments of the values, zeros dropped, give each sum.
SignedSums(values) ==
    LET Reach == -(NumCases * Runs) .. NumCases * Runs
        At(f, t) == IF t \in Reach THEN f[t] ELSE 0
        Counts[n \in 0 .. Len(values)] ==
            IF n = 0 THEN [t \in Reach |-> IF t = 0 THEN 1 ELSE 0]
            ELSE LET v == values[n] IN
                 [t \in Reach |-> At(Counts[n - 1], t - v) + At(Counts[n - 1], t + v)]
    IN Counts[Len(values)]

NonZero(deltas) ==
    LET kept  == {i \in DOMAIN deltas : deltas[i] # 0}
        order == Ordered(kept, {q \in kept \X kept : q[1] < q[2]})
    IN [k \in DOMAIN order |-> deltas[order[k]]]

\* Sums at most (at least) the observed one, out of 2 ^ Len(NonZero(deltas)).
FlipsWorse(deltas) ==
    LET counts == SignedSums(NonZero(deltas)) IN
    Sum([t \in {t \in DOMAIN counts : t <= Sum(deltas)} |-> counts[t]])
FlipsBetter(deltas) ==
    LET counts == SignedSums(NonZero(deltas)) IN
    Sum([t \in {t \in DOMAIN counts : t >= Sum(deltas)} |-> counts[t]])

SuiteSignificant(flips, deltas) ==
    flips * SuiteAlpha[2] <= SuiteAlpha[1] * 2 ^ Len(NonZero(deltas))
-----------------------------------------------------------------------------
(* compare_runs *)

Deltas(ks, xs) == [i \in DOMAIN ks |-> 2 * xs[i] - ks[i]]    \* after - before

\* compare_cases: two families, then the minimal drop.
Regressed(ks, xs) ==
    LET p == [i \in DOMAIN ks |-> PWorse[ks[i]][xs[i]]]
        m == [i \in DOMAIN ks |-> MinWorse[ks[i]]]
    IN {i \in Rejected(p, m, Order(p), CasesAlpha) : -Deltas(ks, xs)[i] >= MinDrop}

Improved(ks, xs) ==
    LET p == [i \in DOMAIN ks |-> PBetter[ks[i]][xs[i]]]
        m == [i \in DOMAIN ks |-> MinBetter[ks[i]]]
    IN {i \in Rejected(p, m, Order(p), CasesAlpha) : Deltas(ks, xs)[i] >= MinDrop}

SuiteRegressed(deltas) ==
    /\ deltas # <<>>
    /\ SuiteSignificant(FlipsWorse(deltas), deltas)
    /\ -Sum(deltas) >= MinDrop * Len(deltas)

SuiteImproved(deltas) ==
    /\ deltas # <<>>
    /\ SuiteSignificant(FlipsBetter(deltas), deltas)
    /\ Sum(deltas) >= MinDrop * Len(deltas)

Verdict(ks, xs) ==
    IF Regressed(ks, xs) # {} \/ SuiteRegressed(Deltas(ks, xs)) THEN "regression"
    ELSE IF Improved(ks, xs) # {} \/ SuiteImproved(Deltas(ks, xs)) THEN "improvement"
    ELSE "no_change"

\* CaseSummary.label, which the transitions of the report are about.
Label(passes) ==
    IF passes = Runs THEN "stable-pass" ELSE IF passes = 0 THEN "stable-fail" ELSE "flaky"

Became(label, ks, xs) ==
    {i \in DOMAIN ks : Label(xs[i]) = label /\ Label(ks[i] - xs[i]) # label}

NoReport == [verdict |-> "none"]

Report(ks, xs) ==
    [verdict       |-> Verdict(ks, xs),
     regressed     |-> Regressed(ks, xs),
     improved      |-> Improved(ks, xs),
     newly_failing |-> Became("stable-fail", ks, xs),
     newly_passing |-> Became("stable-pass", ks, xs),
     newly_flaky   |-> Became("flaky", ks, xs),
     no_longer_flaky |-> {i \in DOMAIN ks : Label(ks[i] - xs[i]) = "flaky" /\ Label(xs[i]) # "flaky"}]

\* The candidate's passes are drawn after the totals, as the tests see them:
\* given the totals, any of the Tables of a case is equally likely when
\* nothing has changed.
Init ==
    /\ config = Unread
    /\ totals \in UNION {[1 .. n -> 0 .. 2 * Runs] : n \in 0 .. NumCases}
    /\ after = <<>>
    /\ report = NoReport

Outcomes(ks) ==
    {xs \in [DOMAIN ks -> 0 .. Runs] : \A i \in DOMAIN ks : xs[i] \in Support[ks[i]]}

\* parse_suite_yaml: a suite, or the issues found in the file.  Other issues
\* than an overspent budget are the choice of Refused.
ParseSuite ==
    /\ config = Unread
    /\ config' \in {c \in Blocks : WithinBudget(c)} \cup {Refused}
    /\ UNCHANGED <<totals, after, report>>

\* The flags of `run`, and again those of `compare` on the run that it saved.
OverrideStatistics ==
    /\ config \in Blocks /\ report = NoReport
    /\ \E alpha \in Alphas : config' = Overridden(config, alpha)
    /\ UNCHANGED <<totals, after, report>>

CompareRuns ==
    /\ config \in Blocks /\ report = NoReport
    /\ \E xs \in Outcomes(totals) : after' = xs /\ report' = Report(totals, xs)
    /\ UNCHANGED <<config, totals>>

Next == ParseSuite \/ OverrideStatistics \/ CompareRuns

Spec == Init /\ [][Next]_vars
-----------------------------------------------------------------------------
(* Properties *)

\* Of the tables that the totals allow, how many are of these outcomes.
Likelihood(ks, xs)   == Product([i \in DOMAIN ks |-> Weight[ks[i]][xs[i]]])
Chance(ks, outcomes) == Sum([xs \in outcomes |-> Likelihood(ks, xs)])

Flagged(ks) == {xs \in Outcomes(ks) : Regressed(ks, xs) # {}}
Alarmed(ks) == {xs \in Outcomes(ks) : Verdict(ks, xs) = "regression"}

\* significance.py, regression.py, schema.py: when nothing has changed, the
\* verdict is a regression with at most the alpha of the suite or of the flag
\* given last, however its shares were set and overridden, and the per-case
\* family flags some case with at most its share.  Checked exactly, over every
\* table the totals allow, whatever the totals are; the boundary cases
\* p = alpha / K and the ties of equal p-values are among them.  Totals in
\* increasing order are enough: by TestsAreExact the order decides nothing.
FalseAlarmsBounded ==
    /\ config \in Blocks /\ report = NoReport
    /\ \A i, j \in DOMAIN totals : i < j => totals[i] <= totals[j]
    =>  LET all == Product([i \in DOMAIN totals |-> Tables]) IN
        /\ Chance(totals, Flagged(totals)) * CasesAlpha[2] <= CasesAlpha[1] * all
        /\ Chance(totals, Alarmed(totals)) * config.alpha[2] <= config.alpha[1] * all

\* Holm's procedure without Tarone's modification: alpha / hypotheses left.
HolmRejected(p, order) ==
    {order[i] : i \in {j \in DOMAIN order :
        \A s \in 1 .. j : AtMost(p[order[s]], CasesAlpha, Len(order) - s + 1)}}

\* The step-down rejects whatever Holm's rejects; ties are rejected together,
\* so the order of the cases in the suite decides nothing; a case that could
\* never be significant takes nothing from the others; the binary search finds
\* the family size that ADR 0014 defines.
StepDownIsSound ==
    report # NoReport =>
        LET n == Len(totals)
            p == [i \in 1 .. n |-> PWorse[totals[i]][after[i]]]
            m == [i \in 1 .. n |-> MinWorse[totals[i]]]
            rejected == Rejected(p, m, Order(p), CasesAlpha)
            backwards == Ordered(1 .. n, {q \in (1 .. n) \X (1 .. n) :
                             p[q[1]] < p[q[2]] \/ (p[q[1]] = p[q[2]] /\ q[1] > q[2])})
            possible == {i \in 1 .. n : m[i] < Tables}
        IN /\ HolmRejected(p, Order(p)) \subseteq rejected
           /\ Rejected(p, m, backwards, CasesAlpha) = rejected
           /\ rejected = Rejected(p, m, Order([i \in possible |-> p[i]]), CasesAlpha)
           /\ \A S \in SUBSET (1 .. n) :
                FamilySize(m, S, CasesAlpha) =
                    Min({k \in 1 .. n + 1 : CanReach(m, S, CasesAlpha, k) <= k})

\* The counts of the sign-flip test are those of an enumeration of all signs,
\* zeros included; no run is both worse and better; a flagged case counts.
SuiteTestIsExact ==
    report # NoReport =>
        LET deltas == Deltas(totals, after)
            signs  == [DOMAIN deltas -> {-1, 1}]
            Flipped(s) == Sum([i \in DOMAIN deltas |-> s[i] * deltas[i]])
            zeros  == Len(deltas) - Len(NonZero(deltas))
        IN /\ FlipsWorse(deltas) * 2 ^ zeros
                = Cardinality({s \in signs : Flipped(s) <= Sum(deltas)})
           /\ FlipsBetter(deltas) * 2 ^ zeros
                = Cardinality({s \in signs : Flipped(s) >= Sum(deltas)})
           /\ report.regressed \cap report.improved = {}
           /\ ~(SuiteRegressed(deltas) /\ SuiteImproved(deltas))

\* ADR 0014 and significance.py: what the procedures compute is what they are
\* defined to be, on every comparison, ties and thresholds included.
TestsAreExact == StepDownIsSound /\ SuiteTestIsExact
=============================================================================
