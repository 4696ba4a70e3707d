--------------------------- MODULE FailureClusters ---------------------------
(***************************************************************************)
(* Failure clustering (core's findings.py, called by the API's             *)
(* findings.py): the failing outputs of a run are grouped by single        *)
(* linkage, one merge per step, on a matrix of distances that shrinks with *)
(* the clusters.  An embedding is only what its distances to the others    *)
(* are; the wording of labels and summaries is left out.                   *)
(***************************************************************************)
EXTENDS Naturals, Sequences, FiniteSets, FiniteSetsExt, SequencesExt

CONSTANTS
    NumOutputs, \* bound: failing outputs of the run
    Distances,  \* the distances two outputs may have
    Threshold   \* DEFAULT_DISTANCE_THRESHOLD

VARIABLES
    distance,   \* cosine_distance of each pair of outputs
    clusters,   \* the clusters so far: sequences of indices of outputs
    gap,        \* distance of each pair of clusters; shrinks with them
    findings    \* one set of members per finding, or Unknown while clustering

clusterVars == <<distance, clusters, gap, findings>>

Unknown == {{}}     \* no finding is empty

Pairs(n) == {p \in (1 .. n) \X (1 .. n) : p[1] < p[2]}

\* cosine_distance is symmetric; the diagonal of the matrix is 0.
Matrix(d, n) ==
    [i \in 1 .. n |-> [j \in 1 .. n |->
        IF i = j THEN 0 ELSE IF i < j THEN d[<<i, j>>] ELSE d[<<j, i>>]]]

Init ==
    \E n \in 0 .. NumOutputs :
        /\ distance \in {Matrix(d, n) : d \in [Pairs(n) -> Distances]}
        /\ clusters = [i \in 1 .. n |-> <<i>>]
        /\ gap = distance
        /\ findings = Unknown

\* min() of the (gap, i, j) tuples: the nearest pair, ties by lowest indices.
Nearest ==
    CHOOSE p \in Pairs(Len(clusters)) : \A q \in Pairs(Len(clusters)) :
        \/ gap[p[1]][p[2]] < gap[q[1]][q[2]]
        \/ /\ gap[p[1]][p[2]] = gap[q[1]][q[2]]
           /\ p[1] < q[1] \/ (p[1] = q[1] /\ p[2] <= q[2])

\* gap[i][k] = gap[k][i] = min(gap[i][k], gap[j][k]), before row and column j go.
Joined_RowOnly(i, j) ==
    [gap EXCEPT ![i] = [k \in DOMAIN gap |-> Min({gap[i][k], gap[j][k]})]]
Joined(i, j) ==
    LET n == DOMAIN gap
        Closer(k) == Min({gap[i][k], gap[j][k]})
    IN [a \in n |-> [b \in n |->
           IF a = i THEN Closer(b) ELSE IF b = i THEN Closer(a) ELSE gap[a][b]]]

Without(matrix, j) ==
    LET rows == RemoveAt(matrix, j) IN [a \in DOMAIN rows |-> RemoveAt(rows[a], j)]

Merge ==
    /\ findings = Unknown
    /\ Len(clusters) > 1
    /\ LET i == Nearest[1]
           j == Nearest[2]
       IN /\ gap[i][j] <= Threshold
          /\ clusters' = RemoveAt([clusters EXCEPT ![i] = @ \o clusters[j]], j)
          /\ gap' = Without(Joined(i, j), j)
    /\ UNCHANGED <<distance, findings>>

\* cluster_run replaces the run's findings, in the transaction that read them.
Finish ==
    /\ findings = Unknown
    /\ Len(clusters) > 1 => gap[Nearest[1]][Nearest[2]] > Threshold
    /\ findings' = {ToSet(clusters[c]) : c \in DOMAIN clusters}
    /\ UNCHANGED <<distance, clusters, gap>>

Next == Merge \/ Finish

Spec == Init /\ [][Next]_clusterVars
-----------------------------------------------------------------------------
(* Properties *)

All == DOMAIN distance

Closed(S) == \A a \in S, b \in All : distance[a][b] <= Threshold => b \in S

\* Outputs joined by a chain of pairs at most Threshold apart: the least set
\* with o that is left by no such pair.
Reached(o) == {b \in All : \A S \in SUBSET All : o \in S /\ Closed(S) => b \in S}

\* findings.py: the shrinking matrix always holds the smallest distance of any
\* two members of the two clusters, whatever was merged and renumbered before,
\* and every output is in exactly one cluster; so the findings are exactly the
\* chains of outputs within the threshold, and no tie or order of merging
\* changes them.
FindingsAreChains ==
    /\ \A i, j \in DOMAIN clusters : i # j =>
          gap[i][j] = Min({distance[a][b] : a \in ToSet(clusters[i]), b \in ToSet(clusters[j])})
    /\ \A o \in All : Cardinality({c \in DOMAIN clusters : o \in ToSet(clusters[c])}) = 1
    /\ findings # Unknown => findings = {Reached(o) : o \in All}
=============================================================================
