----------------------------- MODULE Clustering -----------------------------
(***************************************************************************)
(* matching/clustering.cluster_vectors: union-find with path halving over  *)
(* the pairs of phrases, then the groups by root.  A step is one turn of   *)
(* one of its loops.  Vectors are reduced to the pairs whose similarity    *)
(* meets the threshold.                                                    *)
(***************************************************************************)
EXTENDS Naturals

CONSTANT Phrases    \* number of phrases

ASSUME PhrasesAssumption == Phrases \in Nat

VARIABLES
    similar,    \* pairs <<i, j>>, i < j, above the threshold
    parent,     \* the forest
    stage,      \* the loop at work: "pairs", "groups", or a _find for one of them
    pair,       \* the pair at work
    index,      \* the phrase being put into its group
    node,       \* where _find is
    rootI,      \* the root of the first of the pair
    groups      \* by root

clusteringVars == <<similar, parent, stage, pair, index, node, rootI, groups>>

Indices == 1..Phrases
Pairs == {p \in Indices \X Indices : p[1] < p[2]}

\* np.triu_indices(n, k=1): row by row.
NextPair(p) ==
    IF p[2] < Phrases THEN <<p[1], p[2] + 1>> ELSE <<p[1] + 1, p[1] + 2>>

PairsDone == pair[2] > Phrases

ClusteringInit ==
    /\ similar \in SUBSET Pairs
    /\ parent = [i \in Indices |-> i]
    /\ stage = "pairs" /\ pair = <<1, 2>> /\ index = 1
    /\ node = 0 /\ rootI = 0
    /\ groups = [i \in Indices |-> {}]

-----------------------------------------------------------------------------
(***************************************************************************)
(* _find                                                                   *)
(***************************************************************************)
Finding == stage \in {"findI", "findJ", "findGroup"}
Found(s) == stage = s /\ parent[node] = node

Find(start, s) == node' = start /\ stage' = s

\* The path is halved on the way up.
Halve ==
    /\ Finding /\ parent[node] # node
    /\ node' = parent[parent[node]]
    /\ parent' = [parent EXCEPT ![node] = parent[parent[node]]]
    /\ UNCHANGED <<similar, stage, pair, index, rootI, groups>>

-----------------------------------------------------------------------------
(***************************************************************************)
(* The pairs                                                               *)
(***************************************************************************)
VisitPair ==
    /\ stage = "pairs" /\ ~PairsDone
    /\ IF pair \in similar THEN Find(pair[1], "findI") /\ UNCHANGED pair
       ELSE pair' = NextPair(pair) /\ UNCHANGED <<node, stage>>
    /\ UNCHANGED <<similar, parent, index, rootI, groups>>

FoundI ==
    /\ Found("findI")
    /\ rootI' = node
    /\ Find(pair[2], "findJ")
    /\ UNCHANGED <<similar, parent, pair, index, groups>>

\* Mutant: the phrase is linked, not its root.
UnitedAtPhrase(j) == [parent EXCEPT ![pair[1]] = j]

\* The root of i below that of j.
United(j) == [parent EXCEPT ![rootI] = j]

FoundJ ==
    /\ Found("findJ")
    /\ parent' = IF rootI # node THEN United(node) ELSE parent
    /\ stage' = "pairs" /\ pair' = NextPair(pair)
    /\ UNCHANGED <<similar, index, node, rootI, groups>>

-----------------------------------------------------------------------------
(***************************************************************************)
(* The groups                                                              *)
(***************************************************************************)
VisitPhrase ==
    /\ \/ stage = "pairs" /\ PairsDone
       \/ stage = "groups"
    /\ index \in Indices
    /\ Find(index, "findGroup")
    /\ UNCHANGED <<similar, parent, pair, index, rootI, groups>>

FoundGroup ==
    /\ Found("findGroup")
    /\ groups' = [groups EXCEPT ![node] = @ \cup {index}]
    /\ index' = index + 1 /\ stage' = "groups"
    /\ UNCHANGED <<similar, parent, pair, node, rootI>>

ClusteringNext ==
    Halve \/ VisitPair \/ FoundI \/ FoundJ \/ VisitPhrase \/ FoundGroup

ClusteringSpec == ClusteringInit /\ [][ClusteringNext]_clusteringVars

Returned == PairsDone /\ stage \in {"pairs", "groups"} /\ index \notin Indices
Clusters == {groups[r] : r \in Indices} \ {{}}

-----------------------------------------------------------------------------
\* j is in every set that has i and does not part two similar phrases.
Linked(pairs, i, j) ==
    \A S \in SUBSET Indices :
        i \in S /\ (\A p \in pairs : p[1] \in S <=> p[2] \in S) => j \in S

\* The docstring's single linkage: two phrases end in one cluster exactly when
\* a chain of similar phrases leads from one to the other, in whatever order
\* the pairs come and however the paths were halved.
ClustersAreComponents ==
    Returned => Clusters = {{j \in Indices : Linked(similar, i, j)} : i \in Indices}
=============================================================================
