----------------------------- MODULE MCMatching -----------------------------
(***************************************************************************)
(* TLC instance of what a posting is read for: every input of Matching and *)
(* of Clustering up to a bound, the embedding cache, and the stored        *)
(* analyses of two tenants.  They share no state, so a behaviour moves     *)
(* only the one part names.  The bank has two atoms, in the order w1, w2.  *)
(***************************************************************************)
EXTENDS Matching, Clustering, PhraseCache, Corpus, TLC

CONSTANTS w1, w2, w3, Go, go, g1, g2
VARIABLE part

vars == <<matchingVars, clusteringVars, cacheVars, corpusVars, part>>

Words == {w1, w2, w3}
Aliases(name) == SUBSET (Words \ {name})
Atom(name, aliases, level, stale) ==
    [name |-> name, aliases |-> aliases, level |-> level, stale |-> stale]

Phrase(level, said) == [level |-> level, said |-> said]

\* A spelling occurs together with its words.
Spoken(said) == said \cup UNION {parts[s] : s \in said}

\* Texts that name W, with a qualifier before some of it.
Texts(W) == {{Phrase(0, Spoken(W)), Phrase(2, Spoken(Q))} : Q \in SUBSET W}

\* Every alias relation, so the ambiguous ones too; levels 0 to 2 stand for
\* none, basic and stronger.
MatchingInputs ==
    /\ bank \in {<<Atom(w1, a, p[1], p[2]), Atom(w2, b, 1, FALSE)>> :
                     a \in Aliases(w1), b \in Aliases(w2),
                     p \in {<<1, FALSE>>, <<2, FALSE>>, <<2, TRUE>>}}
    /\ deferred \in {<<>>, <<Atom(w2, {}, 1, FALSE)>>, <<Atom(w3, {}, 1, FALSE)>>}
    /\ vocabulary \in {<<>>, <<[name |-> w3, aliases |-> {}]>>}
    /\ live \in {{}, {w1}, {w2}, {w3}, {w1, w2}}
    /\ parts \in {[w \in Words |-> {}], [w \in Words |-> IF w = w3 THEN {w1} ELSE {}]}
    /\ posting \in UNION {Texts(W) : W \in {{w1, w3}, {w2, w3}}}
    /\ pasted \in {posting, {Phrase(0, {w2})}}
    /\ typos \in {{}, {w2}}

\* A posting that asks for nothing, or for one skill: in either spelling, in
\* either group, and on the CV or not.
MCReports ==
    {<<>>} \cup [Skills \X {Go} -> [tier : {"stale"}, group : {g1, g2}] \cup [tier : {"covered"}, group : {g1}]]
    \cup [Skills \X {go} -> [tier : {"stale"}, group : {g1}]]

NoMatching ==
    /\ bank = <<>> /\ deferred = <<>> /\ vocabulary = <<>>
    /\ live = {} /\ parts = <<>> /\ posting = {} /\ pasted = {} /\ typos = {}

NoClustering ==
    /\ similar = {} /\ parent = <<>> /\ stage = "pairs" /\ pair = <<0, 0>>
    /\ index = 0 /\ node = 0 /\ rootI = 0 /\ groups = <<>>

Init ==
    /\ PhraseCacheInit /\ CorpusInit
    /\ \/ part = "matching" /\ MatchingInputs /\ NoClustering
       \/ part = "clustering" /\ NoMatching /\ ClusteringInit
       \/ part \in {"cache", "corpus"} /\ NoMatching /\ NoClustering

Next ==
    /\ \/ /\ part = "clustering" /\ ClusteringNext
          /\ UNCHANGED <<cacheVars, corpusVars>>
       \/ /\ part = "cache" /\ PhraseCacheNext
          /\ UNCHANGED <<clusteringVars, corpusVars>>
       \/ /\ part = "corpus" /\ CorpusNext
          /\ UNCHANGED <<clusteringVars, cacheVars>>
    /\ UNCHANGED <<matchingVars, part>>

Spec == Init /\ [][Next]_vars

Symmetry ==
    Permutations(Tenants) \cup Permutations(Versions) \cup Permutations(Clusterers)
    \cup Permutations(PhraseTexts)
=============================================================================
