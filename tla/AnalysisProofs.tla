--------------------------- MODULE AnalysisProofs ---------------------------
(***************************************************************************)
(* Proofs about what is made of the corpus, for any tenants, versions,     *)
(* models and number of postings: the shared tables (Corpus), where the    *)
(* only role an instance serves under is the one the policies bind, the    *)
(* vectors that clustering reuses (PhraseCache), the two readings of a     *)
(* skill bank (Matching), and the clusters of phrases (Clustering).        *)
(***************************************************************************)
EXTENDS Corpus, PhraseCache, Matching, Clustering, FiniteSetTheorems,
        WellFoundedInduction, TLAPS

\* Only the application's role gets past the lifespan, and what is stored of an
\* analysis is filed under the version that made it.
CorpusInv ==
    /\ role \in [Versions -> {Down, AppRole}]
    /\ DOMAIN analyses \subseteq Nat \X Versions
    /\ \A k \in DOMAIN analyses : analyses[k] \in Reports
    /\ DOMAIN owner \subseteq Nat /\ madeIds \in Nat
    /\ work # NoWork => work.posting \in Nat /\ work.version \in Versions

LEMMA CorpusInitInv == CorpusInit => CorpusInv
BY DEF CorpusInit, CorpusInv

LEMMA CorpusNextInv == CorpusInv /\ [CorpusNext]_corpusVars => CorpusInv'
<1> SUFFICES ASSUME CorpusInv, [CorpusNext]_corpusVars PROVE CorpusInv'
  OBVIOUS
<1>1. ASSUME NEW v \in Versions, NEW r \in DbRoles, Boot(v, r) PROVE CorpusInv'
  BY <1>1 DEF Boot, RlsEnforced, CorpusInv
<1>2. ASSUME NEW t \in Tenants, NEW v \in Versions, StorePosting(t, v) PROVE CorpusInv'
  BY <1>2 DEF StorePosting, Stored, CorpusInv
<1>3. ASSUME NEW t \in Tenants, NEW v \in Versions, NEW p \in Stored,
             NEW op \in {"analyze", "cluster"}, ReadPosting(t, v, p, op)
      PROVE  CorpusInv'
  BY <1>3 DEF ReadPosting, Stored, CorpusInv
<1>4. ASSUME NEW t \in Tenants, NEW v \in Versions, NEW p \in Stored, DeletePosting(t, v, p)
      PROVE  CorpusInv'
  BY <1>4 DEF DeletePosting, Stored, CorpusInv
<1>5. ASSUME NEW report \in Reports, SaveAnalysis(report) PROVE CorpusInv'
  BY <1>5 DEF SaveAnalysis, SaveAllowed, CorpusInv
<1>6. CASE SaveClusters
  BY <1>6 DEF SaveClusters, CorpusInv
<1>7. CASE WorkFails
  BY <1>7 DEF WorkFails, CorpusInv
<1>8. CASE UNCHANGED corpusVars
  BY <1>8 DEF corpusVars, CorpusInv
<1>. QED  BY <1>1, <1>2, <1>3, <1>4, <1>5, <1>6, <1>7, <1>8 DEF CorpusNext

\* The invariant behind the theorems below.
THEOREM CorpusInvariance == CorpusSpec => []CorpusInv
BY CorpusInitInv, CorpusNextInv, PTL DEF CorpusSpec

-----------------------------------------------------------------------------
\* Nothing of one tenant is visible to another through any instance that came
\* up, whatever a deployment, a delete or a late save does in between.
THEOREM TenantsAreIsolated == CorpusSpec => []TenantsApart
<1>1. ASSUME CorpusInv, NEW t \in Tenants, NEW v \in Serving
      PROVE  Readable(t, v) \cup Reported(t, v) \cup VisibleClusters(t, v)
                \subseteq {p \in Stored : owner[p] = t}
  <2>1. role[v] = AppRole
    BY <1>1 DEF CorpusInv, Serving
  <2>2. Visible(t, v) = {p \in Stored : owner[p] = t}
    BY <2>1 DEF Visible
  <2>3. Readable(t, v) \subseteq Visible(t, v)
    BY DEF Readable
  <2>4. Reported(t, v) \subseteq Visible(t, v)
    BY DEF Reported, VisibleAnalyses
  <2>5. VisibleClusters(t, v) \subseteq Visible(t, v)
    BY DEF VisibleClusters
  <2>. QED  BY <2>2, <2>3, <2>4, <2>5
<1>2. CorpusInv => TenantsApart
  BY <1>1 DEF TenantsApart
<1>. QED  BY <1>2, CorpusInvariance, PTL

\* A row of the roadmap counts the postings of the drill-down whose reports show
\* the term so, and none the drill-down lists at a ranked tier is left out.
THEOREM RoadmapCounts == CorpusSpec => []RoadmapIsBacked
<1>1. ASSUME CorpusInv, NEW t \in Tenants, NEW v \in Serving, NEW row \in Roadmap(t, v)
      PROVE  LET backed == {p \in Mentioning(t, v, row.term) \cap Reported(t, v) :
                              /\ row.term \in DOMAIN analyses[<<p, v>>]
                              /\ analyses[<<p, v>>][row.term] = row.gap}
             IN  row.count = Cardinality(backed)
  <2>. DEFINE shown == {p \in Mentioning(t, v, row.term) \cap Reported(t, v) :
                          /\ row.term \in DOMAIN analyses[<<p, v>>]
                          /\ analyses[<<p, v>>][row.term] = row.gap}
              counted == Counted(t, v, row.term, row.gap)
  <2>1. row.count = Cardinality(counted)
    BY DEF Roadmap
  <2>2. \A k \in Analyzed(t, v) : k = <<k[1], v>>
    BY <1>1 DEF CorpusInv, Analyzed, VisibleAnalyses
  <2>3. ASSUME NEW p \in counted PROVE p \in shown
    <3>1. PICK k \in Analyzed(t, v) :
            /\ p = k[1] /\ row.term \in DOMAIN analyses[k]
            /\ analyses[k][row.term] = row.gap
      BY <2>3 DEF Counted
    <3>2. k = <<p, v>>
      BY <2>2, <3>1
    <3>3. p \in Mentioning(t, v, row.term)
      BY <3>1 DEF Mentioning
    <3>4. p \in Reported(t, v)
      BY <3>1, <3>2 DEF Reported, Analyzed, VisibleAnalyses, Visible
    <3>. QED  BY <3>1, <3>2, <3>3, <3>4
  <2>4. ASSUME NEW p \in shown PROVE p \in counted
    <3>1. PICK k \in Analyzed(t, v) : p = k[1]
      BY <2>4 DEF Mentioning
    <3>2. k = <<p, v>>
      BY <2>2, <3>1
    <3>. QED  BY <2>4, <3>1, <3>2 DEF Counted
  <2>5. counted = shown
    BY <2>3, <2>4
  <2>. QED  BY <2>1, <2>5
<1>2. ASSUME CorpusInv, NEW t \in Tenants, NEW v \in Serving, NEW term \in Terms,
             NEW p \in Mentioning(t, v, term)
      PROVE  /\ <<p, v>> \in DOMAIN analyses
             /\ term \in DOMAIN analyses[<<p, v>>] =>
                   \/ analyses[<<p, v>>][term].tier \notin RoadmapTiers
                   \/ \E row \in Roadmap(t, v) :
                         row.term = term /\ row.gap = analyses[<<p, v>>][term]
  <2>1. PICK k \in Analyzed(t, v) : p = k[1]
    BY <1>2 DEF Mentioning
  <2>2. k = <<p, v>> /\ k \in DOMAIN analyses
    BY <1>2, <2>1 DEF CorpusInv, Analyzed, VisibleAnalyses
  <2>3. ASSUME term \in DOMAIN analyses[k], analyses[k][term].tier \in RoadmapTiers
        PROVE  \E row \in Roadmap(t, v) : row.term = term /\ row.gap = analyses[k][term]
    <3>. DEFINE gap == analyses[k][term]
    <3>1. gap \in Gaps
      BY <1>2, <2>2, <2>3, ReportsAssumption DEF CorpusInv
    <3>2. Counted(t, v, term, gap) # {}
      BY <2>1, <2>3 DEF Counted
    <3>3. <<term, gap>> \in {r \in Terms \X Gaps : /\ r[2].tier \in RoadmapTiers
                                                   /\ Counted(t, v, r[1], r[2]) # {}}
      BY <2>3, <3>1, <3>2
    <3>4. [term |-> term, gap |-> gap, count |-> Cardinality(Counted(t, v, term, gap))]
            \in Roadmap(t, v)
      BY <3>3 DEF Roadmap
    <3>. QED  BY <3>4
  <2>. QED  BY <2>2, <2>3
<1>3. CorpusInv => RoadmapIsBacked
  BY <1>1, <1>2 DEF RoadmapIsBacked
<1>. QED  BY <1>3, CorpusInvariance, PTL

-----------------------------------------------------------------------------
(***************************************************************************)
(* PhraseCache, for any phrases, models and number of requests.            *)
(***************************************************************************)
ClusterRequests ==
    [model : Models, texts : SUBSET PhraseTexts, step : {"embed", "cluster"},
     vectors : UNION {[S -> Models] : S \in SUBSET PhraseTexts}]

\* A row's vector was made by the model it names; and a request has its texts
\* embedded before it clusters them.
CacheInv ==
    /\ \A p \in DOMAIN embeddings : embeddings[p].vector = Embed(embeddings[p].model_name)
    /\ \A p \in DOMAIN embeddings : embeddings[p].model_name \in Models
    /\ clusterer \in [Clusterers -> ClusterRequests \cup {NoRequest}]
    /\ OneModelPerClustering

LEMMA CacheNextInv == CacheInv /\ [PhraseCacheNext]_cacheVars => CacheInv'
<1> SUFFICES ASSUME CacheInv, [PhraseCacheNext]_cacheVars PROVE CacheInv'
  OBVIOUS
<1> USE DEF CacheInv, Embed
<1>1. ASSUME NEW r \in Clusterers, NEW model \in Models, NEW texts \in SUBSET PhraseTexts,
             ReadCache(r, model, texts)
      PROVE  CacheInv'
  <2>. DEFINE vectors == [p \in Cached(texts, model) |-> embeddings[p].vector]
              request == [model |-> model, texts |-> texts, step |-> "embed", vectors |-> vectors]
  <2>1. \A p \in Cached(texts, model) : p \in PhraseTexts /\ embeddings[p].vector = model
    BY DEF Cached
  <2>2. vectors \in [Cached(texts, model) -> Models] /\ Cached(texts, model) \in SUBSET PhraseTexts
    BY <2>1
  <2>3. request \in ClusterRequests
    BY <2>2 DEF ClusterRequests
  <2>4. clusterer' = [clusterer EXCEPT ![r] = request] /\ UNCHANGED embeddings
    BY <1>1 DEF ReadCache
  <2>5. \A p \in DOMAIN request.vectors : request.vectors[p] = request.model
    BY <2>1
  <2>. HIDE DEF request
  <2>. QED  BY <2>3, <2>4, <2>5 DEF OneModelPerClustering
<1>2. ASSUME NEW r \in Clusterers, NEW saved \in BOOLEAN, EmbedAndSave(r, saved) PROVE CacheInv'
  <2>. DEFINE model == clusterer[r].model
              vectors == [p \in clusterer[r].texts |->
                            IF p \in Missing(r) THEN model ELSE clusterer[r].vectors[p]]
              request == [clusterer[r] EXCEPT !.step = "cluster", !.vectors = vectors]
  <2>1. clusterer[r] \in ClusterRequests /\ clusterer[r] # NoRequest
    BY <1>2 DEF EmbedAndSave
  <2>2. model \in Models /\ clusterer[r].texts \in SUBSET PhraseTexts
    BY <2>1 DEF ClusterRequests
  <2>3. \A p \in DOMAIN vectors : vectors[p] = model
    BY <2>1 DEF Missing, OneModelPerClustering
  <2>4. vectors \in [clusterer[r].texts -> Models]
    BY <2>2, <2>3
  <2>5. request \in ClusterRequests /\ request.vectors = vectors /\ request.model = model
    <3>1. vectors \in UNION {[S -> Models] : S \in SUBSET PhraseTexts}
      BY <2>2, <2>4
    <3>. HIDE DEF vectors
    <3>. QED  BY <2>1, <2>2, <3>1 DEF ClusterRequests
  <2>6. clusterer' = [clusterer EXCEPT ![r] = request]
    BY <1>2 DEF EmbedAndSave
  <2>7. OneModelPerClustering' /\ clusterer' \in [Clusterers -> ClusterRequests \cup {NoRequest}]
    <3>. HIDE DEF request, vectors, model
    <3>. QED  BY <2>3, <2>5, <2>6 DEF OneModelPerClustering
  <2>8. \A p \in DOMAIN embeddings' :
          embeddings'[p].vector = embeddings'[p].model_name /\ embeddings'[p].model_name \in Models
    BY <1>2, <2>2 DEF EmbedAndSave
  <2>. QED  BY <2>7, <2>8
<1>3. ASSUME NEW r \in Clusterers, EndClustering(r) PROVE CacheInv'
  BY <1>3 DEF EndClustering, OneModelPerClustering
<1>4. CASE UNCHANGED cacheVars
  BY <1>4 DEF cacheVars, OneModelPerClustering
<1>. QED  BY <1>1, <1>2, <1>3, <1>4 DEF PhraseCacheNext

\* However instances of several models share the cache, a clustering compares
\* vectors of its own model.
THEOREM ClusteringsAreOfOneModel == PhraseCacheSpec => []OneModelPerClustering
<1>1. PhraseCacheInit => CacheInv
  BY DEF PhraseCacheInit, CacheInv, OneModelPerClustering
<1>2. CacheInv => OneModelPerClustering
  BY DEF CacheInv
<1>. QED  BY <1>1, <1>2, CacheNextInv, PTL DEF PhraseCacheSpec

-----------------------------------------------------------------------------
(***************************************************************************)
(* Matching, for any words, lists of atoms, live CV and posting.           *)
(***************************************************************************)
\* Levels as the code ranks them: 0 for a mention without one.
Strengths == 0..3

SkillAtoms(words) ==
    [name : words, aliases : SUBSET words, level : Strengths, stale : BOOLEAN]

MatchingType(words) ==
    /\ bank \in Seq(SkillAtoms(words)) /\ deferred \in Seq(SkillAtoms(words))
    /\ vocabulary \in Seq([name : words, aliases : SUBSET words])
    /\ posting \in SUBSET [level : Strengths, said : SUBSET words]
    /\ pasted \in SUBSET [level : Strengths, said : SUBSET words]

Claims(a) == a.aliases \cup {a.name}

\* No two atoms of a list share a spelling.
Apart(atoms) ==
    \A i, j \in DOMAIN atoms :
        Claims(atoms[i]) \cap Claims(atoms[j]) # {} => i = j

LEMMA Greatest ==
    ASSUME NEW n \in Nat, NEW S, S \subseteq 0..n, S # {}
    PROVE  Max(S) \in S /\ \A x \in S : Max(S) >= x
<1>. DEFINE bounds == {m \in Nat : \A x \in S : m >= x}
<1>1. PICK R : R = OpToRel(<, Nat)
  OBVIOUS
<1>2. IsWellFoundedOn(R, Nat)
  BY <1>1, NatLessThanWellFounded, Zenon
<1>3. R = {ss \in Nat \X Nat : ss[1] < ss[2]}
  BY <1>1, Zenon DEF OpToRel
<1>4. bounds \subseteq Nat /\ bounds # {}
  <2>1. n \in bounds
    OBVIOUS
  <2>2. bounds \subseteq Nat
    OBVIOUS
  <2>. QED  BY <2>1, <2>2
<1>5. PICK m \in bounds : \A k \in bounds : <<k, m>> \notin R
  <2>. HIDE DEF bounds
  <2>. QED  BY <1>2, <1>4, WFMin
<1>6. \A k \in bounds : m <= k
  <2>1. \A x, y \in Nat : <<y, x>> \notin R => x <= y
    BY <1>3
  <2>. HIDE DEF bounds
  <2>. QED  BY <1>4, <1>5, <2>1
<1>7. m \in S
  <2>1. SUFFICES ASSUME m \notin S PROVE FALSE
    OBVIOUS
  <2>2. PICK x \in S : TRUE
    OBVIOUS
  <2>3. m \in Nat /\ m >= x /\ x \in Nat /\ m # x
    BY <1>5, <2>1
  <2>4. \A y \in S : m - 1 >= y
    BY <1>5, <2>1
  <2>5. m - 1 \in bounds
    BY <2>3, <2>4
  <2>. QED  BY <1>6, <2>3, <2>5
<1>8. m \in S /\ \A x \in S : m >= x
  BY <1>5, <1>7
<1>. HIDE DEF bounds
<1>. QED  BY <1>8 DEF Max

LEMMA ClaimedStands ==
    ASSUME NEW atoms, DOMAIN atoms \subseteq Nat, Apart(atoms),
           NEW i \in DOMAIN atoms, NEW w \in Claims(atoms[i])
    PROVE  Canonical(atoms, w) = atoms[i].name
<1>1. CASE w \in Names(atoms)
  <2>1. PICK j \in DOMAIN atoms : w = atoms[j].name
    BY <1>1 DEF Names
  <2>2. i = j
    BY <2>1 DEF Apart, Claims
  <2>. QED  BY <1>1, <2>1, <2>2 DEF Canonical
<1>2. CASE w \notin Names(atoms)
  <2>1. w \in atoms[i].aliases
    BY <1>2 DEF Claims, Names
  <2>2. At(atoms, LAMBDA a : w \in a.aliases) = {i}
    BY <2>1 DEF At, Apart, Claims
  <2>3. Min({i}) = i
    BY DEF Min
  <2>. QED  BY <1>2, <2>2, <2>3 DEF Canonical
<1>. QED  BY <1>1, <1>2

LEMMA UnclaimedStands ==
    ASSUME NEW atoms, NEW w, \A i \in DOMAIN atoms : w \notin Claims(atoms[i])
    PROVE  Canonical(atoms, w) = w
<1>1. At(atoms, LAMBDA a : w \in a.aliases) = {}
  BY DEF At, Claims
<1>. QED  BY <1>1 DEF Canonical

\* Where no spelling is shared, a word resolves to an atom exactly when it is
\* one of its spellings.
LEMMA CanonicalClaims ==
    ASSUME NEW atoms, DOMAIN atoms \subseteq Nat, Apart(atoms), NEW i \in DOMAIN atoms, NEW w
    PROVE  Canonical(atoms, w) = atoms[i].name <=> w \in Claims(atoms[i])
<1>1. ASSUME Canonical(atoms, w) = atoms[i].name PROVE w \in Claims(atoms[i])
  <2>1. CASE \E j \in DOMAIN atoms : w \in Claims(atoms[j])
    <3>1. PICK j \in DOMAIN atoms : w \in Claims(atoms[j])
      BY <2>1
    <3>2. atoms[j].name = atoms[i].name
      BY <1>1, <3>1, ClaimedStands
    <3>3. i = j
      BY <3>2 DEF Apart, Claims
    <3>. QED  BY <3>1, <3>3
  <2>2. CASE \A j \in DOMAIN atoms : w \notin Claims(atoms[j])
    BY <1>1, <2>2, UnclaimedStands DEF Claims
  <2>. QED  BY <2>1, <2>2
<1>. QED  BY <1>1, ClaimedStands

LEMMA BankIsKnown ==
    ASSUME NEW words, MatchingType(words)
    PROVE  /\ DOMAIN bank = 1..Len(bank) /\ Len(bank) \in Nat
           /\ DOMAIN Known = 1..Len(Known) /\ Len(Known) \in Nat
           /\ \A i \in DOMAIN bank : i \in DOMAIN Known /\ Known[i] = bank[i]
BY DEF MatchingType, Known

LEMMA UnambiguousApart ==
    ASSUME NEW words, MatchingType(words), Unambiguous
    PROVE  Apart(Known) /\ Apart(bank)
<1>1. ASSUME NEW i \in DOMAIN Known, NEW j \in DOMAIN Known,
             NEW w \in Claims(Known[i]) \cap Claims(Known[j])
      PROVE  i = j
  <2>. DEFINE with == At(Known, LAMBDA a : w \in a.aliases \cup {a.name})
  <2>1. Cardinality(with) = 1
    <3>1. w \in UNION {a.aliases \cup {a.name} : a \in {Known[n] : n \in DOMAIN Known}}
      BY DEF Claims
    <3>. QED  BY <3>1 DEF Unambiguous
  <2>2. IsFiniteSet(with)
    <3>1. with \subseteq 1..Len(Known)
      BY BankIsKnown DEF At
    <3>2. IsFiniteSet(1..Len(Known))
      BY BankIsKnown, FS_Interval
    <3>. QED  BY <3>1, <3>2, FS_Subset
  <2>3. PICK n : with = {n}
    BY <2>1, <2>2, FS_Singleton
  <2>4. i \in with /\ j \in with
    BY DEF At, Claims
  <2>. QED  BY <2>3, <2>4
<1>2. Apart(Known)
  BY <1>1 DEF Apart
<1>. QED  BY <1>2, BankIsKnown DEF Apart

\* What the two passes make of atom i, where no spelling is shared.
LEMMA SameKeys ==
    ASSUME NEW words, MatchingType(words), Unambiguous, NEW i \in DOMAIN bank
    PROVE  /\ \A w : /\ Canonical(Known, w) = bank[i].name <=> w \in Claims(bank[i])
                     /\ Canonical(bank, w) = bank[i].name <=> w \in Claims(bank[i])
           /\ AtomKeys(bank[i]) = {bank[i].name}
           /\ \A j \in DOMAIN bank : bank[j].name = bank[i].name => j = i
<1>1. Apart(Known) /\ Apart(bank)
  BY UnambiguousApart
<1>2. /\ DOMAIN bank \subseteq Nat /\ DOMAIN Known \subseteq Nat
      /\ i \in DOMAIN Known /\ Known[i] = bank[i]
  BY BankIsKnown
<1>3. \A w : /\ Canonical(Known, w) = bank[i].name <=> w \in Claims(bank[i])
             /\ Canonical(bank, w) = bank[i].name <=> w \in Claims(bank[i])
  BY <1>1, <1>2, CanonicalClaims
<1>4. AtomKeys(bank[i]) = {bank[i].name}
  BY <1>3 DEF AtomKeys, Claims
<1>5. ASSUME NEW j \in DOMAIN bank, bank[j].name = bank[i].name PROVE j = i
  BY <1>1, <1>5 DEF Apart, Claims
<1>. QED  BY <1>3, <1>4, <1>5

LEMMA SameTrust ==
    ASSUME NEW words, MatchingType(words), Unambiguous, NEW i \in DOMAIN bank
    PROVE  bank[i].name \in LiveIndex(Known) <=> bank[i].name \in LiveIndex(bank)
BY SameKeys DEF LiveIndex

\* The tier of an atom is found under its name only, and that of a key that is
\* no atom's name is none of the bank's.
LEMMA BankTiers ==
    ASSUME NEW words, MatchingType(words), Unambiguous, NEW k
    PROVE  /\ \A i \in DOMAIN bank : k = bank[i].name =>
                 Tier(k) = {[term |-> bank[i].name, tier |-> BankTier(bank[i])]}
           /\ k \notin Names(bank) => \A e \in Tier(k) : e.tier \in {"deferred", "unknown"}
<1>1. ASSUME NEW i \in DOMAIN bank, k = bank[i].name
      PROVE  Tier(k) = {[term |-> bank[i].name, tier |-> BankTier(bank[i])]}
  <2>1. At(bank, LAMBDA a : k \in AtomKeys(a)) = {i}
    BY <1>1, SameKeys DEF At
  <2>2. Max({i}) = i
    BY BankIsKnown DEF Max
  <2>. QED  BY <2>1, <2>2 DEF Tier
<1>2. ASSUME k \notin Names(bank), NEW e \in Tier(k) PROVE e.tier \in {"deferred", "unknown"}
  <2>1. At(bank, LAMBDA a : k \in AtomKeys(a)) = {}
    BY <1>2, SameKeys DEF At, Names
  <2>. DEFINE parked == At(deferred, LAMBDA a : k \in AtomKeys(a))
              listed == At(vocabulary, LAMBDA t : t.name = k)
  <2>2. Tier(k) = IF parked # {} THEN {[term |-> deferred[Max(parked)].name, tier |-> "deferred"]}
                  ELSE IF listed # {} THEN {[term |-> k, tier |-> "unknown"]} ELSE {}
    BY <2>1 DEF Tier
  <2>. HIDE DEF parked, listed
  <2>3. CASE parked # {}
    BY <1>2, <2>2, <2>3
  <2>4. CASE parked = {} /\ listed # {}
    BY <1>2, <2>2, <2>4
  <2>5. CASE parked = {} /\ listed = {}
    BY <1>2, <2>2, <2>5
  <2>. QED  BY <2>3, <2>4, <2>5
<1>. QED  BY <1>1, <1>2

LEMMA TierForm ==
    ASSUME NEW k, NEW e \in Tier(k)
    PROVE  e = [term |-> e.term, tier |-> e.tier]
<1>. DEFINE inBank == At(bank, LAMBDA a : k \in AtomKeys(a))
            parked == At(deferred, LAMBDA a : k \in AtomKeys(a))
            listed == At(vocabulary, LAMBDA t : t.name = k)
<1>1. Tier(k) = IF inBank # {} THEN {[term |-> bank[Max(inBank)].name,
                                      tier |-> BankTier(bank[Max(inBank)])]}
                ELSE IF parked # {} THEN {[term |-> deferred[Max(parked)].name, tier |-> "deferred"]}
                ELSE IF listed # {} THEN {[term |-> k, tier |-> "unknown"]} ELSE {}
  BY DEF Tier
<1>. HIDE DEF inBank, parked, listed
<1>2. CASE inBank # {}
  BY <1>1, <1>2
<1>3. CASE inBank = {} /\ parked # {}
  BY <1>1, <1>3
<1>4. CASE inBank = {} /\ parked = {}
  BY <1>1, <1>4
<1>. QED  BY <1>2, <1>3, <1>4

\* A gap of the report is a tier of some key that is asked for.
LEMMA ReportForm ==
    ASSUME NEW g \in Report
    PROVE  \E n \in Asked : \E e \in Tier(n.key) :
               /\ g = [term |-> e.term, tier |-> e.tier,
                       level |-> StrongestLevel({m \in Asked : e \in Tier(m.key)})]
               /\ g.term = e.term /\ g.tier = e.tier
<1>1. PICK e \in UNION {Tier(m.key) : m \in Asked} :
        g = [term |-> e.term, tier |-> e.tier,
             level |-> StrongestLevel({m \in Asked : e \in Tier(m.key)})]
  BY DEF Report
<1>2. PICK n \in Asked : e \in Tier(n.key)
  OBVIOUS
<1>3. g.term = e.term /\ g.tier = e.tier
  BY <1>1
<1>. QED  BY <1>1, <1>2, <1>3

\* The keys a scan finds anywhere in a text, and those it finds at a level.
Plain(atoms, text) ==
    LongKeys(atoms, UNION {p.said : p \in text}) \cup Resolved(atoms, UNION {p.said : p \in text})
Stressed(atoms, text, k, l) == l > 0 /\ \E p \in text : p.level = l /\ k \in InPhrase(atoms, p.said)

LEMMA PhraseIsPlain ==
    ASSUME NEW atoms, NEW text, NEW p \in text
    PROVE  InPhrase(atoms, p.said) \subseteq Plain(atoms, text)
BY DEF InPhrase, Plain, LongKeys, Resolved

\* A mention is at the level of a phrase, or without one if no phrase has it.
LEMMA MentionForm ==
    ASSUME NEW atoms, NEW text, \A p \in text : p.level \in Strengths, NEW m
    PROVE  m \in Mentions(atoms, text) <=>
               \/ m = [key |-> m.key, level |-> m.level] /\ Stressed(atoms, text, m.key, m.level)
               \/ /\ m = [key |-> m.key, level |-> 0]
                  /\ m.key \in Plain(atoms, text)
                  /\ \A l \in Strengths : ~Stressed(atoms, text, m.key, l)
<1>. DEFINE qualified == UNION {{[key |-> k, level |-> p.level] : k \in InPhrase(atoms, p.said)} :
                                    p \in {p \in text : p.level > 0}}
<1>1. m \in Mentions(atoms, text) <=>
        m \in qualified \/ \E k \in Plain(atoms, text) \ {x.key : x \in qualified} :
                               m = [key |-> k, level |-> 0]
  BY DEF Mentions, Plain
<1>2. ASSUME NEW x
      PROVE  x \in qualified <=> x = [key |-> x.key, level |-> x.level]
                                 /\ Stressed(atoms, text, x.key, x.level)
  BY DEF Stressed
<1>3. ASSUME NEW k
      PROVE  k \in {x.key : x \in qualified} <=> \E l \in Strengths : Stressed(atoms, text, k, l)
  <2>1. ASSUME NEW x \in qualified PROVE \E l \in Strengths : Stressed(atoms, text, x.key, l)
    BY <2>1, <1>2 DEF Stressed
  <2>2. ASSUME NEW l \in Strengths, Stressed(atoms, text, k, l) PROVE k \in {x.key : x \in qualified}
    <3>1. [key |-> k, level |-> l] \in qualified
      BY <1>2, <2>2
    <3>. HIDE DEF qualified
    <3>. QED  BY <3>1
  <2>. QED  BY <2>1, <2>2
<1>. HIDE DEF qualified
<1>4. (\E k \in Plain(atoms, text) \ {x.key : x \in qualified} : m = [key |-> k, level |-> 0])
      <=> /\ m = [key |-> m.key, level |-> 0]
          /\ m.key \in Plain(atoms, text)
          /\ \A l \in Strengths : ~Stressed(atoms, text, m.key, l)
  BY <1>3
<1>. QED  BY <1>1, <1>2, <1>4

\* What a scan of a text says of key k.
Said(atoms, text, k) == {m \in Mentions(atoms, text) : m.key = k}

LEMMA SaidForm ==
    ASSUME NEW atoms, NEW text, \A p \in text : p.level \in Strengths, NEW k
    PROVE  /\ \A m \in Said(atoms, text, k) : m.level \in Strengths
           /\ Said(atoms, text, k) # {} <=> k \in Plain(atoms, text)
           /\ \A l \in Strengths : Stressed(atoms, text, k, l) =>
                  [key |-> k, level |-> l] \in Said(atoms, text, k)
           /\ \A m \in Said(atoms, text, k) : m.level > 0 => Stressed(atoms, text, k, m.level)
<1>1. ASSUME NEW m \in Said(atoms, text, k)
      PROVE  /\ m.level \in Strengths /\ k \in Plain(atoms, text)
             /\ m.level > 0 => Stressed(atoms, text, k, m.level)
  <2>1. m \in Mentions(atoms, text) /\ m.key = k
    BY DEF Said
  <2>2. CASE Stressed(atoms, text, k, m.level)
    BY <2>2, PhraseIsPlain DEF Stressed
  <2>3. CASE m = [key |-> k, level |-> 0] /\ k \in Plain(atoms, text)
    BY <2>3 DEF Strengths
  <2>. QED  BY <2>1, <2>2, <2>3, MentionForm
<1>2. ASSUME NEW l \in Strengths, Stressed(atoms, text, k, l)
      PROVE  [key |-> k, level |-> l] \in Said(atoms, text, k)
  BY <1>2, MentionForm DEF Said
<1>3. ASSUME k \in Plain(atoms, text) PROVE Said(atoms, text, k) # {}
  <2>1. CASE \E l \in Strengths : Stressed(atoms, text, k, l)
    BY <1>2, <2>1
  <2>2. CASE \A l \in Strengths : ~Stressed(atoms, text, k, l)
    <3>. DEFINE m == [key |-> k, level |-> 0]
    <3>1. m \in Mentions(atoms, text)
      BY <1>3, <2>2, MentionForm
    <3>. QED  BY <3>1 DEF Said
  <2>. QED  BY <2>1, <2>2
<1>. QED  BY <1>1, <1>2, <1>3

\* The wider index hears of atom i what the bank's own hears, or less: its longer
\* keys spend words.
LEMMA WiderHearsLess ==
    ASSUME NEW words, MatchingType(words), Unambiguous, NEW i \in DOMAIN bank, NEW said
    PROVE  /\ bank[i].name \in LongKeys(Known, said) <=> bank[i].name \in LongKeys(bank, said)
           /\ bank[i].name \in Resolved(Known, said) <=> bank[i].name \in Resolved(bank, said)
           /\ bank[i].name \in InPhrase(Known, said) => bank[i].name \in InPhrase(bank, said)
           /\ ~Swallowed(i) =>
                 (bank[i].name \in InPhrase(Known, said) <=> bank[i].name \in InPhrase(bank, said))
<1>. DEFINE n == bank[i].name
            spent(atoms) == UNION {parts[k] : k \in LongKeys(atoms, said)}
<1>1. n \in Names(bank) /\ Names(bank) \subseteq Names(Known)
  BY BankIsKnown DEF Names
<1>2. /\ n \in LongKeys(Known, said) <=> n \in LongKeys(bank, said)
      /\ LongKeys(bank, said) \subseteq LongKeys(Known, said)
  BY <1>1 DEF LongKeys
<1>3. ASSUME NEW S
      PROVE  /\ n \in Resolved(Known, S) <=> \E w \in S : parts[w] = {} /\ w \in Claims(bank[i])
             /\ n \in Resolved(bank, S) <=> \E w \in S : parts[w] = {} /\ w \in Claims(bank[i])
  BY <1>1, SameKeys DEF Resolved
<1>4. spent(bank) \subseteq spent(Known)
  BY <1>2
<1>5. ~Swallowed(i) => spent(Known) \cap Claims(bank[i]) = {}
  BY DEF Swallowed, LongKeys, Claims
<1>6. /\ n \in InPhrase(Known, said) <=>
           n \in LongKeys(Known, said) \/ n \in Resolved(Known, said \ spent(Known))
      /\ n \in InPhrase(bank, said) <=>
           n \in LongKeys(bank, said) \/ n \in Resolved(bank, said \ spent(bank))
  BY DEF InPhrase
<1>. HIDE DEF n, spent
<1>7. n \in InPhrase(Known, said) => n \in InPhrase(bank, said)
  BY <1>2, <1>3, <1>4, <1>6
<1>8. ~Swallowed(i) /\ n \in InPhrase(bank, said) => n \in InPhrase(Known, said)
  BY <1>2, <1>3, <1>5, <1>6
<1>9. n \in Resolved(Known, said) <=> n \in Resolved(bank, said)
  BY <1>3
<1>. QED  BY <1>2, <1>7, <1>8, <1>9 DEF n

\* The level at which a scan of a text asks for key k.
Level(atoms, text, k) == StrongestLevel(Said(atoms, text, k))

\* Hence both scans of one text hear atom i or neither does, the wider one at no
\* firmer level.
LEMMA SameText ==
    ASSUME NEW words, MatchingType(words), Unambiguous, NEW i \in DOMAIN bank
    PROVE  LET wide == Said(Known, posting, bank[i].name)
               own  == Said(bank, posting, bank[i].name)
           IN  /\ wide # {} <=> own # {}
               /\ wide # {} => /\ Level(Known, posting, bank[i].name) \in Strengths
                               /\ Level(bank, posting, bank[i].name) \in Strengths
                               /\ Level(Known, posting, bank[i].name) <= Level(bank, posting, bank[i].name)
                               /\ ~Swallowed(i) =>
                                     Level(Known, posting, bank[i].name) = Level(bank, posting, bank[i].name)
<1>. DEFINE n == bank[i].name
            wide == Said(Known, posting, n)
            own == Said(bank, posting, n)
            wides == {m.level : m \in wide}
            owns == {m.level : m \in own}
<1>1. \A p \in posting : p.level \in Strengths
  BY DEF MatchingType
<1>2. n \in Plain(Known, posting) <=> n \in Plain(bank, posting)
  BY WiderHearsLess DEF Plain
<1>3. wide # {} <=> own # {}
  BY <1>1, <1>2, SaidForm
<1>4. wides \subseteq Strengths /\ owns \subseteq Strengths
  <2>1. ASSUME NEW m \in wide PROVE m.level \in Strengths
    BY <1>1, SaidForm
  <2>2. ASSUME NEW m \in own PROVE m.level \in Strengths
    BY <1>1, SaidForm
  <2>. QED  BY <2>1, <2>2
<1>5. ASSUME NEW m \in wide PROVE m.level > 0 => m.level \in owns
  <2>1. SUFFICES ASSUME m.level > 0 PROVE m.level \in owns
    OBVIOUS
  <2>2. Stressed(Known, posting, n, m.level) /\ m.level \in Strengths
    BY <1>1, <2>1, SaidForm
  <2>3. Stressed(bank, posting, n, m.level)
    BY <2>2, WiderHearsLess DEF Stressed
  <2>4. [key |-> n, level |-> m.level] \in own
    BY <1>1, <2>2, <2>3, SaidForm
  <2>. QED  BY <2>4
<1>6. ASSUME ~Swallowed(i), NEW m \in own PROVE m.level > 0 => m.level \in wides
  <2>1. SUFFICES ASSUME m.level > 0 PROVE m.level \in wides
    OBVIOUS
  <2>2. Stressed(bank, posting, n, m.level) /\ m.level \in Strengths
    BY <1>1, <2>1, SaidForm
  <2>3. Stressed(Known, posting, n, m.level)
    BY <1>6, <2>2, WiderHearsLess DEF Stressed
  <2>4. [key |-> n, level |-> m.level] \in wide
    BY <1>1, <2>2, <2>3, SaidForm
  <2>. QED  BY <2>4
<1>7. /\ \A l \in wides : l > 0 => l \in owns
      /\ ~Swallowed(i) => \A l \in owns : l > 0 => l \in wides
  BY <1>5, <1>6
<1>8. Level(Known, posting, n) = Max(wides) /\ Level(bank, posting, n) = Max(owns)
  BY DEF Level, StrongestLevel
<1>9. (wides # {} <=> wide # {}) /\ (owns # {} <=> own # {})
  OBVIOUS
<1>. HIDE DEF n, wide, own, wides, owns
<1>10. ASSUME wide # {}
       PROVE  /\ Max(wides) \in wides /\ \A l \in wides : Max(wides) >= l
              /\ Max(owns) \in owns /\ \A l \in owns : Max(owns) >= l
  <2>1. wides # {} /\ owns # {} /\ wides \subseteq 0..3 /\ owns \subseteq 0..3
    BY <1>3, <1>4, <1>9, <1>10 DEF Strengths
  <2>. QED  BY <2>1, Greatest
<1>11. ASSUME wide # {}
       PROVE  /\ Max(wides) \in Strengths /\ Max(owns) \in Strengths /\ Max(wides) <= Max(owns)
              /\ ~Swallowed(i) => Max(wides) = Max(owns)
  <2>1. Max(wides) \in 0..3 /\ Max(owns) \in 0..3
    BY <1>4, <1>10, <1>11 DEF Strengths
  <2>2. Max(wides) > 0 => Max(owns) >= Max(wides)
    BY <1>7, <1>10, <1>11
  <2>3. ~Swallowed(i) /\ Max(owns) > 0 => Max(wides) >= Max(owns)
    BY <1>7, <1>10, <1>11
  <2>. QED  BY <2>1, <2>2, <2>3 DEF Strengths
<1>. QED  BY <1>3, <1>8, <1>11 DEF n, wide, own

\* The tailoring pass finds an atom under its name alone.
LEMMA OwnKey ==
    ASSUME NEW words, MatchingType(words), Unambiguous, NEW i \in DOMAIN bank
    PROVE  MentionsOf(i) = Said(bank, pasted, bank[i].name)
<1>1. ASSUME NEW k PROVE i \in IndexedAt(k) <=> k = bank[i].name
  <2>. DEFINE own == At(bank, LAMBDA a : a.name = k)
              aliased == At(bank, LAMBDA a : \E w \in a.aliases : Canonical(bank, w) = k)
  <2>1. IndexedAt(k) = IF own # {} THEN own ELSE IF aliased # {} THEN {Min(aliased)} ELSE {}
    BY DEF IndexedAt
  <2>2. \A j \in aliased : j \in own
    BY SameKeys DEF At, Claims
  <2>3. i \in own <=> k = bank[i].name
    BY DEF At
  <2>. HIDE DEF own, aliased
  <2>. QED  BY <2>1, <2>2, <2>3
<1>. QED  BY <1>1 DEF MentionsOf, Said

LEMMA WhatIsTailored ==
    ASSUME NEW words, MatchingType(words), Unambiguous, NEW i \in DOMAIN bank,
           bank[i].name \notin typos
    PROVE  bank[i].name \in Tailored <=>
               /\ Said(bank, pasted, bank[i].name) # {}
               /\ bank[i].level >= Level(bank, pasted, bank[i].name)
               /\ bank[i].name \in LiveIndex(bank)
<1>1. bank[i].name \in Tailored <=> MentionsOf(i) # {} /\ Qualifies(i) /\ Trusted(i)
  BY SameKeys DEF Tailored
<1>. QED  BY <1>1, OwnKey DEF Qualifies, Trusted, Level

\* What the report says of atom i, other than that it is parked or unknown.
LEMMA WhatIsReported ==
    ASSUME NEW words, MatchingType(words), Unambiguous, NEW i \in DOMAIN bank
    PROVE  /\ \A g \in Report :
                 g.term = bank[i].name /\ g.tier \notin {"deferred", "unknown"} =>
                     /\ Said(Known, posting, bank[i].name) # {}
                     /\ g.tier = BankTier(bank[i])
                     /\ g.level = Level(Known, posting, bank[i].name)
           /\ Said(Known, posting, bank[i].name) # {} =>
                 [term |-> bank[i].name, tier |-> BankTier(bank[i]),
                  level |-> Level(Known, posting, bank[i].name)] \in Report
<1>. DEFINE n == bank[i].name
            entry == [term |-> n, tier |-> BankTier(bank[i])]
            said == Said(Known, posting, n)
<1>1. said = {m \in Asked : m.key = n}
  BY DEF Said, Asked
<1>2. entry.tier \in {"covered", "stale", "unvouched"}
  BY DEF BankTier
<1>3. ASSUME NEW k, NEW e \in Tier(k), e.term = n, e.tier \notin {"deferred", "unknown"}
      PROVE  k = n /\ e = entry
  <2>1. k \in Names(bank)
    BY <1>3, BankTiers
  <2>2. PICK j \in DOMAIN bank : k = bank[j].name
    BY <2>1 DEF Names
  <2>3. e = [term |-> bank[j].name, tier |-> BankTier(bank[j])]
    BY <1>3, <2>2, BankTiers
  <2>4. j = i
    BY <1>3, <2>3, SameKeys
  <2>. QED  BY <2>2, <2>3, <2>4
<1>4. Tier(n) = {entry}
  BY BankTiers
<1>5. StrongestLevel({m \in Asked : entry \in Tier(m.key)}) = Level(Known, posting, n)
  <2>1. {m \in Asked : entry \in Tier(m.key)} = said
    BY <1>1, <1>2, <1>3, <1>4
  <2>. QED  BY <2>1 DEF Level
<1>6. ASSUME NEW g \in Report, g.term = n, g.tier \notin {"deferred", "unknown"}
      PROVE  said # {} /\ g.tier = BankTier(bank[i]) /\ g.level = Level(Known, posting, n)
  <2>1. PICK x \in Asked : \E e \in Tier(x.key) :
          g = [term |-> e.term, tier |-> e.tier,
               level |-> StrongestLevel({m \in Asked : e \in Tier(m.key)})]
    BY ReportForm
  <2>2. PICK e \in Tier(x.key) :
          g = [term |-> e.term, tier |-> e.tier,
               level |-> StrongestLevel({m \in Asked : e \in Tier(m.key)})]
    BY <2>1
  <2>3. x.key = n /\ e = entry
    BY <1>3, <1>6, <2>2
  <2>4. said # {}
    BY <1>1, <2>3
  <2>. QED  BY <1>5, <2>2, <2>3, <2>4
<1>7. ASSUME said # {}
      PROVE  [term |-> n, tier |-> BankTier(bank[i]), level |-> Level(Known, posting, n)] \in Report
  <2>1. entry \in UNION {Tier(m.key) : m \in Asked}
    BY <1>1, <1>4, <1>7
  <2>2. [term |-> entry.term, tier |-> entry.tier,
         level |-> StrongestLevel({m \in Asked : entry \in Tier(m.key)})] \in Report
    BY <2>1 DEF Report
  <2>. QED  BY <1>5, <2>2
<1>. QED  BY <1>6, <1>7

\* Whatever the lists, the live CV and the text hold, as long as no spelling is
\* shared and the text was normal: a tailored CV shows only what the gap report
\* calls covered (or stale) at a level the operator masters; and it shows all of
\* that, but for skills that lose a word to a longer name of the lists.
THEOREM ReportAndCvAgree ==
    ASSUME NEW words, MatchingType(words)
    PROVE  ReportAgreesWithTailoring
<1>1. SUFFICES ASSUME Unambiguous, pasted = posting,
                      NEW i \in DOMAIN bank, bank[i].name \notin typos
               PROVE  /\ bank[i].name \in Tailored => Presentable(i)
                      /\ Presentable(i) /\ ~Swallowed(i) => bank[i].name \in Tailored
  BY DEF ReportAgreesWithTailoring
<1>. DEFINE n == bank[i].name
<1>2. BankTier(bank[i]) \in {"covered", "stale"} <=> n \in LiveIndex(bank)
  BY <1>1, SameTrust DEF BankTier
<1>3. /\ Said(Known, posting, n) # {} <=> Said(bank, posting, n) # {}
      /\ Said(Known, posting, n) # {} =>
            /\ Level(Known, posting, n) \in Strengths /\ Level(bank, posting, n) \in Strengths
            /\ Level(Known, posting, n) <= Level(bank, posting, n)
            /\ ~Swallowed(i) => Level(Known, posting, n) = Level(bank, posting, n)
  BY <1>1, SameText
<1>4. n \in Tailored <=> /\ Said(bank, posting, n) # {}
                         /\ bank[i].level >= Level(bank, posting, n)
                         /\ n \in LiveIndex(bank)
  BY <1>1, WhatIsTailored
<1>5. bank[i].level \in Strengths
  <2>1. bank[i] \in SkillAtoms(words)
    BY DEF MatchingType
  <2>. QED  BY <2>1 DEF SkillAtoms
<1>6. ASSUME n \in Tailored PROVE Presentable(i)
  <2>1. [term |-> n, tier |-> BankTier(bank[i]), level |-> Level(Known, posting, n)] \in Report
    BY <1>1, <1>3, <1>4, <1>6, WhatIsReported
  <2>2. Level(Known, posting, n) <= bank[i].level
    BY <1>3, <1>4, <1>5, <1>6 DEF Strengths
  <2>. QED  BY <1>2, <1>4, <1>6, <2>1, <2>2 DEF Presentable
<1>7. ASSUME Presentable(i), ~Swallowed(i) PROVE n \in Tailored
  <2>1. PICK g \in Report : /\ g.term = n /\ g.tier \in {"covered", "stale"}
                            /\ g.level <= bank[i].level
    BY <1>7 DEF Presentable
  <2>2. /\ Said(Known, posting, n) # {} /\ g.tier = BankTier(bank[i])
        /\ g.level = Level(Known, posting, n)
    BY <1>1, <2>1, WhatIsReported
  <2>. QED  BY <1>2, <1>3, <1>4, <1>5, <1>7, <2>1, <2>2 DEF Strengths
<1>. QED  BY <1>6, <1>7

\* The trust policy holds against the report's own index: nothing the report
\* calls unvouched is on a tailored CV, not even as the reading of a typo, and
\* whatever the two scans heard.
THEOREM UnvouchedStaysOff ==
    ASSUME NEW words, MatchingType(words)
    PROVE  UnvouchedIsNotShown
<1>1. SUFFICES ASSUME Unambiguous, NEW g \in Report, g.tier = "unvouched"
               PROVE  g.term \notin Tailored
  BY DEF UnvouchedIsNotShown
<1>. PICK m \in Asked : \E x \in Tier(m.key) : g.term = x.term /\ g.tier = x.tier
  BY ReportForm
<1>2. PICK e \in Tier(m.key) : g.term = e.term /\ g.tier = e.tier
  OBVIOUS
<1>3. PICK i \in DOMAIN bank : m.key = bank[i].name
  BY <1>1, <1>2, BankTiers DEF Names
<1>4. g.term = bank[i].name /\ BankTier(bank[i]) = "unvouched"
  BY <1>1, <1>2, <1>3, BankTiers
<1>5. bank[i].name \notin LiveIndex(bank)
  BY <1>1, <1>4, SameTrust DEF BankTier
<1>. QED  BY <1>1, <1>4, <1>5, SameKeys DEF Tailored, Trusted

LEMMA NamesHaveTiers ==
    ASSUME NEW words, MatchingType(words), NEW k \in Names(Known)
    PROVE  Tier(k) # {}
<1>. DEFINE inBank == At(bank, LAMBDA a : k \in AtomKeys(a))
            parked == At(deferred, LAMBDA a : k \in AtomKeys(a))
            listed == At(vocabulary, LAMBDA t : t.name = k)
<1>1. Tier(k) = IF inBank # {} THEN {[term |-> bank[Max(inBank)].name,
                                      tier |-> BankTier(bank[Max(inBank)])]}
                ELSE IF parked # {} THEN {[term |-> deferred[Max(parked)].name, tier |-> "deferred"]}
                ELSE IF listed # {} THEN {[term |-> k, tier |-> "unknown"]} ELSE {}
  BY DEF Tier
<1>2. \A a : a.name = k => k \in AtomKeys(a)
  BY DEF AtomKeys, Canonical
<1>3. \/ \E i \in DOMAIN bank : bank[i].name = k
      \/ \E i \in DOMAIN deferred : deferred[i].name = k
      \/ \E i \in DOMAIN vocabulary : vocabulary[i].name = k
  <2>1. PICK i \in DOMAIN Known : Known[i].name = k
    BY DEF Names
  <2>2. \/ \E j \in DOMAIN bank : Known[i] = bank[j]
        \/ \E j \in DOMAIN deferred : Known[i] = deferred[j]
        \/ \E j \in DOMAIN vocabulary : Known[i] = vocabulary[j]
    <3>1. /\ bank \in Seq(SkillAtoms(words)) /\ deferred \in Seq(SkillAtoms(words))
          /\ vocabulary \in Seq([name : words, aliases : SUBSET words])
      BY DEF MatchingType
    <3>. DEFINE mine == bank \o deferred
    <3>2. /\ Len(mine) = Len(bank) + Len(deferred) /\ Len(mine) \in Nat
          /\ \A j \in 1..Len(mine) :
                mine[j] = IF j <= Len(bank) THEN bank[j] ELSE deferred[j - Len(bank)]
      BY <3>1
    <3>3. /\ i \in 1..(Len(mine) + Len(vocabulary))
          /\ Known[i] = IF i <= Len(mine) THEN mine[i] ELSE vocabulary[i - Len(mine)]
      BY <3>1 DEF Known
    <3>. HIDE DEF mine
    <3>4. CASE i <= Len(bank)
      BY <3>1, <3>2, <3>3, <3>4
    <3>5. CASE i > Len(bank) /\ i <= Len(mine)
      BY <3>1, <3>2, <3>3, <3>5
    <3>6. CASE i > Len(mine)
      BY <3>1, <3>2, <3>3, <3>6
    <3>. QED  BY <3>1, <3>2, <3>3, <3>4, <3>5, <3>6
  <2>. QED  BY <2>1, <2>2
<1>4. inBank # {} \/ parked # {} \/ listed # {}
  BY <1>2, <1>3 DEF At
<1>. HIDE DEF inBank, parked, listed
<1>. QED  BY <1>1, <1>4

\* No mention gets lost on the way to the report, and none is weakened but by a
\* longer name that has spent its words, shared spellings or not.
THEOREM MentionsAreReported ==
    ASSUME NEW words, MatchingType(words)
    PROVE  AskedIsReported
<1>1. SUFFICES ASSUME NEW p \in posting, NEW w \in p.said,
                      Canonical(Known, w) \in Names(Known),
                      parts[w] = {} \/ Canonical(Known, w) = w
               PROVE  \E g \in Report :
                        /\ [term |-> g.term, tier |-> g.tier] \in Tier(Canonical(Known, w))
                        /\ g.level >= p.level
                           \/ \E long \in Names(Known) \cap p.said : w \in parts[long]
  BY DEF AskedIsReported
<1>. DEFINE key == Canonical(Known, w)
<1>2. PICK e \in Tier(key) : TRUE
  BY <1>1, NamesHaveTiers
<1>. DEFINE heard == {m \in Asked : e \in Tier(m.key)}
            levels == {m.level : m \in heard}
            g == [term |-> e.term, tier |-> e.tier, level |-> StrongestLevel(heard)]
<1>3. \A x \in posting : x.level \in Strengths
  BY DEF MatchingType
<1>4. key \in Plain(Known, posting)
  <2>. w \in UNION {x.said : x \in posting}
    OBVIOUS
  <2>1. CASE parts[w] = {}
    BY <1>1, <2>1 DEF Plain, Resolved
  <2>2. CASE parts[w] # {}
    BY <1>1, <2>2 DEF Plain, LongKeys
  <2>. QED  BY <2>1, <2>2
<1>5. PICK m \in Said(Known, posting, key) : TRUE
  BY <1>3, <1>4, SaidForm
<1>6. m \in heard
  BY DEF Said, Asked
<1>7. g \in Report
  BY <1>6 DEF Report
<1>8. [term |-> e.term, tier |-> e.tier] = e
  BY TierForm
<1>9. levels \subseteq Strengths /\ levels # {}
  <2>1. ASSUME NEW x \in heard PROVE x.level \in Strengths
    BY <1>3, SaidForm DEF Said, Asked
  <2>. QED  BY <1>6, <2>1
<1>10. Max(levels) \in levels /\ \A l \in levels : Max(levels) >= l
  <2>. HIDE DEF levels
  <2>. QED  BY <1>9, Greatest DEF Strengths
<1>11. g.level >= p.level \/ \E long \in Names(Known) \cap p.said : w \in parts[long]
  <2>1. SUFFICES ASSUME ~ \E long \in Names(Known) \cap p.said : w \in parts[long]
                 PROVE  g.level >= p.level
    OBVIOUS
  <2>2. g.level = Max(levels) /\ p.level \in Strengths
    BY <1>3 DEF StrongestLevel
  <2>3. CASE p.level > 0
    <3>1. key \in InPhrase(Known, p.said)
      <4>1. CASE parts[w] = {}
        BY <1>1, <2>1, <4>1 DEF InPhrase, Resolved, LongKeys
      <4>2. CASE parts[w] # {}
        BY <1>1, <4>2 DEF InPhrase, LongKeys
      <4>. QED  BY <4>1, <4>2
    <3>2. Stressed(Known, posting, key, p.level)
      BY <2>3, <3>1 DEF Stressed
    <3>3. [key |-> key, level |-> p.level] \in Said(Known, posting, key)
      BY <1>3, <2>2, <3>2, SaidForm
    <3>4. [key |-> key, level |-> p.level] \in heard
      BY <3>3 DEF Said, Asked
    <3>5. p.level \in levels
      BY <3>4
    <3>. HIDE DEF levels, g
    <3>. QED  BY <1>10, <2>2, <3>5
  <2>4. CASE p.level = 0
    <3>1. Max(levels) \in 0..3
      BY <1>9, <1>10 DEF Strengths
    <3>. HIDE DEF levels, g
    <3>. QED  BY <2>2, <2>4, <3>1
  <2>. QED  BY <2>2, <2>3, <2>4 DEF Strengths
<1>. QED  BY <1>7, <1>8, <1>11

\* A skill of the bank is never reported as parked or unknown, if no skill that
\* is parked as well has a spelling there that resolves to something else.
THEOREM BankComesFirst ==
    ASSUME NEW words, MatchingType(words),
           \A i \in DOMAIN deferred :
               deferred[i].name \in Names(bank) => AtomKeys(deferred[i]) = {deferred[i].name}
    PROVE  BankOutranks
<1>1. SUFFICES ASSUME NEW g \in Report, g.term \in Names(bank)
               PROVE  g.tier \notin {"deferred", "unknown"}
  BY DEF BankOutranks
<1>. PICK m \in Asked : \E x \in Tier(m.key) : g.term = x.term /\ g.tier = x.tier
  BY ReportForm
<1>. DEFINE k == m.key
<1>2. PICK e \in Tier(k) : g.term = e.term /\ g.tier = e.tier
  OBVIOUS
<1>. DEFINE inBank == At(bank, LAMBDA a : k \in AtomKeys(a))
            parked == At(deferred, LAMBDA a : k \in AtomKeys(a))
            listed == At(vocabulary, LAMBDA t : t.name = k)
<1>3. Tier(k) = IF inBank # {} THEN {[term |-> bank[Max(inBank)].name,
                                      tier |-> BankTier(bank[Max(inBank)])]}
                ELSE IF parked # {} THEN {[term |-> deferred[Max(parked)].name, tier |-> "deferred"]}
                ELSE IF listed # {} THEN {[term |-> k, tier |-> "unknown"]} ELSE {}
  BY DEF Tier
<1>4. k \in Names(bank) => inBank # {}
  <2>1. SUFFICES ASSUME k \in Names(bank) PROVE inBank # {}
    OBVIOUS
  <2>2. PICK i \in DOMAIN bank : k = bank[i].name
    BY <2>1 DEF Names
  <2>3. k \in Names(Known)
    BY <2>2, BankIsKnown DEF Names
  <2>4. Canonical(Known, k) = k
    BY <2>3 DEF Canonical
  <2>. QED  BY <2>2, <2>4 DEF At, AtomKeys
<1>. HIDE DEF inBank, listed
<1>5. CASE inBank # {}
  BY <1>2, <1>3, <1>5 DEF BankTier
<1>6. CASE inBank = {} /\ parked # {}
  <2>1. e.term = deferred[Max(parked)].name
    BY <1>2, <1>3, <1>6
  <2>2. parked \subseteq 0..Len(deferred) /\ Len(deferred) \in Nat /\ DOMAIN deferred = 1..Len(deferred)
    BY DEF MatchingType, At
  <2>3. Max(parked) \in parked
    BY <1>6, <2>2, Greatest
  <2>4. Max(parked) \in DOMAIN deferred /\ k \in AtomKeys(deferred[Max(parked)])
    BY <2>3 DEF At
  <2>5. k = deferred[Max(parked)].name
    BY <1>1, <1>2, <2>1, <2>4
  <2>. QED  BY <1>1, <1>2, <1>4, <1>6, <2>1, <2>5
<1>7. CASE inBank = {} /\ parked = {}
  <2>1. e = [term |-> k, tier |-> "unknown"]
    BY <1>2, <1>3, <1>7
  <2>. QED  BY <1>1, <1>2, <1>4, <1>7, <2>1
<1>. QED  BY <1>5, <1>6, <1>7

-----------------------------------------------------------------------------
(***************************************************************************)
(* Clustering, for any number of phrases and any similar pairs.  The       *)
(* roots and depths of the forest stand for what a recursive definition    *)
(* would compute: there are some that fit.                                 *)
(***************************************************************************)
Before(p, q) == p[1] < q[1] \/ (p[1] = q[1] /\ p[2] < q[2])

\* The similar pairs that have been united.
Visited == {p \in similar : Before(p, pair)}

ClusteringType ==
    /\ similar \in SUBSET Pairs
    /\ parent \in [Indices -> Indices]
    /\ stage \in {"pairs", "groups", "findI", "findJ", "findGroup"}
    /\ pair \in Nat \X Nat /\ index \in 1..Phrases + 1
    /\ groups \in [Indices -> SUBSET Indices]
    /\ Finding => node \in Indices
    /\ stage = "findJ" => rootI \in Indices

\* Pairs are left in their order, and groups are made when none is left.
PairInv ==
    /\ 1 <= pair[1] /\ pair[1] < pair[2]
    /\ PairsDone => pair[1] >= Phrases
    /\ stage \in {"findI", "findJ"} => pair \in similar
    /\ stage \in {"groups", "findGroup"} => PairsDone
    /\ stage = "findGroup" => index \in Indices
    /\ ~PairsDone => index = 1

\* Every tree of forest f has one root, and leads to it.
Forest(f, root, depth) ==
    \A k \in Indices :
        /\ root[f[k]] = root[k] /\ f[root[k]] = root[k]
        /\ f[k] = k => root[k] = k
        /\ f[k] # k => depth[f[k]] < depth[k]

\* Trees are the components of what has been united.
Components(root, pairs) ==
    \A i, j \in Indices : root[i] = root[j] <=> Linked(pairs, i, j)

\* The phrase that _find was called for.
Start ==
    CASE stage = "findI" -> pair[1] [] stage = "findJ" -> pair[2] [] OTHER -> index

Searching(root) ==
    /\ Finding => root[node] = root[Start]
    /\ stage = "findJ" => rootI = root[pair[1]]

Grouped(root) ==
    \A r, k \in Indices : k \in groups[r] <=> k < index /\ root[k] = r

Fits(root, depth) ==
    /\ Forest(parent, root, depth) /\ Components(root, Visited)
    /\ Searching(root) /\ Grouped(root)

ClusteringInv ==
    /\ ClusteringType /\ PairInv
    /\ \E root \in [Indices -> Indices], depth \in [Indices -> Nat] : Fits(root, depth)

-----------------------------------------------------------------------------
LEMMA LinkedPairs ==
    ASSUME NEW pairs, NEW p \in pairs
    PROVE  Linked(pairs, p[1], p[2])
BY DEF Linked

\* The roots after two trees are joined are those of the components with one
\* pair more.
LEMMA JoinComponents ==
    ASSUME NEW pairs \in SUBSET Pairs, NEW p \in Pairs,
           NEW root \in [Indices -> Indices], Components(root, pairs),
           NEW joined \in [Indices -> Indices],
           \A k \in Indices : joined[k] = IF root[k] = root[p[1]] THEN root[p[2]] ELSE root[k]
    PROVE  Components(joined, pairs \cup {p})
<1>. p[1] \in Indices /\ p[2] \in Indices
  BY DEF Pairs
<1>1. ASSUME NEW i \in Indices, NEW j \in Indices, joined[i] = joined[j]
      PROVE  Linked(pairs \cup {p}, i, j)
  <2>1. SUFFICES ASSUME NEW S \in SUBSET Indices, i \in S,
                        \A q \in pairs \cup {p} : q[1] \in S <=> q[2] \in S
                 PROVE  j \in S
    BY DEF Linked
  <2>2. \A x, y \in Indices : root[x] = root[y] /\ x \in S => y \in S
    BY <2>1 DEF Components, Linked
  <2>3. p[1] \in S <=> p[2] \in S
    BY <2>1
  <2>. QED  BY <1>1, <2>1, <2>2, <2>3
<1>2. ASSUME NEW i \in Indices, NEW j \in Indices, Linked(pairs \cup {p}, i, j)
      PROVE  joined[i] = joined[j]
  <2>. DEFINE S == {k \in Indices : joined[k] = joined[i]}
  <2>1. ASSUME NEW q \in pairs PROVE q[1] \in S <=> q[2] \in S
    <3>1. q[1] \in Indices /\ q[2] \in Indices
      BY DEF Pairs
    <3>2. root[q[1]] = root[q[2]]
      BY <3>1, LinkedPairs DEF Components
    <3>. QED  BY <3>1, <3>2
  <2>2. p[1] \in S <=> p[2] \in S
    OBVIOUS
  <2>3. S \in SUBSET Indices /\ i \in S
    OBVIOUS
  <2>4. j \in S
    <3>. HIDE DEF S
    <3>. QED  BY <1>2, <2>1, <2>2, <2>3 DEF Linked
  <2>. QED  BY <2>4
<1>. QED  BY <1>1, <1>2 DEF Components

LEMMA NextPairVisited ==
    ASSUME PhrasesAssumption, ClusteringType, PairInv, ~PairsDone, pair' = NextPair(pair),
           UNCHANGED similar
    PROVE  /\ Visited' = Visited \cup (similar \cap {pair})
           /\ pair' \in Nat \X Nat /\ 1 <= pair'[1] /\ pair'[1] < pair'[2]
           /\ PairsDone' => pair'[1] >= Phrases
<1>. PICK i \in Nat, j \in Nat : pair = <<i, j>>
  BY DEF ClusteringType
<1>1. 1 <= i /\ i < j /\ j <= Phrases /\ Phrases \in Nat
  BY DEF PairInv, PairsDone, PhrasesAssumption
<1>2. pair' = IF j < Phrases THEN <<i, j + 1>> ELSE <<i + 1, i + 2>>
  BY DEF NextPair
<1>3. ASSUME NEW p \in similar PROVE Before(p, pair') <=> Before(p, pair) \/ p = pair
  <2>1. PICK a \in 1..Phrases, b \in 1..Phrases : p = <<a, b>> /\ a < b
    BY DEF ClusteringType, Pairs, Indices
  <2>2. CASE j < Phrases
    BY <1>1, <1>2, <2>1, <2>2 DEF Before
  <2>3. CASE ~(j < Phrases)
    BY <1>1, <1>2, <2>1, <2>3 DEF Before
  <2>. QED  BY <2>2, <2>3
<1>4. /\ pair' \in Nat \X Nat /\ 1 <= pair'[1] /\ pair'[1] < pair'[2]
      /\ PairsDone' => pair'[1] >= Phrases
  BY <1>1, <1>2 DEF PairsDone
<1>. QED  BY <1>3, <1>4 DEF Visited

-----------------------------------------------------------------------------
LEMMA ClusteringInitInv == ASSUME PhrasesAssumption, ClusteringInit PROVE ClusteringInv
<1>. DEFINE root == [i \in Indices |-> i]
            depth == [i \in Indices |-> 0]
<1>. USE DEF ClusteringInit
<1>1. ClusteringType /\ PairInv
  BY DEF ClusteringType, PairInv, Finding, PairsDone, PhrasesAssumption
<1>2. Visited = {}
  BY DEF Visited, Before, Pairs, Indices
<1>3. \A i, j \in Indices : Linked({}, i, j) => i = j
  BY DEF Linked
<1>4. Components(root, Visited)
  BY <1>2, <1>3 DEF Components, Linked
<1>5. Forest(parent, root, depth)
  BY DEF Forest
<1>6. Searching(root) /\ Grouped(root)
  BY DEF Searching, Grouped, Finding, Indices
<1>7. root \in [Indices -> Indices] /\ depth \in [Indices -> Nat]
  OBVIOUS
<1>. HIDE DEF root, depth
<1>. QED  BY <1>1, <1>4, <1>5, <1>6, <1>7 DEF ClusteringInv, Fits

\* Halving a path keeps the roots, since depths fall along it.
LEMMA HalvedForest ==
    ASSUME ClusteringType, Finding, parent[node] # node,
           NEW root \in [Indices -> Indices], NEW depth \in [Indices -> Nat],
           Forest(parent, root, depth),
           NEW halved, halved = [parent EXCEPT ![node] = parent[parent[node]]]
    PROVE  Forest(halved, root, depth) /\ root[parent[parent[node]]] = root[node]
<1>. DEFINE up == parent[node]  top == parent[up]
<1>1. node \in Indices /\ up \in Indices /\ top \in Indices
  BY DEF ClusteringType
<1>2. root[top] = root[node] /\ depth[up] < depth[node]
  BY <1>1 DEF Forest
<1>3. depth[top] < depth[node]
  BY <1>1, <1>2 DEF Forest
<1>4. /\ halved[node] = top
      /\ \A k \in Indices : k # node => halved[k] = parent[k]
  BY <1>1 DEF ClusteringType
<1>. HIDE DEF up, top
<1>5. ASSUME NEW k \in Indices
      PROVE  /\ root[halved[k]] = root[k] /\ halved[root[k]] = root[k]
             /\ halved[k] = k => root[k] = k
             /\ halved[k] # k => depth[halved[k]] < depth[k]
  <2>1. root[k] # node
    BY <1>1 DEF Forest
  <2>2. CASE k = node
    BY <1>1, <1>2, <1>3, <1>4, <2>1, <2>2 DEF Forest
  <2>3. CASE k # node
    BY <1>4, <2>1, <2>3 DEF Forest
  <2>. QED  BY <2>2, <2>3
<1>6. Forest(halved, root, depth)
  BY <1>5 DEF Forest
<1>. QED  BY <1>2, <1>6 DEF up, top

\* Linking one root below another joins their trees.
LEMMA UnitedForest ==
    ASSUME ClusteringType, rootI \in Indices, node \in Indices, rootI # node,
           NEW root \in [Indices -> Indices], NEW depth \in [Indices -> Nat],
           Forest(parent, root, depth), root[rootI] = rootI, root[node] = node,
           parent' = United(node),
           NEW joined, \A k \in Indices : joined[k] = IF root[k] = rootI THEN node ELSE root[k]
    PROVE  \E lowered \in [Indices -> Nat] : Forest(parent', joined, lowered)
<1>. PICK lowered : lowered = [k \in Indices |->
        IF root[k] = rootI THEN depth[k] + depth[node] + 1 ELSE depth[k]]
  OBVIOUS
<1>1. lowered \in [Indices -> Nat]
  OBVIOUS
<1>2. ASSUME NEW k \in Indices
      PROVE  /\ joined[parent'[k]] = joined[k] /\ parent'[joined[k]] = joined[k]
             /\ parent'[k] = k => joined[k] = k
             /\ parent'[k] # k => lowered[parent'[k]] < lowered[k]
  <2>1. /\ parent[k] \in Indices /\ root[k] \in Indices /\ root[parent[k]] = root[k]
        /\ parent[root[k]] = root[k] /\ parent[node] = node
    BY DEF Forest, ClusteringType
  <2>2. \A x \in Indices : parent'[x] = IF x = rootI THEN node ELSE parent[x]
    BY DEF United, ClusteringType
  <2>3. /\ depth[rootI] \in Nat /\ depth[node] \in Nat /\ depth[k] \in Nat
        /\ depth[parent[k]] \in Nat
    BY <2>1
  <2>4. CASE k = rootI
    <3>1. parent'[k] = node /\ joined[k] = node /\ joined[node] = node /\ parent'[node] = node
      BY <2>1, <2>2, <2>4
    <3>2. lowered[k] = depth[k] + depth[node] + 1 /\ lowered[node] = depth[node]
      BY <2>4
    <3>. QED  BY <2>3, <2>4, <3>1, <3>2
  <2>5. CASE k # rootI
    <3>1. parent'[k] = parent[k]
      BY <2>2, <2>5
    <3>2. joined[parent[k]] = joined[k]
      BY <2>1
    <3>3. parent'[joined[k]] = joined[k]
      BY <2>1, <2>2
    <3>4. parent[k] = k => joined[k] = k
      BY <2>5 DEF Forest
    <3>5. parent[k] # k => lowered[parent[k]] < lowered[k]
      <4>1. parent[k] # k => depth[parent[k]] < depth[k]
        BY DEF Forest
      <4>. QED  BY <2>1, <2>3, <4>1
    <3>. QED  BY <3>1, <3>2, <3>3, <3>4, <3>5
  <2>. QED  BY <2>4, <2>5
<1>3. Forest(parent', joined, lowered)
  BY <1>2 DEF Forest
<1>. QED  BY <1>1, <1>3

LEMMA Halve_Inv == ASSUME PhrasesAssumption, ClusteringInv, Halve PROVE ClusteringInv'
<1> USE DEF ClusteringInv, Halve
<1>. PICK root \in [Indices -> Indices], depth \in [Indices -> Nat] : Fits(root, depth)
  OBVIOUS
<1>1. Forest(parent', root, depth) /\ root[node'] = root[node]
  BY HalvedForest DEF Fits
<1>2. ClusteringType'
  BY DEF ClusteringType, Finding
<1>3. PairInv'
  BY DEF PairInv, PairsDone
<1>4. Visited' = Visited /\ Start' = Start /\ Finding' = Finding
  BY DEF Visited, Before, Start, Finding
<1>5. Searching(root)'
  BY <1>1, <1>4 DEF Fits, Searching
<1>6. Grouped(root)' /\ Components(root, Visited)'
  BY <1>4 DEF Fits, Grouped, Components
<1>. QED  BY <1>1, <1>2, <1>3, <1>5, <1>6 DEF Fits

LEMMA VisitPair_Inv == ASSUME PhrasesAssumption, ClusteringInv, VisitPair PROVE ClusteringInv'
<1> USE DEF ClusteringInv, VisitPair
<1>. PICK root \in [Indices -> Indices], depth \in [Indices -> Nat] : Fits(root, depth)
  OBVIOUS
<1>1. CASE pair \in similar
  <2>. USE <1>1 DEF Find
  <2>1. pair[1] \in Indices
    BY DEF ClusteringType, Pairs
  <2>2. ClusteringType' /\ PairInv'
    BY <2>1 DEF ClusteringType, PairInv, Finding, PairsDone
  <2>3. Searching(root)'
    BY DEF Searching, Start, Finding
  <2>4. Visited' = Visited
    BY DEF Visited, Before
  <2>5. Grouped(root)' /\ Components(root, Visited)'
    BY <2>4 DEF Fits, Grouped, Components
  <2>. QED  BY <2>2, <2>3, <2>5 DEF Fits
<1>2. CASE pair \notin similar
  <2>. USE <1>2
  <2>1. /\ Visited' = Visited /\ pair' \in Nat \X Nat
        /\ 1 <= pair'[1] /\ pair'[1] < pair'[2]
        /\ PairsDone' => pair'[1] >= Phrases
    BY NextPairVisited
  <2>2. ClusteringType'
    BY <2>1 DEF ClusteringType, Finding
  <2>3. PairInv'
    <3>1. stage' = "pairs" /\ index' = 1
      BY DEF PairInv
    <3>. QED  BY <2>1, <3>1 DEF PairInv
  <2>4. Searching(root)'
    BY DEF Searching, Finding
  <2>5. Grouped(root)' /\ Components(root, Visited)'
    BY <2>1 DEF Fits, Grouped, Components
  <2>. QED  BY <2>2, <2>3, <2>4, <2>5 DEF Fits
<1>. QED  BY <1>1, <1>2

LEMMA FoundI_Inv == ASSUME PhrasesAssumption, ClusteringInv, FoundI PROVE ClusteringInv'
<1> USE DEF ClusteringInv, FoundI, Found, Find
<1>. PICK root \in [Indices -> Indices], depth \in [Indices -> Nat] : Fits(root, depth)
  OBVIOUS
<1>1. node \in Indices /\ pair[2] \in Indices
  BY DEF ClusteringType, PairInv, Pairs, Finding
<1>2. ClusteringType' /\ PairInv'
  BY <1>1 DEF ClusteringType, PairInv, Finding, PairsDone
<1>3. rootI' = root[pair[1]]
  BY <1>1 DEF Fits, Searching, Start, Finding, Forest
<1>4. Searching(root)'
  BY <1>3 DEF Searching, Start, Finding
<1>5. Visited' = Visited
  BY DEF Visited, Before
<1>6. Grouped(root)' /\ Components(root, Visited)'
  BY <1>5 DEF Fits, Grouped, Components
<1>. QED  BY <1>2, <1>4, <1>6 DEF Fits

LEMMA FoundJ_Inv == ASSUME PhrasesAssumption, ClusteringInv, FoundJ PROVE ClusteringInv'
<1> USE DEF ClusteringInv, FoundJ, Found
<1>. PICK root \in [Indices -> Indices], depth \in [Indices -> Nat] : Fits(root, depth)
  OBVIOUS
<1>. PICK joined : joined = [k \in Indices |-> IF root[k] = rootI THEN node ELSE root[k]]
  OBVIOUS
<1>1. /\ node \in Indices /\ rootI \in Indices /\ pair \in similar /\ pair \in Pairs
      /\ ~PairsDone /\ index = 1
  <2>1. pair \in similar /\ pair \in Pairs
    BY DEF ClusteringType, PairInv
  <2>2. pair[2] \in 1..Phrases /\ Phrases \in Nat
    BY <2>1 DEF Pairs, Indices, PhrasesAssumption
  <2>3. ~PairsDone
    BY <2>2 DEF PairsDone
  <2>4. node \in Indices /\ rootI \in Indices
    BY DEF ClusteringType, Finding
  <2>. QED  BY <2>1, <2>3, <2>4 DEF PairInv
<1>2. root[node] = node /\ root[pair[2]] = node /\ root[pair[1]] = rootI
  BY <1>1 DEF Fits, Searching, Start, Finding, Forest
<1>3. root[rootI] = rootI
  BY <1>1, <1>2 DEF Pairs, Fits, Forest
<1>4. joined \in [Indices -> Indices]
  BY <1>1
<1>5. Visited' = Visited \cup {pair}
  BY <1>1, NextPairVisited
<1>6. Components(joined, Visited \cup {pair})
  <2>1. Visited \in SUBSET Pairs
    BY DEF Visited, ClusteringType
  <2>2. \A k \in Indices : joined[k] = IF root[k] = root[pair[1]] THEN root[pair[2]] ELSE root[k]
    BY <1>2
  <2>. QED  BY <1>1, <1>4, <2>1, <2>2, JoinComponents DEF Fits
<1>7. \E d \in [Indices -> Nat] : Forest(parent', joined, d)
  <2>1. CASE rootI # node
    <3>1. ClusteringType /\ Forest(parent, root, depth) /\ parent' = United(node)
      BY <2>1 DEF Fits
    <3>2. \A k \in Indices : joined[k] = IF root[k] = rootI THEN node ELSE root[k]
      OBVIOUS
    <3>. QED  BY <1>1, <1>2, <1>3, <2>1, <3>1, <3>2, UnitedForest
  <2>2. CASE rootI = node
    <3>1. joined = root
      BY <2>2
    <3>. QED  BY <2>2, <3>1 DEF Fits
  <2>. QED  BY <2>1, <2>2
<1>8. ClusteringType'
  <2>1. pair' \in Nat \X Nat
    BY <1>1, NextPairVisited
  <2>2. parent' \in [Indices -> Indices]
    BY <1>1 DEF United, ClusteringType
  <2>. QED  BY <2>1, <2>2 DEF ClusteringType, Finding
<1>9. PairInv'
  BY <1>1, NextPairVisited DEF PairInv
<1>10. Searching(joined)'
  BY DEF Searching, Finding
<1>11. Grouped(joined)'
  <2>1. \A r \in Indices : groups[r] = {}
    <3>1. \A k \in Indices : ~(k < index)
      BY <1>1 DEF Indices
    <3>. QED  BY <3>1 DEF Fits, Grouped, ClusteringType
  <2>2. groups' = groups /\ \A k \in Indices : ~(k < index')
    BY <1>1 DEF Indices
  <2>. QED  BY <2>1, <2>2 DEF Grouped
<1>12. Components(joined, Visited)'
  BY <1>5, <1>6 DEF Components
<1>. QED  BY <1>4, <1>7, <1>8, <1>9, <1>10, <1>11, <1>12 DEF Fits

LEMMA VisitPhrase_Inv == ASSUME PhrasesAssumption, ClusteringInv, VisitPhrase PROVE ClusteringInv'
<1> USE DEF ClusteringInv, VisitPhrase, Find
<1>. PICK root \in [Indices -> Indices], depth \in [Indices -> Nat] : Fits(root, depth)
  OBVIOUS
<1>1. ClusteringType' /\ PairInv'
  BY DEF ClusteringType, PairInv, Finding, PairsDone
<1>2. Searching(root)'
  BY DEF Searching, Start, Finding
<1>3. Visited' = Visited
  BY DEF Visited, Before
<1>4. Grouped(root)' /\ Components(root, Visited)'
  BY <1>3 DEF Fits, Grouped, Components
<1>. QED  BY <1>1, <1>2, <1>4 DEF Fits

LEMMA FoundGroup_Inv == ASSUME PhrasesAssumption, ClusteringInv, FoundGroup PROVE ClusteringInv'
<1> USE DEF ClusteringInv, FoundGroup, Found
<1>. PICK root \in [Indices -> Indices], depth \in [Indices -> Nat] : Fits(root, depth)
  OBVIOUS
<1>1. node \in Indices /\ index \in Indices /\ PairsDone
  BY DEF ClusteringType, PairInv, Finding
<1>2. ClusteringType'
  <2>1. index' \in 1..Phrases + 1
    BY <1>1 DEF Indices, PhrasesAssumption
  <2>2. groups' \in [Indices -> SUBSET Indices]
    BY <1>1 DEF ClusteringType
  <2>. QED  BY <2>1, <2>2 DEF ClusteringType, Finding
<1>3. PairInv'
  BY <1>1 DEF PairInv, PairsDone
<1>4. root[index] = node
  BY <1>1 DEF Fits, Searching, Start, Finding, Forest
<1>5. Searching(root)'
  BY DEF Searching, Finding
<1>6. Grouped(root)'
  <2>1. ASSUME NEW r \in Indices, NEW k \in Indices
        PROVE  k \in groups'[r] <=> k < index' /\ root[k] = r
    <3>1. k \in groups'[r] <=> k \in groups[r] \/ (r = node /\ k = index)
      BY <1>1 DEF ClusteringType
    <3>2. k < index' <=> k < index \/ k = index
      <4>1. k \in Nat /\ index \in Nat /\ index' = index + 1
        BY <1>1 DEF Indices
      <4>. QED  BY <4>1
    <3>. QED  BY <1>4, <3>1, <3>2 DEF Fits, Grouped
  <2>. QED  BY <2>1 DEF Grouped
<1>7. Visited' = Visited
  BY DEF Visited, Before
<1>8. Components(root, Visited)'
  BY <1>7 DEF Fits, Components
<1>. QED  BY <1>2, <1>3, <1>5, <1>6, <1>8 DEF Fits

LEMMA ClusteringNextInv ==
    ASSUME PhrasesAssumption, ClusteringInv, [ClusteringNext]_clusteringVars
    PROVE  ClusteringInv'
<1>1. CASE UNCHANGED clusteringVars
  <2>. USE <1>1 DEF clusteringVars, ClusteringInv
  <2>. PICK root \in [Indices -> Indices], depth \in [Indices -> Nat] : Fits(root, depth)
    OBVIOUS
  <2>1. ClusteringType' /\ PairInv'
    BY DEF ClusteringType, PairInv, Finding, PairsDone
  <2>2. Visited' = Visited /\ Start' = Start
    BY DEF Visited, Before, Start
  <2>3. Fits(root, depth)'
    BY <2>2 DEF Fits, Searching, Finding, Grouped, Components
  <2>. QED  BY <2>1, <2>3
<1>. QED
  BY <1>1, Halve_Inv, VisitPair_Inv, FoundI_Inv, FoundJ_Inv, VisitPhrase_Inv, FoundGroup_Inv
     DEF ClusteringNext

\* What is returned are the components of the similar pairs, for any number of
\* phrases and any similarity: no order of the pairs and no halving of a path
\* splits or joins a cluster.
THEOREM ClustersAreTheComponents == ClusteringSpec => []ClustersAreComponents
<1>1. ClusteringInv => ClustersAreComponents
  <2>1. SUFFICES ASSUME ClusteringInv, Returned
                 PROVE  Clusters = {{j \in Indices : Linked(similar, i, j)} : i \in Indices}
    BY DEF ClustersAreComponents
  <2>. PICK root \in [Indices -> Indices], depth \in [Indices -> Nat] : Fits(root, depth)
    BY <2>1 DEF ClusteringInv
  <2>2. Visited = similar
    <3>1. PairsDone /\ pair \in Nat \X Nat /\ pair[1] >= Phrases
      BY <2>1 DEF Returned, ClusteringInv, ClusteringType, PairInv
    <3>2. ASSUME NEW p \in similar PROVE Before(p, pair)
      <4>1. PICK a \in 1..Phrases, b \in 1..Phrases : p = <<a, b>> /\ a < b
        BY <2>1 DEF ClusteringInv, ClusteringType, Pairs, Indices
      <4>. QED  BY <3>1, <4>1, PhrasesAssumption DEF Before, PhrasesAssumption
    <3>. QED  BY <3>2 DEF Visited
  <2>3. \A k \in Indices : k < index
    BY <2>1, PhrasesAssumption
       DEF Returned, ClusteringInv, ClusteringType, Indices, PhrasesAssumption
  <2>4. \A r \in Indices : groups[r] = {k \in Indices : root[k] = r}
    BY <2>1, <2>3 DEF ClusteringInv, ClusteringType, Fits, Grouped
  <2>5. \A i \in Indices :
          {j \in Indices : Linked(similar, i, j)} = groups[root[i]] /\ i \in groups[root[i]]
    BY <2>2, <2>4 DEF Fits, Components
  <2>6. ASSUME NEW c \in Clusters
        PROVE  c \in {{j \in Indices : Linked(similar, i, j)} : i \in Indices}
    <3>1. PICK r \in Indices : c = groups[r] /\ groups[r] # {}
      BY DEF Clusters
    <3>2. PICK k \in Indices : root[k] = r
      BY <2>4, <3>1
    <3>. QED  BY <2>5, <3>1, <3>2
  <2>7. ASSUME NEW i \in Indices PROVE {j \in Indices : Linked(similar, i, j)} \in Clusters
    BY <2>5 DEF Clusters
  <2>. QED  BY <2>6, <2>7
<1>. QED
  BY <1>1, PhrasesAssumption, ClusteringInitInv, ClusteringNextInv, PTL DEF ClusteringSpec
=============================================================================
