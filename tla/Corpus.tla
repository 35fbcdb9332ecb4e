------------------------------- MODULE Corpus -------------------------------
(***************************************************************************)
(* The postings of several tenants and what is stored and read about them: *)
(* gaps/gap_repository.py under the row-level policies of its migrations,  *)
(* and the routes of gaps/routes.py by posting id.  An instance runs one   *)
(* ANALYZER_VERSION; in a deployment two of them run on one database.      *)
(* What an analysis finds is Matching's; how a posting is stored, and the  *)
(* workers that analyze it for one tenant, are PostingPipeline's.          *)
(***************************************************************************)
EXTENDS Naturals, FiniteSets

CONSTANTS
    Tenants, Versions,
    MaxPostings,        \* bound: postings ever stored
    Skills, Spellings,  \* a term is a skill in some spelling
    Groups,             \* group_id of a skill, which the bank's owner may edit
    Reports,            \* bound: what an analysis may find
    NoWork

VARIABLES
    role,       \* role[v]: the database role version v connects as, or Down
    owner,      \* job_postings.tenant_id, by id
    madeIds,    \* ids given out
    analyses,   \* posting_analyses: gaps by <<posting, version>>
    clustered,  \* phrase_clusters: the postings that have a row
    work        \* an analysis or clustering that has read its posting, or NoWork

corpusVars == <<role, owner, madeIds, analyses, clustered, work>>

Down == "down"
AppRole == "cv_app"
DbRoles == {AppRole, "superuser", "bypassrls"}

\* What /roadmap ranks: every tier but covered.
RoadmapTiers == {"stale", "unvouched", "deferred", "unknown"}

Terms == Skills \X Spellings
Lower(term) == term[1]

Tiers == RoadmapTiers \cup {"covered"}

\* The gaps of a report: a tier and the group, as the bank has it at the time,
\* for each term.
Gaps == [tier : Tiers, group : Groups]

ASSUME ReportsAssumption ==
    \A report \in Reports : DOMAIN report \subseteq Terms /\ report \in [DOMAIN report -> Gaps]

CorpusInit ==
    /\ role = [v \in Versions |-> Down]
    /\ owner = [p \in {} |-> 0]
    /\ madeIds = 0
    /\ analyses = [k \in {} |-> 0]
    /\ clustered = {}
    /\ work = NoWork

Stored == DOMAIN owner
Serving == {v \in Versions : role[v] # Down}
-----------------------------------------------------------------------------
\* Mutant: the role is not looked at.
RlsEnforcedUnchecked(r) == r \in DbRoles

\* verify_rls_enforced
RlsEnforced(r) == r = AppRole

\* The lifespan of an instance: it does not come up on a role the policies do
\* not bind.
Boot(v, r) ==
    /\ role' = [role EXCEPT ![v] = IF RlsEnforced(r) THEN r ELSE Down]
    /\ UNCHANGED <<owner, madeIds, analyses, clustered, work>>

\* tenant_isolation on job_postings, in a transaction pinned to the tenant.
Visible(t, v) == {p \in Stored : role[v] # AppRole \/ owner[p] = t}

\* tenant_isolation on posting_analyses and phrase_clusters joins back.
VisibleAnalyses(t, v) == {k \in DOMAIN analyses : k[1] \in Visible(t, v)}
VisibleClusters(t, v) == clustered \cap Visible(t, v)
-----------------------------------------------------------------------------
(***************************************************************************)
(* Reads.  Those of a posting name the tenant in the query as well; those  *)
(* of an analysis or a clustering by posting id leave it to the policy.    *)
(***************************************************************************)
Readable(t, v) == {p \in Visible(t, v) : owner[p] = t}

Reported(t, v) == {p \in Stored : <<p, v>> \in VisibleAnalyses(t, v)}

\* Mutant: analyses of every version count.
AnalyzedAnyVersion(t, v) == {k \in VisibleAnalyses(t, v) : k[1] \in Readable(t, v)}

\* The join of both queries below.
Analyzed(t, v) == {k \in VisibleAnalyses(t, v) : k[2] = v /\ k[1] \in Readable(t, v)}

\* GET /postings?mentions=
Mentioning(t, v, term) ==
    {k[1] : k \in {k \in Analyzed(t, v) :
                      \E asked \in DOMAIN analyses[k] : Lower(asked) = Lower(term)}}

\* A row of GET /gaps/roadmap is of one term, tier and group; what it counts.
Counted(t, v, term, gap) ==
    {k[1] : k \in {k \in Analyzed(t, v) :
                      term \in DOMAIN analyses[k] /\ analyses[k][term] = gap}}

Roadmap(t, v) ==
    {[term |-> r[1], gap |-> r[2], count |-> Cardinality(Counted(t, v, r[1], r[2]))] :
        r \in {r \in Terms \X Gaps :
                 r[2].tier \in RoadmapTiers /\ Counted(t, v, r[1], r[2]) # {}}}
-----------------------------------------------------------------------------
(***************************************************************************)
(* Writes                                                                  *)
(***************************************************************************)
StorePosting(t, v) ==
    /\ v \in Serving /\ madeIds < MaxPostings
    /\ madeIds' = madeIds + 1
    /\ owner' = [p \in Stored \cup {madeIds'} |-> IF p = madeIds' THEN t ELSE owner[p]]
    /\ UNCHANGED <<role, analyses, clustered, work>>

\* The first transaction of /analyze and /cluster.
ReadPosting(t, v, p, op) ==
    /\ v \in Serving /\ work = NoWork /\ p \in Readable(t, v)
    /\ work' = [op |-> op, tenant |-> t, version |-> v, posting |-> p]
    /\ UNCHANGED <<role, owner, madeIds, analyses, clustered>>

\* The second one upserts.  The foreign key and the policy both ask for the
\* posting.
SaveAllowed(op) ==
    /\ work # NoWork /\ work.op = op /\ work.version \in Serving
    /\ work.posting \in Visible(work.tenant, work.version)

SaveAnalysis(report) ==
    LET key == <<work.posting, work.version>> IN
    /\ SaveAllowed("analyze")
    /\ analyses' = [k \in DOMAIN analyses \cup {key} |-> IF k = key THEN report ELSE analyses[k]]
    /\ work' = NoWork
    /\ UNCHANGED <<role, owner, madeIds, clustered>>

SaveClusters ==
    /\ SaveAllowed("cluster")
    /\ clustered' = clustered \cup {work.posting}
    /\ work' = NoWork
    /\ UNCHANGED <<role, owner, madeIds, analyses>>

\* The posting is gone, the database fails or the instance stops: nothing is
\* stored, and the answer is a 404 if there is one.
WorkFails ==
    /\ work # NoWork
    /\ work' = NoWork
    /\ UNCHANGED <<role, owner, madeIds, analyses, clustered>>

\* DELETE /postings/{id}; the rows about it go by ON DELETE CASCADE.
DeletePosting(t, v, p) ==
    /\ v \in Serving /\ p \in Readable(t, v)
    /\ owner' = [q \in Stored \ {p} |-> owner[q]]
    /\ analyses' = [k \in {k \in DOMAIN analyses : k[1] # p} |-> analyses[k]]
    /\ clustered' = clustered \ {p}
    /\ UNCHANGED <<role, madeIds, work>>

CorpusNext ==
    \/ \E v \in Versions, r \in DbRoles : Boot(v, r)
    \/ \E t \in Tenants, v \in Versions :
        \/ StorePosting(t, v)
        \/ \E p \in Stored :
            \/ \E op \in {"analyze", "cluster"} : ReadPosting(t, v, p, op)
            \/ DeletePosting(t, v, p)
    \/ \E report \in Reports : SaveAnalysis(report)
    \/ SaveClusters \/ WorkFails

CorpusSpec == CorpusInit /\ [][CorpusNext]_corpusVars
-----------------------------------------------------------------------------
(***************************************************************************)
(* Properties                                                              *)
(***************************************************************************)
\* No tenant of an instance that came up reads, counts or deletes a posting of
\* another, nor what is stored about it, by whatever id it asks.
TenantsApart ==
    \A t \in Tenants, v \in Serving :
        Readable(t, v) \cup Reported(t, v) \cup VisibleClusters(t, v)
            \subseteq {p \in Stored : owner[p] = t}

\* The postings a row of the roadmap counts are those of the term's drill-down
\* whose own reports show the term so, and no posting of the drill-down that has
\* the term at a ranked tier is left out, in a deployment too: the generations of
\* analyses are never mixed.  (A group edited between two analyses makes two rows
\* of one term and tier, and the drill-down lists the postings of both.)
RoadmapIsBacked ==
    \A t \in Tenants, v \in Serving :
        /\ \A row \in Roadmap(t, v) :
              LET backed == {p \in Mentioning(t, v, row.term) \cap Reported(t, v) :
                                /\ row.term \in DOMAIN analyses[<<p, v>>]
                                /\ analyses[<<p, v>>][row.term] = row.gap}
              IN  row.count = Cardinality(backed)
        /\ \A term \in Terms : \A p \in Mentioning(t, v, term) :
              /\ <<p, v>> \in DOMAIN analyses
              /\ term \in DOMAIN analyses[<<p, v>>] =>
                    \/ analyses[<<p, v>>][term].tier \notin RoadmapTiers
                    \/ \E row \in Roadmap(t, v) :
                          row.term = term /\ row.gap = analyses[<<p, v>>][term]
=============================================================================
