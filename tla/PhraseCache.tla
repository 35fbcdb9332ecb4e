---------------------------- MODULE PhraseCache ----------------------------
(***************************************************************************)
(* The embedding cache of GapService.cluster_posting: one row for each     *)
(* phrase, shared by all postings, overwritten when a newer EMBEDDING_MODEL *)
(* misses it.  In a deployment instances of two models share the table.    *)
(***************************************************************************)
EXTENDS Naturals, FiniteSets

CONSTANTS
    PhraseTexts, Models,
    Clusterers,     \* requests in progress at one time
    NoRequest

VARIABLES
    embeddings,     \* phrase_embeddings: [model_name, vector] by phrase
    clusterer       \* clusterer[r]: a request of /cluster, or NoRequest

cacheVars == <<embeddings, clusterer>>

\* The vector a model gives a phrase: only its model matters here.
Embed(model) == model

PhraseCacheInit ==
    /\ embeddings = [p \in {} |-> 0]
    /\ clusterer = [r \in Clusterers |-> NoRequest]

\* Mutant: the query does not name the model.
CachedAnyModel(texts, model) == texts \cap DOMAIN embeddings

\* get_cached_embeddings
Cached(texts, model) ==
    {p \in texts \cap DOMAIN embeddings : embeddings[p].model_name = model}

\* Reads the cache; a database error ends the request.
ReadCache(r, model, texts) ==
    /\ clusterer[r] = NoRequest
    /\ clusterer' = [clusterer EXCEPT ![r] =
          [model |-> model, texts |-> texts, step |-> "embed",
           vectors |-> [p \in Cached(texts, model) |-> embeddings[p].vector]]]
    /\ UNCHANGED embeddings

Missing(r) == clusterer[r].texts \ DOMAIN clusterer[r].vectors

\* The vectors of the phrases missed are kept by the request, whether or not
\* they can be saved: an error there (two batches may deadlock) is logged.
EmbedAndSave(r, saved) ==
    LET vector == Embed(clusterer[r].model) IN
    /\ clusterer[r] # NoRequest /\ clusterer[r].step = "embed"
    /\ embeddings' = [p \in DOMAIN embeddings \cup (IF saved THEN Missing(r) ELSE {}) |->
          IF saved /\ p \in Missing(r)
          THEN [model_name |-> clusterer[r].model, vector |-> vector] ELSE embeddings[p]]
    /\ clusterer' = [clusterer EXCEPT ![r].step = "cluster", ![r].vectors =
          [p \in clusterer[r].texts |-> IF p \in Missing(r) THEN vector ELSE clusterer[r].vectors[p]]]

\* The clusters are made and stored, or embedding, saving or the process
\* fails; Clustering and Corpus model the rest.
EndClustering(r) ==
    /\ clusterer[r] # NoRequest
    /\ clusterer' = [clusterer EXCEPT ![r] = NoRequest]
    /\ UNCHANGED embeddings

PhraseCacheNext ==
    \E r \in Clusterers :
        \/ \E model \in Models, texts \in SUBSET PhraseTexts \ {{}} : ReadCache(r, model, texts)
        \/ \E saved \in BOOLEAN : EmbedAndSave(r, saved)
        \/ EndClustering(r)

PhraseCacheSpec == PhraseCacheInit /\ [][PhraseCacheNext]_cacheVars
-----------------------------------------------------------------------------
\* Two phrases are compared by vectors of one model, that of the request,
\* whatever instances with another model have written in the meantime.
OneModelPerClustering ==
    \A r \in Clusterers :
        clusterer[r] # NoRequest =>
            \A p \in DOMAIN clusterer[r].vectors : clusterer[r].vectors[p] = Embed(clusterer[r].model)
=============================================================================
