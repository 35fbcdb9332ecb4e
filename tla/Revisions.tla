----------------------------- MODULE Revisions -----------------------------
(***************************************************************************)
(* Tailored CVs: POST /cv/tailor saves a revision as a row, or as a file   *)
(* when that fails; ?tailored= reads one back by the selector the answer   *)
(* named (routes.py, revisions/).  One instance and its disk.  The n-th    *)
(* tailoring to reach create() makes the CV n, so n is also the order of   *)
(* created_at.                                                             *)
(***************************************************************************)
EXTENDS Naturals, FiniteSets

CONSTANTS
    MaxTailorings,      \* bound on tailorings
    MaxSecond           \* bound on the seconds they take

ASSUME RevisionsAssumption == MaxTailorings \in Nat /\ MaxSecond \in Nat

VARIABLES
    revisions,          \* the table: [cv, name] by id; a name is a second
    files,              \* cv_tailored_dir: the CV in the file of a second
    second,             \* the clock, which names rows and files
    tailoring,          \* tailoring[n]: [at, stamp, selector]
    lastId,             \* the last id the sequence has given out
    removed             \* history: ids that were deleted

revisionVars == <<revisions, files, second, tailoring, lastId, removed>>

Tailorings == 1..MaxTailorings
NotFound == 0           \* 404
RowOf(id) == <<"row", id>>
FileOf(s) == <<"file", s>>
LatestOne == <<"latest">>
NoSelector == <<"none">>

RevisionsInit ==
    /\ revisions = [id \in {} |-> 0]
    /\ files = [s \in {} |-> 0]
    /\ second = 1
    /\ tailoring = [n \in Tailorings |-> [at |-> "tailoring", stamp |-> 0, selector |-> NoSelector]]
    /\ lastId = 0
    /\ removed = {}

NextId == lastId + 1
At(n, step) == tailoring[n].at = step
-----------------------------------------------------------------------------
(* POST /cv/tailor, after the posting has been parsed and the CV tailored. *)

\* RevisionService.create builds the row: named by the second, dated now.
StampRevision(n) ==
    /\ At(n, "tailoring") /\ \A m \in 1..(n - 1) : ~At(m, "tailoring")
    /\ tailoring' = [tailoring EXCEPT ![n].at = "insert", ![n].stamp = second]
    /\ UNCHANGED <<revisions, files, second, lastId, removed>>

NameTaken(s) == \E id \in DOMAIN revisions : revisions[id].name = s

WithRow(n) ==
    [id \in DOMAIN revisions \cup {NextId} |->
        IF id = NextId THEN [cv |-> n, name |-> tailoring[n].stamp] ELSE revisions[id]]

InsertRevision(n) ==
    /\ At(n, "insert") /\ ~NameTaken(tailoring[n].stamp)
    /\ revisions' = WithRow(n)
    /\ lastId' = NextId
    /\ tailoring' = [tailoring EXCEPT ![n].at = "reply", ![n].selector = RowOf(NextId)]
    /\ UNCHANGED <<files, second, removed>>

\* Mutant: the error is swallowed after the flush has set the row's id.
InsertRefusedQuietly(n) ==
    /\ At(n, "insert")
    /\ revisions' = revisions
    /\ tailoring' = [tailoring EXCEPT ![n].at = "reply", ![n].selector = RowOf(NextId)]
    /\ lastId' = lastId
    /\ UNCHANGED <<files, second, removed>>

\* The insert fails: no database, or the name is one of this second's.
InsertRefused(n) ==
    /\ At(n, "insert")
    /\ tailoring' = [tailoring EXCEPT ![n].at = "file"]
    /\ UNCHANGED <<revisions, files, second, lastId, removed>>

\* It fails for the service alone: the commit had reached the database.
InsertUnheard(n) ==
    /\ At(n, "insert") /\ ~NameTaken(tailoring[n].stamp)
    /\ revisions' = WithRow(n)
    /\ lastId' = NextId
    /\ tailoring' = [tailoring EXCEPT ![n].at = "file"]
    /\ UNCHANGED <<files, second, removed>>

\* The fallback, named by a second of its own.
WriteRevisionFile(n) ==
    /\ At(n, "file")
    /\ files' = [s \in DOMAIN files \cup {second} |-> IF s = second THEN n ELSE files[s]]
    /\ tailoring' = [tailoring EXCEPT ![n].at = "reply", ![n].selector = FileOf(second)]
    /\ UNCHANGED <<revisions, second, lastId, removed>>

\* The answer with saved_to; or a 500, a lost connection, a dead process.
TailoringEnds(n) ==
    /\ \/ At(n, "reply") /\ tailoring' = [tailoring EXCEPT ![n].at = "answered"]
       \/ ~At(n, "answered") /\ tailoring' = [tailoring EXCEPT ![n].at = "failed"]
    /\ UNCHANGED <<revisions, files, second, lastId, removed>>

\* DELETE /revisions/{id}; a database error is a 404 like an unknown id.
DeleteRevision(id) ==
    /\ revisions' = [other \in DOMAIN revisions \ {id} |-> revisions[other]]
    /\ removed' = removed \cup {id}
    /\ UNCHANGED <<files, second, tailoring, lastId>>

NextSecond ==
    /\ second < MaxSecond
    /\ second' = second + 1
    /\ UNCHANGED <<revisions, files, tailoring, lastId, removed>>

RevisionsNext ==
    \/ \E n \in Tailorings :
        \/ StampRevision(n) \/ InsertRevision(n) \/ InsertRefused(n) \/ InsertUnheard(n)
        \/ WriteRevisionFile(n) \/ TailoringEnds(n)
    \/ \E id \in DOMAIN revisions : DeleteRevision(id)
    \/ NextSecond

RevisionsSpec == RevisionsInit /\ [][RevisionsNext]_revisionVars
-----------------------------------------------------------------------------
(* ?tailored=<selector> *)

Greatest(S) == CHOOSE x \in S : \A y \in S : y <= x

\* _load_tailored_revision_from_file: no file is named like the id of a row.
FromFile(selector) ==
    IF selector = LatestOne /\ files # <<>> THEN files[Greatest(DOMAIN files)]
    ELSE IF selector \in {FileOf(s) : s \in DOMAIN files} THEN files[selector[2]]
    ELSE NotFound

\* _load_tailored_revision.  A failed query is no row to it.
LoadTailored(selector, dbUp) ==
    LET rows == IF dbUp THEN revisions ELSE <<>> IN
    IF selector = LatestOne /\ rows # <<>> THEN Greatest({rows[id].cv : id \in DOMAIN rows})
    ELSE IF selector \in {RowOf(id) : id \in DOMAIN rows} THEN rows[selector[2]].cv
    ELSE FromFile(selector)
-----------------------------------------------------------------------------
(***************************************************************************)
(* Properties                                                              *)
(***************************************************************************)
Told == {n \in Tailorings : At(n, "answered")}
SharesFile(n) == \E m \in Tailorings \ {n} : tailoring[m].selector = tailoring[n].selector

\* Whatever failed on the way, the selector an operator was given leads back
\* to the CV that was tailored: no other CV takes its place, except that of a
\* second tailoring that fell back to a file within the same second, and none
\* is missing unless its row was deleted or cannot be read now.
SavedIsKept ==
    \A n \in Told, dbUp \in BOOLEAN :
        LET selector == tailoring[n].selector
            got == LoadTailored(selector, dbUp)
        IN  \/ got = n
            \/ got = NotFound /\ (~dbUp \/ selector[2] \in removed) /\ selector[1] = "row"
            \/ got # NotFound /\ selector[1] = "file" /\ SharesFile(n)
=============================================================================
