--------------------------- MODULE MCRefreshRuns ---------------------------
(***************************************************************************)
(* TLC instance of a refresh in its two settings: with a queue             *)
(* (PostingPipeline: sync, relay, worker) and without (BoardSync: analyses *)
(* inline).  A deployment has the one or the other, so a behaviour moves   *)
(* only the one setting names; the jobs of a board are the rows they       *)
(* become, and processes are interchangeable.                              *)
(***************************************************************************)
EXTENDS PostingPipeline, BoardSync, TLC

VARIABLE setting

MCInit ==
    /\ setting \in {"queue", "inline"}
    /\ Init /\ BoardInit
    /\ setting = "queue" => listing = Unlisted

MCNext ==
    /\ \/ setting = "queue" /\ Next /\ UNCHANGED syncVars
       \/ setting = "inline" /\ BoardNext /\ UNCHANGED vars
    /\ UNCHANGED setting

MCSpec == MCInit /\ [][MCNext]_<<vars, syncVars, setting>>

Symmetry ==
    Permutations(Contents) \cup Permutations(Rows) \cup Permutations(Syncs)
=============================================================================
