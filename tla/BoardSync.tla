----------------------------- MODULE BoardSync -----------------------------
(***************************************************************************)
(* One ATS board and the refresh runs that mirror it:                      *)
(* gap_service.sync_board, with analyses done inline (no queue).  The      *)
(* portal changes its listing at will and answers 304 to the etag of its   *)
(* current one.  The run's own order is what matters: it records the etag  *)
(* before it has synced a single posting, it goes on after an error, and   *)
(* it acts on rows it has read before.                                     *)
(*                                                                         *)
(* Documents are filed by content and never removed, so saving one shows   *)
(* here only by failing; PostingPipeline has it as a step.                 *)
(***************************************************************************)
EXTENDS Naturals

CONSTANTS
    Jobs,           \* external ids
    Texts,          \* posting texts, by content hash
    Runs,           \* sync_board calls for this board in flight
    MaxVersions,    \* bound on the listings the portal ever shows
    Nil             \* not listed / not stored / no analysis

\* The analysis failed; the run that stored the content had no inputs; or the row
\* was deleted under a run that had found it unchanged, and inserted again.
Excuses == {"failed", "skipped", "reinserted"}

ASSUME BoardAssumption ==
    /\ Nil \notin Texts \cup Jobs \cup Excuses
    /\ MaxVersions \in Nat \ {0}

VARIABLES
    version,    \* number of the portal's current listing, which is its etag
    listing,    \* listing[j]: content of job j, Nil when not listed
    etag,       \* ats_boards.etag, 0 when there is none
    stored,     \* stored[j]: content of j's row and document
    open,       \* jobs whose row has closed_at NULL
    analyzed,   \* analyzed[j]: content that posting_analyses describes
    run,        \* run[r]: state of a run
    missed,     \* history: jobs that a fault has kept from being mirrored
    excuse      \* history, excuse[j]: why the content of j's row may have no
                \* analysis (see Excuses)

portal == <<version, listing>>
tables == <<etag, stored, open, analyzed>>
faults == <<missed, excuse>>
syncVars == <<portal, tables, run, faults>>

Listings == [Jobs -> Texts \cup {Nil}]
Unlisted == [j \in Jobs |-> Nil]
Listed(l) == {j \in Jobs : l[j] # Nil}

Analyzing == {"analyze", "save"}
AtPosting == {"store"} \cup Analyzing
Working == {"sync"} \cup AtPosting

RunStates ==
    [pc : {"idle", "fetch", "record", "done"} \cup Working,
     inputs : BOOLEAN,          \* load_analysis_inputs succeeded
     etag : 0..MaxVersions,     \* If-None-Match, then the etag received
     got : Listings,            \* what the portal answered
     modified : BOOLEAN,        \* not a 304
     todo : SUBSET Jobs,        \* postings of got not yet synced
     seen : SUBSET Jobs,        \* seen_external_ids
     job : Jobs \cup {Nil},     \* the posting at work
     changed : BOOLEAN,         \* its status is new or changed
     alive : BOOLEAN,           \* its row, since stored, has not been deleted
     text : Texts \cup {Nil}]   \* what its analysis has read

Resting == [pc |-> "idle", inputs |-> FALSE, etag |-> 0, got |-> Unlisted,
            modified |-> FALSE, todo |-> {}, seen |-> {}, job |-> Nil,
            changed |-> FALSE, alive |-> FALSE, text |-> Nil]

BoardTypeOK ==
    /\ version \in 1..MaxVersions
    /\ listing \in Listings
    /\ etag \in 0..MaxVersions
    /\ stored \in Listings
    /\ open \subseteq Listed(stored)
    /\ analyzed \in Listings
    /\ run \in [Runs -> RunStates]
    /\ \A r \in Runs : /\ run[r].pc \in AtPosting <=> run[r].job # Nil
                       /\ run[r].todo \subseteq Listed(run[r].got)
    /\ missed \subseteq Jobs
    /\ excuse \in [Jobs -> Excuses \cup {Nil}]

BoardInit ==
    /\ version = 1
    /\ listing \in Listings
    /\ etag = 0
    /\ stored = Unlisted
    /\ open = {}
    /\ analyzed = Unlisted
    /\ run = [r \in Runs |-> Resting]
    /\ missed = {}
    /\ excuse = Unlisted

-----------------------------------------------------------------------------
\* The company edits its board.
PortalChange ==
    /\ version < MaxVersions
    /\ version' = version + 1
    /\ listing' \in Listings
    /\ UNCHANGED <<tables, run, faults>>

\* DELETE of one posting by its owner: what is known of the job goes with its
\* row, and a run that is about to analyze it will find no row.
DeletePosting(j) ==
    /\ stored[j] # Nil
    /\ stored' = [stored EXCEPT ![j] = Nil]
    /\ open' = open \ {j}
    /\ analyzed' = [analyzed EXCEPT ![j] = Nil]
    /\ run' = [r \in Runs |-> IF run[r].job = j THEN [run[r] EXCEPT !.alive = FALSE]
                              ELSE run[r]]
    /\ missed' = missed \cup {j}
    /\ excuse' = [excuse EXCEPT ![j] = Nil]
    /\ UNCHANGED <<portal, etag>>

-----------------------------------------------------------------------------
(***************************************************************************)
(* sync_board                                                              *)
(***************************************************************************)
\* The trigger has loaded the inputs or not; a failed read of the board row
\* counts as "no etag".
Start(r) ==
    /\ run[r].pc \in {"idle", "done"}
    /\ \E inputs \in BOOLEAN, prior \in {etag, 0} :
         run' = [run EXCEPT ![r] = [Resting EXCEPT !.pc = "fetch", !.inputs = inputs,
                                                !.etag = prior]]
    /\ UNCHANGED <<portal, tables, faults>>

\* The portal answers 304 and the etag comes back, or the listing, with an
\* etag or without.
Fetch(r) ==
    /\ run[r].pc = "fetch"
    /\ \/ /\ run[r].etag = version
          /\ run' = [run EXCEPT ![r].pc = "record"]
       \/ /\ run[r].etag # version
          /\ \E tag \in {version, 0} :
               run' = [run EXCEPT ![r] = [@ EXCEPT
                          !.pc = "record", !.etag = tag, !.got = listing,
                          !.modified = TRUE]]
    /\ UNCHANGED <<portal, tables, faults>>

\* A dead board costs a run its counts, and nothing else.
FetchFail(r) ==
    /\ run[r].pc = "fetch"
    /\ run' = [run EXCEPT ![r] = Resting]
    /\ UNCHANGED <<portal, tables, faults>>

\* sync_board has returned.
Finished == [Resting EXCEPT !.pc = "done"]

\* What follows the etag: nothing after a 304.
Recorded(r) ==
    IF run[r].modified
    THEN [run[r] EXCEPT !.pc = "sync", !.etag = 0, !.todo = Listed(run[r].got)]
    ELSE Finished

\* Mutant: a 304 goes on as an empty listing.
RecordEmpty(r) ==
    /\ run[r].pc = "record"
    /\ etag' \in {run[r].etag, etag}
    /\ run' = [run EXCEPT ![r] = [@ EXCEPT !.pc = "sync", !.etag = 0,
                                             !.todo = Listed(run[r].got)]]
    /\ UNCHANGED <<portal, stored, open, analyzed, faults>>

\* upsert_board; its failure is logged and the run goes on.
RecordEtag(r) ==
    /\ run[r].pc = "record"
    /\ etag' \in {run[r].etag, etag}
    /\ run' = [run EXCEPT ![r] = Recorded(r)]
    /\ UNCHANGED <<portal, stored, open, analyzed, faults>>

\* Mutant: only a new posting counts as a change.
ChangesIfNew(j, c) == stored[j] = Nil

\* sync_ats_posting's status is new or changed.
Changes(j, c) == stored[j] # c

\* The posting is reported as seen, and its prior row is looked up; a failed
\* lookup counts as "new".
Lookup(r, j) ==
    /\ run[r].pc = "sync"
    /\ j \in run[r].todo
    /\ \E changed \in {Changes(j, run[r].got[j]), TRUE} :
         run' = [run EXCEPT ![r] = [@ EXCEPT !.pc = "store", !.job = j, !.changed = changed,
                                             !.seen = run[r].seen \cup {j}]]
    /\ UNCHANGED <<portal, tables, faults>>

\* The run turns to its next posting.
Synced(r) == [run[r] EXCEPT !.pc = "sync", !.todo = run[r].todo \ {run[r].job}, !.job = Nil,
                            !.changed = FALSE, !.alive = FALSE, !.text = Nil]

\* What is to be said of a row that gets other content from run r.
ExcuseOf(r) ==
    CASE ~run[r].changed /\ stored[run[r].job] = Nil -> "reinserted"
      [] run[r].changed /\ ~run[r].inputs -> "skipped"
      [] OTHER -> Nil

\* The row is inserted, or updated and opened again, by its external id.
Upsert(r) ==
    LET j == run[r].job
        c == run[r].got[j]
    IN  /\ run[r].pc = "store"
        /\ stored' = [stored EXCEPT ![j] = c]
        /\ open' = open \cup {j}
        /\ missed' = missed \ {j}
        /\ excuse' = IF stored[j] = c THEN excuse
                     ELSE [excuse EXCEPT ![j] = ExcuseOf(r)]
        /\ run' = [run EXCEPT ![r] =
                      IF run[r].changed /\ run[r].inputs
                      THEN [run[r] EXCEPT !.pc = "analyze", !.alive = TRUE,
                                          !.todo = run[r].todo \ {j}]
                      ELSE Synced(r)]
        /\ UNCHANGED <<portal, etag, analyzed>>

\* Mutant: a posting that could not be synced is not reported as seen.
SyncErrorUnseen(r) ==
    /\ run[r].pc = "store"
    /\ run' = [run EXCEPT ![r] = [Synced(r) EXCEPT !.seen = run[r].seen \ {run[r].job}]]
    /\ missed' = missed \cup {run[r].job}
    /\ UNCHANGED <<portal, tables, excuse>>

\* Its document or its row could not be written.  One posting's failure costs
\* only that posting, which stays "seen".
SyncError(r) ==
    /\ run[r].pc = "store"
    /\ run' = [run EXCEPT ![r] = Synced(r)]
    /\ missed' = missed \cup {run[r].job}
    /\ UNCHANGED <<portal, tables, excuse>>

\* analyze_posting reads the posting again, by its id.
AnalyzeRead(r) ==
    /\ run[r].pc = "analyze"
    /\ run' = [run EXCEPT ![r] = IF run[r].alive
                                 THEN [@ EXCEPT !.pc = "save", !.text = stored[run[r].job]]
                                 ELSE Synced(r)]
    /\ UNCHANGED <<portal, tables, faults>>

\* save_analysis; the foreign key refuses a row deleted meanwhile.
AnalyzeSave(r) ==
    LET j == run[r].job IN
    /\ run[r].pc = "save"
    /\ IF run[r].alive
       THEN /\ analyzed' = [analyzed EXCEPT ![j] = run[r].text]
            /\ excuse' = [excuse EXCEPT ![j] = Nil]
       ELSE UNCHANGED <<analyzed, excuse>>
    /\ run' = [run EXCEPT ![r] = Synced(r)]
    /\ UNCHANGED <<portal, etag, stored, open, missed>>

\* Run r goes no further with the analysis it is at, if any.
GivenUp(r) ==
    IF run[r].pc \in Analyzing /\ run[r].alive
    THEN [excuse EXCEPT ![run[r].job] = "failed"] ELSE excuse

AnalyzeFail(r) ==
    /\ run[r].pc \in Analyzing
    /\ excuse' = GivenUp(r)
    /\ run' = [run EXCEPT ![r] = Synced(r)]
    /\ UNCHANGED <<portal, tables, missed>>

Absent(r) == open \ run[r].seen

\* close_stale_board_postings, after every posting of the fetch.
Close(r) ==
    /\ run[r].pc = "sync"
    /\ run[r].todo = {}
    /\ open' = open \ Absent(r)
    /\ missed' = missed \cap run[r].seen
    /\ run' = [run EXCEPT ![r] = Finished]
    /\ UNCHANGED <<portal, etag, stored, analyzed, excuse>>

CloseFail(r) ==
    /\ run[r].pc = "sync"
    /\ run[r].todo = {}
    /\ missed' = missed \cup Absent(r)
    /\ run' = [run EXCEPT ![r] = Finished]
    /\ UNCHANGED <<portal, tables, excuse>>

\* The process ends; sync_board has no other way out.
RunDies(r) ==
    /\ run[r].pc \in {"fetch", "record"} \cup Working
    /\ run' = [run EXCEPT ![r] = Resting]
    /\ missed' = IF run[r].pc \in Working
                 THEN missed \cup Absent(r) \cup run[r].todo ELSE missed
    /\ excuse' = GivenUp(r)
    /\ UNCHANGED <<portal, tables>>

Advance(r) ==
    \/ Start(r) \/ Fetch(r) \/ FetchFail(r) \/ RecordEtag(r)
    \/ \E j \in Jobs : Lookup(r, j)
    \/ Upsert(r) \/ SyncError(r)
    \/ AnalyzeRead(r) \/ AnalyzeSave(r) \/ AnalyzeFail(r)
    \/ Close(r) \/ CloseFail(r) \/ RunDies(r)

BoardNext ==
    \/ PortalChange
    \/ \E j \in Jobs : DeletePosting(j)
    \/ \E r \in Runs : Advance(r)

BoardSpec == BoardInit /\ [][BoardNext]_syncVars
-----------------------------------------------------------------------------
(***************************************************************************)
(* Properties                                                              *)
(***************************************************************************)
Mirrored(j) ==
    IF listing[j] = Nil THEN j \notin open ELSE j \in open /\ stored[j] = listing[j]

Syncing == \E r \in Runs : run[r].pc \in Working

\* With the etag of the portal's current listing on record (every fetch is a
\* 304 from then on), and no run at work, the rows mirror that listing, except
\* for jobs a fault has kept from being mirrored: a 304, an error in the
\* middle and a reopened posting never make a row differ from the listing.
MirrorsBoard ==
    etag = version /\ ~Syncing => \A j \in Jobs : Mirrored(j) \/ j \in missed

\* A stored posting is analyzed, up to its latest change, unless the analysis
\* of that change failed, or the run that stored it had no inputs, or inserted it
\* as unchanged because the row it had read was gone by then.
ChangesAnalyzed ==
    \A j \in Jobs :
        \/ stored[j] = Nil \/ analyzed[j] = stored[j]
        \/ excuse[j] \in Excuses
        \/ \E r \in Runs : run[r].pc \in Analyzing /\ run[r].job = j

\* What sync_board's docstring says of postings synced without inputs, that
\* the next run that has inputs analyzes them: when a run with inputs is
\* through a listing, the rows of its postings are analyzed, or it failed to.
InputsCatchUp ==
    [][\A r \in Runs : run[r].pc = "sync" /\ run[r].inputs /\ run'[r].pc = "done" =>
          \A j \in run[r].seen :
              \/ stored[j] = Nil \/ analyzed[j] = stored[j]
              \/ j \in missed \/ excuse[j] \in {"failed", "reinserted"}]_syncVars

\* Only a listing that no longer has a posting closes it, whatever fails.
ClosedOnlyWhenAbsent ==
    [][\A j \in open \ open' :
          stored'[j] # Nil =>
              \E v \in Runs : run[v].modified /\ run[v].got[j] = Nil
                              /\ run'[v].pc = "done"]_syncVars
=============================================================================
