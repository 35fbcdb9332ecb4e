---------------------------- MODULE BoardsProofs ----------------------------
(***************************************************************************)
(* Proofs about boards: their refresh (BoardSync), for any jobs, texts,    *)
(* number of listings and number of overlapping runs of one board, and the *)
(* table of the boards that are tracked (TrackedBoards), for any boards,   *)
(* slugs and number of requests.                                           *)
(***************************************************************************)
EXTENDS BoardSync, TrackedBoards, TLAPS

\* What is true of a single run: beside its type, that it has no postings to
\* sync before it has fetched them, that what it has seen and what it has still
\* to sync are the listing it was sent, and that it does not sync a posting
\* again once that is stored.
Typed(s) ==
    /\ s \in RunStates
    /\ s.pc \in AtPosting <=> s.job # Nil
    /\ s.todo \subseteq Listed(s.got)
    /\ s.pc \in {"fetch", "record"} => s.todo = {} /\ s.seen = {}
    /\ s.pc = "fetch" => ~s.modified
    /\ s.pc \in Working => s.modified /\ Listed(s.got) = s.todo \cup s.seen
    /\ s.pc \in AtPosting => s.job \in s.seen
    /\ s.pc \in AtPosting => (s.job \in s.todo <=> s.pc = "store")

Inv == BoardTypeOK /\ \A r \in Runs : Typed(run[r])

LEMMA RestingTyped == Typed(Resting) /\ Typed(Finished)
<1>1. Unlisted \in Listings /\ 0 \in 0..MaxVersions
  BY BoardAssumption DEF Unlisted, Listings
<1>2. Resting \in RunStates /\ Finished \in RunStates
  BY <1>1 DEF Resting, Finished, RunStates
<1>3. /\ Resting.pc = "idle" /\ Resting.job = Nil /\ Resting.todo = {}
      /\ Finished.pc = "done" /\ Finished.job = Nil /\ Finished.todo = {}
  BY DEF Resting, Finished
<1>. QED  BY <1>2, <1>3 DEF Typed, AtPosting, Analyzing, Working

LEMMA InitInv == BoardInit => Inv
BY RestingTyped, BoardAssumption
   DEF BoardInit, Inv, BoardTypeOK, Listings, Unlisted, Listed, Typed

-----------------------------------------------------------------------------
\* A step of one run puts it into a state like these, the rest is the tables.
LEMMA RunStep ==
    ASSUME Inv, NEW r \in Runs, NEW s, Typed(s), run' = [run EXCEPT ![r] = s]
    PROVE  /\ run' \in [Runs -> RunStates]
           /\ \A v \in Runs : Typed(run'[v])
           /\ run'[r] = s /\ \A v \in Runs \ {r} : run'[v] = run[v]
BY DEF Inv, BoardTypeOK, Typed

LEMMA StepInv ==
    ASSUME Inv, NEW r \in Runs, NEW s, Typed(s), run' = [run EXCEPT ![r] = s],
           UNCHANGED portal, etag' \in 0..MaxVersions,
           stored' \in Listings, open' \subseteq Listed(stored'), analyzed' \in Listings,
           missed' \subseteq Jobs, excuse' \in [Jobs -> Excuses \cup {Nil}]
    PROVE  Inv'
<1>1. BoardTypeOK'
  BY RunStep DEF Inv, BoardTypeOK, Typed, portal
<1>. QED  BY <1>1, RunStep DEF Inv

LEMMA PortalStep == ASSUME Inv, PortalChange PROVE Inv'
BY BoardAssumption DEF Inv, Typed, BoardTypeOK, PortalChange, tables, faults, Listings, Listed

LEMMA DeleteStep ==
    ASSUME Inv, NEW j \in Jobs, DeletePosting(j)
    PROVE  /\ Inv'
           /\ \A r \in Runs : \/ run'[r] = run[r] /\ run[r].job # j
                              \/ run'[r] = [run[r] EXCEPT !.alive = FALSE] /\ run[r].job = j
<1>1. \A r \in Runs : \/ run'[r] = run[r] /\ run[r].job # j
                      \/ run'[r] = [run[r] EXCEPT !.alive = FALSE] /\ run[r].job = j
  BY DEF DeletePosting
<1>2. ASSUME NEW r \in Runs PROVE Typed(run'[r])
  <2>1. Typed(run[r])
    BY DEF Inv
  <2>2. Typed([run[r] EXCEPT !.alive = FALSE])
    BY <2>1 DEF Typed, RunStates
  <2>. QED  BY <1>1, <2>1, <2>2
<1>3. run' \in [Runs -> RunStates]
  BY <1>2 DEF DeletePosting, Typed
<1>4. BoardTypeOK'
  BY <1>2, <1>3 DEF Inv, BoardTypeOK, DeletePosting, portal, Listings, Listed, Typed
<1>. QED  BY <1>1, <1>2, <1>4 DEF Inv

-----------------------------------------------------------------------------
LEMMA FetchingTyped ==
    ASSUME Inv, NEW inputs \in BOOLEAN, NEW prior \in {etag, 0}
    PROVE  Typed([Resting EXCEPT !.pc = "fetch", !.inputs = inputs, !.etag = prior])
<1>1. PICK s : s = [Resting EXCEPT !.pc = "fetch", !.inputs = inputs, !.etag = prior]
  OBVIOUS
<1>2. Resting \in RunStates /\ prior \in 0..MaxVersions
  BY RestingTyped, BoardAssumption DEF Typed, Inv, BoardTypeOK
<1>3. s \in RunStates
  BY <1>1, <1>2 DEF RunStates
<1>4. /\ s.pc = "fetch" /\ s.job = Nil /\ s.todo = {} /\ s.seen = {} /\ s.modified = FALSE
  BY <1>1 DEF Resting
<1>. QED  BY <1>1, <1>3, <1>4 DEF Typed, AtPosting, Analyzing, Working

LEMMA RecordedTyped ==
    ASSUME Inv, NEW r \in Runs, run[r].pc = "record"
    PROVE  /\ Typed(Recorded(r))
           /\ ~run[r].modified => Recorded(r) = Finished
           /\ run[r].modified =>
                /\ Recorded(r).pc = "sync" /\ Recorded(r).todo = Listed(run[r].got)
                /\ Recorded(r).got = run[r].got /\ Recorded(r).etag = 0
                /\ Recorded(r).modified
<1>1. Typed(run[r]) /\ run[r] \in RunStates
  BY DEF Inv, Typed
<1>2. CASE run[r].modified
  <2>1. PICK s : s = [run[r] EXCEPT !.pc = "sync", !.etag = 0, !.todo = Listed(run[r].got)]
    OBVIOUS
  <2>2. s \in RunStates
    <3>1. 0 \in 0..MaxVersions /\ Listed(run[r].got) \in SUBSET Jobs /\ "sync" \in Working
      BY BoardAssumption DEF Working, Listed
    <3>. QED  BY <1>1, <2>1, <3>1 DEF RunStates
  <2>3. /\ s.pc = "sync" /\ s.job = run[r].job /\ s.todo = Listed(run[r].got) /\ s.etag = 0
        /\ s.seen = run[r].seen /\ s.got = run[r].got /\ s.modified
    BY <1>1, <1>2, <2>1 DEF RunStates
  <2>4. run[r].job = Nil /\ run[r].seen = {}
    BY <1>1 DEF Typed, AtPosting, Analyzing
  <2>5. Typed(s)
    BY <2>2, <2>3, <2>4 DEF Typed, AtPosting, Analyzing, Working
  <2>. QED  BY <1>2, <2>1, <2>3, <2>5 DEF Recorded
<1>3. CASE ~run[r].modified
  BY <1>3, RestingTyped DEF Recorded
<1>. QED  BY <1>2, <1>3

\* Start, Fetch, FetchFail and RecordEtag touch neither rows nor analyses.
LEMMA OpeningStep ==
    ASSUME Inv, NEW r \in Runs, Start(r) \/ Fetch(r) \/ FetchFail(r) \/ RecordEtag(r)
    PROVE  Inv'
<1>1. Typed(run[r]) /\ BoardTypeOK
  BY DEF Inv
<1>2. /\ UNCHANGED <<portal, stored, analyzed, open, missed, excuse>>
      /\ etag' \in 0..MaxVersions
  BY <1>1 DEF Start, Fetch, FetchFail, RecordEtag, tables, faults, BoardTypeOK, Typed, RunStates
<1>3. ASSUME NEW s, Typed(s), run' = [run EXCEPT ![r] = s] PROVE Inv'
  BY <1>1, <1>2, <1>3, StepInv DEF BoardTypeOK
<1>4. CASE Start(r)
  <2>1. PICK inputs \in BOOLEAN, prior \in {etag, 0} :
          run' = [run EXCEPT ![r] = [Resting EXCEPT !.pc = "fetch", !.inputs = inputs,
                                                    !.etag = prior]]
    BY <1>4 DEF Start
  <2>2. Typed([Resting EXCEPT !.pc = "fetch", !.inputs = inputs, !.etag = prior])
    BY FetchingTyped
  <2>. QED  BY <1>3, <2>1, <2>2
<1>5. CASE FetchFail(r)
  BY <1>3, <1>5, RestingTyped DEF FetchFail
<1>6. CASE Fetch(r)
  <2>1. CASE run' = [run EXCEPT ![r].pc = "record"]
    <3>1. Typed([run[r] EXCEPT !.pc = "record"])
      BY <1>1, <1>6 DEF Fetch, Typed, RunStates, AtPosting, Analyzing, Working
    <3>. QED  BY <1>3, <2>1, <3>1
  <2>2. ASSUME NEW tag \in {version, 0},
               run' = [run EXCEPT ![r] = [@ EXCEPT !.pc = "record", !.etag = tag,
                                                   !.got = listing, !.modified = TRUE]]
        PROVE  Inv'
    <3>. DEFINE s == [run[r] EXCEPT !.pc = "record", !.etag = tag, !.got = listing,
                                    !.modified = TRUE]
    <3>1. run[r] \in RunStates /\ tag \in 0..MaxVersions /\ listing \in Listings
      BY <1>1, BoardAssumption DEF Typed, BoardTypeOK
    <3>2. s \in RunStates
      BY <3>1 DEF RunStates
    <3>3. s.pc = "record" /\ s.job = Nil /\ s.todo = {} /\ s.seen = {}
      BY <1>1, <1>6, <3>1 DEF Fetch, Typed, RunStates, AtPosting, Analyzing
    <3>4. Typed(s)
      BY <3>2, <3>3 DEF Typed, AtPosting, Analyzing, Working
    <3>. QED  BY <1>3, <2>2, <3>4
  <2>. QED  BY <1>6, <2>1, <2>2 DEF Fetch
<1>7. CASE RecordEtag(r)
  <2>. QED  BY <1>3, <1>7, RecordedTyped DEF RecordEtag
<1>. QED  BY <1>4, <1>5, <1>6, <1>7

-----------------------------------------------------------------------------
\* A run that has done with its posting.
LEMMA SyncedRun ==
    ASSUME Inv, NEW r \in Runs, run[r].pc \in AtPosting
    PROVE  /\ Typed(Synced(r)) /\ Synced(r).pc = "sync" /\ Synced(r).job = Nil
           /\ Synced(r).todo = run[r].todo \ {run[r].job}
           /\ Synced(r).got = run[r].got /\ Synced(r).etag = run[r].etag
           /\ Synced(r).modified
           /\ run[r].job \in Jobs /\ run[r].got[run[r].job] \in Texts
<1>1. Typed(run[r]) /\ run[r] \in RunStates /\ run[r].pc \in Working
  BY DEF Inv, Typed, Working
<1>2. run[r].modified /\ Listed(run[r].got) = run[r].todo \cup run[r].seen
      /\ run[r].job \in run[r].seen
  BY <1>1 DEF Typed
<1>3. run[r].job \in Jobs /\ run[r].got[run[r].job] \in Texts
  BY <1>1, <1>2 DEF Listed, RunStates, Listings
<1>4. /\ Synced(r) \in RunStates /\ Synced(r).pc = "sync" /\ Synced(r).job = Nil
      /\ Synced(r).todo = run[r].todo \ {run[r].job} /\ Synced(r).seen = run[r].seen
      /\ Synced(r).got = run[r].got /\ Synced(r).etag = run[r].etag
      /\ Synced(r).modified = run[r].modified
  BY <1>1, BoardAssumption DEF Synced, RunStates, Working
<1>5. Typed(Synced(r))
  BY <1>1, <1>2, <1>4 DEF Typed, AtPosting, Analyzing, Working
<1>. QED  BY <1>2, <1>3, <1>4, <1>5

LEMMA LookupStep ==
    ASSUME Inv, NEW r \in Runs, NEW j \in Jobs, Lookup(r, j)
    PROVE  /\ Inv' /\ run'[r].pc = "store" /\ run'[r].job = j
           /\ run'[r].todo = run[r].todo /\ run'[r].etag = run[r].etag
           /\ run'[r].got = run[r].got /\ run'[r].modified = run[r].modified
           /\ run'[r].changed \in {Changes(j, run[r].got[j]), TRUE}
<1>1. Typed(run[r]) /\ BoardTypeOK /\ run[r] \in RunStates
  BY DEF Inv, Typed
<1>2. PICK changed \in {Changes(j, run[r].got[j]), TRUE} :
        run' = [run EXCEPT ![r] = [run[r] EXCEPT !.pc = "store", !.job = j,
                                      !.changed = changed, !.seen = run[r].seen \cup {j}]]
  BY DEF Lookup
<1>3. PICK s : s = [run[r] EXCEPT !.pc = "store", !.job = j, !.changed = changed,
                                  !.seen = run[r].seen \cup {j}]
  OBVIOUS
<1>4. /\ s \in RunStates /\ s.pc = "store" /\ s.job = j /\ s.todo = run[r].todo
      /\ s.etag = run[r].etag /\ s.got = run[r].got /\ s.modified = run[r].modified
      /\ s.seen = run[r].seen \cup {j} /\ s.changed = changed
  BY <1>1, <1>2, <1>3 DEF RunStates, Changes, AtPosting, Working
<1>5. Typed(s)
  BY <1>1, <1>4, BoardAssumption DEF Lookup, Typed, AtPosting, Analyzing, Working
<1>6. Inv'
  BY <1>1, <1>2, <1>3, <1>5, StepInv DEF Lookup, tables, faults, BoardTypeOK
<1>7. run'[r] = s
  BY <1>2, <1>3, <1>5, RunStep
<1>. QED  BY <1>2, <1>4, <1>6, <1>7

LEMMA UpsertStep ==
    ASSUME Inv, NEW r \in Runs, Upsert(r)
    PROVE  /\ Inv'
           /\ run'[r].pc \in {"sync", "analyze"} /\ run'[r].todo = run[r].todo \ {run[r].job}
           /\ run'[r].etag = run[r].etag /\ run'[r].got = run[r].got /\ run'[r].modified
           /\ run[r].changed /\ run[r].inputs =>
                /\ run'[r].pc = "analyze" /\ run'[r].job = run[r].job /\ run'[r].alive
           /\ ~(run[r].changed /\ run[r].inputs) => run'[r].pc = "sync"
<1>. DEFINE j == run[r].job
            c == run[r].got[j]
<1>1. Typed(run[r]) /\ BoardTypeOK /\ run[r] \in RunStates /\ run[r].pc = "store"
  BY DEF Inv, Typed, Upsert
<1>2. /\ Typed(Synced(r)) /\ Synced(r).pc = "sync" /\ Synced(r).todo = run[r].todo \ {j}
      /\ Synced(r).got = run[r].got /\ Synced(r).etag = run[r].etag /\ Synced(r).modified
      /\ j \in Jobs /\ c \in Texts
  BY <1>1, SyncedRun DEF AtPosting
<1>3. PICK s : s = IF run[r].changed /\ run[r].inputs
                   THEN [run[r] EXCEPT !.pc = "analyze", !.alive = TRUE,
                                       !.todo = run[r].todo \ {j}]
                   ELSE Synced(r)
  OBVIOUS
<1>4. run' = [run EXCEPT ![r] = s]
  BY <1>3 DEF Upsert
<1>5. /\ Typed(s) /\ s.todo = run[r].todo \ {j} /\ s.etag = run[r].etag
      /\ s.got = run[r].got /\ s.modified
      /\ run[r].changed /\ run[r].inputs => s.pc = "analyze" /\ s.job = j /\ s.alive
      /\ ~(run[r].changed /\ run[r].inputs) => s.pc = "sync"
  <2>1. CASE run[r].changed /\ run[r].inputs
    <3>1. /\ s \in RunStates /\ s.pc = "analyze" /\ s.job = j /\ s.alive
          /\ s.todo = run[r].todo \ {j} /\ s.etag = run[r].etag /\ s.got = run[r].got
          /\ s.modified = run[r].modified /\ s.seen = run[r].seen
      BY <1>1, <1>3, <2>1 DEF RunStates, AtPosting, Analyzing, Working
    <3>2. run[r].modified /\ Listed(run[r].got) = run[r].todo \cup run[r].seen
          /\ j \in run[r].seen /\ j # Nil /\ run[r].todo \subseteq Listed(run[r].got)
      BY <1>1 DEF Typed, AtPosting, Working
    <3>3. Typed(s)
      BY <3>1, <3>2 DEF Typed, AtPosting, Analyzing, Working
    <3>. QED  BY <2>1, <3>1, <3>2, <3>3
  <2>. QED  BY <1>2, <1>3, <2>1
<1>6. /\ stored' \in Listings /\ open' \subseteq Listed(stored') /\ missed' \subseteq Jobs
      /\ excuse' \in [Jobs -> Excuses \cup {Nil}]
  BY <1>1, <1>2, BoardAssumption
     DEF Upsert, BoardTypeOK, Listings, Listed, ExcuseOf, Excuses
<1>7. UNCHANGED <<portal, etag, analyzed>>
  BY DEF Upsert
<1>8. Inv'
  BY <1>1, <1>4, <1>5, <1>6, <1>7, StepInv DEF BoardTypeOK
<1>9. run'[r] = s
  BY <1>4, <1>5, RunStep
<1>. QED  BY <1>5, <1>8, <1>9

LEMMA SyncErrorStep ==
    ASSUME Inv, NEW r \in Runs, SyncError(r)
    PROVE  Inv' /\ run'[r] = Synced(r)
<1>1. Typed(Synced(r)) /\ run[r].job \in Jobs
  BY SyncedRun DEF SyncError, AtPosting
<1>. QED
  BY <1>1, RunStep, StepInv DEF SyncError, tables, Inv, BoardTypeOK

LEMMA AnalyzeReadStep ==
    ASSUME Inv, NEW r \in Runs, AnalyzeRead(r)
    PROVE  /\ Inv'
           /\ run'[r].etag = run[r].etag /\ run'[r].got = run[r].got
           /\ run'[r].modified = run[r].modified /\ run'[r].todo = run[r].todo
           /\ run[r].alive => /\ run'[r].pc = "save" /\ run'[r].job = run[r].job
                              /\ run'[r].alive /\ run'[r].text = stored[run[r].job]
           /\ ~run[r].alive => run'[r] = Synced(r)
<1>1. Typed(run[r]) /\ BoardTypeOK /\ run[r] \in RunStates /\ run[r].pc = "analyze"
  BY DEF Inv, Typed, AnalyzeRead
<1>2. /\ Typed(Synced(r)) /\ Synced(r).todo = run[r].todo \ {run[r].job}
      /\ Synced(r).got = run[r].got /\ Synced(r).etag = run[r].etag /\ Synced(r).modified
      /\ run[r].job \in Jobs
  BY <1>1, SyncedRun DEF AtPosting, Analyzing
<1>3. run[r].job \notin run[r].todo /\ run[r].modified
  BY <1>1 DEF Typed, AtPosting, Analyzing, Working
<1>4. PICK s : s = IF run[r].alive
                   THEN [run[r] EXCEPT !.pc = "save", !.text = stored[run[r].job]]
                   ELSE Synced(r)
  OBVIOUS
<1>5. run' = [run EXCEPT ![r] = s]
  BY <1>4 DEF AnalyzeRead
<1>6. /\ Typed(s) /\ s.etag = run[r].etag /\ s.got = run[r].got
      /\ s.modified = run[r].modified /\ s.todo = run[r].todo
      /\ run[r].alive => /\ s.pc = "save" /\ s.job = run[r].job /\ s.alive
                         /\ s.text = stored[run[r].job]
  <2>1. CASE run[r].alive
    <3>1. stored[run[r].job] \in Texts \cup {Nil}
      BY <1>1, <1>2 DEF BoardTypeOK, Listings
    <3>2. /\ s \in RunStates /\ s.pc = "save" /\ s.job = run[r].job /\ s.alive
          /\ s.text = stored[run[r].job] /\ s.seen = run[r].seen
          /\ s.todo = run[r].todo /\ s.etag = run[r].etag /\ s.got = run[r].got
          /\ s.modified = run[r].modified
      BY <1>1, <1>4, <2>1, <3>1 DEF RunStates, AtPosting, Analyzing, Working
    <3>3. Typed(s)
      BY <1>1, <3>2 DEF Typed, AtPosting, Analyzing, Working
    <3>. QED  BY <3>2, <3>3
  <2>. QED  BY <1>2, <1>3, <1>4, <2>1
<1>7. Inv'
  BY <1>1, <1>5, <1>6, StepInv DEF AnalyzeRead, tables, faults, BoardTypeOK
<1>8. run'[r] = s
  BY <1>5, <1>6, RunStep
<1>. QED  BY <1>4, <1>6, <1>7, <1>8

\* A run that saves an analysis, or gives it up, turns to its next posting.
LEMMA AnalyzeEndStep ==
    ASSUME Inv, NEW r \in Runs, AnalyzeSave(r) \/ AnalyzeFail(r)
    PROVE  /\ Inv' /\ run'[r] = Synced(r) /\ run[r].pc \in Analyzing
           /\ UNCHANGED <<portal, etag, stored, open, missed>>
<1>1. Typed(run[r]) /\ BoardTypeOK /\ run[r] \in RunStates /\ run[r].pc \in Analyzing
  BY DEF Inv, Typed, AnalyzeSave, AnalyzeFail, Analyzing
<1>2. Typed(Synced(r)) /\ run[r].job \in Jobs
  BY <1>1, SyncedRun DEF AtPosting
<1>3. run' = [run EXCEPT ![r] = Synced(r)] /\ UNCHANGED <<portal, etag, stored, open, missed>>
  BY DEF AnalyzeSave, AnalyzeFail, tables
<1>4. analyzed' \in Listings /\ excuse' \in [Jobs -> Excuses \cup {Nil}]
  <2>1. CASE AnalyzeSave(r)
    <3>1. run[r].text \in Texts \cup {Nil}
      BY <1>1 DEF RunStates
    <3>. QED  BY <1>1, <1>2, <2>1, <3>1 DEF AnalyzeSave, BoardTypeOK, Listings
  <2>2. CASE AnalyzeFail(r)
    BY <1>1, <1>2, <2>2 DEF AnalyzeFail, GivenUp, tables, BoardTypeOK, Excuses
  <2>. QED  BY <2>1, <2>2
<1>5. Inv'
  BY <1>1, <1>2, <1>3, <1>4, StepInv DEF BoardTypeOK
<1>. QED  BY <1>1, <1>2, <1>3, <1>5, RunStep

LEMMA CloseStep ==
    ASSUME Inv, NEW r \in Runs, Close(r) \/ CloseFail(r)
    PROVE  Inv' /\ run'[r] = Finished
<1>1. BoardTypeOK /\ run' = [run EXCEPT ![r] = Finished] /\ Typed(Finished)
  BY RestingTyped DEF Inv, Close, CloseFail
<1>2. /\ UNCHANGED <<portal, etag, stored, analyzed, excuse>>
      /\ open' \subseteq open /\ missed' \subseteq Jobs
  <2>1. CASE Close(r)
    BY <1>1, <2>1 DEF Close, portal, BoardTypeOK
  <2>2. CASE CloseFail(r)
    <3>1. open \subseteq Jobs
      BY <1>1 DEF BoardTypeOK, Listed
    <3>. QED  BY <1>1, <2>2, <3>1 DEF CloseFail, portal, tables, Absent, BoardTypeOK
  <2>. QED  BY <2>1, <2>2
<1>3. Inv'
  BY <1>1, <1>2, StepInv DEF BoardTypeOK
<1>. QED  BY <1>1, <1>3, RunStep

LEMMA RunDiesStep ==
    ASSUME Inv, NEW r \in Runs, RunDies(r)
    PROVE  Inv' /\ run'[r] = Resting
<1>1. /\ BoardTypeOK /\ Typed(run[r]) /\ run' = [run EXCEPT ![r] = Resting]
      /\ Typed(Resting) /\ UNCHANGED <<portal, tables>>
  BY RestingTyped DEF Inv, RunDies
<1>2. missed' \subseteq Jobs
  <2>1. open \subseteq Jobs /\ run[r].todo \subseteq Jobs
    BY <1>1 DEF BoardTypeOK, Typed, Listed
  <2>. QED  BY <1>1, <2>1 DEF RunDies, Absent, BoardTypeOK
<1>3. excuse' \in [Jobs -> Excuses \cup {Nil}]
  BY <1>1 DEF RunDies, GivenUp, BoardTypeOK, Excuses
<1>4. Inv'
  BY <1>1, <1>2, <1>3, StepInv DEF tables, BoardTypeOK
<1>. QED  BY <1>1, <1>4, RunStep

LEMMA NextInv == Inv /\ [BoardNext]_syncVars => Inv'
<1> SUFFICES ASSUME Inv, [BoardNext]_syncVars PROVE Inv'
  OBVIOUS
<1>1. CASE UNCHANGED syncVars
  BY <1>1 DEF syncVars, portal, tables, faults, Inv, Typed, BoardTypeOK
<1>2. ASSUME NEW r \in Runs, Advance(r) PROVE Inv'
  BY <1>2, OpeningStep, LookupStep, UpsertStep, SyncErrorStep, AnalyzeReadStep, AnalyzeEndStep,
     CloseStep, RunDiesStep DEF Advance
<1>. QED  BY <1>1, <1>2, PortalStep, DeleteStep DEF BoardNext

-----------------------------------------------------------------------------
\* The invariant behind the theorems below.
THEOREM Invariance == BoardSpec => []Inv
BY InitInv, NextInv, PTL DEF BoardSpec

\* The tables, the runs and the histories keep their types.
THEOREM TypeCorrect == BoardSpec => []BoardTypeOK
<1>1. Inv => BoardTypeOK
  BY DEF Inv
<1>. QED  BY <1>1, Invariance, PTL

\* Only a listing that no longer has a posting closes it.
THEOREM ClosureIsJustified == BoardSpec => ClosedOnlyWhenAbsent
<1>. DEFINE Justified ==
       \A j \in open \ open' :
          stored'[j] # Nil =>
              \E v \in Runs : run[v].modified /\ run[v].got[j] = Nil
                              /\ run'[v].pc = "done"
<1>1. ASSUME Inv, [BoardNext]_syncVars PROVE [Justified]_syncVars
  <2>1. SUFFICES ASSUME BoardNext, NEW j \in open, j \notin open', stored'[j] # Nil
                 PROVE  \E v \in Runs : run[v].modified /\ run[v].got[j] = Nil
                                        /\ run'[v].pc = "done"
    BY <1>1
  <2>2. stored \in Listings /\ j \in Jobs
    BY <1>1 DEF Inv, BoardTypeOK, Listed
  <2>3. ~PortalChange /\ \A i \in Jobs : ~DeletePosting(i)
    BY <2>1, <2>2 DEF PortalChange, tables, DeletePosting, Listings
  <2>4. PICK r \in Runs : Advance(r)
    BY <2>1, <2>3 DEF BoardNext
  <2>5. Close(r)
    BY <2>1, <2>4
       DEF Advance, Start, Fetch, FetchFail, RecordEtag, Lookup, Upsert, SyncError, AnalyzeRead,
           AnalyzeSave, AnalyzeFail, CloseFail, RunDies, tables
  <2>6. Typed(run[r]) /\ run[r].pc = "sync" /\ run[r].todo = {} /\ j \notin run[r].seen
    BY <1>1, <2>1, <2>5 DEF Inv, Close, Absent
  <2>7. run[r].modified /\ run[r].got[j] = Nil
    BY <2>2, <2>6 DEF Typed, Listed, Working
  <2>8. run'[r].pc = "done"
    BY <1>1, <2>5, CloseStep DEF Finished, Resting
  <2>. QED  BY <2>7, <2>8
<1>. QED  BY <1>1, Invariance, PTL DEF BoardSpec, ClosedOnlyWhenAbsent

-----------------------------------------------------------------------------
(***************************************************************************)
(* What holds when runs of one board do not overlap.                       *)
(***************************************************************************)
OneRun == \A r, s \in Runs : r = s

\* What a run believes of the row at work: a row taken for unchanged is, as long
\* as it stands; so is one whose analysis was begun, and when it is gone it stays
\* gone.
OfTheRow(s) ==
    /\ s.pc = "store" /\ ~s.changed => stored[s.job] \in {s.got[s.job], Nil}
    /\ s.pc \in Analyzing =>
          /\ ~s.alive => stored[s.job] = Nil
          /\ s.pc = "save" /\ s.alive => s.text = stored[s.job]

AnalysesInv == Inv /\ ChangesAnalyzed /\ \A r \in Runs : OfTheRow(run[r])

LEMMA AnalysesInit == BoardInit => AnalysesInv
BY InitInv
   DEF BoardInit, AnalysesInv, ChangesAnalyzed, OfTheRow, Unlisted, Resting, Analyzing

\* A step of a run that touches neither rows nor analyses, outside an analysis.
LEMMA AnalysesStand ==
    ASSUME OneRun, AnalysesInv, Inv', NEW r \in Runs, run[r].pc \notin Analyzing,
           OfTheRow(run[r])', UNCHANGED <<stored, analyzed, excuse>>
    PROVE  AnalysesInv'
<1>1. \A v \in Runs : v = r
  BY DEF OneRun
<1>2. ChangesAnalyzed'
  BY <1>1 DEF AnalysesInv, ChangesAnalyzed
<1>. QED  BY <1>1, <1>2 DEF AnalysesInv

\* A run that looks at a row sees it as it is.
LEMMA AnalysesLookup ==
    ASSUME OneRun, AnalysesInv, NEW r \in Runs, NEW j \in Jobs, Lookup(r, j)
    PROVE  AnalysesInv'
<1>1. /\ Inv' /\ run'[r].pc = "store" /\ run'[r].job = j /\ run'[r].got = run[r].got
      /\ run'[r].changed \in {Changes(j, run[r].got[j]), TRUE}
  BY LookupStep DEF AnalysesInv
<1>2. run[r].pc = "sync" /\ UNCHANGED <<stored, analyzed, excuse>>
  BY DEF Lookup, tables, faults
<1>3. OfTheRow(run[r])'
  BY <1>1, <1>2 DEF OfTheRow, Changes, Analyzing
<1>. QED  BY <1>1, <1>2, <1>3, AnalysesStand DEF Analyzing

LEMMA AnalysesOpening ==
    ASSUME OneRun, AnalysesInv, NEW r \in Runs,
           \/ Start(r) \/ Fetch(r) \/ FetchFail(r) \/ RecordEtag(r)
           \/ SyncError(r) \/ Close(r) \/ CloseFail(r)
    PROVE  AnalysesInv'
<1>1. Inv' /\ BoardTypeOK
  BY OpeningStep, SyncErrorStep, CloseStep DEF AnalysesInv, Inv
<1>2. run[r].pc \notin Analyzing /\ UNCHANGED <<stored, analyzed, excuse>>
  BY DEF Start, Fetch, FetchFail, RecordEtag, SyncError, Close, CloseFail, Analyzing,
         tables, faults
<1>3. run'[r].pc \notin AtPosting
  <2>1. CASE Start(r)
    BY <1>1, <2>1 DEF Start, Resting, AtPosting, Analyzing, BoardTypeOK
  <2>2. CASE Fetch(r)
    BY <1>1, <2>2 DEF Fetch, AtPosting, Analyzing, BoardTypeOK, RunStates
  <2>3. CASE FetchFail(r)
    BY <1>1, <2>3 DEF FetchFail, Resting, AtPosting, Analyzing, BoardTypeOK
  <2>4. CASE RecordEtag(r)
    <3>1. run'[r] = Recorded(r) /\ run[r].pc = "record" /\ Inv
      BY <1>1, <2>4 DEF RecordEtag, BoardTypeOK, AnalysesInv
    <3>2. Recorded(r) = Finished \/ Recorded(r).pc = "sync"
      BY <3>1, RecordedTyped
    <3>. QED  BY <3>1, <3>2 DEF Finished, Resting, AtPosting, Analyzing
  <2>5. CASE SyncError(r)
    BY <2>5, SyncErrorStep, SyncedRun DEF AnalysesInv, Analyzing, AtPosting, SyncError
  <2>6. CASE Close(r) \/ CloseFail(r)
    BY <2>6, CloseStep DEF AnalysesInv, Finished, Resting, AtPosting, Analyzing
  <2>. QED  BY <2>1, <2>2, <2>3, <2>4, <2>5, <2>6
<1>4. OfTheRow(run[r])'
  BY <1>3 DEF OfTheRow, AtPosting
<1>. QED  BY <1>1, <1>2, <1>4, AnalysesStand

LEMMA AnalysesDelete ==
    ASSUME AnalysesInv, NEW j \in Jobs, DeletePosting(j)
    PROVE  AnalysesInv'
<1>1. Inv' /\ \A r \in Runs : \/ run'[r] = run[r] /\ run[r].job # j
                              \/ run'[r] = [run[r] EXCEPT !.alive = FALSE] /\ run[r].job = j
  BY DeleteStep DEF AnalysesInv
<1>2. /\ stored' = [stored EXCEPT ![j] = Nil] /\ analyzed' = [analyzed EXCEPT ![j] = Nil]
      /\ excuse' = [excuse EXCEPT ![j] = Nil] /\ BoardTypeOK
  BY DEF DeletePosting, AnalysesInv, Inv
<1>3. \A r \in Runs : run[r] \in RunStates
  BY <1>2 DEF BoardTypeOK
<1>4. \A r \in Runs : /\ run'[r].pc = run[r].pc /\ run'[r].job = run[r].job
                      /\ run'[r].text = run[r].text
                      /\ run'[r].changed = run[r].changed /\ run'[r].got = run[r].got
                      /\ run'[r].alive = (run[r].alive /\ run[r].job # j)
  BY <1>1, <1>3 DEF RunStates
<1>5. ChangesAnalyzed'
  BY <1>2, <1>4 DEF AnalysesInv, ChangesAnalyzed, BoardTypeOK, Listings
<1>6. ASSUME NEW r \in Runs PROVE OfTheRow(run[r])'
  <2>1. run[r].pc \in AtPosting => run[r].job \in Jobs
    BY SyncedRun DEF AnalysesInv
  <2>2. run'[r].pc \in AtPosting => stored'[run[r].job] =
          IF run[r].job = j THEN Nil ELSE stored[run[r].job]
    BY <1>2, <1>4, <2>1 DEF BoardTypeOK, Listings
  <2>3. OfTheRow(run[r])
    BY DEF AnalysesInv
  <2>4. run'[r].pc = "store" /\ ~run'[r].changed =>
          stored'[run'[r].job] \in {run'[r].got[run'[r].job], Nil}
    BY <1>4, <2>2, <2>3 DEF OfTheRow, AtPosting
  <2>5. run'[r].pc \in Analyzing =>
          /\ ~run'[r].alive => stored'[run'[r].job] = Nil
          /\ run'[r].pc = "save" /\ run'[r].alive => run'[r].text = stored'[run'[r].job]
    BY <1>4, <2>2, <2>3 DEF OfTheRow, AtPosting
  <2>. QED  BY <2>4, <2>5 DEF OfTheRow
<1>. QED  BY <1>1, <1>5, <1>6 DEF AnalysesInv

LEMMA AnalysesUpsert ==
    ASSUME OneRun, AnalysesInv, NEW r \in Runs, Upsert(r)
    PROVE  AnalysesInv'
<1>. DEFINE j == run[r].job
            c == run[r].got[j]
<1>1. /\ Inv /\ Inv' /\ BoardTypeOK /\ j \in Jobs /\ \A v \in Runs : v = r
      /\ run[r].pc = "store"
  BY UpsertStep, SyncedRun DEF AnalysesInv, Inv, OneRun, Upsert, AtPosting
<1>2. /\ stored' = [stored EXCEPT ![j] = c] /\ UNCHANGED analyzed
      /\ excuse' = IF stored[j] = c THEN excuse ELSE [excuse EXCEPT ![j] = ExcuseOf(r)]
  BY DEF Upsert
<1>3. /\ run'[r].pc \in {"sync", "analyze"}
      /\ run[r].changed /\ run[r].inputs =>
           run'[r].pc = "analyze" /\ run'[r].job = j /\ run'[r].alive
      /\ ~(run[r].changed /\ run[r].inputs) => run'[r].pc = "sync"
  BY <1>1, UpsertStep
<1>4. \A i \in Jobs : stored[i] = Nil \/ analyzed[i] = stored[i] \/ excuse[i] \in Excuses
  BY <1>1 DEF AnalysesInv, ChangesAnalyzed, Analyzing
<1>5. ChangesAnalyzed'
  <2>1. ASSUME NEW i \in Jobs, i # j
        PROVE  \/ stored'[i] = Nil \/ analyzed'[i] = stored'[i] \/ excuse'[i] \in Excuses
    BY <1>1, <1>2, <1>4, <2>1 DEF BoardTypeOK, Listings
  <2>2. CASE stored[j] = c
    BY <1>1, <1>2, <1>4, <2>1, <2>2 DEF ChangesAnalyzed, BoardTypeOK, Listings
  <2>3. CASE stored[j] # c /\ run[r].changed /\ run[r].inputs
    BY <1>1, <1>3, <2>1, <2>3 DEF ChangesAnalyzed, Analyzing
  <2>4. CASE stored[j] # c /\ ~(run[r].changed /\ run[r].inputs)
    <3>1. ExcuseOf(r) \in Excuses
      BY <1>1, <2>4 DEF ExcuseOf, Excuses, AnalysesInv, OfTheRow
    <3>2. excuse'[j] \in Excuses
      BY <1>1, <1>2, <2>4, <3>1 DEF BoardTypeOK
    <3>. QED  BY <2>1, <3>2 DEF ChangesAnalyzed
  <2>. QED  BY <2>2, <2>3, <2>4
<1>6. OfTheRow(run[r])'
  BY <1>3 DEF OfTheRow, Analyzing
<1>. QED  BY <1>1, <1>5, <1>6 DEF AnalysesInv

LEMMA AnalysesRead ==
    ASSUME OneRun, AnalysesInv, NEW r \in Runs, AnalyzeRead(r)
    PROVE  AnalysesInv'
<1>1. /\ Inv /\ Inv' /\ \A v \in Runs : v = r
      /\ run[r].pc = "analyze" /\ UNCHANGED <<stored, analyzed, excuse>>
  BY AnalyzeReadStep DEF AnalysesInv, OneRun, AnalyzeRead, tables, faults
<1>2. CASE run[r].alive
  <2>1. /\ run'[r].pc = "save" /\ run'[r].job = run[r].job /\ run'[r].alive
        /\ run'[r].text = stored[run[r].job]
    BY <1>1, <1>2, AnalyzeReadStep
  <2>. QED  BY <1>1, <2>1 DEF AnalysesInv, ChangesAnalyzed, OfTheRow, Analyzing
<1>3. CASE ~run[r].alive
  <2>1. run'[r].pc = "sync" /\ stored[run[r].job] = Nil
    BY <1>1, <1>3, AnalyzeReadStep, SyncedRun
       DEF AnalysesInv, OfTheRow, AtPosting, Analyzing
  <2>. QED  BY <1>1, <2>1 DEF AnalysesInv, ChangesAnalyzed, OfTheRow, Analyzing
<1>. QED  BY <1>2, <1>3

\* The debt of the row is paid, or given up on record, or the row is gone.
LEMMA AnalysesEnd ==
    ASSUME OneRun, AnalysesInv, NEW r \in Runs, AnalyzeSave(r) \/ AnalyzeFail(r) \/ RunDies(r)
    PROVE  AnalysesInv'
<1>. DEFINE j == run[r].job
<1>1. Inv /\ Inv' /\ BoardTypeOK /\ (\A v \in Runs : v = r) /\ UNCHANGED stored
  BY AnalyzeEndStep, RunDiesStep
     DEF AnalysesInv, Inv, OneRun, AnalyzeSave, AnalyzeFail, RunDies, tables
<1>2. run'[r].pc \notin AtPosting
  BY <1>1, AnalyzeEndStep, RunDiesStep, SyncedRun DEF AtPosting, Analyzing, Resting
<1>3. \A i \in Jobs : \/ stored[i] = Nil \/ analyzed[i] = stored[i] \/ excuse[i] \in Excuses
                      \/ run[r].pc \in Analyzing /\ i = j
  BY <1>1 DEF AnalysesInv, ChangesAnalyzed
<1>4. \A i \in Jobs : \/ stored[i] = Nil \/ analyzed'[i] = stored[i] \/ excuse'[i] \in Excuses
  <2>1. CASE AnalyzeSave(r)
    <3>1. run[r].pc = "save" /\ j \in Jobs
      BY <1>1, <2>1, SyncedRun DEF AnalyzeSave, AtPosting, Analyzing
    <3>2. CASE run[r].alive
      <4>1. run[r].text = stored[j]
        BY <3>1, <3>2 DEF AnalysesInv, OfTheRow, Analyzing
      <4>2. /\ analyzed' = [analyzed EXCEPT ![j] = stored[j]]
            /\ excuse' = [excuse EXCEPT ![j] = Nil]
        BY <2>1, <3>2, <4>1 DEF AnalyzeSave
      <4>. QED  BY <1>1, <1>3, <3>1, <4>2 DEF BoardTypeOK, Listings
    <3>3. CASE ~run[r].alive
      BY <1>3, <2>1, <3>1, <3>3 DEF AnalyzeSave, AnalysesInv, OfTheRow, Analyzing
    <3>. QED  BY <3>2, <3>3
  <2>2. CASE AnalyzeFail(r) \/ RunDies(r)
    <3>1. UNCHANGED analyzed /\ excuse' = GivenUp(r)
      BY <2>2 DEF AnalyzeFail, RunDies, tables
    <3>2. CASE run[r].pc \in Analyzing /\ run[r].alive
      <4>1. excuse' = [excuse EXCEPT ![j] = "failed"]
        BY <3>1, <3>2 DEF GivenUp
      <4>. QED  BY <1>1, <1>3, <3>1, <4>1 DEF BoardTypeOK, Excuses
    <3>3. CASE ~(run[r].pc \in Analyzing /\ run[r].alive)
      BY <1>3, <3>1, <3>3 DEF GivenUp, AnalysesInv, OfTheRow
    <3>. QED  BY <3>2, <3>3
  <2>. QED  BY <2>1, <2>2
<1>. QED  BY <1>1, <1>2, <1>4 DEF AnalysesInv, ChangesAnalyzed, OfTheRow, AtPosting

LEMMA AnalysesNext == OneRun /\ AnalysesInv /\ [BoardNext]_syncVars => AnalysesInv'
<1> SUFFICES ASSUME OneRun, AnalysesInv, [BoardNext]_syncVars PROVE AnalysesInv'
  OBVIOUS
<1>1. CASE UNCHANGED syncVars \/ PortalChange
  <2>1. Inv'
    BY NextInv DEF AnalysesInv
  <2>. QED
    BY <1>1, <2>1
       DEF syncVars, tables, faults, PortalChange, AnalysesInv, ChangesAnalyzed, OfTheRow
<1>2. ASSUME NEW r \in Runs, Advance(r) PROVE AnalysesInv'
  BY <1>2, AnalysesOpening, AnalysesLookup, AnalysesUpsert, AnalysesRead, AnalysesEnd DEF Advance
<1>. QED  BY <1>1, <1>2, AnalysesDelete DEF BoardNext

\* Where the runs of a board do not overlap, no change of a stored posting goes
\* without an analysis, unless one failed, or its run had no inputs, or inserted
\* as unchanged a row that was deleted after its look-up.
THEOREM NoChangeGoesUnnoticed ==
    ASSUME OneRun
    PROVE  BoardSpec => []ChangesAnalyzed
<1>1. AnalysesInv /\ [BoardNext]_syncVars => AnalysesInv'
  BY AnalysesNext
<1>2. AnalysesInv => ChangesAnalyzed
  BY DEF AnalysesInv
<1>. QED  BY <1>1, <1>2, AnalysesInit, PTL DEF BoardSpec

-----------------------------------------------------------------------------
(***************************************************************************)
(* The mirror, when runs of one board do not overlap.                      *)
(***************************************************************************)
\* How far a run may lag behind the portal: its etag is never ahead, without
\* one it has the current listing if anybody may take it for current, and what
\* it has synced of that one is mirrored.
Abreast(s) ==
    /\ s.etag <= version
    /\ s.pc \in {"fetch", "record"} /\ ~s.modified => s.etag \in {etag, 0}
    /\ s.pc = "record" /\ ~s.modified => s.etag # 0
    /\ s.pc = "record" /\ s.modified /\ version \in {etag, s.etag} => s.got = listing
    /\ s.pc \in Working /\ etag = version =>
         /\ s.got = listing
         /\ \A j \in Listed(listing) \ s.todo : Mirrored(j) \/ j \in missed

MirrorInv ==
    /\ Inv
    /\ etag <= version
    /\ \A r \in Runs : Abreast(run[r])
    /\ MirrorsBoard

LEMMA MirrorInit == BoardInit => MirrorInv
BY InitInv DEF BoardInit, MirrorInv, Abreast, MirrorsBoard, Resting, AtPosting, Analyzing, Working

\* The only run moves on: so much is left to show.
LEMMA OnlyRun ==
    ASSUME OneRun, MirrorInv, Inv', NEW r \in Runs, UNCHANGED portal, etag' <= version,
           Abreast(run[r])',
           etag' = version /\ run'[r].pc \notin Working =>
               \A j \in Jobs : Mirrored(j)' \/ j \in missed'
    PROVE  MirrorInv'
<1>1. \A v \in Runs : v = r
  BY DEF OneRun
<1>. QED  BY <1>1 DEF MirrorInv, MirrorsBoard, Syncing, portal

LEMMA MirrorPortal == ASSUME MirrorInv, PortalChange PROVE MirrorInv'
<1>1. Inv' /\ UNCHANGED <<etag, run>> /\ version' = version + 1
  BY PortalStep DEF MirrorInv, PortalChange, tables
<1>2. /\ version \in Nat /\ etag \in Nat /\ etag < version'
      /\ \A r \in Runs : run[r].etag \in Nat /\ run[r].etag < version'
  BY <1>1, BoardAssumption DEF MirrorInv, Abreast, Inv, Typed, BoardTypeOK, RunStates
<1>. QED  BY <1>1, <1>2 DEF MirrorInv, Abreast, MirrorsBoard

LEMMA MirrorDelete == ASSUME MirrorInv, NEW j \in Jobs, DeletePosting(j) PROVE MirrorInv'
<1>1. /\ Inv' /\ UNCHANGED <<portal, etag>> /\ BoardTypeOK
      /\ \A r \in Runs : \/ run'[r] = run[r] /\ run[r].job # j
                         \/ run'[r] = [run[r] EXCEPT !.alive = FALSE] /\ run[r].job = j
  BY DeleteStep DEF MirrorInv, Inv, DeletePosting
<1>2. \A r \in Runs :
        /\ run'[r].pc = run[r].pc /\ run'[r].etag = run[r].etag /\ run'[r].got = run[r].got
        /\ run'[r].modified = run[r].modified /\ run'[r].todo = run[r].todo
  BY <1>1 DEF BoardTypeOK, RunStates
<1>3. \A i \in Jobs : Mirrored(i) \/ i \in missed => Mirrored(i)' \/ i \in missed'
  BY <1>1 DEF DeletePosting, Mirrored, portal, BoardTypeOK, Listings
<1>4. ASSUME NEW r \in Runs PROVE Abreast(run[r])'
  BY <1>1, <1>2, <1>3 DEF MirrorInv, Abreast, portal, Listed
<1>5. MirrorsBoard'
  BY <1>1, <1>2, <1>3 DEF MirrorInv, MirrorsBoard, Syncing, portal
<1>. QED  BY <1>1, <1>4, <1>5 DEF MirrorInv, portal

LEMMA MirrorOpening ==
    ASSUME OneRun, MirrorInv, NEW r \in Runs, Start(r) \/ Fetch(r) \/ FetchFail(r)
    PROVE  MirrorInv'
<1>1. Inv' /\ Typed(run[r]) /\ Abreast(run[r]) /\ BoardTypeOK /\ etag <= version
  BY OpeningStep DEF MirrorInv, Inv
<1>2. UNCHANGED <<portal, tables, faults>> /\ run[r].pc \notin Working
  BY DEF Start, Fetch, FetchFail, AtPosting, Analyzing, Working
<1>3. etag = version => \A j \in Jobs : Mirrored(j)' \/ j \in missed'
  <2>1. ~Syncing
    BY <1>2 DEF Syncing, OneRun
  <2>. QED  BY <1>2, <2>1 DEF MirrorInv, MirrorsBoard, Mirrored, portal, tables, faults
<1>4. Abreast(run[r])' => MirrorInv'
  BY <1>1, <1>2, <1>3, OnlyRun DEF tables
<1>5. CASE Start(r)
  <2>1. PICK inputs \in BOOLEAN, prior \in {etag, 0} :
          run'[r] = [Resting EXCEPT !.pc = "fetch", !.inputs = inputs, !.etag = prior]
    BY <1>1, <1>5 DEF Start, BoardTypeOK
  <2>2. run'[r].pc = "fetch" /\ run'[r].etag = prior /\ ~run'[r].modified
    BY <2>1 DEF Resting
  <2>3. prior <= version
    BY <1>1 DEF BoardTypeOK
  <2>. QED
    BY <1>2, <1>4, <2>2, <2>3
       DEF Abreast, portal, tables, AtPosting, Analyzing, Working
<1>6. CASE FetchFail(r)
  <2>1. run'[r].pc = "idle" /\ run'[r].etag = 0
    BY <1>1, <1>6 DEF FetchFail, BoardTypeOK, Resting
  <2>. QED
    BY <1>1, <1>2, <1>4, <2>1
       DEF Abreast, portal, BoardTypeOK, AtPosting, Analyzing, Working
<1>7. CASE Fetch(r)
  <2>1. run[r] \in RunStates /\ run[r].pc = "fetch" /\ ~run[r].modified
    BY <1>1, <1>7 DEF Typed, Fetch
  <2>2. CASE run[r].etag = version /\ run' = [run EXCEPT ![r].pc = "record"]
    <3>1. run'[r].pc = "record" /\ ~run'[r].modified /\ run'[r].etag = version
      BY <1>1, <2>1, <2>2 DEF BoardTypeOK, RunStates
    <3>2. version \in {etag, 0} /\ version # 0
      BY <1>1, <2>1, <2>2 DEF Abreast, BoardTypeOK
    <3>. QED
      BY <1>1, <1>2, <1>4, <3>1, <3>2
         DEF Abreast, portal, tables, BoardTypeOK, AtPosting, Analyzing, Working
  <2>3. ASSUME NEW tag \in {version, 0},
               run' = [run EXCEPT ![r] = [@ EXCEPT !.pc = "record", !.etag = tag,
                                                   !.got = listing, !.modified = TRUE]]
        PROVE  MirrorInv'
    <3>1. /\ run'[r].pc = "record" /\ run'[r].modified /\ run'[r].etag = tag
          /\ run'[r].got = listing
      BY <1>1, <2>1, <2>3 DEF BoardTypeOK, RunStates
    <3>2. tag <= version
      BY <1>1 DEF BoardTypeOK
    <3>. QED
      BY <1>2, <1>4, <3>1, <3>2 DEF Abreast, portal, AtPosting, Analyzing, Working
  <2>. QED  BY <1>7, <2>2, <2>3 DEF Fetch
<1>. QED  BY <1>5, <1>6, <1>7

\* After a 304 the etag on record stays; with a listing the work begins.
LEMMA MirrorRecord ==
    ASSUME OneRun, MirrorInv, NEW r \in Runs, RecordEtag(r)
    PROVE  MirrorInv'
<1>1. /\ Inv /\ Inv' /\ Typed(run[r]) /\ Abreast(run[r]) /\ BoardTypeOK /\ etag <= version
      /\ version \in Nat \ {0}
  BY OpeningStep, BoardAssumption DEF MirrorInv, Inv, BoardTypeOK
<1>2. /\ run[r].pc = "record" /\ run'[r] = Recorded(r)
      /\ UNCHANGED <<portal, stored, open, missed>> /\ etag' \in {run[r].etag, etag}
  BY <1>1 DEF RecordEtag, faults, BoardTypeOK
<1>3. etag' <= version
  BY <1>1, <1>2 DEF Abreast
<1>4. CASE run[r].modified
  <2>1. /\ run'[r].pc = "sync" /\ run'[r].todo = Listed(run[r].got) /\ run'[r].modified
        /\ run'[r].etag = 0 /\ run'[r].got = run[r].got
    BY <1>1, <1>2, <1>4, RecordedTyped
  <2>2. etag' = version => run'[r].got = listing
    BY <1>1, <1>2, <1>4, <2>1 DEF Abreast
  <2>3. Abreast(run[r])' /\ run'[r].pc \in Working
    BY <1>1, <1>2, <2>1, <2>2 DEF Abreast, portal, Listed, Working
  <2>. QED  BY <1>1, <1>2, <1>3, <2>3, OnlyRun
<1>5. CASE ~run[r].modified
  <2>1. run'[r].pc = "done" /\ run'[r].etag = 0
    BY <1>1, <1>2, <1>5, RecordedTyped DEF Finished, Resting
  <2>2. etag' = etag
    BY <1>1, <1>2, <1>5 DEF Abreast
  <2>3. ~Syncing
    BY <1>2 DEF Syncing, OneRun, AtPosting, Analyzing, Working
  <2>4. etag = version => \A j \in Jobs : Mirrored(j)' \/ j \in missed'
    BY <1>2, <2>3 DEF MirrorInv, MirrorsBoard, Mirrored, portal
  <2>5. Abreast(run[r])'
    BY <1>1, <1>2, <2>1 DEF Abreast, portal, AtPosting, Analyzing, Working
  <2>. QED  BY <1>1, <1>2, <1>3, <2>2, <2>4, <2>5, OnlyRun
<1>. QED  BY <1>4, <1>5

\* A run stays at work on a listing: whatever it has crossed off is mirrored or
\* on record as missed, if it was before or has become so.
LEMMA MirrorWork ==
    ASSUME OneRun, MirrorInv, Inv', NEW r \in Runs, run[r].pc \in Working,
           run'[r].pc \in Working, UNCHANGED <<portal, etag>>,
           run'[r].etag = run[r].etag, run'[r].got = run[r].got,
           \A i \in Jobs \ (run[r].todo \ run'[r].todo) :
               Mirrored(i) \/ i \in missed => Mirrored(i)' \/ i \in missed',
           listing = run[r].got =>
               \A i \in run[r].todo \ run'[r].todo : Mirrored(i)' \/ i \in missed'
    PROVE  MirrorInv'
<1>1. Abreast(run[r]) /\ etag <= version
  BY DEF MirrorInv
<1>2. etag = version =>
        \A i \in Listed(listing) \ run'[r].todo : Mirrored(i)' \/ i \in missed'
  BY <1>1 DEF Abreast, Listed
<1>3. Abreast(run[r])'
  BY <1>1, <1>2 DEF Abreast, portal, Listed, AtPosting, Analyzing, Working
<1>. QED  BY <1>1, <1>3, OnlyRun

LEMMA MirrorLookup ==
    ASSUME OneRun, MirrorInv, NEW r \in Runs, NEW j \in Jobs, Lookup(r, j)
    PROVE  MirrorInv'
<1>1. /\ Inv' /\ run[r].pc \in Working /\ run'[r].pc \in Working
      /\ run'[r].todo = run[r].todo /\ run'[r].etag = run[r].etag /\ run'[r].got = run[r].got
  BY LookupStep DEF MirrorInv, Lookup, AtPosting, Working
<1>2. UNCHANGED <<portal, etag, stored, open, missed>>
  BY DEF Lookup, tables, faults
<1>. QED  BY <1>1, <1>2, MirrorWork DEF Mirrored, portal

\* One more job of the listing is mirrored, or on record as missed.
LEMMA MirrorStore ==
    ASSUME OneRun, MirrorInv, NEW r \in Runs, Upsert(r) \/ SyncError(r)
    PROVE  MirrorInv'
<1>0. PICK j, c : j = run[r].job /\ c = run[r].got[j]
  OBVIOUS
<1>1. /\ Inv /\ Inv' /\ BoardTypeOK /\ j \in Jobs /\ c \in Texts
      /\ run[r].pc = "store" /\ UNCHANGED <<portal, etag>>
  BY <1>0, UpsertStep, SyncErrorStep, SyncedRun
     DEF MirrorInv, Inv, Upsert, SyncError, AtPosting, tables
<1>2. /\ run'[r].todo = run[r].todo \ {j} /\ run'[r].etag = run[r].etag
      /\ run'[r].got = run[r].got /\ run'[r].pc \in {"sync", "analyze"}
  <2>1. CASE Upsert(r)
    BY <1>0, <1>1, <2>1, UpsertStep
  <2>2. CASE SyncError(r)
    BY <1>0, <1>1, <2>2, SyncErrorStep, SyncedRun DEF AtPosting
  <2>. QED  BY <2>1, <2>2
<1>3. run[r].pc \in Working /\ run'[r].pc \in Working
  BY <1>0, <1>1, <1>2 DEF AtPosting, Analyzing, Working
<1>4. ASSUME NEW i \in Jobs, i # j, Mirrored(i) \/ i \in missed
      PROVE  Mirrored(i)' \/ i \in missed'
  BY <1>0, <1>1, <1>4
     DEF Upsert, SyncError, Mirrored, portal, tables, BoardTypeOK, Listings
<1>5. j \in run[r].todo
  BY <1>0, <1>1 DEF Inv, Typed, AtPosting
<1>6. listing = run[r].got => Mirrored(j)' \/ j \in missed'
  <2>1. CASE Upsert(r)
    <3>1. stored'[j] = c /\ j \in open'
      BY <1>0, <1>1, <2>1 DEF Upsert, BoardTypeOK, Listings
    <3>. QED  BY <1>0, <1>1, <3>1, BoardAssumption DEF Mirrored, portal
  <2>2. CASE SyncError(r)
    BY <1>0, <2>2 DEF SyncError
  <2>. QED  BY <2>1, <2>2
<1>. QED  BY <1>0, <1>1, <1>2, <1>3, <1>4, <1>5, <1>6, MirrorWork

LEMMA MirrorAnalyze ==
    ASSUME OneRun, MirrorInv, NEW r \in Runs, AnalyzeRead(r) \/ AnalyzeSave(r) \/ AnalyzeFail(r)
    PROVE  MirrorInv'
<1>1. /\ Inv /\ Inv' /\ Typed(run[r]) /\ run[r].pc \in Analyzing
      /\ UNCHANGED <<portal, etag, stored, open, missed>>
  BY AnalyzeReadStep, AnalyzeEndStep
     DEF MirrorInv, Inv, AnalyzeRead, AnalyzeSave, AnalyzeFail, Analyzing, tables, faults
<1>2. /\ run[r].job \notin run[r].todo /\ run[r].pc \in AtPosting /\ run[r].pc \in Working
      /\ Synced(r).pc = "sync" /\ Synced(r).todo = run[r].todo \ {run[r].job}
      /\ Synced(r).etag = run[r].etag /\ Synced(r).got = run[r].got
  BY <1>1, SyncedRun DEF Typed, AtPosting, Analyzing, Working
<1>3. /\ run'[r].pc \in {"sync", "save"} /\ run'[r].todo = run[r].todo
      /\ run'[r].etag = run[r].etag /\ run'[r].got = run[r].got
  BY <1>1, <1>2, AnalyzeReadStep, AnalyzeEndStep
<1>4. run'[r].pc \in Working
  BY <1>3 DEF AtPosting, Analyzing, Working
<1>. QED  BY <1>1, <1>2, <1>3, <1>4, MirrorWork DEF Mirrored, portal

\* A run that ends early, or cannot close, leaves what it owes on record.
LEMMA MirrorEnd ==
    ASSUME OneRun, MirrorInv, NEW r \in Runs, Close(r) \/ CloseFail(r) \/ RunDies(r)
    PROVE  MirrorInv'
<1>1. Inv' /\ Typed(run[r]) /\ Abreast(run[r]) /\ BoardTypeOK /\ etag <= version
  BY CloseStep, RunDiesStep DEF MirrorInv, Inv
<1>2. UNCHANGED <<portal, etag, stored>>
  BY DEF Close, CloseFail, RunDies, tables
<1>3. run'[r].pc \in {"idle", "done"} /\ run'[r].etag = 0
  BY CloseStep, RunDiesStep DEF MirrorInv, Finished, Resting
<1>4. Abreast(run[r])'
  BY <1>1, <1>2, <1>3 DEF Abreast, portal, BoardTypeOK, AtPosting, Analyzing, Working
<1>5. ASSUME etag = version, NEW j \in Jobs PROVE Mirrored(j)' \/ j \in missed'
  <2>1. CASE run[r].pc \notin Working
    <3>1. ~Syncing
      BY <2>1 DEF Syncing, OneRun
    <3>2. RunDies(r)
      BY <2>1 DEF Close, CloseFail, Working
    <3>. QED
      BY <1>2, <1>5, <2>1, <3>1, <3>2 DEF RunDies, tables, MirrorInv, MirrorsBoard, Mirrored, portal
  <2>2. CASE run[r].pc \in Working
    <3>1. /\ Listed(listing) = run[r].todo \cup run[r].seen
          /\ j \in Listed(listing) \ run[r].todo => Mirrored(j) \/ j \in missed
      BY <1>1, <1>5, <2>2 DEF Abreast, Typed
    <3>2. CASE listing[j] = Nil
      <4>1. j \notin run[r].seen
        BY <3>1, <3>2 DEF Listed
      <4>2. j \notin open' \/ j \in missed'
        BY <2>2, <4>1 DEF Close, CloseFail, RunDies, Absent, tables
      <4>. QED  BY <1>2, <3>2, <4>2 DEF Mirrored, portal
    <3>3. CASE listing[j] # Nil
      <4>1. j \in Listed(listing)
        BY <3>3 DEF Listed
      <4>2. CASE j \in run[r].todo
        BY <2>2, <4>2 DEF Close, CloseFail, RunDies
      <4>3. CASE j \notin run[r].todo
        <5>1. j \in run[r].seen /\ (Mirrored(j) \/ j \in missed)
          BY <3>1, <4>1, <4>3
        <5>2. (j \in open => j \in open') /\ (j \in missed => j \in missed')
          BY <2>2, <5>1 DEF Close, CloseFail, RunDies, Absent, tables
        <5>. QED  BY <1>2, <3>3, <5>1, <5>2 DEF Mirrored, portal
      <4>. QED  BY <4>2, <4>3
    <3>. QED  BY <3>2, <3>3
  <2>. QED  BY <2>1, <2>2
<1>. QED  BY <1>1, <1>2, <1>4, <1>5, OnlyRun DEF portal

LEMMA MirrorNext == OneRun /\ MirrorInv /\ [BoardNext]_syncVars => MirrorInv'
<1> SUFFICES ASSUME OneRun, MirrorInv, [BoardNext]_syncVars PROVE MirrorInv'
  OBVIOUS
<1>1. CASE UNCHANGED syncVars
  <2>1. Inv'
    BY NextInv DEF MirrorInv
  <2>. QED
    BY <1>1, <2>1
       DEF syncVars, portal, tables, faults, MirrorInv, Abreast, MirrorsBoard, Mirrored, Syncing
<1>2. ASSUME NEW r \in Runs, Advance(r) PROVE MirrorInv'
  BY <1>2, MirrorOpening, MirrorRecord, MirrorLookup, MirrorStore, MirrorAnalyze, MirrorEnd
     DEF Advance
<1>. QED  BY <1>1, <1>2, MirrorPortal, MirrorDelete DEF BoardNext

\* Where the runs of a board do not overlap, a board whose listing answers 304
\* is mirrored, but for the jobs a fault has kept from it.
THEOREM OneRunMirrors ==
    ASSUME OneRun
    PROVE  BoardSpec => []MirrorsBoard
<1>1. MirrorInv /\ [BoardNext]_syncVars => MirrorInv'
  BY MirrorNext
<1>2. MirrorInv => MirrorsBoard
  BY DEF MirrorInv
<1>. QED  BY <1>1, <1>2, MirrorInit, PTL DEF BoardSpec

-----------------------------------------------------------------------------
(***************************************************************************)
(* TrackedBoards: the row a PATCH has read is the row it will write, for   *)
(* as long as it holds the lock.  That is what the flush of changed        *)
(* columns only stands on.                                                 *)
(***************************************************************************)
BoardRows == [kind : Kinds, slug : Slugs \cup {Null}, url : Urls, active : BOOLEAN]

RowsType ==
    /\ DOMAIN boards \subseteq madeIds
    /\ boards \in [DOMAIN boards -> BoardRows]

\* A PATCH in progress, as opposed to a DELETE.
Patching(e) == edit[e] # NoEdit /\ edit[e].op = "patch"

EditsType ==
    /\ DOMAIN edit = Editors
    /\ \A e \in Editors : Patching(e) => edit[e].patch \in Patches

\* The row under the lock is there, as it was read.
LockedRowsStand ==
    \A e \in Editors : Patching(e) =>
        edit[e].board \in Tracked /\ edit[e].read = boards[edit[e].board]

LocksExclude ==
    \A d, e \in Editors :
        Patching(d) /\ Patching(e) /\ edit[d].board = edit[e].board => d = e

\* Only a PATCH takes the slug of an API-backed board.
SluglessWerePatched ==
    \A b \in Tracked : boards[b].kind = Api /\ boards[b].slug = Null => b \in unslugged

TrackedInv ==
    /\ RowsType /\ EditsType /\ LockedRowsStand /\ LocksExclude
    /\ PatchesLand /\ SluglessWerePatched

-----------------------------------------------------------------------------
LEMMA PatchedIsRow ==
    ASSUME NEW row \in BoardRows, NEW patch \in Patches
    PROVE  /\ Patched(row, patch) \in BoardRows
           /\ Patched(row, patch).kind = row.kind
           /\ Patched(row, patch).slug = Null /\ row.slug # Null =>
                "slug" \in DOMAIN patch /\ patch["slug"] = Null
BY DEF BoardRows, Patches, Patched

\* Sending the columns that changed is as good as sending the patch, on the
\* row that was read.
LEMMA ChangedSuffices ==
    ASSUME NEW row \in BoardRows, NEW patch \in Patches
    PROVE  Patched(row, Changed(patch, row)) = Patched(row, patch)
BY DEF BoardRows, Patches, Patched, Changed

LEMMA TrackedInitInv == TrackedBoardsInit => TrackedInv
BY DEF TrackedBoardsInit, TrackedInv, RowsType, EditsType, LockedRowsStand, LocksExclude, PatchesLand,
       SluglessWerePatched, Tracked, Patching

LEMMA CreateStep ==
    ASSUME TrackedInv, NEW b \in Boards, NEW kind \in Kinds, NEW slug \in Slugs \cup {Null},
           NEW url \in Urls, CreateBoard(b, kind, slug, url)
    PROVE  TrackedInv'
<1> DEFINE row == [kind |-> kind, slug |-> slug, url |-> url, active |-> TRUE]
<1>1. row \in BoardRows
  BY DEF BoardRows
<1>2. /\ b \notin Tracked /\ DOMAIN boards' = Tracked \cup {b}
      /\ boards'[b] = row /\ \A x \in Tracked : boards'[x] = boards[x]
  BY DEF CreateBoard, WithBoard, Tracked, TrackedInv, RowsType
<1>3. RowsType'
  BY <1>1, <1>2 DEF TrackedInv, RowsType, CreateBoard, WithBoard, Tracked
<1>4. EditsType' /\ LocksExclude'
  BY DEF TrackedInv, EditsType, LocksExclude, Patching, CreateBoard
<1>5. LockedRowsStand'
  BY <1>2 DEF TrackedInv, LockedRowsStand, Patching, CreateBoard, Tracked
<1>6. PatchesLand'
  BY DEF TrackedInv, PatchesLand, CreateBoard
<1>7. ~(row.kind = Api /\ row.slug = Null)
  BY DEF CreateBoard, WellFormed, Api, UrlOnly
<1>8. SluglessWerePatched'
  BY <1>2, <1>7 DEF TrackedInv, SluglessWerePatched, CreateBoard, Tracked
<1>. QED  BY <1>3, <1>4, <1>5, <1>6, <1>8 DEF TrackedInv

\* A row is read: by a PATCH under its lock, by a DELETE without one.
LEMMA ReadStep ==
    ASSUME TrackedInv, NEW e \in Editors, NEW b \in Boards,
           (\E patch \in Patches : PatchRead(e, b, patch)) \/ DeleteRead(e, b)
    PROVE  TrackedInv'
<1>1. UNCHANGED <<boards, madeIds, meant, unslugged>>
  BY DEF PatchRead, DeleteRead
<1>2. RowsType' /\ PatchesLand' /\ SluglessWerePatched'
  BY <1>1 DEF TrackedInv, RowsType, PatchesLand, SluglessWerePatched, Tracked
<1>3. CASE \E patch \in Patches : PatchRead(e, b, patch)
  <2>1. PICK patch \in Patches : PatchRead(e, b, patch)
    BY <1>3
  <2>2. /\ edit' = [edit EXCEPT ![e] =
                     [op |-> "patch", board |-> b, patch |-> patch, read |-> boards[b]]]
        /\ b \in Tracked /\ ~Locked(b)
    BY <2>1 DEF PatchRead, StartEdit
  <2>3. EditsType' /\ LockedRowsStand'
    BY <1>1, <2>2 DEF TrackedInv, EditsType, LockedRowsStand, Patching, Tracked
  <2>4. LocksExclude'
    BY <2>2 DEF TrackedInv, EditsType, LocksExclude, Patching, Locked
  <2>. QED  BY <1>2, <2>3, <2>4 DEF TrackedInv
<1>4. CASE DeleteRead(e, b)
  <2>1. edit' = [edit EXCEPT ![e] =
                     [op |-> "delete", board |-> b, patch |-> Null, read |-> boards[b]]]
    BY <1>4 DEF DeleteRead, StartEdit
  <2>2. \A d \in Editors : Patching(d)' => d # e /\ edit'[d] = edit[d] /\ Patching(d)
    BY <2>1 DEF TrackedInv, EditsType, Patching
  <2>3. EditsType' /\ LockedRowsStand' /\ LocksExclude'
    BY <1>1, <2>1, <2>2 DEF TrackedInv, EditsType, LockedRowsStand, LocksExclude, Tracked
  <2>. QED  BY <1>2, <2>3 DEF TrackedInv
<1>. QED  BY <1>3, <1>4

\* An edit is over, committed or not: no other one changes.
LEMMA EditOver ==
    ASSUME TrackedInv, NEW e \in Editors, edit' = [edit EXCEPT ![e] = NoEdit]
    PROVE  /\ EditsType' /\ LocksExclude'
           /\ \A d \in Editors : Patching(d)' => d # e /\ edit'[d] = edit[d] /\ Patching(d)
BY DEF TrackedInv, EditsType, LocksExclude, Patching

LEMMA PatchCommitStep ==
    ASSUME TrackedInv, NEW e \in Editors, PatchCommit(e)
    PROVE  TrackedInv'
<1> DEFINE b == edit[e].board
           patch == edit[e].patch
           row == Patched(boards[b], patch)
<1>1. Patching(e) /\ b \in Tracked /\ patch \in Patches /\ edit[e].read = boards[b]
  BY DEF PatchCommit, Patching, TrackedInv, EditsType, LockedRowsStand
<1>2. boards[b] \in BoardRows
  BY <1>1 DEF TrackedInv, RowsType, Tracked
<1>3. boards' = [boards EXCEPT ![b] = row]
  BY <1>1, <1>2, ChangedSuffices DEF PatchCommit
<1>4. EditsType' /\ LocksExclude'
  BY EditOver DEF PatchCommit
<1>5. RowsType'
  <2>1. row \in BoardRows
    BY <1>1, <1>2, PatchedIsRow
  <2>2. UNCHANGED madeIds
    BY DEF PatchCommit
  <2>. QED  BY <1>1, <1>3, <2>1, <2>2 DEF TrackedInv, RowsType, Tracked
<1>6. LockedRowsStand'
  <2>1. ASSUME NEW d \in Editors, Patching(d)'
        PROVE  edit'[d] = edit[d] /\ Patching(d) /\ edit[d].board # b
    BY <1>1, <2>1, EditOver DEF PatchCommit, TrackedInv, LocksExclude
  <2>. QED  BY <1>3, <2>1 DEF TrackedInv, LockedRowsStand, Tracked
<1>7. PatchesLand'
  BY <1>3 DEF PatchCommit, TrackedInv, PatchesLand
<1>8. SluglessWerePatched'
  <2>1. ASSUME NEW x \in Tracked', x # b, boards'[x].kind = Api, boards'[x].slug = Null
        PROVE  x \in unslugged'
    BY <1>3, <2>1 DEF TrackedInv, SluglessWerePatched, PatchCommit, Tracked
  <2>2. ASSUME row.kind = Api, row.slug = Null
        PROVE  b \in unslugged'
    BY <1>1, <1>2, <2>2, PatchedIsRow DEF TrackedInv, SluglessWerePatched, PatchCommit
  <2>. QED  BY <1>1, <1>3, <2>1, <2>2 DEF SluglessWerePatched, Tracked
<1>. QED  BY <1>4, <1>5, <1>6, <1>7, <1>8 DEF TrackedInv

LEMMA DeleteCommitStep ==
    ASSUME TrackedInv, NEW e \in Editors, DeleteCommit(e)
    PROVE  TrackedInv'
<1> DEFINE b == edit[e].board
<1>1. /\ DOMAIN boards' = Tracked \ {b}
      /\ \A x \in Tracked \ {b} : boards'[x] = boards[x]
  BY DEF DeleteCommit, WithoutBoard, Tracked
<1>2. EditsType' /\ LocksExclude'
  BY EditOver DEF DeleteCommit
<1>3. RowsType'
  BY DEF DeleteCommit, WithoutBoard, TrackedInv, RowsType, Tracked
<1>4. LockedRowsStand'
  <2>1. ASSUME NEW d \in Editors, Patching(d)'
        PROVE  edit'[d] = edit[d] /\ Patching(d) /\ edit[d].board # b
    BY <2>1, EditOver DEF DeleteCommit, Locked, Patching
  <2>. QED  BY <1>1, <2>1 DEF TrackedInv, LockedRowsStand, Tracked
<1>5. PatchesLand'
  BY DEF DeleteCommit, TrackedInv, PatchesLand
<1>6. SluglessWerePatched'
  BY <1>1 DEF DeleteCommit, TrackedInv, SluglessWerePatched, Tracked
<1>. QED  BY <1>2, <1>3, <1>4, <1>5, <1>6 DEF TrackedInv

LEMMA TrackedNextInv == TrackedInv /\ [TrackedBoardsNext]_boardVars => TrackedInv'
<1> SUFFICES ASSUME TrackedInv, [TrackedBoardsNext]_boardVars PROVE TrackedInv'
  OBVIOUS
<1>1. ASSUME NEW e \in Editors, EditFails(e) PROVE TrackedInv'
  <2>1. LockedRowsStand'
    BY <1>1, EditOver DEF EditFails, TrackedInv, LockedRowsStand, Tracked
  <2>. QED
    BY <1>1, <2>1, EditOver
       DEF EditFails, TrackedInv, RowsType, PatchesLand, SluglessWerePatched, Tracked
<1>2. CASE UNCHANGED boardVars
  BY <1>2 DEF boardVars, TrackedInv, RowsType, EditsType, LockedRowsStand, LocksExclude, PatchesLand,
              SluglessWerePatched, Tracked, Patching
<1>. QED
  BY <1>1, <1>2, CreateStep, ReadStep, PatchCommitStep, DeleteCommitStep DEF TrackedBoardsNext

\* The invariant behind the two theorems below.
THEOREM TrackedInvariance == TrackedBoardsSpec => []TrackedInv
BY TrackedInitInv, TrackedNextInv, PTL DEF TrackedBoardsSpec

\* Every committed PATCH lands whole and undoes no other one.
THEOREM PatchesAreKept == TrackedBoardsSpec => []PatchesLand
<1>1. TrackedInv => PatchesLand
  BY DEF TrackedInv
<1>. QED  BY <1>1, TrackedInvariance, PTL

\* An active API-backed board that no refresh polls had its slug taken away.
THEOREM CreatedBoardsArePolled == TrackedBoardsSpec => []UnpolledWerePatched
<1>1. TrackedInv => UnpolledWerePatched
  BY DEF TrackedInv, SluglessWerePatched, UnpolledWerePatched, Polled, Tracked
<1>. QED  BY <1>1, TrackedInvariance, PTL
=============================================================================
