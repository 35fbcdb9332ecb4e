-------------------------- MODULE PostingPipeline --------------------------
(***************************************************************************)
(* From a fetched job posting to its stored analysis:                      *)
(*   gap_service.sync_ats_posting  document, then row + outbox event       *)
(*   refresh_trigger.dispatch_outbox  claim, publish, stamp, prune         *)
(*   Pub/Sub  at least once, in no order                                   *)
(*   analysis_worker.handle_posting_changed  check, analyze, cluster, ack  *)
(* with a queue configured, so sync_board analyzes nothing inline.         *)
(*                                                                         *)
(* Every transaction, Firestore call and publish is one action.  A content *)
(* is what content_hash tells apart; a row id is never used again.         *)
(***************************************************************************)
EXTENDS Naturals, Sequences, FiniteSets

CONSTANTS
    Postings,   \* (source, external_id) identities on the boards
    Rows,       \* job_postings.id values; bounds inserts
    Contents,   \* posting texts, by content hash
    Syncs,      \* refresh runs in flight
    Relays,     \* dispatch_outbox runs in flight
    Workers,    \* handle_posting_changed calls in flight
    MaxEvents,  \* bound on outbox rows ever written
    Batch,      \* claim_pending_events' limit
    None        \* NULL / not found

ASSUME PipelineAssumption ==
    /\ None \notin Postings \cup Rows \cup Contents
    /\ MaxEvents \in Nat /\ Batch \in Nat \ {0}

VARIABLES
    ext,        \* ext[i]: identity of row i, None when there is no such row
    hash,       \* hash[i]: content_hash of row i
    deleted,    \* ids of deleted rows
    docs,       \* contents with a Firestore document
    analysis,   \* analysis[i]: the content posting_analyses describes
    clusters,   \* clusters[i]: the content phrase_clusters describes
    log,        \* payloads of the outbox rows ever written, by id
    pending,    \* outbox ids with published_at NULL
    stamped,    \* outbox ids with published_at set, not yet pruned
    messages,   \* outbox ids Pub/Sub still has to deliver
    sync,       \* sync[s]: state of a refresh run's current posting
    relay,      \* relay[r]: state of a relay run
    worker,     \* worker[w]: state of a push handler
    accepted,   \* history: outbox ids Pub/Sub accepted
    forgone,    \* history: rows whose latest content lost its analysis to a
                \* fault the code swallows (see Forgo)
    unannounced \* history: rows whose latest content a sync stored without an
                \* event, taking it for the one it had seen there before

store == <<ext, hash, deleted, docs>>
results == <<analysis, clusters>>
queue == <<log, pending, stamped, messages, accepted>>
lost == <<forgone, unannounced>>
vars == <<store, results, queue, sync, relay, worker, lost>>

Statuses == {"new", "changed", "unchanged"}
SyncStates ==
    {x \in [pc : {"idle", "save", "upsert"}, posting : Postings \cup {None},
            content : Contents \cup {None}, status : Statuses \cup {None}] :
        x.pc # "idle" => x.posting # None /\ x.content # None /\ x.status \in Statuses}
RelayStates ==
    [pc : {"idle", "publish", "prune"}, claimed : SUBSET (1..MaxEvents),
     sent : SUBSET (1..MaxEvents)]
Saving == {"save", "clusterSave"}
WorkerStates ==
    {x \in [pc : {"idle", "load", "read", "clusterRead", "ack"} \cup Saving,
            event : 0..MaxEvents, text : Contents \cup {None}] :
        /\ x.pc # "idle" => x.event # 0
        /\ x.pc \in Saving <=> x.text # None}

TypeOK ==
    /\ ext \in [Rows -> Postings \cup {None}]
    /\ hash \in [Rows -> Contents \cup {None}]
    /\ deleted \subseteq Rows
    /\ docs \subseteq Contents
    /\ analysis \in [Rows -> Contents \cup {None}]
    /\ clusters \in [Rows -> Contents \cup {None}]
    /\ log \in Seq([row : Rows, content : Contents]) /\ Len(log) <= MaxEvents
    /\ pending \subseteq 1..Len(log) /\ stamped \subseteq 1..Len(log)
    /\ messages \subseteq 1..Len(log) /\ accepted \subseteq 1..Len(log)
    /\ sync \in [Syncs -> SyncStates]
    /\ relay \in [Relays -> RelayStates]
    /\ worker \in [Workers -> WorkerStates]
    /\ forgone \subseteq Rows /\ unannounced \subseteq Rows

IdleSync == [pc |-> "idle", posting |-> None, content |-> None, status |-> None]
IdleRelay == [pc |-> "idle", claimed |-> {}, sent |-> {}]
IdleWorker == [pc |-> "idle", event |-> 0, text |-> None]

Init ==
    /\ ext = [i \in Rows |-> None]
    /\ hash = [i \in Rows |-> None]
    /\ deleted = {}
    /\ docs = {}
    /\ analysis = [i \in Rows |-> None]
    /\ clusters = [i \in Rows |-> None]
    /\ log = <<>>
    /\ pending = {} /\ stamped = {} /\ messages = {} /\ accepted = {}
    /\ sync = [s \in Syncs |-> IdleSync]
    /\ relay = [r \in Relays |-> IdleRelay]
    /\ worker = [w \in Workers |-> IdleWorker]
    /\ forgone = {} /\ unannounced = {}

-----------------------------------------------------------------------------
(***************************************************************************)
(* Storing a posting                                                       *)
(***************************************************************************)
Existing(p) == {i \in Rows : ext[i] = p}
NewIds == {i \in Rows : ext[i] = None /\ i \notin deleted}

\* How sync_ats_posting classifies content c of posting p.
StatusOf(p, c) ==
    IF Existing(p) = {} THEN "new"
    ELSE IF \E i \in Existing(p) : hash[i] = c THEN "unchanged" ELSE "changed"

\* record_event: what goes into the outbox with the row.
Announces(status) == status \in {"new", "changed"}

\* A failed lookup counts as "no prior row".  The boards stop changing when
\* MaxEvents is reached.
SyncLookup(s, p, c) ==
    /\ sync[s].pc = "idle"
    /\ Len(log) < MaxEvents
    /\ \E status \in {StatusOf(p, c), "new"} :
         sync' = [sync EXCEPT ![s] = [pc |-> "save", posting |-> p, content |-> c,
                                      status |-> status]]
    /\ UNCHANGED <<store, results, queue, relay, worker, lost>>

\* Mutant: a failed Firestore write is logged and forgotten.
SyncSaveAnyhow(s) ==
    /\ sync[s].pc = "save"
    /\ \E S \in {{}, {sync[s].content}} : docs' = docs \cup S
    /\ sync' = [sync EXCEPT ![s].pc = "upsert"]
    /\ UNCHANGED <<ext, hash, deleted, results, queue, relay, worker, lost>>

\* The document first: no row may point at a missing document.
SyncSave(s) ==
    /\ sync[s].pc = "save"
    /\ docs' = docs \cup {sync[s].content}
    /\ sync' = [sync EXCEPT ![s].pc = "upsert"]
    /\ UNCHANGED <<ext, hash, deleted, results, queue, relay, worker, lost>>

\* Row i now holds content c, and the outbox says so in the same transaction,
\* unless the run believes that nothing changed: what it saw may be gone.
Record(i, c, status) ==
    IF Announces(status)
    THEN /\ Len(log) < MaxEvents
         /\ log' = Append(log, [row |-> i, content |-> c])
         /\ pending' = pending \cup {Len(log) + 1}
         /\ forgone' = forgone \ {i}
         /\ unannounced' = unannounced \ {i}
    ELSE /\ UNCHANGED <<log, pending>>
         /\ IF hash[i] = c THEN UNCHANGED lost
            ELSE /\ forgone' = forgone \ {i}
                 /\ unannounced' = unannounced \cup {i}

\* INSERT ... ON CONFLICT (tenant, source, external_id) DO UPDATE.
SyncUpsert(s) ==
    /\ sync[s].pc = "upsert"
    /\ LET p == sync[s].posting
           c == sync[s].content
       IN  \E i \in IF Existing(p) = {} THEN NewIds ELSE Existing(p) :
             /\ ext' = [ext EXCEPT ![i] = p]
             /\ hash' = [hash EXCEPT ![i] = c]
             /\ Record(i, c, sync[s].status)
    /\ sync' = [sync EXCEPT ![s] = IdleSync]
    /\ UNCHANGED <<deleted, docs, results, stamped, messages, accepted, relay, worker>>

\* A Firestore or database error, or the end of the process.
SyncFail(s) ==
    /\ sync[s].pc # "idle"
    /\ sync' = [sync EXCEPT ![s] = IdleSync]
    /\ UNCHANGED <<store, results, queue, relay, worker, lost>>

\* DELETE /api/v1/postings/{id}: analyses and clusters cascade, the document
\* and any outbox rows stay.
Delete(i) ==
    /\ ext[i] # None
    /\ ext' = [ext EXCEPT ![i] = None]
    /\ hash' = [hash EXCEPT ![i] = None]
    /\ deleted' = deleted \cup {i}
    /\ analysis' = [analysis EXCEPT ![i] = None]
    /\ clusters' = [clusters EXCEPT ![i] = None]
    /\ forgone' = forgone \ {i}
    /\ unannounced' = unannounced \ {i}
    /\ UNCHANGED <<docs, queue, sync, relay, worker>>

-----------------------------------------------------------------------------
(***************************************************************************)
(* The relay: POST /dispatch-outbox                                        *)
(***************************************************************************)
Oldest(S) == {e \in S : Cardinality({f \in S : f < e}) < Batch}

\* FOR UPDATE SKIP LOCKED, in a transaction of its own: the locks are gone
\* when the claim returns, so another relay can claim the same events.
RelayClaim(r) ==
    /\ relay[r].pc = "idle"
    /\ relay' = [relay EXCEPT ![r] = [pc |-> "publish", claimed |-> Oldest(pending),
                                      sent |-> {}]]
    /\ UNCHANGED <<store, results, queue, sync, worker, lost>>

\* The batch is published oldest first.
Publishing(r, e) ==
    /\ relay[r].pc = "publish"
    /\ e \in relay[r].claimed
    /\ \A f \in relay[r].claimed : e <= f

\* Event e goes from what is claimed to what is to be stamped.
Published(r, e) ==
    [relay EXCEPT ![r] = [pc |-> "publish", claimed |-> relay[r].claimed \ {e},
                          sent |-> relay[r].sent \cup {e}]]

RelayPublish(r, e) ==
    /\ Publishing(r, e)
    /\ messages' = messages \cup {e}
    /\ accepted' = accepted \cup {e}
    /\ relay' = Published(r, e)
    /\ UNCHANGED <<store, results, log, pending, stamped, sync, worker, lost>>

\* Mutant: a failed publish is stamped with the rest of the batch.
RelayPublishFailStamped(r, e) ==
    /\ Publishing(r, e)
    /\ relay' = Published(r, e)
    /\ UNCHANGED <<store, results, queue, sync, worker, lost>>

\* The row stays pending; the rest of the batch goes on.
RelayPublishFail(r, e) ==
    /\ Publishing(r, e)
    /\ relay' = [relay EXCEPT ![r].claimed = @ \ {e}]
    /\ UNCHANGED <<store, results, queue, sync, worker, lost>>

\* mark_events_published; a row pruned meanwhile is not there to stamp.
RelayStamp(r) ==
    /\ relay[r].pc = "publish"
    /\ relay[r].claimed = {}
    /\ stamped' = stamped \cup (relay[r].sent \cap pending)
    /\ pending' = pending \ relay[r].sent
    /\ relay' = [relay EXCEPT ![r] = [IdleRelay EXCEPT !.pc = "prune"]]
    /\ UNCHANGED <<store, results, log, messages, accepted, sync, worker, lost>>

\* prune_published_events: which rows are seven days old is left open.
RelayPrune(r) ==
    /\ relay[r].pc = "prune"
    /\ \E old \in SUBSET stamped : stamped' = stamped \ old
    /\ relay' = [relay EXCEPT ![r] = IdleRelay]
    /\ UNCHANGED <<store, results, log, pending, messages, accepted, sync, worker, lost>>

\* A crash before the prune is a prune that removes nothing.
RelayCrash(r) ==
    /\ relay[r].pc = "publish"
    /\ relay' = [relay EXCEPT ![r] = IdleRelay]
    /\ UNCHANGED <<store, results, queue, sync, worker, lost>>

-----------------------------------------------------------------------------
(***************************************************************************)
(* The worker: POST /pubsub/posting-changed                                *)
(***************************************************************************)
Target(w) == log[worker[w].event].row

\* get_posting: None without a row or without its document.
Readable(i) == ext[i] # None /\ hash[i] \in docs

IsStale(e) == Readable(log[e].row) /\ hash[log[e].row] # log[e].content

\* What the handler read in an earlier step is not used again.
At(w, next) == worker' = [worker EXCEPT ![w] = [@ EXCEPT !.pc = next, !.text = None]]

Ack(e) == messages' = messages \ {e}

\* The row still names the content whose event is being given up.
Forgo(e) ==
    LET i == log[e].row
    IN  forgone' = IF hash[i] = log[e].content THEN forgone \cup {i} ELSE forgone

\* An event that another content has overtaken is acknowledged unread.
WorkerDropStale(w, e) ==
    /\ worker[w].pc = "idle"
    /\ e \in messages
    /\ IsStale(e)
    /\ Ack(e)
    /\ UNCHANGED <<store, results, log, pending, stamped, accepted, sync, relay,
                   worker, lost>>

\* Mutant: acknowledge on receipt, work afterwards.
WorkerAcceptAcked(w, e) ==
    /\ worker[w].pc = "idle"
    /\ e \in messages
    /\ worker' = [worker EXCEPT ![w] = [pc |-> "load", event |-> e, text |-> None]]
    /\ Ack(e)
    /\ UNCHANGED <<store, results, log, pending, stamped, accepted, sync, relay, lost>>

\* The event is not stale, or the read that would tell failed.
WorkerAccept(w, e) ==
    /\ worker[w].pc = "idle"
    /\ e \in messages
    /\ worker' = [worker EXCEPT ![w] = [pc |-> "load", event |-> e, text |-> None]]
    /\ UNCHANGED <<store, results, queue, sync, relay, lost>>

WorkerLoad(w) ==
    /\ worker[w].pc = "load"
    /\ At(w, "read")
    /\ UNCHANGED <<store, results, queue, sync, relay, lost>>

\* No skill bank or vocabulary: "skipped", with a 200.
WorkerSkip(w) ==
    /\ worker[w].pc = "load"
    /\ Ack(worker[w].event)
    /\ Forgo(worker[w].event)
    /\ worker' = [worker EXCEPT ![w] = IdleWorker]
    /\ UNCHANGED <<store, results, log, pending, stamped, accepted, sync, relay,
                   unannounced>>

\* analyze_posting and cluster_posting each read the posting again.
WorkerRead(w) ==
    /\ worker[w].pc \in {"read", "clusterRead"}
    /\ IF Readable(Target(w))
       THEN worker' = [worker EXCEPT ![w] =
                [@ EXCEPT !.pc = IF worker[w].pc = "read" THEN "save" ELSE "clusterSave",
                          !.text = hash[Target(w)]]]
       ELSE At(w, IF worker[w].pc = "read" THEN "clusterRead" ELSE "ack")
    /\ UNCHANGED <<store, results, queue, sync, relay, lost>>

\* save_analysis; the foreign key refuses a row deleted meanwhile.
WorkerSave(w) ==
    /\ worker[w].pc = "save"
    /\ analysis' = IF ext[Target(w)] = None THEN analysis
                   ELSE [analysis EXCEPT ![Target(w)] = worker[w].text]
    /\ At(w, "clusterRead")
    /\ UNCHANGED <<store, clusters, queue, sync, relay, lost>>

\* save_phrase_clusters, likewise.
WorkerClusterSave(w) ==
    /\ worker[w].pc = "clusterSave"
    /\ clusters' = IF ext[Target(w)] = None THEN clusters
                   ELSE [clusters EXCEPT ![Target(w)] = worker[w].text]
    /\ At(w, "ack")
    /\ UNCHANGED <<store, analysis, queue, sync, relay, lost>>

\* A read or a save fails: the error is logged and the handler goes on.
WorkerSwallow(w) ==
    /\ worker[w].pc \in {"read", "save", "clusterRead", "clusterSave"}
    /\ Forgo(worker[w].event)
    /\ At(w, IF worker[w].pc \in {"read", "save"} THEN "clusterRead" ELSE "ack")
    /\ UNCHANGED <<store, results, queue, sync, relay, unannounced>>

\* The 200 reaches Pub/Sub.
WorkerAck(w) ==
    /\ worker[w].pc = "ack"
    /\ Ack(worker[w].event)
    /\ worker' = [worker EXCEPT ![w] = IdleWorker]
    /\ UNCHANGED <<store, results, log, pending, stamped, accepted, sync, relay, lost>>

\* The handler dies or its 200 is lost: the message is delivered again.  (A
\* 200 for a message that is gone already is an ack, lost or not.)
WorkerCrash(w) ==
    /\ worker[w].pc # "idle"
    /\ worker[w].pc = "ack" => worker[w].event \in messages
    /\ worker' = [worker EXCEPT ![w] = IdleWorker]
    /\ UNCHANGED <<store, results, queue, sync, relay, lost>>

\* The fifth delivery attempt failed too: the dead-letter topic gets the
\* message.  Attempts are not counted; any may be the last.
DeadLetter(e) ==
    /\ e \in messages
    /\ Ack(e)
    /\ Forgo(e)
    /\ UNCHANGED <<store, results, log, pending, stamped, accepted, sync, relay, worker,
                   unannounced>>

-----------------------------------------------------------------------------
SyncStep(s) ==
    \/ \E p \in Postings, c \in Contents : SyncLookup(s, p, c)
    \/ SyncSave(s) \/ SyncUpsert(s) \/ SyncFail(s)

RelayStep(r) ==
    \/ RelayClaim(r)
    \/ \E e \in 1..Len(log) : RelayPublish(r, e) \/ RelayPublishFail(r, e)
    \/ RelayStamp(r) \/ RelayPrune(r) \/ RelayCrash(r)

WorkerStart(w, e) == WorkerDropStale(w, e) \/ WorkerAccept(w, e)

WorkerProgress(w) ==
    \/ WorkerLoad(w) \/ WorkerSkip(w) \/ WorkerRead(w) \/ WorkerSave(w)
    \/ WorkerClusterSave(w) \/ WorkerSwallow(w) \/ WorkerAck(w)

WorkerStep(w) ==
    \/ \E e \in messages : WorkerStart(w, e)
    \/ WorkerProgress(w) \/ WorkerCrash(w)

Next ==
    \/ \E s \in Syncs : SyncStep(s)
    \/ \E i \in Rows : Delete(i)
    \/ \E r \in Relays : RelayStep(r)
    \/ \E w \in Workers : WorkerStep(w)
    \/ \E e \in messages : DeadLetter(e)

Spec == Init /\ [][Next]_vars

(***************************************************************************)
(* Cloud Scheduler calls the relay every minute, Pub/Sub redelivers what   *)
(* is not acknowledged and does not refuse an event for ever.  Relays are  *)
(* not killed in mid-batch for ever, nor handlers: a message has five      *)
(* attempts, and there are finitely many.                                  *)
(***************************************************************************)
Fairness ==
    /\ <>[][\A r \in Relays : ~RelayCrash(r)]_vars
    /\ <>[][\A w \in Workers : ~WorkerCrash(w)]_vars
    /\ \A r \in Relays :
         /\ WF_vars(RelayClaim(r)) /\ WF_vars(RelayStamp(r)) /\ WF_vars(RelayPrune(r))
         /\ \A e \in 1..MaxEvents :
              /\ WF_vars(RelayPublish(r, e) \/ RelayPublishFail(r, e))
              /\ SF_vars(RelayPublish(r, e))
    /\ \A w \in Workers :
         /\ WF_vars(WorkerProgress(w))
         /\ \A e \in 1..MaxEvents : SF_vars(WorkerStart(w, e))

FairSpec == Spec /\ Fairness

-----------------------------------------------------------------------------
(***************************************************************************)
(* Properties                                                              *)
(***************************************************************************)
\* An outbox row is pending until Pub/Sub has accepted its event, whatever
\* publishes fail, relays crash or overlap, and rows are pruned.
EveryEventIsOwed == \A e \in 1..Len(log) : e \in pending \cup accepted

\* No posting row points at a missing document, wherever a sync fails.
DocumentBehindRow == \A i \in Rows : ext[i] # None => hash[i] \in docs

Current(i) == analysis[i] = hash[i] /\ clusters[i] = hash[i]

\* An event for what row i holds now is still on its way.
OnItsWay(i) ==
    \E e \in pending \cup messages : log[e] = [row |-> i, content |-> hash[i]]

\* A row whose analysis or clusters are not those of its content has an event
\* on its way; or one of the faults the code swallows has cost it that event;
\* or a sync never wrote one, because it had seen this content in a row that
\* another sync or a DELETE has changed since (ContentsAreAnnounced).
NothingForgotten ==
    \A i \in Rows :
        ext[i] # None => Current(i) \/ OnItsWay(i) \/ i \in forgone \cup unannounced

\* What sync_ats_posting's docstring says of "unchanged", that nothing to
\* re-analyze happened: a row gets a content it did not hold together with an
\* event for it.
ContentsAreAnnounced ==
    [][\A i \in Rows :
          hash'[i] \notin {hash[i], None} =>
              \E e \in pending' : log'[e] = [row |-> i, content |-> hash'[i]]]_vars

\* What ADR-025 says the check for stale events achieves: as long as a row
\* keeps its content, an analysis of that content is not replaced by an
\* analysis of another one, in whatever order events are delivered.
NewerAnalysisKept ==
    [][\A i \in Rows :
          ext[i] # None /\ analysis[i] = hash[i] /\ ext'[i] # None /\ hash'[i] = hash[i]
              => analysis'[i] = hash[i]]_vars

\* When the boards stop changing, every row whose content was announced and
\* not forgone comes to have its analysis, and keeps it.
AnalysesConverge ==
    <>[](\A i \in Rows : ext[i] # None => Current(i) \/ i \in forgone \cup unannounced)
=============================================================================
