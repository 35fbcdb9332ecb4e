----------------------- MODULE PostingPipelineProofs -----------------------
(***************************************************************************)
(* Theorems about PostingPipeline, for any sets of postings, rows,         *)
(* contents and processes and any bound on the outbox: the outbox never    *)
(* loses an event that Pub/Sub has not accepted, and a row's document is   *)
(* always there.  Beside the two properties, the inductive invariant Inv   *)
(* only needs to know what the processes hold between two transactions.    *)
(* On it rests the second part: no content goes without its analysis as    *)
(* long as the handlers keep to postings of their own.                     *)
(***************************************************************************)
EXTENDS PostingPipeline, SequenceTheorems, TLAPS

\* Events in somebody's hands are in the log.
HeldInv ==
    /\ \A r \in Relays : relay[r].claimed \cup relay[r].sent \subseteq 1..Len(log)
    /\ \A w \in Workers : worker[w].event <= Len(log)

\* Only accepted events are about to be stamped.
SentInv == \A r \in Relays : relay[r].sent \subseteq accepted

\* A row is written after its document.
SavedInv == \A s \in Syncs : sync[s].pc = "upsert" => sync[s].content \in docs

OutboxInv == HeldInv /\ SentInv /\ EveryEventIsOwed
StoreInv == SavedInv /\ DocumentBehindRow

Inv == TypeOK /\ OutboxInv /\ StoreInv

-----------------------------------------------------------------------------
LEMMA InitInv == Init => Inv
<1> USE PipelineAssumption
           DEF Init, IdleSync, IdleRelay, IdleWorker
<1>1. Init => TypeOK
  BY DEF TypeOK, SyncStates, RelayStates, WorkerStates, Saving
<1>2. Init => OutboxInv
  BY DEF OutboxInv, HeldInv, SentInv, EveryEventIsOwed
<1>3. Init => StoreInv
  BY DEF StoreInv, SavedInv, DocumentBehindRow
<1>. QED  BY <1>1, <1>2, <1>3 DEF Inv

-----------------------------------------------------------------------------
(***************************************************************************)
(* Storing a posting                                                       *)
(***************************************************************************)
\* A sync touches neither the relays nor the workers; the outbox can only
\* have grown by one pending event.
LEMMA OutboxGrows ==
    ASSUME OutboxInv, log \in Seq([row : Rows, content : Contents]),
           UNCHANGED <<relay, worker, accepted>>,
           \/ UNCHANGED <<log, pending>>
           \/ \E x : log' = Append(log, x) /\ pending' = pending \cup {Len(log) + 1},
           worker \in [Workers -> WorkerStates]
    PROVE  OutboxInv'
<1>1. CASE UNCHANGED <<log, pending>>
  BY <1>1 DEF OutboxInv, HeldInv, SentInv, EveryEventIsOwed
<1>2. CASE \E x : log' = Append(log, x) /\ pending' = pending \cup {Len(log) + 1}
  <2>1. Len(log) \in Nat /\ Len(log') = Len(log) + 1
    BY <1>2
  <2>2. 1..Len(log') = (1..Len(log)) \cup {Len(log) + 1}
    BY <2>1
  <2>3. \A w \in Workers : worker[w].event \in Nat
    BY DEF WorkerStates
  <2>4. HeldInv'
    BY <2>1, <2>2, <2>3 DEF OutboxInv, HeldInv
  <2>5. SentInv' /\ EveryEventIsOwed'
    BY <1>2, <2>2 DEF OutboxInv, SentInv, EveryEventIsOwed
  <2>. QED  BY <2>4, <2>5 DEF OutboxInv
<1>. QED  BY <1>1, <1>2

LEMMA SyncStep_Inv ==
    ASSUME Inv, NEW s \in Syncs, SyncStep(s) PROVE Inv'
<1> USE PipelineAssumption DEF Inv, store, results, queue, lost
<1>1. ASSUME NEW p \in Postings, NEW c \in Contents, SyncLookup(s, p, c) PROVE Inv'
  <2> USE <1>1 DEF SyncLookup
  <2>1. PICK status \in Statuses :
          sync' = [sync EXCEPT ![s] = [pc |-> "save", posting |-> p, content |-> c,
                                       status |-> status]]
    BY DEF StatusOf, Statuses
  <2>2. TypeOK'
    BY <2>1 DEF TypeOK, SyncStates
  <2>3. OutboxInv'
    BY OutboxGrows DEF TypeOK
  <2>4. StoreInv'
    BY <2>1 DEF StoreInv, SavedInv, DocumentBehindRow, TypeOK
  <2>. QED  BY <2>2, <2>3, <2>4
<1>2. CASE SyncSave(s)
  <2> USE <1>2 DEF SyncSave
  <2>1. sync[s].content \in Contents
    BY DEF TypeOK, SyncStates
  <2>2. TypeOK'
    BY <2>1 DEF TypeOK, SyncStates
  <2>3. OutboxInv'
    BY OutboxGrows DEF TypeOK
  <2>4. StoreInv'
    BY <2>1 DEF StoreInv, SavedInv, DocumentBehindRow, TypeOK, SyncStates
  <2>. QED  BY <2>2, <2>3, <2>4
<1>3. CASE SyncUpsert(s)
  <2> DEFINE p == sync[s].posting  c == sync[s].content
  <2>1. PICK i \in Rows : /\ ext' = [ext EXCEPT ![i] = p]
                          /\ hash' = [hash EXCEPT ![i] = c]
                          /\ Record(i, c, sync[s].status)
    BY <1>3 DEF SyncUpsert, Existing, NewIds
  <2>2. /\ sync' = [sync EXCEPT ![s] = IdleSync]
        /\ UNCHANGED <<deleted, docs, results, stamped, messages, accepted, relay, worker>>
    BY <1>3 DEF SyncUpsert
  <2>3. p \in Postings /\ c \in Contents /\ c \in docs
    BY <1>3 DEF SyncUpsert, TypeOK, SyncStates, StoreInv, SavedInv
  <2>4. /\ log' \in Seq([row : Rows, content : Contents])
        /\ Len(log') <= MaxEvents
        /\ 1..Len(log) \subseteq 1..Len(log')
        /\ pending' \subseteq 1..Len(log')
        /\ forgone' \subseteq Rows /\ unannounced' \subseteq Rows
    <3>1. CASE ~Announces(sync[s].status)
      BY <2>1, <3>1 DEF Record, TypeOK, lost
    <3>2. CASE Announces(sync[s].status)
      <4>1. /\ log' = Append(log, [row |-> i, content |-> c])
            /\ Len(log) < MaxEvents
            /\ pending' = pending \cup {Len(log) + 1}
            /\ forgone' \subseteq Rows /\ unannounced' \subseteq Rows
        BY <2>1, <3>2 DEF Record, TypeOK
      <4>2. Len(log) \in Nat /\ Len(log') = Len(log) + 1
        BY <4>1, <2>3 DEF TypeOK
      <4>3. log' \in Seq([row : Rows, content : Contents])
        BY <4>1, <2>3 DEF TypeOK
      <4>4. pending \subseteq 1..Len(log) /\ MaxEvents \in Nat
        BY DEF TypeOK
      <4>5. /\ Len(log') <= MaxEvents
            /\ 1..Len(log) \subseteq 1..Len(log')
            /\ Len(log) + 1 \in 1..Len(log')
        BY <4>1, <4>2, <4>4
      <4>6. pending' \subseteq 1..Len(log')
        BY <4>1, <4>4, <4>5
      <4>. QED  BY <4>1, <4>3, <4>5, <4>6
    <3>. QED  BY <3>1, <3>2
  <2>5. TypeOK'
    BY <2>1, <2>2, <2>3, <2>4 DEF TypeOK, SyncStates, IdleSync
  <2>6. OutboxInv'
    BY <2>1, <2>2, OutboxGrows DEF Record, TypeOK
  <2>7. StoreInv'
    BY <2>1, <2>2, <2>3 DEF StoreInv, SavedInv, DocumentBehindRow, TypeOK, IdleSync
  <2>. QED  BY <2>5, <2>6, <2>7
<1>4. CASE SyncFail(s)
  <2> USE <1>4 DEF SyncFail
  <2>1. TypeOK'
    BY DEF TypeOK, SyncStates, IdleSync
  <2>2. OutboxInv'
    BY OutboxGrows DEF TypeOK
  <2>3. StoreInv'
    BY DEF StoreInv, SavedInv, DocumentBehindRow, TypeOK, IdleSync
  <2>. QED  BY <2>1, <2>2, <2>3
<1>. QED  BY <1>1, <1>2, <1>3, <1>4 DEF SyncStep

LEMMA Delete_Inv ==
    ASSUME Inv, NEW i \in Rows, Delete(i) PROVE Inv'
<1> USE PipelineAssumption DEF Inv, Delete, queue
<1>1. TypeOK'
  BY DEF TypeOK
<1>2. OutboxInv'
  BY OutboxGrows DEF TypeOK
<1>3. StoreInv'
  BY DEF StoreInv, SavedInv, DocumentBehindRow, TypeOK
<1>. QED  BY <1>1, <1>2, <1>3

-----------------------------------------------------------------------------
(***************************************************************************)
(* The relay                                                               *)
(***************************************************************************)
\* Neither a relay nor a worker touches what is stored about postings.
LEMMA StoreKept == StoreInv /\ UNCHANGED <<store, sync>> => StoreInv'
BY DEF StoreInv, SavedInv, DocumentBehindRow, store

\* A claim takes pending events only.
LEMMA ClaimType ==
    ASSUME TypeOK
    PROVE  /\ Oldest(pending) \subseteq pending
           /\ [pc |-> "publish", claimed |-> Oldest(pending), sent |-> {}] \in RelayStates
<1>1. pending \subseteq 1..MaxEvents
  <2>1. pending \subseteq 1..Len(log) /\ Len(log) \in Nat /\ Len(log) <= MaxEvents
    BY DEF TypeOK
  <2>. QED  BY <2>1, PipelineAssumption
<1>2. Oldest(pending) \subseteq pending
  BY DEF Oldest
<1>3. Oldest(pending) \in SUBSET (1..MaxEvents)
  BY <1>1, <1>2
<1>. QED  BY <1>2, <1>3 DEF RelayStates

LEMMA RelayStep_Inv ==
    ASSUME Inv, NEW r \in Relays, RelayStep(r) PROVE Inv'
<1> USE PipelineAssumption DEF Inv
<1>1. Len(log) \in Nat /\ Len(log) <= MaxEvents
  BY DEF TypeOK
<1>2. CASE RelayClaim(r)
  <2> USE <1>2 DEF RelayClaim, store, results, queue, lost
  <2>1. Oldest(pending) \subseteq pending
    BY ClaimType
  <2>2. [pc |-> "publish", claimed |-> Oldest(pending), sent |-> {}] \in RelayStates
    BY ClaimType
  <2>3. TypeOK'
    BY <2>2 DEF TypeOK
  <2>4. OutboxInv'
    BY <2>1 DEF TypeOK, OutboxInv, HeldInv, SentInv, EveryEventIsOwed
  <2>. QED  BY <2>3, <2>4, StoreKept
<1>3. ASSUME NEW e \in 1..Len(log), RelayPublish(r, e) PROVE Inv'
  <2> USE <1>3 DEF RelayPublish, Publishing, Published, store, results, lost
  <2>1. e \in 1..MaxEvents
    BY <1>1
  <2>2. [pc |-> "publish", claimed |-> relay[r].claimed \ {e},
         sent |-> relay[r].sent \cup {e}] \in RelayStates
    BY <2>1 DEF TypeOK, RelayStates
  <2>3. TypeOK'
    BY <2>2 DEF TypeOK
  <2>4. OutboxInv'
    BY DEF TypeOK, RelayStates, OutboxInv, HeldInv, SentInv, EveryEventIsOwed
  <2>. QED  BY <2>3, <2>4, StoreKept
<1>4. ASSUME NEW e \in 1..Len(log), RelayPublishFail(r, e) PROVE Inv'
  <2> USE <1>4 DEF RelayPublishFail, Publishing, store, results, queue, lost
  <2>1. TypeOK'
    BY <1>1 DEF TypeOK, RelayStates
  <2>2. OutboxInv'
    BY DEF TypeOK, RelayStates, OutboxInv, HeldInv, SentInv, EveryEventIsOwed
  <2>. QED  BY <2>1, <2>2, StoreKept
<1>5. CASE RelayStamp(r)
  <2> USE <1>5 DEF RelayStamp, IdleRelay, store, results, lost
  <2>1. TypeOK'
    BY <1>1 DEF TypeOK, RelayStates
  <2>2. HeldInv' /\ SentInv'
    BY DEF TypeOK, RelayStates, OutboxInv, HeldInv, SentInv
  <2>3. EveryEventIsOwed'
    BY DEF OutboxInv, SentInv, EveryEventIsOwed
  <2>. QED  BY <2>1, <2>2, <2>3, StoreKept DEF OutboxInv
<1>6. CASE RelayPrune(r)
  <2> USE <1>6 DEF RelayPrune, IdleRelay, store, results, lost
  <2>1. TypeOK'
    BY <1>1 DEF TypeOK, RelayStates
  <2>2. OutboxInv'
    BY DEF TypeOK, RelayStates, OutboxInv, HeldInv, SentInv, EveryEventIsOwed
  <2>. QED  BY <2>1, <2>2, StoreKept
<1>7. CASE RelayCrash(r)
  <2> USE <1>7 DEF RelayCrash, IdleRelay, store, results, queue, lost
  <2>1. TypeOK'
    BY <1>1 DEF TypeOK, RelayStates
  <2>2. OutboxInv'
    BY DEF TypeOK, RelayStates, OutboxInv, HeldInv, SentInv, EveryEventIsOwed
  <2>. QED  BY <2>1, <2>2, StoreKept
<1>. QED  BY <1>2, <1>3, <1>4, <1>5, <1>6, <1>7 DEF RelayStep

-----------------------------------------------------------------------------
(***************************************************************************)
(* The worker                                                              *)
(***************************************************************************)
\* A worker only ever takes messages away.
LEMMA OutboxKept ==
    ASSUME OutboxInv, UNCHANGED <<log, pending, accepted, relay>>,
           \A w \in Workers : worker'[w].event <= Len(log)
    PROVE  OutboxInv'
BY DEF OutboxInv, HeldInv, SentInv, EveryEventIsOwed

\* Giving up an event of the log marks a row.
LEMMA ForgoType ==
    ASSUME TypeOK, NEW e \in 1..Len(log), Forgo(e) PROVE forgone' \subseteq Rows
<1>1. log \in Seq([row : Rows, content : Contents]) /\ forgone \subseteq Rows
  BY DEF TypeOK
<1>2. log[e] \in [row : Rows, content : Contents]
  BY <1>1, ElementOfSeq
<1>. QED  BY <1>1, <1>2 DEF Forgo

LEMMA WorkerStep_Inv ==
    ASSUME Inv, NEW w \in Workers, WorkerStep(w) PROVE Inv'
<1> USE PipelineAssumption DEF Inv, Ack
<1>1. Len(log) \in Nat /\ Len(log) <= MaxEvents
  BY DEF TypeOK
<1>2. \A v \in Workers : worker[v].event <= Len(log)
  BY DEF OutboxInv, HeldInv
<1>3. ASSUME NEW e \in messages, WorkerDropStale(w, e) PROVE Inv'
  <2> USE <1>3 DEF WorkerDropStale, store, results, lost
  <2>1. TypeOK'
    BY DEF TypeOK
  <2>. QED  BY <1>2, <2>1, OutboxKept, StoreKept
<1>4. ASSUME NEW e \in messages, WorkerAccept(w, e) PROVE Inv'
  <2> USE <1>4 DEF WorkerAccept, IdleWorker, store, results, queue, lost
  <2>1. e \in 1..Len(log)
    BY DEF TypeOK
  <2>2. TypeOK'
    <3>1. e \in 0..MaxEvents /\ e # 0
      BY <1>1, <2>1
    <3>2. [pc |-> "load", event |-> e, text |-> None] \in WorkerStates
      BY <3>1 DEF WorkerStates, Saving
    <3>. QED  BY <3>2 DEF TypeOK
  <2>3. \A v \in Workers : worker'[v].event <= Len(log)
    BY <1>2, <2>1 DEF TypeOK
  <2>. QED  BY <2>2, <2>3, OutboxKept, StoreKept
<1>5. ASSUME worker[w].pc # "idle"
      PROVE  worker[w].event \in 1..Len(log) /\ Target(w) \in Rows
  <2>1. worker[w].event \in 1..Len(log)
    BY <1>1, <1>2, <1>5 DEF TypeOK, WorkerStates
  <2>2. log[worker[w].event] \in [row : Rows, content : Contents]
    BY <2>1, ElementOfSeq DEF TypeOK
  <2>. QED  BY <2>1, <2>2 DEF Target
<1>6. ASSUME NEW next \in {"read", "clusterRead", "ack"}, worker[w].pc # "idle", At(w, next)
      PROVE  worker' \in [Workers -> WorkerStates]
             /\ \A v \in Workers : worker'[v].event <= Len(log)
  <2>1. worker[w] \in WorkerStates /\ worker[w].event # 0
    BY <1>6 DEF TypeOK, WorkerStates
  <2>2. [worker[w] EXCEPT !.pc = next, !.text = None] \in WorkerStates
    BY <2>1 DEF WorkerStates, Saving
  <2>. QED  BY <1>2, <1>6, <2>2 DEF At, TypeOK
<1>7. ASSUME worker' = [worker EXCEPT ![w] = IdleWorker]
      PROVE  worker' \in [Workers -> WorkerStates]
             /\ \A v \in Workers : worker'[v].event <= Len(log)
  BY <1>1, <1>2, <1>7 DEF IdleWorker, TypeOK, WorkerStates, Saving
<1>8. CASE WorkerLoad(w)
  <2> USE <1>8 DEF WorkerLoad, store, results, queue, lost
  <2>1. TypeOK'
    BY <1>6 DEF TypeOK
  <2>. QED  BY <1>6, <2>1, OutboxKept, StoreKept
<1>9. CASE WorkerSkip(w)
  <2> USE <1>9 DEF WorkerSkip, store, results
  <2>1. TypeOK'
    BY <1>5, <1>7, ForgoType DEF TypeOK
  <2>. QED  BY <1>7, <2>1, OutboxKept, StoreKept
<1>10. CASE WorkerRead(w)
  <2> USE <1>10 DEF WorkerRead, store, results, queue, lost
  <2>1. /\ worker' \in [Workers -> WorkerStates]
        /\ \A v \in Workers : worker'[v].event <= Len(log)
    <3>1. CASE Readable(Target(w))
      <4>1. hash[Target(w)] \in Contents
        BY <3>1 DEF Readable, TypeOK
      <4>2. worker[w] \in WorkerStates /\ worker[w].event # 0
        BY DEF TypeOK, WorkerStates
      <4>3. PICK next \in Saving :
              worker' = [worker EXCEPT ![w] =
                            [@ EXCEPT !.pc = next, !.text = hash[Target(w)]]]
        BY <3>1 DEF Saving
      <4>4. [worker[w] EXCEPT !.pc = next, !.text = hash[Target(w)]] \in WorkerStates
        BY <4>1, <4>2, <4>3 DEF WorkerStates, Saving
      <4>. QED  BY <1>2, <4>3, <4>4 DEF TypeOK
    <3>2. CASE ~Readable(Target(w))
      BY <1>6, <3>2
    <3>. QED  BY <3>1, <3>2
  <2>2. TypeOK'
    BY <2>1 DEF TypeOK
  <2>. QED  BY <2>1, <2>2, OutboxKept, StoreKept
<1>11. CASE WorkerSave(w)
  <2> USE <1>11 DEF WorkerSave, store, queue, lost
  <2>1. worker[w].text \in Contents
    BY DEF TypeOK, WorkerStates, Saving
  <2>2. TypeOK'
    BY <1>6, <2>1 DEF TypeOK
  <2>. QED  BY <1>6, <2>2, OutboxKept, StoreKept
<1>12. CASE WorkerClusterSave(w)
  <2> USE <1>12 DEF WorkerClusterSave, store, queue, lost
  <2>1. worker[w].text \in Contents
    BY DEF TypeOK, WorkerStates, Saving
  <2>2. TypeOK'
    BY <1>6, <2>1 DEF TypeOK
  <2>. QED  BY <1>6, <2>2, OutboxKept, StoreKept
<1>13. CASE WorkerSwallow(w)
  <2> USE <1>13 DEF WorkerSwallow, store, results, queue, lost
  <2>1. worker[w].pc # "idle"
    OBVIOUS
  <2>2. TypeOK'
    BY <1>5, <1>6, <2>1, ForgoType DEF TypeOK
  <2>. QED  BY <1>6, <2>1, <2>2, OutboxKept, StoreKept
<1>14. CASE WorkerAck(w)
  <2> USE <1>14 DEF WorkerAck, store, results, lost
  <2>1. TypeOK'
    BY <1>7 DEF TypeOK
  <2>. QED  BY <1>7, <2>1, OutboxKept, StoreKept
<1>15. CASE WorkerCrash(w)
  <2> USE <1>15 DEF WorkerCrash, store, results, queue, lost
  <2>1. TypeOK'
    BY <1>7 DEF TypeOK
  <2>. QED  BY <1>7, <2>1, OutboxKept, StoreKept
<1>. QED
  BY <1>3, <1>4, <1>8, <1>9, <1>10, <1>11, <1>12, <1>13, <1>14, <1>15
     DEF WorkerStep, WorkerStart, WorkerProgress

LEMMA DeadLetter_Inv ==
    ASSUME Inv, NEW e \in messages, DeadLetter(e) PROVE Inv'
<1> USE DEF Inv, DeadLetter, Ack, store, results
<1>1. e \in 1..Len(log)
  BY DEF TypeOK
<1>2. TypeOK'
  BY <1>1, ForgoType DEF TypeOK
<1>3. OutboxInv'
  BY OutboxKept DEF OutboxInv, HeldInv
<1>. QED  BY <1>2, <1>3, StoreKept

-----------------------------------------------------------------------------
LEMMA NextInv == Inv /\ [Next]_vars => Inv'
<1> SUFFICES ASSUME Inv, [Next]_vars PROVE Inv'
  OBVIOUS
<1>1. CASE UNCHANGED vars
  <2> USE <1>1 DEF vars, store, results, queue, lost
  <2>1. TypeOK'
    BY DEF Inv, TypeOK
  <2>2. OutboxInv'
    BY DEF Inv, OutboxInv, HeldInv, SentInv, EveryEventIsOwed
  <2>. QED  BY <2>1, <2>2, StoreKept DEF Inv
<1>. QED
  BY <1>1, SyncStep_Inv, Delete_Inv, RelayStep_Inv, WorkerStep_Inv, DeadLetter_Inv DEF Next

\* Inv holds in every reachable state.
THEOREM Invariance == Spec => []Inv
BY InitInv, NextInv, PTL DEF Spec

\* The variables keep their types; a process between two transactions holds
\* what its next one needs.
THEOREM TypeCorrect == Spec => []TypeOK
BY Invariance, PTL DEF Inv

\* dispatch_outbox owes every event until Pub/Sub has accepted it, for any
\* number of overlapping relays, failed publishes and crashes.
THEOREM OutboxLosesNothing == Spec => []EveryEventIsOwed
BY Invariance, PTL DEF Inv, OutboxInv

\* store_posting's order, document before row, leaves no row without a
\* document at any point of any number of concurrent refresh runs.
THEOREM RowsHaveDocuments == Spec => []DocumentBehindRow
BY Invariance, PTL DEF Inv, StoreInv

-----------------------------------------------------------------------------
(***************************************************************************)
(* Nothing is forgotten                                                    *)
(*                                                                         *)
(* NothingForgotten is not inductive: an event that is acknowledged before *)
(* its outbox row is stamped is still pending and no help any more, and a  *)
(* handler may hold a text that its posting has lost.  So only events that *)
(* Pub/Sub has yet to deliver or to accept count, and the event a handler  *)
(* works on counts for its posting until the handler is done.              *)
(***************************************************************************)
Busy(w) == worker[w].pc # "idle"

\* No two handlers work on one posting at a time.
WorkApart == \A v, w \in Workers : v # w /\ Busy(v) /\ Busy(w) => Target(v) # Target(w)

\* Events that Pub/Sub has to deliver, or has not accepted yet.
Owed == messages \cup (pending \ accepted)

EventFor(e, i) == log[e] = [row |-> i, content |-> hash[i]]

\* Rows the exceptions of NothingForgotten name.
Lost == forgone \cup unannounced

Served(i) ==
    ext[i] = None \/ i \in Lost \/ Current(i) \/ \E e \in Owed : EventFor(e, i)

\* The posting of handler w is served without w and its event.
Excused(w) ==
    LET i == Target(w)
    IN  ext[i] = None \/ i \in Lost \/ \E e \in Owed \ {worker[w].event} : EventFor(e, i)

\* What handler w has done so far is good for what its posting holds now.
UpToDate(w) ==
    LET i == Target(w)
    IN  /\ worker[w].pc \in Saving => worker[w].text = hash[i]
        /\ worker[w].pc \in {"clusterRead", "clusterSave", "ack"} => analysis[i] = hash[i]
        /\ worker[w].pc = "ack" => clusters[i] = hash[i]

NoRowNoHash == \A i \in Rows : ext[i] = None => hash[i] = None

ServedInv ==
    /\ NoRowNoHash
    /\ \A i \in Rows : Served(i)
    /\ \A w \in Workers : Busy(w) => Excused(w) \/ UpToDate(w)

-----------------------------------------------------------------------------
\* More events on their way serve no row less.
LEMMA MoreIsOwed ==
    ASSUME ServedInv, UNCHANGED <<ext, hash, results, log, worker, Lost>>, Owed \subseteq Owed'
    PROVE  ServedInv'
<1>1. \A i \in Rows : Served(i)'
  BY DEF ServedInv, Served, EventFor, Current, results
<1>2. ASSUME NEW w \in Workers, Busy(w)' PROVE Excused(w)' \/ UpToDate(w)'
  <2>1. Excused(w) \/ UpToDate(w)
    BY <1>2 DEF ServedInv, Busy
  <2>. QED  BY <2>1 DEF Excused, UpToDate, EventFor, Target, results
<1>. QED  BY <1>1, <1>2 DEF ServedInv, NoRowNoHash

LEMMA BusyTarget ==
    ASSUME Inv, NEW w \in Workers, Busy(w)
    PROVE  worker[w].event \in 1..Len(log) /\ Target(w) \in Rows
<1>1. worker[w].event \in 1..Len(log)
  BY DEF Inv, TypeOK, WorkerStates, OutboxInv, HeldInv, Busy
<1>2. log[worker[w].event] \in [row : Rows, content : Contents]
  BY <1>1, ElementOfSeq DEF Inv, TypeOK
<1>. QED  BY <1>1, <1>2 DEF Target

\* A row gets new content: with an event for it, or as one of those
\* nobody announced.
LEMMA UpsertServed ==
    ASSUME Inv, ServedInv, NEW s \in Syncs, SyncUpsert(s) PROVE ServedInv'
<1>. DEFINE p == sync[s].posting
            c == sync[s].content
<1>1. PICK i \in Rows : /\ ext' = [ext EXCEPT ![i] = p]
                        /\ hash' = [hash EXCEPT ![i] = c]
                        /\ Record(i, c, sync[s].status)
  BY DEF SyncUpsert, Existing, NewIds
<1>2. UNCHANGED <<results, messages, accepted, worker>>
  BY DEF SyncUpsert
<1>3. c \in Contents /\ p \in Postings /\ c # None
  BY PipelineAssumption DEF SyncUpsert, Inv, TypeOK, SyncStates
<1>4. /\ log \in Seq([row : Rows, content : Contents]) /\ accepted \subseteq 1..Len(log)
      /\ ext \in [Rows -> Postings \cup {None}] /\ hash \in [Rows -> Contents \cup {None}]
      /\ messages \subseteq 1..Len(log) /\ pending \subseteq 1..Len(log)
  BY DEF Inv, TypeOK
<1>5. NoRowNoHash'
  BY <1>1, <1>3, <1>4, PipelineAssumption DEF ServedInv, NoRowNoHash
<1>6. CASE Announces(sync[s].status)
  <2>. PICK n : n = Len(log) + 1
    OBVIOUS
  <2>1. /\ log' = Append(log, [row |-> i, content |-> c])
        /\ pending' = pending \cup {n} /\ Lost' = Lost \ {i}
    BY <1>1, <1>6 DEF Record, Lost
  <2>2. /\ \A e \in 1..Len(log) : log'[e] = log[e]
        /\ log'[n] = [row |-> i, content |-> c]
        /\ n \notin 1..Len(log)
    BY <1>3, <1>4, <2>1
  <2>3. Owed' = Owed \cup {n} /\ Owed \subseteq 1..Len(log)
    BY <1>2, <1>4, <2>1, <2>2 DEF Owed
  <2>4. EventFor(n, i)'
    BY <1>1, <1>4, <2>2 DEF EventFor
  <2>5. ASSUME NEW j \in Rows PROVE Served(j)'
    <3>1. CASE j = i
      BY <2>3, <2>4, <3>1 DEF Served
    <3>2. CASE j # i
      <4>1. Served(j) /\ ext'[j] = ext[j] /\ hash'[j] = hash[j] /\ (j \in Lost => j \in Lost')
        BY <1>1, <1>4, <2>1, <3>2 DEF ServedInv
      <4>. QED  BY <1>2, <2>2, <2>3, <4>1 DEF Served, EventFor, Current, results
    <3>. QED  BY <3>1, <3>2
  <2>6. ASSUME NEW w \in Workers, Busy(w)' PROVE Excused(w)' \/ UpToDate(w)'
    <3>1. /\ Busy(w) /\ worker[w].event \in 1..Len(log) /\ Target(w) \in Rows
          /\ Excused(w) \/ UpToDate(w)
      BY <1>2, <2>6, BusyTarget DEF ServedInv, Busy
    <3>2. Target(w)' = Target(w) /\ worker' = worker
      BY <1>2, <2>2, <3>1 DEF Target
    <3>3. CASE Target(w) = i
      BY <2>2, <2>3, <2>4, <3>1, <3>2, <3>3 DEF Excused
    <3>4. CASE Target(w) # i
      <4>1. /\ ext'[Target(w)] = ext[Target(w)] /\ hash'[Target(w)] = hash[Target(w)]
            /\ Target(w) \in Lost => Target(w) \in Lost'
        BY <1>1, <1>4, <2>1, <3>1, <3>4
      <4>. QED  BY <1>2, <2>2, <2>3, <3>1, <3>2, <4>1 DEF Excused, UpToDate, EventFor, results
    <3>. QED  BY <3>3, <3>4
  <2>. QED  BY <1>5, <2>5, <2>6 DEF ServedInv
<1>7. CASE ~Announces(sync[s].status)
  <2>1. /\ UNCHANGED <<log, pending>>
        /\ Lost' = IF hash[i] = c THEN Lost ELSE Lost \cup {i}
    BY <1>1, <1>7 DEF Record, Lost, lost
  <2>2. Owed' = Owed /\ UNCHANGED results /\ worker' = worker /\ log' = log
    BY <1>2, <2>1 DEF Owed
  <2>3. ASSUME NEW j \in Rows
        PROVE  \/ j \in Lost'
               \/ /\ hash'[j] = hash[j] /\ (ext[j] = None => ext'[j] = None)
                  /\ j \in Lost => j \in Lost'
    <3>1. CASE j = i /\ hash[i] # c
      BY <2>1, <3>1
    <3>2. CASE j = i /\ hash[i] = c
      BY <1>1, <1>3, <1>4, <2>1, <3>2 DEF ServedInv, NoRowNoHash
    <3>3. CASE j # i
      BY <1>1, <1>4, <2>1, <3>3
    <3>. QED  BY <3>1, <3>2, <3>3
  <2>5. ASSUME NEW j \in Rows PROVE Served(j)'
    BY <2>2, <2>3 DEF ServedInv, Served, EventFor, Current, results
  <2>6. ASSUME NEW w \in Workers, Busy(w)' PROVE Excused(w)' \/ UpToDate(w)'
    <3>1. Busy(w) /\ Target(w) \in Rows /\ (Excused(w) \/ UpToDate(w))
      BY <2>2, <2>6, BusyTarget DEF ServedInv, Busy
    <3>2. Target(w)' = Target(w)
      BY <2>2 DEF Target
    <3>. QED  BY <2>2, <2>3, <3>1, <3>2 DEF Excused, UpToDate, EventFor, results
  <2>. QED  BY <1>5, <2>5, <2>6 DEF ServedInv
<1>. QED  BY <1>6, <1>7

LEMMA DeleteServed ==
    ASSUME Inv, ServedInv, NEW i \in Rows, Delete(i) PROVE ServedInv'
<1>1. /\ ext' = [ext EXCEPT ![i] = None] /\ hash' = [hash EXCEPT ![i] = None]
      /\ analysis' = [analysis EXCEPT ![i] = None] /\ clusters' = [clusters EXCEPT ![i] = None]
      /\ Lost' = Lost \ {i} /\ Owed' = Owed /\ UNCHANGED <<log, worker>>
  BY DEF Delete, Owed, queue, Lost
<1>2. /\ ext \in [Rows -> Postings \cup {None}] /\ hash \in [Rows -> Contents \cup {None}]
      /\ analysis \in [Rows -> Contents \cup {None}] /\ clusters \in [Rows -> Contents \cup {None}]
  BY DEF Inv, TypeOK
<1>3. ext'[i] = None /\ hash'[i] = None
  BY <1>1, <1>2
<1>4. \A j \in Rows \ {i} : /\ ext'[j] = ext[j] /\ hash'[j] = hash[j]
                            /\ analysis'[j] = analysis[j] /\ clusters'[j] = clusters[j]
                            /\ j \in Lost => j \in Lost'
  BY <1>1, <1>2
<1>5. NoRowNoHash'
  BY <1>3, <1>4 DEF ServedInv, NoRowNoHash
<1>6. ASSUME NEW j \in Rows PROVE Served(j)'
  BY <1>1, <1>3, <1>4 DEF ServedInv, Served, EventFor, Current
<1>7. ASSUME NEW w \in Workers, Busy(w)' PROVE Excused(w)' \/ UpToDate(w)'
  <2>1. Busy(w) /\ Target(w) \in Rows /\ (Excused(w) \/ UpToDate(w)) /\ Target(w)' = Target(w)
    BY <1>1, <1>7, BusyTarget DEF ServedInv, Busy, Target
  <2>2. CASE Target(w) = i
    BY <1>3, <2>1, <2>2 DEF Excused
  <2>3. CASE Target(w) # i
    BY <1>1, <1>4, <2>1, <2>3 DEF Excused, UpToDate, EventFor
  <2>. QED  BY <2>2, <2>3
<1>. QED  BY <1>5, <1>6, <1>7 DEF ServedInv

-----------------------------------------------------------------------------
\* Event e is given up or dropped as stale: only its own posting can lose by
\* it, and that one is forgone when it does.
LEMMA GivenUp ==
    ASSUME Inv, ServedInv, NEW e \in 1..Len(log), Ack(e),
           UNCHANGED <<ext, hash, results, log, pending, accepted>>,
           \/ Forgo(e) /\ UNCHANGED unannounced
           \/ Lost' = Lost /\ hash[log[e].row] # log[e].content
    PROVE  /\ Lost \subseteq Lost'
           /\ \A i \in Rows : i \in Lost' \/ ~EventFor(e, i)
           /\ \A i \in Rows : Served(i)'
           /\ \A w \in Workers : Busy(w) /\ worker'[w] = worker[w] =>
                 (Excused(w) \/ UpToDate(w))'
<1>1. Owed' \cup {e} = Owed \cup {e} /\ Owed' \subseteq Owed
  BY DEF Ack, Owed
<1>2. Lost \subseteq Lost'
  BY DEF Forgo, Lost
<1>3. \A i \in Rows : i \in Lost' \/ ~EventFor(e, i)
  BY DEF Forgo, EventFor, Lost
<1>4. \A i \in Rows : Served(i)'
  BY <1>1, <1>2, <1>3 DEF ServedInv, Served, EventFor, Current, results
<1>5. ASSUME NEW w \in Workers, Busy(w), worker'[w] = worker[w]
      PROVE  (Excused(w) \/ UpToDate(w))'
  <2>1. Target(w) \in Rows /\ (Excused(w) \/ UpToDate(w)) /\ Target(w)' = Target(w)
    BY <1>5, BusyTarget DEF ServedInv, Target
  <2>2. CASE Excused(w)
    BY <1>1, <1>2, <1>3, <1>5, <2>1, <2>2 DEF Excused, EventFor
  <2>3. CASE UpToDate(w)
    BY <1>5, <2>1, <2>3 DEF UpToDate, results
  <2>. QED  BY <2>1, <2>2, <2>3
<1>. QED  BY <1>2, <1>3, <1>4, <1>5

\* A row that is served is served by something else than an event for
\* another content, or is done.
LEMMA ServedElse ==
    ASSUME Inv, ServedInv, NEW w \in Workers, Busy(w),
           hash[Target(w)] # log[worker[w].event].content
    PROVE  Excused(w) \/ Current(Target(w))
<1>1. Target(w) \in Rows
  BY BusyTarget
<1>. QED  BY <1>1 DEF ServedInv, Served, Excused, EventFor

\* Handler w takes a step that writes nothing but its own state.
LEMMA MovesServed ==
    ASSUME Inv, ServedInv, NEW w \in Workers,
           UNCHANGED <<ext, hash, results, log, Owed>>, Lost \subseteq Lost',
           \A v \in Workers \ {w} : worker'[v] = worker[v],
           Busy(w)' => (Excused(w) \/ UpToDate(w))'
    PROVE  ServedInv'
<1>1. \A i \in Rows : Served(i)'
  BY DEF ServedInv, Served, EventFor, Current, results
<1>2. ASSUME NEW v \in Workers \ {w}, Busy(v)' PROVE (Excused(v) \/ UpToDate(v))'
  <2>1. (Excused(v) \/ UpToDate(v)) /\ worker'[v] = worker[v]
    BY <1>2 DEF ServedInv, Busy
  <2>. QED  BY <2>1 DEF Excused, UpToDate, EventFor, Target, results
<1>. QED  BY <1>1, <1>2 DEF ServedInv, NoRowNoHash

\* Handler w stores what it made of the text it read.
LEMMA SavesServed ==
    ASSUME Inv, ServedInv, WorkApart, NEW w \in Workers, worker[w].pc \in Saving,
           UNCHANGED <<ext, hash, log, Lost, Owed>>,
           \A v \in Workers \ {w} : worker'[v] = worker[v],
           worker'[w].event = worker[w].event, worker'[w].pc \notin Saving,
           \A i \in Rows \ {Target(w)} : analysis'[i] = analysis[i] /\ clusters'[i] = clusters[i],
           ext[Target(w)] # None =>
              LET i == Target(w)
                  text == worker[w].text
              IN  \/ /\ worker[w].pc = "save" /\ worker'[w].pc = "clusterRead"
                     /\ analysis'[i] = text /\ clusters'[i] = clusters[i]
                  \/ /\ worker[w].pc = "clusterSave" /\ worker'[w].pc = "ack"
                     /\ clusters'[i] = text /\ analysis'[i] = analysis[i]
    PROVE  ServedInv'
<1>. DEFINE i == Target(w)
<1>1. Busy(w) /\ i \in Rows /\ (Excused(w) \/ UpToDate(w))
  BY BusyTarget DEF Busy, Saving, ServedInv
<1>2. \A v \in Workers : worker'[v].event = worker[v].event /\ Target(v)' = Target(v)
  BY DEF Target
<1>3. ASSUME NEW j \in Rows PROVE Served(j)'
  <2>1. CASE j # i
    BY <2>1 DEF ServedInv, Served, EventFor, Current
  <2>2. CASE j = i /\ Excused(w)
    BY <2>2 DEF Served, Excused, EventFor
  <2>3. CASE j = i /\ ext[i] # None /\ UpToDate(w)
    BY <1>1, <2>3 DEF ServedInv, Served, UpToDate, EventFor, Current, Saving
  <2>. QED  BY <1>1, <2>1, <2>2, <2>3 DEF Excused
<1>4. (Excused(w) \/ UpToDate(w))'
  <2>1. CASE Excused(w)
    BY <1>2, <2>1 DEF Excused, EventFor
  <2>2. CASE ext[i] # None /\ UpToDate(w)
    BY <1>2, <2>2 DEF UpToDate, Saving
  <2>. QED  BY <1>1, <2>1, <2>2 DEF Excused
<1>5. ASSUME NEW v \in Workers \ {w}, Busy(v)' PROVE (Excused(v) \/ UpToDate(v))'
  <2>1. Busy(v) /\ worker'[v] = worker[v] /\ Target(v) \in Rows /\ Target(v) # i
    BY <1>1, <1>5, BusyTarget DEF Busy, WorkApart
  <2>2. Excused(v) \/ UpToDate(v)
    BY <2>1 DEF ServedInv
  <2>. QED  BY <1>2, <2>1, <2>2 DEF Excused, UpToDate, EventFor
<1>. QED  BY <1>3, <1>4, <1>5 DEF ServedInv, NoRowNoHash

\* Handler w is done with its event.
LEMMA AckServed ==
    ASSUME Inv, ServedInv, WorkApart, NEW w \in Workers, WorkerAck(w) PROVE ServedInv'
<1>. DEFINE i == Target(w)
            e == worker[w].event
<1>1. /\ Busy(w) /\ worker[w].pc = "ack" /\ worker' = [worker EXCEPT ![w] = IdleWorker]
      /\ UNCHANGED <<ext, hash, results, log, Lost>> /\ Owed \ {e} \subseteq Owed'
  BY DEF WorkerAck, Ack, Busy, Owed, store, lost, Lost
<1>2. i \in Rows /\ (Excused(w) \/ UpToDate(w))
  BY <1>1, BusyTarget DEF ServedInv
<1>3. \A j \in Rows \ {i} : ~EventFor(e, j)
  BY DEF EventFor, Target
<1>4. \A v \in Workers \ {w} : worker'[v] = worker[v] /\ Target(v)' = Target(v)
  BY <1>1 DEF Target, Inv, TypeOK
<1>5. ~Busy(w)'
  BY <1>1 DEF Inv, TypeOK, Busy, IdleWorker
<1>6. ASSUME NEW j \in Rows PROVE Served(j)'
  <2>1. CASE j # i
    BY <1>1, <1>3, <2>1 DEF ServedInv, Served, EventFor, Current, results
  <2>2. CASE j = i
    BY <1>1, <1>2, <2>2 DEF Served, Excused, UpToDate, EventFor, Current, results
  <2>. QED  BY <2>1, <2>2
<1>7. ASSUME NEW v \in Workers \ {w}, Busy(v)' PROVE (Excused(v) \/ UpToDate(v))'
  <2>1. Busy(v) /\ Target(v) \in Rows /\ Target(v) # i
    BY <1>1, <1>4, <1>7, BusyTarget DEF Busy, WorkApart
  <2>2. Excused(v) \/ UpToDate(v)
    BY <2>1 DEF ServedInv
  <2>. QED  BY <1>1, <1>3, <1>4, <2>1, <2>2 DEF Excused, UpToDate, EventFor, results
<1>. QED  BY <1>1, <1>5, <1>6, <1>7 DEF ServedInv, NoRowNoHash

LEMMA WorkerServed ==
    ASSUME Inv, ServedInv, WorkApart, NEW w \in Workers, WorkerStep(w) PROVE ServedInv'
<1>1. worker \in [Workers -> WorkerStates] /\ messages \subseteq 1..Len(log)
  BY DEF Inv, TypeOK
<1>2. ASSUME NEW next, At(w, next)
      PROVE  /\ worker'[w].pc = next /\ worker'[w].event = worker[w].event
             /\ \A v \in Workers \ {w} : worker'[v] = worker[v]
             /\ log' = log => Target(w)' = Target(w)
  BY <1>1, <1>2 DEF At, WorkerStates, Target
<1>3. ASSUME NEW e \in messages, WorkerDropStale(w, e) PROVE ServedInv'
  <2>1. /\ Ack(e) /\ hash[log[e].row] # log[e].content
        /\ UNCHANGED <<ext, hash, results, log, pending, accepted, Lost, worker>>
    BY <1>3 DEF WorkerDropStale, IsStale, store, lost, Lost
  <2>. QED  BY <1>1, <2>1, GivenUp DEF ServedInv, NoRowNoHash, Busy
<1>4. ASSUME NEW e \in messages, WorkerAccept(w, e) PROVE ServedInv'
  <2>1. worker'[w].pc = "load" /\ \A v \in Workers \ {w} : worker'[v] = worker[v]
    BY <1>1, <1>4 DEF WorkerAccept
  <2>2. UpToDate(w)'
    BY <2>1 DEF UpToDate, Saving
  <2>. QED  BY <1>4, <2>1, <2>2, MovesServed
       DEF WorkerAccept, store, queue, Owed, lost, Lost
<1>5. CASE WorkerLoad(w)
  <2>1. UpToDate(w)'
    BY <1>2, <1>5 DEF WorkerLoad, UpToDate, Saving
  <2>. QED  BY <1>2, <1>5, <2>1, MovesServed
       DEF WorkerLoad, store, queue, Owed, lost, Lost
<1>6. CASE WorkerSkip(w)
  <2>. DEFINE e == worker[w].event
  <2>1. /\ Ack(e) /\ Forgo(e) /\ worker' = [worker EXCEPT ![w] = IdleWorker] /\ Busy(w)
        /\ UNCHANGED <<ext, hash, results, log, pending, accepted, unannounced>>
    BY <1>6 DEF WorkerSkip, store, Busy
  <2>2. e \in 1..Len(log)
    BY <2>1, BusyTarget
  <2>3. ~Busy(w)' /\ \A v \in Workers \ {w} : worker'[v] = worker[v]
    BY <1>1, <2>1 DEF Busy, IdleWorker
  <2>4. /\ \A i \in Rows : Served(i)'
        /\ \A v \in Workers : Busy(v) /\ worker'[v] = worker[v] => (Excused(v) \/ UpToDate(v))'
    BY <2>1, <2>2, GivenUp
  <2>. QED  BY <2>1, <2>3, <2>4 DEF ServedInv, NoRowNoHash, Busy
<1>7. CASE WorkerRead(w)
  <2>1. Busy(w) /\ Target(w) \in Rows /\ (Excused(w) \/ UpToDate(w))
    BY <1>7, BusyTarget DEF WorkerRead, Busy, ServedInv
  <2>2. UNCHANGED <<ext, hash, results, log, Owed, Lost>>
    BY <1>7 DEF WorkerRead, store, queue, Owed, lost, Lost
  <2>3. CASE Readable(Target(w))
    <3>1. /\ worker'[w].pc = IF worker[w].pc = "read" THEN "save" ELSE "clusterSave"
          /\ worker'[w].text = hash[Target(w)] /\ worker'[w].event = worker[w].event
          /\ \A v \in Workers \ {w} : worker'[v] = worker[v]
      <4>. DEFINE pc == IF worker[w].pc = "read" THEN "save" ELSE "clusterSave"
                  x  == [worker[w] EXCEPT !.pc = pc, !.text = hash[Target(w)]]
      <4>1. worker' = [worker EXCEPT ![w] = x]
        BY <1>7, <2>3 DEF WorkerRead
      <4>2. x.pc = pc /\ x.text = hash[Target(w)] /\ x.event = worker[w].event
        BY <1>1 DEF WorkerStates
      <4>. HIDE DEF x
      <4>. QED  BY <1>1, <4>1, <4>2
    <3>2. Target(w)' = Target(w)
      BY <2>2, <3>1 DEF Target
    <3>3. (Excused(w) \/ UpToDate(w))'
      BY <1>7, <2>1, <2>2, <3>1, <3>2
         DEF WorkerRead, Excused, UpToDate, EventFor, Saving, results
    <3>. QED  BY <2>2, <3>1, <3>3, MovesServed
  <2>4. CASE ~Readable(Target(w))
    <3>1. ext[Target(w)] = None
      BY <2>1, <2>4 DEF Readable, Inv, StoreInv, DocumentBehindRow
    <3>2. PICK next : At(w, next)
      BY <1>7, <2>4 DEF WorkerRead
    <3>3. Excused(w)'
      BY <1>2, <2>2, <3>1, <3>2 DEF Excused
    <3>. QED  BY <1>2, <2>2, <3>2, <3>3, MovesServed
  <2>. QED  BY <2>3, <2>4
<1>8. CASE WorkerSave(w)
  <2>1. Target(w) \in Rows /\ analysis \in [Rows -> Contents \cup {None}]
    BY <1>8, BusyTarget DEF WorkerSave, Busy, Inv, TypeOK
  <2>2. /\ \A i \in Rows \ {Target(w)} : analysis'[i] = analysis[i]
        /\ ext[Target(w)] # None => analysis'[Target(w)] = worker[w].text
        /\ UNCHANGED <<ext, hash, clusters, log, Lost, Owed>>
    BY <1>8, <2>1 DEF WorkerSave, store, queue, Owed, lost, Lost
  <2>3. At(w, "clusterRead") /\ worker[w].pc = "save"
    BY <1>8 DEF WorkerSave
  <2>. QED  BY <1>2, <2>2, <2>3, SavesServed DEF Saving
<1>9. CASE WorkerClusterSave(w)
  <2>1. Target(w) \in Rows /\ clusters \in [Rows -> Contents \cup {None}]
    BY <1>9, BusyTarget DEF WorkerClusterSave, Busy, Inv, TypeOK
  <2>2. /\ \A i \in Rows \ {Target(w)} : clusters'[i] = clusters[i]
        /\ ext[Target(w)] # None => clusters'[Target(w)] = worker[w].text
        /\ UNCHANGED <<ext, hash, analysis, log, Lost, Owed>>
    BY <1>9, <2>1 DEF WorkerClusterSave, store, queue, Owed, lost, Lost
  <2>3. At(w, "ack") /\ worker[w].pc = "clusterSave"
    BY <1>9 DEF WorkerClusterSave
  <2>. QED  BY <1>2, <2>2, <2>3, SavesServed DEF Saving
<1>10. CASE WorkerSwallow(w)
  <2>. DEFINE i == Target(w)
              e == worker[w].event
  <2>1. /\ Busy(w) /\ Forgo(e) /\ UNCHANGED <<ext, hash, results, log, Owed, unannounced>>
        /\ \E next \in {"clusterRead", "ack"} : At(w, next)
    BY <1>10 DEF WorkerSwallow, Busy, store, queue, Owed
  <2>2. i \in Rows /\ Lost \subseteq Lost'
    BY <2>1, BusyTarget DEF Forgo, Lost
  <2>3. PICK next \in {"clusterRead", "ack"} : At(w, next)
    BY <2>1
  <2>4. (Excused(w) \/ UpToDate(w))'
    <3>1. CASE hash[i] = log[e].content
      <4>1. i \in Lost'
        BY <2>1, <3>1 DEF Forgo, Target, Lost
      <4>. QED  BY <1>2, <2>1, <2>3, <4>1 DEF Excused
    <3>2. CASE hash[i] # log[e].content
      <4>1. Excused(w) \/ Current(i)
        BY <2>1, <3>2, ServedElse
      <4>. QED
        BY <1>2, <2>1, <2>2, <2>3, <4>1
           DEF Excused, UpToDate, EventFor, Current, Saving, results
    <3>. QED  BY <3>1, <3>2
  <2>. QED  BY <1>2, <2>1, <2>2, <2>3, <2>4, MovesServed
<1>11. CASE WorkerCrash(w)
  <2>1. ~Busy(w)' /\ \A v \in Workers \ {w} : worker'[v] = worker[v]
    BY <1>1, <1>11 DEF WorkerCrash, Busy, IdleWorker
  <2>. QED  BY <1>11, <2>1, MovesServed DEF WorkerCrash, store, queue, Owed, lost, Lost
<1>. QED
  BY <1>3, <1>4, <1>5, <1>6, <1>7, <1>8, <1>9, <1>10, <1>11, AckServed
     DEF WorkerStep, WorkerStart, WorkerProgress

LEMMA NextServed == Inv /\ ServedInv /\ WorkApart /\ [Next]_vars => ServedInv'
<1>. SUFFICES ASSUME Inv, ServedInv, WorkApart, [Next]_vars PROVE ServedInv'
  OBVIOUS
<1>1. ASSUME NEW s \in Syncs, SyncStep(s) PROVE ServedInv'
  <2>1. CASE SyncUpsert(s)
    BY <2>1, UpsertServed
  <2>2. CASE ~SyncUpsert(s)
    <3>1. UNCHANGED <<ext, hash, results, queue, worker, Lost>>
      BY <1>1, <2>2 DEF SyncStep, SyncLookup, SyncSave, SyncFail, store, lost, Lost
    <3>. QED  BY <3>1, MoreIsOwed DEF queue, Owed
  <2>. QED  BY <2>1, <2>2
<1>2. ASSUME NEW r \in Relays, RelayStep(r) PROVE ServedInv'
  <2>1. UNCHANGED <<store, results, log, worker, Lost>>
    BY <1>2 DEF RelayStep, RelayClaim, RelayPublish, RelayPublishFail, RelayStamp,
                RelayPrune, RelayCrash, queue, lost, Lost
  <2>2. Owed \subseteq Owed'
    <3>1. CASE RelayStamp(r)
      BY <3>1 DEF RelayStamp, Owed, Inv, OutboxInv, SentInv
    <3>2. ASSUME NEW e \in 1..Len(log), RelayPublish(r, e) PROVE Owed \subseteq Owed'
      BY <3>2 DEF RelayPublish, Owed
    <3>. QED
      BY <1>2, <3>1, <3>2
         DEF RelayStep, RelayClaim, RelayPublishFail, RelayPrune, RelayCrash, queue, Owed
  <2>. QED  BY <2>1, <2>2, MoreIsOwed DEF store
<1>3. ASSUME NEW e \in messages, DeadLetter(e) PROVE ServedInv'
  <2>1. /\ Ack(e) /\ Forgo(e) /\ e \in 1..Len(log)
        /\ UNCHANGED <<ext, hash, results, log, pending, accepted, worker, unannounced>>
    BY <1>3 DEF DeadLetter, store, Inv, TypeOK
  <2>. QED  BY <2>1, GivenUp DEF ServedInv, NoRowNoHash, Busy
<1>4. CASE UNCHANGED vars
  BY <1>4, MoreIsOwed DEF vars, store, queue, Owed, lost, Lost
<1>. QED  BY <1>1, <1>2, <1>3, <1>4, DeleteServed, WorkerServed DEF Next

LEMMA InitServed == Init => ServedInv
BY PipelineAssumption
   DEF Init, ServedInv, NoRowNoHash, Served, Busy, IdleWorker

\* As long as no two handlers of posting-changed events work on one posting at
\* a time, nothing is forgotten: whatever else fails, crashes, is delivered
\* twice or overtakes.  (Two at once lose an analysis; a run shows how.)
THEOREM NothingForgottenApart == Spec /\ []WorkApart => []NothingForgotten
<1>1. Inv /\ ServedInv => NothingForgotten
  <2>. SUFFICES ASSUME Inv, ServedInv, NEW i \in Rows, ext[i] # None
                PROVE  Current(i) \/ OnItsWay(i) \/ i \in forgone \cup unannounced
    BY DEF NothingForgotten
  <2>. QED  BY DEF ServedInv, Served, EventFor, Owed, OnItsWay, Lost
<1>2. Spec => []Inv
  BY Invariance
<1>. QED  BY <1>1, <1>2, InitServed, NextServed, PTL DEF Spec

\* A single handler is never two on one posting.
COROLLARY OneWorkerForgetsNothing ==
    (\A v, w \in Workers : v = w) => (Spec => []NothingForgotten)
<1>. SUFFICES ASSUME \A v, w \in Workers : v = w PROVE Spec => []NothingForgotten
  OBVIOUS
<1>1. WorkApart
  BY DEF WorkApart
<1>. QED  BY <1>1, NothingForgottenApart, PTL

-----------------------------------------------------------------------------
(***************************************************************************)
(* Where the exception for what no sync announced comes from: only from a  *)
(* sync that somebody disturbs between its lookup and its upsert.          *)
(***************************************************************************)
Stored(p) == [i \in Existing(p) |-> hash[i]]

\* While a sync has a posting in hand, nobody else writes or deletes its row.
Undisturbed ==
    [][\A s \in Syncs :
          sync[s].pc # "idle" /\ sync'[s].pc # "idle" =>
              Stored(sync[s].posting)' = Stored(sync[s].posting)]_vars

OneRow == \A i, j \in Rows : ext[i] # None /\ ext[i] = ext[j] => i = j

\* The lookup is still right.
SeenInv ==
    /\ OneRow
    /\ \A s \in Syncs :
          sync[s].pc # "idle" /\ sync[s].status = "unchanged" =>
              \E i \in Existing(sync[s].posting) : hash[i] = sync[s].content

\* Relays and workers leave the rows and the syncs alone.
LEMMA RowsMove ==
    ASSUME [Next]_vars
    PROVE  \/ \E s \in Syncs : SyncStep(s)
           \/ \E i \in Rows : Delete(i)
           \/ UNCHANGED <<ext, hash, sync>>
<1>1. ASSUME NEW r \in Relays, RelayStep(r) PROVE UNCHANGED <<ext, hash, sync>>
  BY <1>1 DEF RelayStep, RelayClaim, RelayPublish, RelayPublishFail, RelayStamp,
              RelayPrune, RelayCrash, store
<1>2. ASSUME NEW w \in Workers, WorkerStep(w) PROVE UNCHANGED <<ext, hash, sync>>
  BY <1>2 DEF WorkerStep, WorkerStart, WorkerProgress, WorkerDropStale, WorkerAccept,
              WorkerLoad, WorkerSkip, WorkerRead, WorkerSave, WorkerClusterSave,
              WorkerSwallow, WorkerAck, WorkerCrash, store
<1>3. ASSUME NEW e \in messages, DeadLetter(e) PROVE UNCHANGED <<ext, hash, sync>>
  BY <1>3 DEF DeadLetter, store
<1>. QED  BY <1>1, <1>2, <1>3 DEF Next, vars, store

\* An upsert writes one row, the one of its posting if there is one.
LEMMA UpsertRow ==
    ASSUME Inv, OneRow, NEW s \in Syncs, SyncUpsert(s)
    PROVE  \E i \in Rows :
              /\ ext' = [ext EXCEPT ![i] = sync[s].posting]
              /\ hash' = [hash EXCEPT ![i] = sync[s].content]
              /\ Record(i, sync[s].content, sync[s].status)
              /\ Existing(sync[s].posting) \subseteq {i}
<1>. DEFINE p == sync[s].posting
<1>1. p \in Postings /\ p # None
  BY PipelineAssumption DEF SyncUpsert, Inv, TypeOK, SyncStates
<1>2. PICK i \in IF Existing(p) = {} THEN NewIds ELSE Existing(p) :
             /\ ext' = [ext EXCEPT ![i] = p] /\ hash' = [hash EXCEPT ![i] = sync[s].content]
             /\ Record(i, sync[s].content, sync[s].status)
  BY DEF SyncUpsert
<1>3. i \in Rows /\ Existing(p) \subseteq {i}
  BY <1>1, <1>2 DEF Existing, NewIds, OneRow
<1>. QED  BY <1>2, <1>3

LEMMA OneRowStep == Inv /\ OneRow /\ [Next]_vars => OneRow'
<1>. SUFFICES ASSUME Inv, OneRow, [Next]_vars PROVE OneRow'
  OBVIOUS
<1>1. ext \in [Rows -> Postings \cup {None}]
  BY DEF Inv, TypeOK
<1>2. CASE UNCHANGED ext
  BY <1>2 DEF OneRow
<1>3. ASSUME NEW s \in Syncs, SyncUpsert(s) PROVE OneRow'
  BY <1>1, <1>3, UpsertRow DEF OneRow, Existing
<1>4. ASSUME NEW i \in Rows, Delete(i) PROVE OneRow'
  BY <1>1, <1>4 DEF Delete, OneRow
<1>5. ASSUME NEW s \in Syncs, SyncStep(s) PROVE SyncUpsert(s) \/ UNCHANGED ext
  BY <1>5 DEF SyncStep, SyncLookup, SyncSave, SyncFail, store
<1>. QED  BY <1>2, <1>3, <1>4, <1>5, RowsMove

\* A sync with a posting in hand, before and after a step, is at the same
\* posting.
LEMMA SameInHand ==
    ASSUME Inv, [Next]_vars, NEW s \in Syncs, sync[s].pc # "idle", sync'[s].pc # "idle"
    PROVE  /\ sync'[s].posting = sync[s].posting /\ sync'[s].content = sync[s].content
           /\ sync'[s].status = sync[s].status
<1>1. sync \in [Syncs -> SyncStates]
  BY DEF Inv, TypeOK
<1>2. ASSUME NEW t \in Syncs, SyncStep(t), sync # sync' PROVE t = s => SyncSave(s)
  BY <1>1, <1>2 DEF SyncStep, SyncLookup, SyncUpsert, SyncFail, IdleSync
<1>3. ASSUME NEW t \in Syncs \ {s}, SyncStep(t) PROVE sync'[s] = sync[s]
  BY <1>1, <1>3 DEF SyncStep, SyncLookup, SyncSave, SyncUpsert, SyncFail
<1>4. CASE SyncSave(s)
  BY <1>1, <1>4 DEF SyncSave, SyncStates
<1>. QED  BY <1>2, <1>3, <1>4, RowsMove DEF Delete

LEMMA SeenStep ==
    ASSUME Inv, SeenInv, [Next]_vars,
           \A s \in Syncs :
              sync[s].pc # "idle" /\ sync'[s].pc # "idle" =>
                  Stored(sync[s].posting)' = Stored(sync[s].posting)
    PROVE  SeenInv'
<1>1. OneRow'
  BY OneRowStep DEF SeenInv
<1>2. ASSUME NEW s \in Syncs, sync'[s].pc # "idle", sync'[s].status = "unchanged"
      PROVE  \E i \in Existing(sync[s].posting)' : hash'[i] = sync'[s].content
  <2>1. CASE sync[s].pc # "idle"
    <3>1. /\ sync'[s].posting = sync[s].posting /\ sync'[s].content = sync[s].content
          /\ sync[s].status = "unchanged"
      BY <1>2, <2>1, SameInHand
    <3>2. PICK i \in Existing(sync[s].posting) : hash[i] = sync[s].content
      BY <2>1, <3>1 DEF SeenInv
    <3>3. [j \in Existing(sync[s].posting)' |-> hash'[j]]
             = [j \in Existing(sync[s].posting) |-> hash[j]]
      BY <1>2, <2>1, <3>1 DEF Stored
    <3>4. i \in Existing(sync[s].posting)' /\ hash'[i] = hash[i]
      BY <3>2, <3>3
    <3>. QED  BY <3>1, <3>2, <3>4
  <2>2. CASE sync[s].pc = "idle"
    <3>1. sync \in [Syncs -> SyncStates]
      BY DEF Inv, TypeOK
    <3>2. PICK p \in Postings, c \in Contents : SyncLookup(s, p, c)
      BY <1>2, <2>2, <3>1, RowsMove
         DEF SyncStep, SyncLookup, SyncSave, SyncUpsert, SyncFail, Delete, IdleSync
    <3>3. sync'[s].posting = p /\ sync'[s].content = c /\ StatusOf(p, c) = "unchanged"
      BY <1>2, <3>1, <3>2 DEF SyncLookup
    <3>4. \E i \in Existing(p) : hash[i] = c
      BY <3>3 DEF StatusOf
    <3>5. UNCHANGED <<ext, hash>>
      BY <3>2 DEF SyncLookup, store
    <3>. QED  BY <3>3, <3>4, <3>5 DEF Existing
  <2>. QED  BY <2>1, <2>2
<1>. QED  BY <1>1, <1>2 DEF SeenInv

\* An upsert that the lookup was right about announces what it changes.
LEMMA Announced ==
    ASSUME Inv, SeenInv, [Next]_vars, NEW i \in Rows, hash'[i] \notin {hash[i], None}
    PROVE  \E e \in pending' : log'[e] = [row |-> i, content |-> hash'[i]]
<1>1. log \in Seq([row : Rows, content : Contents]) /\ hash \in [Rows -> Contents \cup {None}]
  BY DEF Inv, TypeOK
<1>2. PICK s \in Syncs : SyncUpsert(s)
  BY <1>1, RowsMove DEF SyncStep, SyncLookup, SyncSave, SyncFail, Delete, store
<1>. DEFINE c == sync[s].content
<1>3. PICK j \in Rows : /\ hash' = [hash EXCEPT ![j] = c]
                        /\ Record(j, c, sync[s].status)
                        /\ Existing(sync[s].posting) \subseteq {j}
  BY <1>2, UpsertRow DEF SeenInv
<1>4. i = j /\ hash'[i] = c /\ hash[i] # c
  BY <1>1, <1>3
<1>5. sync[s].status # "unchanged"
  BY <1>2, <1>3, <1>4 DEF SeenInv, SyncUpsert
<1>6. Announces(sync[s].status)
  BY <1>2, <1>5 DEF Announces, SyncUpsert, Inv, TypeOK, SyncStates, Statuses
<1>7. log' = Append(log, [row |-> i, content |-> c]) /\ Len(log) + 1 \in pending'
  BY <1>3, <1>4, <1>6 DEF Record
<1>. QED  BY <1>1, <1>4, <1>7

\* What sync_ats_posting's docstring says, that an unannounced posting did not
\* change, holds if no other run and no DELETE writes a posting's row between
\* the lookup of a sync and its upsert: only that race loses an event.
THEOREM OnlyRacesAreSilent == Spec /\ Undisturbed => ContentsAreAnnounced
<1>1. Init => SeenInv
  BY DEF Init, SeenInv, OneRow, IdleSync
<1>2. Spec => []Inv
  BY Invariance
<1>. DEFINE Calm == \A s \in Syncs :
                       sync[s].pc # "idle" /\ sync'[s].pc # "idle" =>
                           Stored(sync[s].posting)' = Stored(sync[s].posting)
            Told == \A i \in Rows :
                       hash'[i] \notin {hash[i], None} =>
                           \E e \in pending' : log'[e] = [row |-> i, content |-> hash'[i]]
<1>3. Inv /\ SeenInv /\ [Next]_vars /\ [Calm]_vars => SeenInv'
  <2>1. CASE UNCHANGED vars
    BY <2>1 DEF vars, store, SeenInv, OneRow, Existing
  <2>. QED  BY <2>1, SeenStep
<1>4. Inv /\ SeenInv /\ [Next]_vars => [Told]_vars
  BY Announced
<1>. QED  BY <1>1, <1>2, <1>3, <1>4, PTL DEF Spec, Undisturbed, ContentsAreAnnounced
=============================================================================
