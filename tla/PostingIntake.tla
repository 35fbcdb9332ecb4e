--------------------------- MODULE PostingIntake ---------------------------
(***************************************************************************)
(* POST /api/v1/postings: a pasted posting, stored once per                *)
(* Idempotency-Key however often the client retries.  Each transaction of  *)
(* gaps/routes.store_job_posting is an action.  What the document store    *)
(* does is in PostingPipeline; here its failure is only a way to a 503.    *)
(***************************************************************************)
EXTENDS Naturals, FiniteSets, FiniteSetsExt

CONSTANTS
    Keys,       \* Idempotency-Key values of one tenant
    Texts,      \* posting texts, by content hash
    Requests,   \* handlers in flight
    MaxRows,    \* bound on job_postings.id
    Nil         \* no key / no text / no answer

Ids == 1..MaxRows
Answers == [id : Ids, duplicate : BOOLEAN]

ASSUME IntakeAssumption ==
    /\ MaxRows \in Nat
    /\ Nil \notin Keys \cup Texts /\ Nil \notin Answers

VARIABLES
    posting,    \* posting[i]: text of row i, Nil when there is none
    nextId,     \* next value of the id sequence
    reserved,   \* keys with a row in idempotency_keys
    response,   \* response[k]: response_body of key k, Nil while it is {}
    req,        \* req[r]: state of a handler
    created,    \* history: created[k], rows inserted by requests with key k
    replies     \* history: replies[k], 201 bodies sent to requests with key k

db == <<posting, nextId, reserved, response>>
intakeHistory == <<created, replies>>
intakeVars == <<db, req, intakeHistory>>

Active == {"replay", "parse", "dedup", "save", "insert", "record", "reply"}

IntakeTypeOK ==
    /\ posting \in [Ids -> Texts \cup {Nil}]
    /\ nextId \in 1..MaxRows + 1
    /\ reserved \subseteq Keys
    /\ response \in [Keys -> Answers \cup {Nil}]
    /\ \A k \in Keys : response[k] # Nil => k \in reserved
    /\ req \in [Requests -> [pc : Active \cup {"idle"}, key : Keys \cup {Nil},
                             text : Texts \cup {Nil}, answer : Answers \cup {Nil}]]
    /\ created \in [Keys -> SUBSET Ids]
    /\ replies \in [Keys -> SUBSET Answers]

Unused == [pc |-> "idle", key |-> Nil, text |-> Nil, answer |-> Nil]

IntakeInit ==
    /\ posting = [i \in Ids |-> Nil]
    /\ nextId = 1
    /\ reserved = {}
    /\ response = [k \in Keys |-> Nil]
    /\ req = [r \in Requests |-> Unused]
    /\ created = [k \in Keys |-> {}]
    /\ replies = [k \in Keys |-> {}]

-----------------------------------------------------------------------------
Goto(r, next) == req' = [req EXCEPT ![r].pc = next]
Finish(r) == req' = [req EXCEPT ![r] = Unused]

\* Mutant: a reservation without a response is taken over.
OwnsUnanswered(k) == response[k] = Nil

\* reserve(): the insert is the lock.
Owns(k) == k \notin reserved

\* Mutant: the key's row is only written with the response.
ArriveUnreserved(r, k, t) ==
    /\ req[r].pc = "idle"
    /\ req' = [req EXCEPT ![r] =
                  [pc |-> IF k = Nil \/ response[k] = Nil THEN "parse" ELSE "replay",
                   key |-> k, text |-> t, answer |-> Nil]]
    /\ UNCHANGED <<db, intakeHistory>>

Arrive(r, k, t) ==
    /\ req[r].pc = "idle"
    /\ req' = [req EXCEPT ![r] =
                  [pc |-> IF k = Nil \/ Owns(k) THEN "parse" ELSE "replay",
                   key |-> k, text |-> t, answer |-> Nil]]
    /\ reserved' = reserved \cup ({k} \ {Nil})
    /\ UNCHANGED <<posting, nextId, response, intakeHistory>>

\* get_response: replay what there is, or 409.
Replay(r) ==
    /\ req[r].pc = "replay"
    /\ LET a == response[req[r].key]
       IN  req' = [req EXCEPT ![r] = IF a = Nil THEN Unused
                                     ELSE [@ EXCEPT !.pc = "reply", !.answer = a]]
    /\ UNCHANGED <<db, intakeHistory>>

\* The body is read after the key was reserved.
ParseOk(r) ==
    /\ req[r].pc = "parse"
    /\ Goto(r, "dedup")
    /\ UNCHANGED <<db, intakeHistory>>

\* 413 or 422, whoever owns the key.
ParseRefused(r) ==
    /\ req[r].pc = "parse"
    /\ Finish(r)
    /\ UNCHANGED <<db, intakeHistory>>

\* The rest of a request that has its answer.
Answered(r, a) == [req[r] EXCEPT !.answer = a,
                                 !.pc = IF req[r].key = Nil THEN "reply" ELSE "record"]

\* find_by_content_hash: the oldest row with the text is the answer, and
\* nothing is inserted.  (Its document is written again; that may fail.)
DedupFound(r) ==
    /\ req[r].pc = "dedup"
    /\ LET same == {i \in Ids : posting[i] = req[r].text}
       IN  /\ same # {}
           /\ req' = [req EXCEPT ![r] =
                         Answered(r, [id |-> Min(same), duplicate |-> TRUE])]
    /\ UNCHANGED <<db, intakeHistory>>

\* No such row, or the lookup failed.
DedupNotFound(r) ==
    /\ req[r].pc = "dedup"
    /\ Goto(r, "save")
    /\ UNCHANGED <<db, intakeHistory>>

SaveDocument(r) ==
    /\ req[r].pc = "save"
    /\ Goto(r, "insert")
    /\ UNCHANGED <<db, intakeHistory>>

Insert(r) ==
    /\ req[r].pc = "insert"
    /\ nextId \in Ids
    /\ posting' = [posting EXCEPT ![nextId] = req[r].text]
    /\ nextId' = nextId + 1
    /\ req' = [req EXCEPT ![r] = Answered(r, [id |-> nextId, duplicate |-> FALSE])]
    /\ created' = [k \in Keys |-> IF k = req[r].key THEN created[k] \cup {nextId}
                                  ELSE created[k]]
    /\ UNCHANGED <<reserved, response, replies>>

\* 503: the document or the row could not be written.
StoreFail(r) ==
    /\ req[r].pc \in {"save", "insert"}
    /\ Finish(r)
    /\ UNCHANGED <<db, intakeHistory>>

\* store_response, before the client hears of it.
Record(r) ==
    /\ req[r].pc = "record"
    /\ response' = [response EXCEPT ![req[r].key] = req[r].answer]
    /\ Goto(r, "reply")
    /\ UNCHANGED <<posting, nextId, reserved, intakeHistory>>

SendReply(r) ==
    /\ req[r].pc = "reply"
    /\ replies' = [k \in Keys |-> IF k = req[r].key THEN replies[k] \cup {req[r].answer}
                                  ELSE replies[k]]
    /\ Finish(r)
    /\ UNCHANGED <<db, created>>

\* A 500, the end of the process, or a response that gets lost.
Crash(r) ==
    /\ req[r].pc # "idle"
    /\ Finish(r)
    /\ UNCHANGED <<db, intakeHistory>>

\* DELETE /api/v1/postings/{id}: the key's response stays.
Delete(i) ==
    /\ posting[i] # Nil
    /\ posting' = [posting EXCEPT ![i] = Nil]
    /\ UNCHANGED <<nextId, reserved, response, req, intakeHistory>>

Step(r) ==
    \/ \E k \in Keys \cup {Nil}, t \in Texts : Arrive(r, k, t)
    \/ Replay(r) \/ ParseOk(r) \/ ParseRefused(r)
    \/ DedupFound(r) \/ DedupNotFound(r)
    \/ SaveDocument(r) \/ Insert(r) \/ StoreFail(r)
    \/ Record(r) \/ SendReply(r) \/ Crash(r)

IntakeNext ==
    \/ \E r \in Requests : Step(r)
    \/ \E i \in Ids : Delete(i)

IntakeSpec == IntakeInit /\ [][IntakeNext]_intakeVars
-----------------------------------------------------------------------------
(***************************************************************************)
(* Properties                                                              *)
(***************************************************************************)
\* However often a key is retried, at once or after any failure, its requests
\* insert at most one posting.
KeyCreatesOnce == \A k \in Keys : Cardinality(created[k]) <= 1

\* Every client that gets a 201 for a key gets the same one.
RepliesAgree == \A k \in Keys : Cardinality(replies[k]) <= 1

\* The response on record for a key is never replaced: a retry long after the
\* answer, or a handler that was slower than its retry, replays the first one.
AnswersStay == [][\A k \in Keys : response[k] # Nil => response'[k] = response[k]]_intakeVars

\* The comment behind the 409: a key that is reserved and has no response
\* belongs to a request that is still in flight.
ReservedIsInFlight ==
    \A k \in reserved :
        response[k] = Nil =>
            \E r \in Requests : req[r].key = k /\ req[r].pc \in Active \ {"replay", "reply"}
=============================================================================
