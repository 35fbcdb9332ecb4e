------------------------ MODULE PostingIntakeProofs ------------------------
(***************************************************************************)
(* Proofs about PostingIntake, for any keys, texts, number of handlers and *)
(* of rows.  The row of a key in idempotency_keys is a lock that is never  *)
(* released: at most one request ever gets past it, and as long as that    *)
(* one is under way nothing has been answered.                             *)
(***************************************************************************)
EXTENDS PostingIntake, FiniteSetTheorems, WellFoundedInduction, TLAPS

\* Past the lock, with no row yet, and with the answer not yet on record.
Working == {"parse", "dedup", "save", "insert"}
Owning == Working \cup {"record"}

Owner(r, k) == req[r].key = k /\ req[r].pc \in Owning

OneOwner ==
    \A k \in Keys, q, r \in Requests : Owner(q, k) /\ Owner(r, k) => q = r

OwnersUnanswered ==
    \A k \in Keys, r \in Requests : Owner(r, k) =>
        /\ k \in reserved /\ response[k] = Nil /\ replies[k] = {}
        /\ req[r].pc \in Working => created[k] = {}

\* What is replied is what is on record.
RepliesOnRecord ==
    /\ \A k \in Keys : replies[k] \subseteq {response[k]}
    /\ \A r \in Requests : req[r].pc = "reply" /\ req[r].key \in Keys =>
         req[r].answer = response[req[r].key]

UnreservedUnused ==
    /\ \A k \in Keys \ reserved : created[k] = {} /\ replies[k] = {}
    /\ \A r \in Requests : req[r].key \in reserved \cup {Nil}

CreatedOnce == \A k \in Keys : \A i, j \in created[k] : i = j

AnswerReady ==
    \A r \in Requests :
        /\ req[r].pc \in {"record", "reply"} => req[r].answer \in Answers
        /\ req[r].pc \in {"replay", "record"} => req[r].key \in Keys
        /\ req[r].pc # "idle" => req[r].text \in Texts

Inv ==
    /\ IntakeTypeOK
    /\ OneOwner /\ OwnersUnanswered /\ RepliesOnRecord
    /\ UnreservedUnused /\ CreatedOnce /\ AnswerReady

-----------------------------------------------------------------------------
\* The oldest of some rows is one of them.
LEMMA MinOfIds ==
    ASSUME NEW S \in SUBSET Ids, S # {}
    PROVE  Min(S) \in S
<1>1. S \subseteq Nat
  BY IntakeAssumption DEF Ids
<1>2. PICK R : R = OpToRel(<, Nat)
  OBVIOUS
<1>3. IsWellFoundedOn(R, Nat)
  BY <1>2, NatLessThanWellFounded, Zenon
<1>4. R = {ss \in Nat \X Nat : ss[1] < ss[2]}
  BY <1>2, Zenon DEF OpToRel
<1>5. \E x \in S : \A y \in S : ~(<<y, x>> \in R)
  BY <1>1, <1>3, WFMin
<1>6. \A x, y \in Nat : <<y, x>> \notin R => x =< y
  <2>1. \A x, y \in Nat : y < x => <<y, x>> \in R
    BY <1>4
  <2>. QED  BY <2>1
<1>7. \E x \in S : \A y \in S : x =< y
  BY <1>1, <1>5, <1>6
<1>. QED  BY <1>7 DEF Min

LEMMA AtMostOne ==
    ASSUME NEW S, \A x, y \in S : x = y
    PROVE  Cardinality(S) <= 1
<1>1. CASE S = {}
  BY <1>1, FS_EmptySet
<1>2. CASE S # {}
  <2>1. PICK x \in S : TRUE
    BY <1>2
  <2>2. S = {x}
    BY <2>1
  <2>. QED  BY <2>2, FS_Singleton
<1>. QED  BY <1>1, <1>2

LEMMA InitInv == IntakeInit => Inv
BY IntakeAssumption
   DEF IntakeInit, Inv, IntakeTypeOK, Ids, Unused, Active, OneOwner, OwnersUnanswered,
       RepliesOnRecord,
       UnreservedUnused, CreatedOnce, AnswerReady, Owner, Owning, Working

-----------------------------------------------------------------------------
ReqStates ==
    [pc : Active \cup {"idle"}, key : Keys \cup {Nil}, text : Texts \cup {Nil},
     answer : Answers \cup {Nil}]

\* What AnswerReady says of one request.
Ready(s) ==
    /\ s \in ReqStates
    /\ s.pc \in {"record", "reply"} => s.answer \in Answers
    /\ s.pc \in {"replay", "record"} => s.key \in Keys
    /\ s.pc # "idle" => s.text \in Texts

LEMMA ReqReady == ASSUME Inv, NEW r \in Requests PROVE Ready(req[r])
BY DEF Inv, IntakeTypeOK, AnswerReady, Ready, ReqStates

LEMMA IdleReady == Ready(Unused)
BY DEF Ready, Unused, ReqStates

\* A request moves on to state s.
LEMMA ReqStep ==
    ASSUME Inv, NEW r \in Requests, NEW s, Ready(s), req' = [req EXCEPT ![r] = s]
    PROVE  /\ req' \in [Requests -> ReqStates] /\ AnswerReady'
           /\ req'[r] = s /\ \A q \in Requests \ {r} : req'[q] = req[q]
<1>1. /\ req' \in [Requests -> ReqStates]
      /\ req'[r] = s /\ \A q \in Requests \ {r} : req'[q] = req[q]
  BY DEF Inv, IntakeTypeOK, Ready, ReqStates
<1>2. \A q \in Requests : Ready(req'[q])
  BY <1>1, ReqReady
<1>. QED  BY <1>1, <1>2 DEF AnswerReady, Ready

\* A step that stores nothing, and takes no lock.
LEMMA QuietStep ==
    ASSUME Inv, NEW r \in Requests, NEW s, Ready(s), req' = [req EXCEPT ![r] = s],
           UNCHANGED <<db, intakeHistory>>,
           s.key \in {req[r].key, Nil},
           s.pc \in Owning => s.key = req[r].key /\ req[r].pc \in Owning,
           s.pc \in Working => req[r].pc \in Working,
           s.pc = "reply" /\ s.key \in Keys => s.answer = response[s.key]
    PROVE  Inv'
<1>1. \A q \in Requests \ {r} : req'[q] = req[q]
  BY ReqStep
<1>2. req'[r] = s
  BY ReqStep
<1>3. IntakeTypeOK'
  BY ReqStep DEF Inv, IntakeTypeOK, db, intakeHistory, ReqStates
<1>4. \A k \in Keys, q \in Requests : Owner(q, k)' => Owner(q, k)
  BY <1>1, <1>2 DEF Owner
<1>5. OneOwner'
  BY <1>4 DEF Inv, OneOwner
<1>6. OwnersUnanswered'
  <2>1. ASSUME NEW k \in Keys, NEW q \in Requests, Owner(q, k)'
        PROVE  /\ k \in reserved /\ response[k] = Nil /\ replies[k] = {}
               /\ req'[q].pc \in Working => created[k] = {}
    BY <1>1, <1>2, <1>4, <2>1 DEF Inv, OwnersUnanswered
  <2>. QED  BY <2>1 DEF OwnersUnanswered, db, intakeHistory
<1>7. RepliesOnRecord'
  BY <1>1, <1>2 DEF Inv, RepliesOnRecord, db, intakeHistory
<1>8. UnreservedUnused' /\ CreatedOnce'
  BY <1>1, <1>2 DEF Inv, UnreservedUnused, CreatedOnce, db, intakeHistory
<1>. QED  BY <1>3, <1>5, <1>6, <1>7, <1>8, ReqStep DEF Inv

\* The lock: a key that nobody has reserved has seen nothing yet.
LEMMA ArriveStep ==
    ASSUME Inv, NEW r \in Requests, NEW k \in Keys \cup {Nil}, NEW t \in Texts, Arrive(r, k, t)
    PROVE  Inv'
<1>1. PICK s : s = [pc |-> IF k = Nil \/ Owns(k) THEN "parse" ELSE "replay",
                    key |-> k, text |-> t, answer |-> Nil]
  OBVIOUS
<1>2. /\ req' = [req EXCEPT ![r] = s] /\ reserved' = reserved \cup ({k} \ {Nil})
      /\ UNCHANGED <<posting, nextId, response, created, replies>>
  BY <1>1 DEF Arrive, intakeHistory
<1>3. Ready(s) /\ s.key = k /\ s.pc \in {"parse", "replay"}
      /\ (s.pc = "parse" <=> k = Nil \/ k \notin reserved)
  BY <1>1 DEF Ready, ReqStates, Active, Owns
<1>4. req'[r] = s /\ \A q \in Requests \ {r} : req'[q] = req[q]
  BY <1>2, <1>3, ReqStep
<1>5. IntakeTypeOK'
  <2>1. reserved' \subseteq Keys /\ reserved \subseteq reserved'
    BY <1>2, IntakeAssumption DEF Inv, IntakeTypeOK
  <2>. QED  BY <1>2, <1>3, <2>1, ReqStep DEF Inv, IntakeTypeOK, ReqStates
<1>6. \A i \in Keys, q \in Requests \ {r} : Owner(q, i)' => Owner(q, i) /\ i \in reserved
  BY <1>4 DEF Owner, Inv, OwnersUnanswered
<1>7. \A i \in Keys : Owner(r, i)' => i = k /\ k \notin reserved
  BY <1>3, <1>4, IntakeAssumption DEF Owner, Owning, Working
<1>8. OneOwner'
  BY <1>6, <1>7 DEF Inv, OneOwner
<1>9. OwnersUnanswered'
  <2>1. ASSUME k \in Keys, k \notin reserved
        PROVE  response[k] = Nil /\ replies[k] = {} /\ created[k] = {}
    BY <2>1 DEF Inv, IntakeTypeOK, UnreservedUnused
  <2>2. ASSUME NEW i \in Keys, NEW q \in Requests \ {r}, Owner(q, i)'
        PROVE  /\ i \in reserved /\ response[i] = Nil /\ replies[i] = {}
               /\ req'[q].pc \in Working => created[i] = {}
    BY <1>4, <1>6, <2>2 DEF Inv, OwnersUnanswered
  <2>. QED  BY <1>2, <1>7, <2>1, <2>2, IntakeAssumption DEF OwnersUnanswered
<1>10. RepliesOnRecord'
  BY <1>2, <1>3, <1>4 DEF Inv, RepliesOnRecord
<1>11. UnreservedUnused' /\ CreatedOnce'
  BY <1>2, <1>3, <1>4 DEF Inv, UnreservedUnused, CreatedOnce
<1>. QED  BY <1>2, <1>3, <1>5, <1>8, <1>9, <1>10, <1>11, ReqStep DEF Inv

LEMMA SmallSteps ==
    ASSUME Inv, NEW r \in Requests,
           \/ Replay(r) \/ ParseOk(r) \/ ParseRefused(r) \/ DedupFound(r) \/ DedupNotFound(r)
           \/ SaveDocument(r) \/ StoreFail(r) \/ Crash(r)
    PROVE  Inv'
<1>1. /\ Ready(req[r]) /\ UNCHANGED <<db, intakeHistory>>
      /\ req[r].pc \in Owning /\ req[r].key \in Keys => Owner(r, req[r].key)
  BY ReqReady DEF Replay, ParseOk, ParseRefused, DedupFound, DedupNotFound, SaveDocument,
                  StoreFail, Crash, Owner
<1>2. ASSUME Finish(r) PROVE Inv'
  BY <1>1, <1>2, IdleReady, QuietStep DEF Finish, Unused, Owning, Working
<1>3. ASSUME NEW next \in Working, Goto(r, next), req[r].pc \in Working PROVE Inv'
  <2>1. PICK s : s = [req[r] EXCEPT !.pc = next]
    OBVIOUS
  <2>2. Ready(s) /\ s.key = req[r].key /\ s.pc = next
    BY <1>1, <1>3, <2>1 DEF Ready, ReqStates, Active, Working
  <2>3. req' = [req EXCEPT ![r] = s]
    BY <1>3, <2>1 DEF Goto
  <2>. QED  BY <1>1, <1>3, <2>2, <2>3, QuietStep DEF Owning, Working
<1>4. CASE Replay(r)
  <2>1. PICK a : a = response[req[r].key]
    OBVIOUS
  <2>2. CASE a = Nil
    BY <1>2, <1>4, <2>1, <2>2 DEF Replay, Finish
  <2>3. CASE a # Nil
    <3>1. PICK s : s = [req[r] EXCEPT !.pc = "reply", !.answer = a]
      OBVIOUS
    <3>2. req' = [req EXCEPT ![r] = s]
      BY <1>4, <2>1, <2>3, <3>1 DEF Replay
    <3>3. a \in Answers
      BY <1>1, <1>4, <2>1, <2>3 DEF Inv, IntakeTypeOK, Ready, Replay
    <3>4. Ready(s) /\ s.key = req[r].key /\ s.pc = "reply" /\ s.answer = a
      BY <1>1, <1>4, <3>1, <3>3 DEF Ready, ReqStates, Active, Replay
    <3>. QED  BY <1>1, <2>1, <3>2, <3>4, QuietStep DEF Owning, Working
  <2>. QED  BY <2>2, <2>3
<1>5. CASE DedupFound(r)
  <2>1. PICK same : same = {i \in Ids : posting[i] = req[r].text}
    OBVIOUS
  <2>2. PICK a : a = [id |-> Min(same), duplicate |-> TRUE]
    OBVIOUS
  <2>3. PICK s : s = Answered(r, a)
    OBVIOUS
  <2>4. same # {} /\ req[r].pc = "dedup" /\ req' = [req EXCEPT ![r] = s]
    BY <1>5, <2>1, <2>2, <2>3 DEF DedupFound
  <2>5. a \in Answers
    BY <2>1, <2>2, <2>4, MinOfIds DEF Answers
  <2>6. /\ Ready(s) /\ s.key = req[r].key /\ s.pc \in {"reply", "record"}
        /\ s.pc = "reply" => s.key = Nil
    BY <1>1, <2>3, <2>4, <2>5 DEF Answered, Ready, ReqStates, Active
  <2>. QED
    BY <1>1, <2>4, <2>6, IntakeAssumption, QuietStep DEF Owning, Working
<1>. QED
  BY <1>2, <1>3, <1>4, <1>5
     DEF ParseOk, ParseRefused, DedupNotFound, SaveDocument, StoreFail, Crash, Working

\* The one row of a key.
LEMMA InsertStep == ASSUME Inv, NEW r \in Requests, Insert(r) PROVE Inv'
<1>1. PICK a : a = [id |-> nextId, duplicate |-> FALSE]
  OBVIOUS
<1>2. PICK s : s = Answered(r, a)
  OBVIOUS
<1>3. /\ req[r].pc = "insert" /\ nextId \in Ids /\ nextId' = nextId + 1
      /\ req' = [req EXCEPT ![r] = s]
      /\ posting' = [posting EXCEPT ![nextId] = req[r].text]
      /\ created' = [k \in Keys |-> IF k = req[r].key THEN created[k] \cup {nextId}
                                    ELSE created[k]]
      /\ UNCHANGED <<reserved, response, replies>>
  BY <1>1, <1>2 DEF Insert
<1>4. Ready(req[r]) /\ a \in Answers
  BY <1>1, <1>3, ReqReady DEF Answers
<1>5. /\ Ready(s) /\ s.key = req[r].key /\ s.pc \in {"reply", "record"}
      /\ s.pc = "reply" => s.key = Nil
  BY <1>2, <1>3, <1>4 DEF Answered, Ready, ReqStates, Active
<1>6. req'[r] = s /\ \A q \in Requests \ {r} : req'[q] = req[q]
  BY <1>3, <1>5, ReqStep
<1>7. IntakeTypeOK'
  <2>1. nextId' \in 1..MaxRows + 1
    BY <1>3, IntakeAssumption DEF Ids
  <2>2. req[r].text \in Texts
    BY <1>3, <1>4 DEF Ready
  <2>. QED  BY <1>3, <1>5, <2>1, <2>2, ReqStep DEF Inv, IntakeTypeOK, ReqStates
<1>8. \A k \in Keys, q \in Requests : Owner(q, k)' => Owner(q, k)
  BY <1>3, <1>5, <1>6 DEF Owner, Owning, Working
<1>9. OneOwner'
  BY <1>8 DEF Inv, OneOwner
<1>10. req[r].key \in Keys => created[req[r].key] = {} /\ Owner(r, req[r].key)
  BY <1>3 DEF Inv, OwnersUnanswered, Owner, Owning, Working
<1>11. OwnersUnanswered'
  <2>1. ASSUME NEW k \in Keys, NEW q \in Requests, Owner(q, k)'
        PROVE  /\ k \in reserved /\ response[k] = Nil /\ replies[k] = {}
               /\ req'[q].pc \in Working => created'[k] = {}
    <3>1. CASE q = r
      BY <1>5, <1>6, <1>8, <2>1, <3>1 DEF Inv, OwnersUnanswered, Working
    <3>2. CASE q # r
      <4>1. k # req[r].key
        BY <1>8, <1>10, <2>1, <3>2 DEF Inv, OneOwner
      <4>. QED  BY <1>3, <1>6, <1>8, <2>1, <3>2, <4>1 DEF Inv, OwnersUnanswered
    <3>. QED  BY <3>1, <3>2
  <2>. QED  BY <1>3, <2>1 DEF OwnersUnanswered
<1>12. RepliesOnRecord'
  BY <1>3, <1>5, <1>6, IntakeAssumption DEF Inv, RepliesOnRecord
<1>13. UnreservedUnused'
  BY <1>3, <1>5, <1>6, IntakeAssumption DEF Inv, UnreservedUnused
<1>14. CreatedOnce'
  BY <1>3, <1>10 DEF Inv, CreatedOnce
<1>. QED  BY <1>3, <1>5, <1>7, <1>9, <1>11, <1>12, <1>13, <1>14, ReqStep DEF Inv

\* The one answer of a key.
LEMMA RecordStep == ASSUME Inv, NEW r \in Requests, Record(r) PROVE Inv'
<1>1. PICK s : s = [req[r] EXCEPT !.pc = "reply"]
  OBVIOUS
<1>2. PICK k : k = req[r].key
  OBVIOUS
<1>3. /\ req[r].pc = "record" /\ req' = [req EXCEPT ![r] = s]
      /\ response' = [response EXCEPT ![k] = req[r].answer]
      /\ UNCHANGED <<posting, nextId, reserved, created, replies>>
  BY <1>1, <1>2 DEF Record, Goto, intakeHistory
<1>4. Ready(req[r]) /\ k \in Keys /\ req[r].answer \in Answers
  BY <1>2, <1>3, ReqReady DEF Ready
<1>5. Ready(s) /\ s.key = k /\ s.pc = "reply" /\ s.answer = req[r].answer
  BY <1>1, <1>2, <1>3, <1>4 DEF Ready, ReqStates, Active
<1>6. req'[r] = s /\ \A q \in Requests \ {r} : req'[q] = req[q]
  BY <1>3, <1>5, ReqStep
<1>7. /\ Owner(r, k) /\ k \in reserved /\ response[k] = Nil /\ replies[k] = {}
      /\ response'[k] = s.answer
  BY <1>2, <1>3, <1>4, <1>5 DEF Inv, OwnersUnanswered, Owner, Owning, Working, IntakeTypeOK
<1>8. IntakeTypeOK'
  BY <1>3, <1>4, <1>5, <1>7, ReqStep DEF Inv, IntakeTypeOK, ReqStates
<1>9. \A i \in Keys, q \in Requests : Owner(q, i)' => Owner(q, i) /\ q # r /\ i # k
  BY <1>2, <1>5, <1>6, <1>7 DEF Owner, Owning, Working, Inv, OneOwner
<1>10. OneOwner' /\ OwnersUnanswered'
  BY <1>3, <1>6, <1>9 DEF Inv, OneOwner, OwnersUnanswered, IntakeTypeOK
<1>11. RepliesOnRecord'
  <2>1. \A i \in Keys : replies'[i] \subseteq {response'[i]}
    BY <1>3, <1>4, <1>7 DEF Inv, RepliesOnRecord, IntakeTypeOK
  <2>2. ASSUME NEW q \in Requests, req'[q].pc = "reply", req'[q].key \in Keys
        PROVE  req'[q].answer = response'[req'[q].key]
    <3>1. CASE q = r
      BY <1>5, <1>6, <1>7, <3>1
    <3>2. CASE q # r /\ req[q].key # k
      BY <1>3, <1>6, <2>2, <3>2 DEF Inv, RepliesOnRecord, IntakeTypeOK
    <3>3. CASE q # r /\ req[q].key = k
      \* It would have replied Nil before.
      <4>1. req[q].answer = response[k] /\ req[q].answer \in Answers
        BY <1>4, <1>6, <2>2, <3>3 DEF Inv, RepliesOnRecord, AnswerReady
      <4>. QED  BY <1>7, <4>1, IntakeAssumption
    <3>. QED  BY <3>1, <3>2, <3>3
  <2>. QED  BY <2>1, <2>2 DEF RepliesOnRecord
<1>12. UnreservedUnused' /\ CreatedOnce'
  BY <1>2, <1>3, <1>5, <1>6 DEF Inv, UnreservedUnused, CreatedOnce
<1>. QED  BY <1>3, <1>5, <1>8, <1>10, <1>11, <1>12, ReqStep DEF Inv

LEMMA ReplyStep == ASSUME Inv, NEW r \in Requests, SendReply(r) PROVE Inv'
<1>1. /\ req[r].pc = "reply" /\ req' = [req EXCEPT ![r] = Unused]
      /\ replies' = [k \in Keys |-> IF k = req[r].key THEN replies[k] \cup {req[r].answer}
                                    ELSE replies[k]]
      /\ UNCHANGED <<posting, nextId, reserved, response, created>>
  BY DEF SendReply, Finish, db
<1>2. /\ Ready(req[r])
      /\ req'[r] = Unused /\ \A q \in Requests \ {r} : req'[q] = req[q]
  BY <1>1, IdleReady, ReqReady, ReqStep
<1>3. req[r].key \in Keys =>
        /\ req[r].key \in reserved /\ req[r].answer = response[req[r].key]
        /\ req[r].answer \in Answers
  BY <1>1, IntakeAssumption DEF Inv, RepliesOnRecord, UnreservedUnused, AnswerReady
<1>4. IntakeTypeOK'
  <2>1. replies' \in [Keys -> SUBSET Answers]
    BY <1>1, <1>3 DEF Inv, IntakeTypeOK
  <2>. QED  BY <1>1, <2>1, IdleReady, ReqStep DEF Inv, IntakeTypeOK, ReqStates
<1>5. \A k \in Keys, q \in Requests : Owner(q, k)' => Owner(q, k) /\ q # r
  BY <1>2 DEF Owner, Unused, Owning, Working
<1>6. OneOwner'
  BY <1>5 DEF Inv, OneOwner
<1>7. OwnersUnanswered'
  <2>1. ASSUME NEW k \in Keys, NEW q \in Requests, Owner(q, k)'
        PROVE  k # req[r].key
    \* An owner's key has no response, and what is replied is one.
    <3>1. response[k] = Nil
      BY <1>5, <2>1 DEF Inv, OwnersUnanswered
    <3>. QED  BY <1>3, <3>1, IntakeAssumption
  <2>. QED  BY <1>1, <1>2, <1>5, <2>1 DEF Inv, OwnersUnanswered
<1>8. RepliesOnRecord'
  BY <1>1, <1>2, <1>3 DEF Inv, RepliesOnRecord, Unused
<1>9. UnreservedUnused' /\ CreatedOnce'
  BY <1>1, <1>2, <1>3 DEF Inv, UnreservedUnused, CreatedOnce, Unused
<1>. QED  BY <1>1, <1>4, <1>6, <1>7, <1>8, <1>9, IdleReady, ReqStep DEF Inv

LEMMA NextInv == Inv /\ [IntakeNext]_intakeVars => Inv'
<1> SUFFICES ASSUME Inv, [IntakeNext]_intakeVars PROVE Inv'
  OBVIOUS
<1>1. CASE UNCHANGED intakeVars
  BY <1>1 DEF intakeVars, db, intakeHistory, Inv, IntakeTypeOK, OneOwner, OwnersUnanswered,
              RepliesOnRecord,
              UnreservedUnused, CreatedOnce, AnswerReady, Owner
<1>2. ASSUME NEW i \in Ids, Delete(i) PROVE Inv'
  BY <1>2 DEF Delete, intakeHistory, Inv, IntakeTypeOK, OneOwner, OwnersUnanswered, RepliesOnRecord,
              UnreservedUnused, CreatedOnce, AnswerReady, Owner
<1>3. ASSUME NEW r \in Requests, Step(r) PROVE Inv'
  BY <1>3, ArriveStep, SmallSteps, InsertStep, RecordStep, ReplyStep DEF Step
<1>. QED  BY <1>1, <1>2, <1>3 DEF IntakeNext

-----------------------------------------------------------------------------
\* The invariant behind the theorems below.
THEOREM Invariance == IntakeSpec => []Inv
BY InitInv, NextInv, PTL DEF IntakeSpec

\* The tables, the requests and the histories keep their types.
THEOREM TypeCorrect == IntakeSpec => []IntakeTypeOK
<1>1. Inv => IntakeTypeOK
  BY DEF Inv
<1>. QED  BY <1>1, Invariance, PTL

\* However often and however closely a key is retried, its requests insert at
\* most one posting.
THEOREM RetriesCreateOnce == IntakeSpec => []KeyCreatesOnce
<1>1. Inv => KeyCreatesOnce
  BY AtMostOne DEF Inv, CreatedOnce, KeyCreatesOnce
<1>. QED  BY <1>1, Invariance, PTL

\* Every client that gets a 201 for a key gets the same one.
THEOREM RetriesAgree == IntakeSpec => []RepliesAgree
<1>1. Inv => RepliesAgree
  <2>1. Inv => \A k \in Keys : \A x, y \in replies[k] : x = y
    BY DEF Inv, RepliesOnRecord
  <2>. QED  BY <2>1, AtMostOne DEF RepliesAgree
<1>. QED  BY <1>1, Invariance, PTL

\* A response on record is never replaced.
THEOREM ResponseIsFinal == IntakeSpec => AnswersStay
<1>1. ASSUME Inv, [IntakeNext]_intakeVars
      PROVE  [\A k \in Keys : response[k] # Nil => response'[k] = response[k]]_intakeVars
  <2>1. SUFFICES ASSUME IntakeNext, NEW k \in Keys, response[k] # Nil
                 PROVE  response'[k] = response[k]
    BY <1>1
  <2>2. CASE response' = response
    BY <2>2
  <2>3. ASSUME NEW r \in Requests, Record(r) PROVE response'[k] = response[k]
    <3>1. Owner(r, req[r].key) /\ req[r].key \in Keys
      BY <1>1, <2>3, ReqReady DEF Record, Ready, Owner, Owning
    <3>2. req[r].key # k
      BY <1>1, <2>1, <3>1 DEF Inv, OwnersUnanswered
    <3>. QED  BY <1>1, <2>3, <3>2 DEF Record, Inv, IntakeTypeOK
  <2>. QED
    BY <2>1, <2>2, <2>3
       DEF IntakeNext, Step, Arrive, Replay, ParseOk, ParseRefused, DedupFound, DedupNotFound,
           SaveDocument, Insert, StoreFail, SendReply, Crash, Delete, db
<1>. QED  BY <1>1, Invariance, PTL DEF IntakeSpec, AnswersStay
=============================================================================
