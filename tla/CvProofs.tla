------------------------------ MODULE CvProofs ------------------------------
(***************************************************************************)
(* Proofs about the CV: the renders that requests for a PDF share          *)
(* (PdfService), for any documents, variants, workers and cache size, and  *)
(* the revisions tailored to a posting (Revisions), for any number of      *)
(* requests.                                                               *)
(***************************************************************************)
EXTENDS PdfService, Revisions, TLAPS

Entry == [key : Keys, pdf : Pdfs]

KeyOfPdf(pdf) == KeyOf(pdf.doc, pdf.variant)

\* Queued, running or stored, and not yet over.
Live(f) == future[f].state \in {"queued", "running", "stored"}

\* An entry is a PDF of what its key says.
CacheFits == \A i \in DOMAIN cache : cache[i].key = KeyOfPdf(cache[i].pdf)

FuturesType == \A f \in Futures : future[f].state # "free" => future[f].pdf \in Pdfs

\* The table leads to a render of the key, and misses none that is still live.
TableInv ==
    /\ \A k \in Keys : inflight[k] # None =>
          future[inflight[k]].state # "free" /\ FutureKey(inflight[k]) = k
    /\ \A f \in Futures : Live(f) => inflight[FutureKey(f)] = f

\* A request knows what it asks for, and waits for a live render of it.
RequestsInv ==
    \A r \in Requests :
        /\ req[r].pc # "idle" => req[r].variant \in Variants /\ req[r].doc \in Payloads
        /\ req[r].fut # None => req[r].pc = "wait"
        /\ req[r].pc = "wait" =>
              req[r].fut # None /\ Live(req[r].fut) /\ FutureKey(req[r].fut) = ReqKey(r)

PdfInv ==
    /\ TypeOK /\ CacheFits /\ FuturesType /\ TableInv /\ RequestsInv
    /\ AnswersFit

-----------------------------------------------------------------------------
LEMMA KeysFit ==
    ASSUME NEW d \in Payloads, NEW v \in Variants
    PROVE  /\ KeyOf(d, v) \in Keys
           /\ \A e \in Payloads, w \in Variants :
                KeyOf(d, v) = KeyOf(e, w) => d = e /\ Tag[v] = Tag[w]
BY DEF KeyOf, Keys

LEMMA PdfKey == ASSUME NEW pdf \in Pdfs PROVE KeyOfPdf(pdf) \in Keys
BY KeysFit DEF KeyOfPdf, Pdfs

\* The cache that a hit or a new PDF leaves: every entry was there or is the
\* new one.
LEMMA WithoutKeeps ==
    ASSUME cache \in Seq(Entry), NEW k
    PROVE  /\ Without(k) \in Seq(Entry)
           /\ Len(Without(k)) = IF Cached(k) THEN Len(cache) - 1 ELSE Len(cache)
           /\ \A i \in DOMAIN Without(k) : \E j \in DOMAIN cache : Without(k)[i] = cache[j]
           /\ Cached(k) => EntryOf(k).key = k /\ \E j \in DOMAIN cache : EntryOf(k) = cache[j]
<1>1. CASE Cached(k)
  <2>. DEFINE p == PlaceOf(k)
  <2>1. p \in 1..Len(cache) /\ cache[p].key = k
    BY <1>1 DEF Cached, PlaceOf
  <2>. DEFINE a == SubSeq(cache, 1, p - 1)
              b == SubSeq(cache, p + 1, Len(cache))
  <2>2. Without(k) = a \o b
    BY <1>1 DEF Without, RemoveAt
  <2>. HIDE DEF p
  <2>3. a \in Seq(Entry) /\ Len(a) = p - 1 /\ \A i \in 1..p - 1 : a[i] = cache[i]
    BY <2>1
  <2>4. /\ b \in Seq(Entry) /\ Len(b) = Len(cache) - p
        /\ \A i \in 1..Len(cache) - p : b[i] = cache[p + i]
    BY <2>1
  <2>. HIDE DEF a, b
  <2>5. Without(k) \in Seq(Entry) /\ Len(Without(k)) = Len(cache) - 1
    BY <2>1, <2>2, <2>3, <2>4
  <2>6. ASSUME NEW i \in DOMAIN Without(k)
        PROVE  \E j \in DOMAIN cache : Without(k)[i] = cache[j]
    <3>1. i \in 1..Len(cache) - 1
      BY <2>5
    <3>2. CASE i <= p - 1
      <4>1. Without(k)[i] = cache[i]
        BY <2>1, <2>2, <2>3, <2>4, <3>1, <3>2
      <4>. QED  BY <4>1, <3>1
    <3>3. CASE i > p - 1
      <4>3. i - (p - 1) \in 1..Len(cache) - p /\ Len(a) = p - 1 /\ i \in 1..Len(a) + Len(b)
        BY <2>1, <2>3, <2>4, <3>1, <3>3
      <4>4. Without(k)[i] = b[i - Len(a)]
        BY <2>2, <2>3, <2>4, <3>3, <4>3
      <4>1. Without(k)[i] = cache[p + (i - (p - 1))]
        BY <2>4, <4>3, <4>4
      <4>2. p + (i - (p - 1)) = i + 1 /\ i + 1 \in DOMAIN cache
        BY <2>1, <3>1
      <4>. QED  BY <4>1, <4>2
    <3>. QED  BY <2>1, <3>1, <3>2, <3>3
  <2>7. EntryOf(k).key = k /\ \E j \in DOMAIN cache : EntryOf(k) = cache[j]
    BY <2>1 DEF EntryOf, p
  <2>. QED  BY <1>1, <2>5, <2>6, <2>7
<1>2. CASE ~Cached(k)
  BY <1>2 DEF Without
<1>. QED  BY <1>1, <1>2

LEMMA AppendFits ==
    ASSUME cache \in Seq(Entry), CacheFits, NEW k \in Keys, NEW e \in Entry,
           e.key = KeyOfPdf(e.pdf)
    PROVE  LET grown == Append(Without(k), e)
           IN  /\ grown \in Seq(Entry) /\ Len(grown) = Len(Without(k)) + 1
               /\ \A i \in DOMAIN grown : grown[i].key = KeyOfPdf(grown[i].pdf)
<1>. DEFINE grown == Append(Without(k), e)
<1>1. Without(k) \in Seq(Entry)
  BY WithoutKeeps
<1>2. \A i \in DOMAIN Without(k) : Without(k)[i].key = KeyOfPdf(Without(k)[i].pdf)
  BY WithoutKeeps DEF CacheFits
<1>3. grown \in Seq(Entry) /\ Len(grown) = Len(Without(k)) + 1
  BY <1>1
<1>4. ASSUME NEW i \in DOMAIN grown PROVE grown[i].key = KeyOfPdf(grown[i].pdf)
  BY <1>1, <1>2
<1>. QED  BY <1>3, <1>4

LEMMA TouchKeeps ==
    ASSUME PdfInv, NEW k \in Keys, Cached(k), Touch(k)
    PROVE  cache' \in Seq(Entry) /\ Len(cache') <= MaxEntries /\ CacheFits'
<1>1. cache \in Seq(Entry) /\ Len(cache) <= MaxEntries /\ CacheFits
  BY DEF PdfInv, TypeOK, Entry
<1>2. EntryOf(k) \in Entry /\ EntryOf(k).key = KeyOfPdf(EntryOf(k).pdf)
  BY <1>1, WithoutKeeps DEF CacheFits
<1>3. cache' = Append(Without(k), EntryOf(k))
  BY DEF Touch
<1>4. Len(Without(k)) = Len(cache) - 1
  BY <1>1, WithoutKeeps
<1>. QED  BY <1>1, <1>2, <1>3, <1>4, AppendFits DEF CacheFits

LEMMA PutKeeps ==
    ASSUME PdfInv, NEW pdf \in Pdfs, cache' = PutResult(KeyOfPdf(pdf), pdf)
    PROVE  cache' \in Seq(Entry) /\ Len(cache') <= MaxEntries /\ CacheFits'
<1>. DEFINE k == KeyOfPdf(pdf)
            e == [key |-> k, pdf |-> pdf]
            grown == Append(Without(k), e)
<1>1. cache \in Seq(Entry) /\ Len(cache) <= MaxEntries /\ CacheFits
  BY DEF PdfInv, TypeOK, Entry
<1>2. k \in Keys /\ e \in Entry /\ e.key = KeyOfPdf(e.pdf)
  BY PdfKey DEF Entry
<1>3. /\ grown \in Seq(Entry) /\ Len(grown) = Len(Without(k)) + 1
      /\ \A i \in DOMAIN grown : grown[i].key = KeyOfPdf(grown[i].pdf)
  BY <1>1, <1>2, AppendFits
<1>4. Len(Without(k)) \in Nat /\ Len(Without(k)) <= Len(cache)
  BY <1>1, WithoutKeeps
<1>5. cache' = IF Len(grown) > MaxEntries THEN Tail(grown) ELSE grown
  BY DEF PutResult
<1>. HIDE DEF grown, k, e
<1>6. CASE Len(grown) > MaxEntries
  <2>1. cache' = Tail(grown) /\ grown # <<>>
    BY <1>3, <1>4, <1>5, <1>6
  <2>2. cache' \in Seq(Entry) /\ Len(cache') = Len(grown) - 1
    BY <1>3, <2>1
  <2>3. \A i \in DOMAIN cache' : cache'[i] = grown[i + 1] /\ i + 1 \in DOMAIN grown
    BY <1>3, <2>1, <2>2
  <2>. QED  BY <1>1, <1>3, <1>4, <2>2, <2>3, PdfAssumption DEF CacheFits
<1>7. CASE ~(Len(grown) > MaxEntries)
  BY <1>3, <1>4, <1>5, <1>7, PdfAssumption DEF CacheFits
<1>. QED  BY <1>6, <1>7

-----------------------------------------------------------------------------
LEMMA PdfInitInv == Init => PdfInv
<1> SUFFICES ASSUME Init PROVE PdfInv
  OBVIOUS
<1> USE PdfAssumption, DocumentsAssumption DEF Init, IdleReq, FreeFuture
<1>1. TypeOK
  BY DEF TypeOK, DocumentsTypeOK, DocumentsInit, FutureStates, ReqStates
<1>2. CacheFits /\ FuturesType /\ TableInv /\ RequestsInv /\ AnswersFit
  BY DEF CacheFits, FuturesType, TableInv, Live, RequestsInv, AnswersFit
<1>. QED  BY <1>1, <1>2 DEF PdfInv

\* One request changes and takes nothing but what it waits for.
LEMMA RequestMoves ==
    ASSUME PdfInv, NEW r \in Requests, NEW new,
           new \in [pc : ReqStates, variant : Variants \cup {None},
                    doc : Payloads \cup {None}, fut : Futures \cup {None},
                    pdf : Pdfs \cup {None}],
           req' = [req EXCEPT ![r] = new], UNCHANGED <<documentVars, inflight, future>>,
           new.pc # "idle" => new.variant \in Variants /\ new.doc \in Payloads,
           new.fut # None => new.pc = "wait",
           new.pc = "wait" => /\ new.fut # None /\ Live(new.fut)
                              /\ FutureKey(new.fut) = KeyOf(new.doc, new.variant),
           new.pc = "answered" /\ new.pdf # None =>
              new.pdf.doc = new.doc /\ Tag[new.pdf.variant] = Tag[new.variant],
           cache' \in Seq(Entry) /\ Len(cache') <= MaxEntries /\ CacheFits'
    PROVE  PdfInv'
<1>1. /\ req'[r] = new
      /\ \A s \in Requests \ {r} : req'[s] = req[s]
  BY DEF PdfInv, TypeOK
<1>2. TypeOK'
  BY DEF PdfInv, TypeOK, Entry, DocumentsTypeOK, documentVars
<1>3. FuturesType' /\ TableInv'
  BY DEF PdfInv, FuturesType, TableInv, Live, FutureKey
<1>4. RequestsInv'
  BY <1>1 DEF PdfInv, RequestsInv, Live, FutureKey, ReqKey
<1>5. AnswersFit'
  BY <1>1 DEF PdfInv, AnswersFit
<1>. QED  BY <1>2, <1>3, <1>4, <1>5 DEF PdfInv

LEMMA ServeStep == ASSUME PdfInv, NEW r \in Requests, Serve(r) PROVE PdfInv'
<1>. DEFINE ReqType == [pc : ReqStates, variant : Variants \cup {None},
                        doc : Payloads \cup {None}, fut : Futures \cup {None},
                        pdf : Pdfs \cup {None}]
<1>1. /\ req[r] \in ReqType
      /\ cache \in Seq(Entry) /\ Len(cache) <= MaxEntries /\ CacheFits
  BY DEF PdfInv, TypeOK, Entry
<1>2. IdleReq \in ReqType /\ IdleReq.pc = "idle" /\ IdleReq.fut = None
  BY DEF IdleReq, ReqStates
<1>3. ASSUME NEW v \in Variants, Begin(r, v) PROVE PdfInv'
  <2>1. PICK p \in Read : req' = [req EXCEPT ![r] = [IdleReq EXCEPT
                                    !.pc = "lookup", !.variant = v, !.doc = p]]
    BY <1>3 DEF Begin
  <2>2. p \in Payloads
    BY DocumentsAssumption DEF Read, PdfInv, TypeOK, DocumentsTypeOK
  <2>. DEFINE new == [IdleReq EXCEPT !.pc = "lookup", !.variant = v, !.doc = p]
  <2>3. new \in ReqType /\ new.pc = "lookup" /\ new.variant = v /\ new.doc = p /\ new.fut = None
    BY <2>2 DEF IdleReq, ReqStates
  <2>4. UNCHANGED <<documentVars, cache, inflight, future>> /\ CacheFits'
    BY <1>1, <1>3 DEF Begin, CacheFits
  <2>. HIDE DEF new
  <2>. QED  BY <1>1, <2>1, <2>2, <2>3, <2>4, RequestMoves DEF new
<1>4. CASE Hit(r)
  <2>. DEFINE k == ReqKey(r)
              e == EntryOf(k)
              new == Answered(r, e.pdf)
  <2>1. /\ req[r].pc = "lookup" /\ Cached(k) /\ Touch(k) /\ req' = [req EXCEPT ![r] = new]
        /\ UNCHANGED <<documentVars, inflight, future>>
    BY <1>4 DEF Hit
  <2>2. req[r].variant \in Variants /\ req[r].doc \in Payloads
    BY <2>1 DEF PdfInv, RequestsInv
  <2>3. k \in Keys
    BY <2>2, KeysFit DEF ReqKey
  <2>4. e \in Entry /\ e.key = k /\ e.key = KeyOfPdf(e.pdf)
    BY <1>1, <2>1, WithoutKeeps DEF CacheFits
  <2>5. e.pdf \in Pdfs /\ e.pdf.doc \in Payloads /\ e.pdf.variant \in Variants
    BY <2>4 DEF Entry, Pdfs
  <2>6. e.pdf.doc = req[r].doc /\ Tag[e.pdf.variant] = Tag[req[r].variant]
    <3>. HIDE DEF e
    <3>1. KeyOf(e.pdf.doc, e.pdf.variant) = KeyOf(req[r].doc, req[r].variant)
      BY <2>4 DEF KeyOfPdf, ReqKey
    <3>. QED  BY <2>2, <2>5, <3>1, KeysFit
  <2>. HIDE DEF e
  <2>7. /\ new \in ReqType /\ new.pc = "answered" /\ new.fut = None /\ new.pdf = e.pdf
        /\ new.doc = req[r].doc /\ new.variant = req[r].variant
    BY <1>1, <2>5 DEF Answered, ReqStates
  <2>8. cache' \in Seq(Entry) /\ Len(cache') <= MaxEntries /\ CacheFits'
    BY <2>1, <2>3, TouchKeeps
  <2>. HIDE DEF new
  <2>. QED  BY <2>1, <2>2, <2>6, <2>7, <2>8, RequestMoves
<1>5. CASE Join(r)
  <2>. DEFINE k == ReqKey(r)
              f == inflight[k]
              new == IF future[f].state \in {"done", "failed"} THEN Answered(r, Result(f))
                     ELSE [req[r] EXCEPT !.pc = "wait", !.fut = f]
  <2>1. /\ req[r].pc = "lookup" /\ f # None /\ req' = [req EXCEPT ![r] = new]
        /\ UNCHANGED <<documentVars, cache, inflight, future>>
    BY <1>5 DEF Join, Joinable
  <2>2. req[r].variant \in Variants /\ req[r].doc \in Payloads /\ req[r].fut = None
    BY <2>1 DEF PdfInv, RequestsInv
  <2>3. k \in Keys
    BY <2>2, KeysFit DEF ReqKey
  <2>4. f \in Futures /\ future[f].state # "free" /\ FutureKey(f) = k
    BY <2>1, <2>3 DEF PdfInv, TypeOK, TableInv
  <2>5. future[f].pdf \in Pdfs /\ future[f].pdf.doc \in Payloads /\ future[f].pdf.variant \in Variants
    BY <2>4 DEF PdfInv, FuturesType, Pdfs
  <2>6. future[f].pdf.doc = req[r].doc /\ Tag[future[f].pdf.variant] = Tag[req[r].variant]
    BY <2>2, <2>4, <2>5, KeysFit DEF FutureKey, ReqKey
  <2>7. future[f].state \in FutureStates
    BY <2>4 DEF PdfInv, TypeOK
  <2>8. cache' \in Seq(Entry) /\ Len(cache') <= MaxEntries /\ CacheFits'
    BY <1>1, <2>1 DEF CacheFits
  <2>. HIDE DEF k, f
  <2>9. CASE future[f].state \in {"done", "failed"}
    <3>1. new = Answered(r, Result(f))
      BY <2>9
    <3>2. Result(f) \in Pdfs \cup {None} /\ (Result(f) # None => Result(f) = future[f].pdf)
      BY <2>5 DEF Result
    <3>3. /\ new \in ReqType /\ new.pc = "answered" /\ new.fut = None /\ new.pdf = Result(f)
          /\ new.doc = req[r].doc /\ new.variant = req[r].variant
      BY <1>1, <3>1, <3>2 DEF Answered, ReqStates
    <3>. HIDE DEF new
    <3>. QED  BY <2>1, <2>2, <2>6, <2>8, <3>2, <3>3, RequestMoves
  <2>10. CASE future[f].state \notin {"done", "failed"}
    <3>1. /\ new \in ReqType /\ new.pc = "wait" /\ new.fut = f
          /\ new.doc = req[r].doc /\ new.variant = req[r].variant
      BY <1>1, <2>4, <2>10 DEF ReqStates
    <3>2. Live(f)
      BY <2>4, <2>7, <2>10 DEF Live, FutureStates
    <3>3. FutureKey(f) = KeyOf(new.doc, new.variant)
      BY <2>4, <3>1 DEF ReqKey, k
    <3>. HIDE DEF new
    <3>. QED  BY <2>1, <2>2, <2>4, <2>8, <3>1, <3>2, <3>3, PdfAssumption, RequestMoves
  <2>. QED  BY <2>9, <2>10
<1>6. CASE Submit(r)
  <2>. DEFINE k == ReqKey(r)
              pdf == [doc |-> req[r].doc, variant |-> req[r].variant]
  <2>1. PICK f \in Futures :
          /\ future[f] = FreeFuture
          /\ future' = [future EXCEPT ![f] = [state |-> "queued", pdf |-> pdf]]
          /\ inflight' = [inflight EXCEPT ![k] = f]
          /\ req' = [req EXCEPT ![r] = [req[r] EXCEPT !.pc = "wait", !.fut = f]]
    BY <1>6 DEF Submit
  <2>2. req[r].pc = "lookup" /\ inflight[k] = None /\ UNCHANGED <<documentVars, cache>>
    BY <1>6 DEF Submit, Joinable
  <2>3. req[r].variant \in Variants /\ req[r].doc \in Payloads /\ req[r].fut = None
    BY <2>2 DEF PdfInv, RequestsInv
  <2>4. k \in Keys /\ pdf \in Pdfs /\ KeyOfPdf(pdf) = k
    BY <2>3, KeysFit DEF ReqKey, KeyOfPdf, Pdfs
  <2>5. future[f].state = "free" /\ f # None
    BY <2>1, PdfAssumption DEF FreeFuture
  <2>6. /\ future'[f].state = "queued" /\ future'[f].pdf = pdf
        /\ \A g \in Futures \ {f} : future'[g] = future[g]
        /\ inflight'[k] = f /\ \A m \in Keys \ {k} : inflight'[m] = inflight[m]
    BY <2>1, <2>4 DEF PdfInv, TypeOK
  <2>7. /\ req'[r].pc = "wait" /\ req'[r].fut = f /\ req'[r].doc = req[r].doc
        /\ req'[r].variant = req[r].variant
        /\ \A s \in Requests \ {r} : req'[s] = req[s]
    BY <1>1, <2>1 DEF PdfInv, TypeOK
  <2>. HIDE DEF k, pdf
  <2>8. \A m \in Keys : inflight[m] # f
    BY <2>5 DEF PdfInv, TableInv
  <2>9. TypeOK'
    <3>1. future' \in [Futures -> [state : FutureStates, pdf : Pdfs \cup {None}]]
      BY <2>1, <2>4 DEF PdfInv, TypeOK, FutureStates
    <3>2. inflight' \in [Keys -> Futures \cup {None}]
      BY <2>1 DEF PdfInv, TypeOK
    <3>3. req' \in [Requests -> ReqType]
      BY <1>1, <2>1 DEF PdfInv, TypeOK, ReqStates
    <3>4. \A m \in Keys : inflight'[m] # None => future'[inflight'[m]].state # "free"
      BY <2>6, <2>8 DEF PdfInv, TypeOK
    <3>. QED  BY <2>2, <3>1, <3>2, <3>3, <3>4
              DEF PdfInv, TypeOK, Entry, DocumentsTypeOK, documentVars
  <2>10. CacheFits' /\ FuturesType'
    BY <2>2, <2>4, <2>6 DEF PdfInv, CacheFits, FuturesType
  <2>11. \A g \in Futures : FutureKey(g)' = IF g = f THEN k ELSE FutureKey(g)
    BY <2>4, <2>6 DEF FutureKey, KeyOfPdf
  <2>12. TableInv'
    <3>1. ASSUME NEW m \in Keys, inflight'[m] # None
          PROVE  future'[inflight'[m]].state # "free" /\ FutureKey(inflight[m])' = m
      <4>1. CASE m = k
        BY <4>1, <2>6, <2>11
      <4>2. CASE m # k
        <5>1. inflight'[m] = inflight[m] /\ inflight[m] \in Futures \ {f}
          BY <2>6, <2>8, <3>1, <4>2 DEF PdfInv, TypeOK
        <5>. QED  BY <2>6, <2>11, <3>1, <5>1 DEF PdfInv, TableInv
      <4>. QED  BY <4>1, <4>2
    <3>2. ASSUME NEW g \in Futures, Live(g)' PROVE inflight'[FutureKey(g)'] = g
      <4>1. CASE g = f
        BY <4>1, <2>6, <2>11
      <4>2. CASE g # f
        <5>1. Live(g) /\ future[g].state # "free" /\ FutureKey(g)' = FutureKey(g)
          BY <2>6, <2>11, <3>2, <4>2 DEF Live
        <5>2. inflight[FutureKey(g)] = g /\ FutureKey(g) \in Keys
          BY <5>1, PdfKey DEF PdfInv, TableInv, FuturesType, FutureKey, KeyOfPdf
        <5>3. FutureKey(g) # k
          BY <2>2, <5>2, PdfAssumption
        <5>. QED  BY <2>6, <5>1, <5>2, <5>3
      <4>. QED  BY <4>1, <4>2
    <3>. QED  BY <3>1, <3>2 DEF TableInv
  <2>13. RequestsInv'
    <3> SUFFICES ASSUME NEW s \in Requests
                 PROVE  /\ req'[s].pc # "idle" => req'[s].variant \in Variants /\ req'[s].doc \in Payloads
                        /\ req'[s].fut # None => req'[s].pc = "wait"
                        /\ req'[s].pc = "wait" =>
                              req'[s].fut # None /\ Live(req[s].fut)' /\ FutureKey(req[s].fut)' = ReqKey(s)'
      BY DEF RequestsInv
    <3>1. CASE s = r
      <4>1. Live(f)'
        BY <2>6 DEF Live
      <4>2. ReqKey(r)' = k
        BY <2>7 DEF ReqKey, k
      <4>. QED  BY <3>1, <4>1, <4>2, <2>3, <2>5, <2>7, <2>11 DEF Live
    <3>2. CASE s # r
      <4>1. req'[s] = req[s]
        BY <3>2, <2>7
      <4>2. req[s].pc = "wait" => req[s].fut # f /\ req[s].fut \in Futures
        BY <2>5 DEF PdfInv, TypeOK, RequestsInv, Live
      <4>3. ReqKey(s)' = ReqKey(s)
        BY <4>1 DEF ReqKey
      <4>. QED  BY <4>1, <4>2, <4>3, <2>6, <2>11 DEF PdfInv, RequestsInv, Live
    <3>. QED  BY <3>1, <3>2
  <2>14. AnswersFit'
    BY <2>7 DEF PdfInv, AnswersFit
  <2>. QED  BY <2>9, <2>10, <2>12, <2>13, <2>14 DEF PdfInv
<1>7. CASE Cancel(r) \/ Sent(r)
  <2>1. UNCHANGED <<documentVars, cache, inflight, future>> /\ req' = [req EXCEPT ![r] = IdleReq]
    BY <1>7 DEF Cancel, Sent
  <2>2. CacheFits'
    BY <1>1, <2>1 DEF CacheFits
  <2>. HIDE DEF ReqType
  <2>. QED  BY <1>1, <1>2, <2>1, <2>2, RequestMoves DEF ReqType
<1>. QED  BY <1>3, <1>4, <1>5, <1>6, <1>7 DEF Serve

-----------------------------------------------------------------------------
\* A render that moves on but is not over.
LEMMA RenderGoesOn ==
    ASSUME PdfInv, NEW f \in Futures, NEW next \in {"running", "stored"}, Live(f), Goto(f, next),
           UNCHANGED <<documentVars, inflight, req>>,
           cache' \in Seq(Entry) /\ Len(cache') <= MaxEntries /\ CacheFits'
    PROVE  PdfInv'
<1>1. /\ future'[f].state = next /\ future'[f].pdf = future[f].pdf
      /\ \A g \in Futures \ {f} : future'[g] = future[g]
  BY DEF PdfInv, TypeOK, Goto
<1>2. \A g \in Futures : FutureKey(g)' = FutureKey(g) /\ (Live(g)' <=> Live(g))
  BY <1>1 DEF FutureKey, Live
<1>3. \A g \in Futures : future'[g].state = "free" <=> future[g].state = "free"
  BY <1>1 DEF Live
<1>4. TypeOK'
  <2>1. future' \in [Futures -> [state : FutureStates, pdf : Pdfs \cup {None}]]
    BY DEF PdfInv, TypeOK, Goto, FutureStates
  <2>. QED  BY <1>3, <2>1 DEF PdfInv, TypeOK, Entry, DocumentsTypeOK, documentVars
<1>5. FuturesType'
  BY <1>1, <1>3 DEF PdfInv, FuturesType
<1>6. TableInv'
  BY <1>2, <1>3 DEF PdfInv, TypeOK, TableInv
<1>7. RequestsInv'
  BY <1>2 DEF PdfInv, TypeOK, RequestsInv, ReqKey
<1>8. AnswersFit'
  BY DEF PdfInv, AnswersFit
<1>. QED  BY <1>4, <1>5, <1>6, <1>7, <1>8 DEF PdfInv

LEMMA CompleteStep == ASSUME PdfInv, NEW f \in Futures, Complete(f) PROVE PdfInv'
<1>1. PICK next \in {"done", "failed"} : Goto(f, next)
  BY DEF Complete
<1>2. Live(f) /\ UNCHANGED <<documentVars, cache, inflight>>
  BY DEF Complete, Live
<1>3. /\ future'[f].state = next /\ future'[f].pdf = future[f].pdf
      /\ \A g \in Futures \ {f} : future'[g] = future[g]
  BY <1>1 DEF PdfInv, TypeOK, Goto
<1>4. \A g \in Futures : /\ FutureKey(g)' = FutureKey(g)
                         /\ g # f => (Live(g)' <=> Live(g))
                         /\ Live(g)' => Live(g)
                         /\ future'[g].state = "free" <=> future[g].state = "free"
  BY <1>2, <1>3 DEF FutureKey, Live
<1>5. future[f].pdf \in Pdfs /\ future[f].pdf.doc \in Payloads /\ future[f].pdf.variant \in Variants
  BY <1>2 DEF PdfInv, FuturesType, Live, Pdfs
<1>6. Result(f)' \in Pdfs \cup {None} /\ (Result(f)' # None => Result(f)' = future[f].pdf)
  BY <1>3, <1>5 DEF Result
<1>7. \A r \in Requests : req'[r] = IF req[r].fut = f THEN Answered(r, Result(f)') ELSE req[r]
  BY DEF Complete
<1>8. ASSUME NEW r \in Requests, req[r].fut = f
      PROVE  /\ req'[r].pc = "answered" /\ req'[r].fut = None /\ req'[r].pdf = Result(f)'
             /\ req'[r].doc = req[r].doc /\ req'[r].variant = req[r].variant
             /\ req[r].doc \in Payloads /\ req[r].variant \in Variants
             /\ FutureKey(f) = ReqKey(r)
  <2>1. f # None /\ req[r].pc = "wait"
    BY <1>8, PdfAssumption DEF PdfInv, RequestsInv
  <2>2. req'[r] = Answered(r, Result(f)')
    BY <1>7, <1>8
  <2>. HIDE DEF Result
  <2>. QED  BY <1>8, <2>1, <2>2 DEF PdfInv, TypeOK, RequestsInv, Answered
<1>9. TypeOK'
  <2>1. future' \in [Futures -> [state : FutureStates, pdf : Pdfs \cup {None}]]
    BY <1>1 DEF PdfInv, TypeOK, Goto, FutureStates
  <2>2. req' \in [Requests -> [pc : ReqStates, variant : Variants \cup {None},
                               doc : Payloads \cup {None}, fut : Futures \cup {None},
                               pdf : Pdfs \cup {None}]]
    <3>1. ASSUME NEW r \in Requests, NEW pdf \in Pdfs \cup {None}
          PROVE  Answered(r, pdf) \in [pc : ReqStates, variant : Variants \cup {None},
                               doc : Payloads \cup {None}, fut : Futures \cup {None},
                               pdf : Pdfs \cup {None}]
      BY DEF PdfInv, TypeOK, Answered, ReqStates
    <3>2. req' = [r \in Requests |-> IF req[r].fut = f THEN Answered(r, Result(f)') ELSE req[r]]
      BY DEF Complete
    <3>. HIDE DEF Answered, Result
    <3>. QED  BY <1>6, <3>1, <3>2 DEF PdfInv, TypeOK
  <2>. QED  BY <1>2, <1>4, <2>1, <2>2 DEF PdfInv, TypeOK, Entry, DocumentsTypeOK, documentVars
<1>10. CacheFits' /\ FuturesType'
  BY <1>2, <1>3, <1>4 DEF PdfInv, CacheFits, FuturesType
<1>11. TableInv'
  BY <1>2, <1>4 DEF PdfInv, TypeOK, TableInv
<1>12. ASSUME NEW r \in Requests
       PROVE  /\ req'[r].pc # "idle" => req'[r].variant \in Variants /\ req'[r].doc \in Payloads
              /\ req'[r].fut # None => req'[r].pc = "wait"
              /\ req'[r].pc = "wait" =>
                    req'[r].fut # None /\ Live(req[r].fut)' /\ FutureKey(req[r].fut)' = ReqKey(r)'
              /\ req'[r].pc = "answered" /\ req'[r].pdf # None =>
                    /\ req'[r].pdf.doc = req'[r].doc
                    /\ Tag[req'[r].pdf.variant] = Tag[req'[r].variant]
  <2>1. CASE req[r].fut = f
    <3>1. future[f].pdf.doc = req[r].doc /\ Tag[future[f].pdf.variant] = Tag[req[r].variant]
      BY <1>5, <1>8, <2>1, KeysFit DEF FutureKey, ReqKey
    <3>. QED  BY <1>6, <1>8, <2>1, <3>1
  <2>2. CASE req[r].fut # f
    <3>1. req'[r] = req[r] /\ ReqKey(r)' = ReqKey(r)
      BY <1>7, <2>2 DEF ReqKey
    <3>2. req[r].pc = "wait" => req[r].fut \in Futures \ {f}
      BY <2>2 DEF PdfInv, TypeOK, RequestsInv
    <3>3. req[r].pc = "wait" =>
            Live(req[r].fut)' /\ FutureKey(req[r].fut)' = ReqKey(r)
      BY <1>3, <3>1, <3>2 DEF PdfInv, RequestsInv, Live, FutureKey
    <3>. QED  BY <3>1, <3>3 DEF PdfInv, RequestsInv, AnswersFit
  <2>. QED  BY <2>1, <2>2
<1>13. RequestsInv' /\ AnswersFit'
  BY <1>12 DEF RequestsInv, AnswersFit
<1>. QED  BY <1>9, <1>10, <1>11, <1>13 DEF PdfInv

LEMMA ForgetStep == ASSUME PdfInv, NEW f \in Futures, Forget(f) PROVE PdfInv'
<1> USE DEF Forget, FreeFuture
<1>1. /\ future'[f] = FreeFuture /\ ~Live(f)
      /\ \A g \in Futures \ {f} : future'[g] = future[g]
      /\ \A k \in Keys : inflight'[k] = IF inflight[k] = f THEN None ELSE inflight[k]
  BY DEF PdfInv, TypeOK, Removed, Live
<1>2. \A g \in Futures \ {f} : FutureKey(g)' = FutureKey(g) /\ (Live(g)' <=> Live(g))
  BY <1>1 DEF FutureKey, Live
<1>3. ~Live(f)'
  BY <1>1 DEF Live
<1>4. \A k \in Keys : inflight'[k] # None => inflight'[k] = inflight[k] /\ inflight[k] \in Futures \ {f}
  BY <1>1 DEF PdfInv, TypeOK
<1>5. TypeOK'
  <2>1. inflight' \in [Keys -> Futures \cup {None}]
    BY DEF PdfInv, TypeOK, Removed
  <2>2. future' \in [Futures -> [state : FutureStates, pdf : Pdfs \cup {None}]]
    BY DEF PdfInv, TypeOK, FutureStates
  <2>3. \A k \in Keys : inflight'[k] # None => future'[inflight'[k]].state # "free"
    BY <1>1, <1>4 DEF PdfInv, TypeOK
  <2>. QED  BY <2>1, <2>2, <2>3 DEF PdfInv, TypeOK, Entry, DocumentsTypeOK, documentVars
<1>6. CacheFits' /\ FuturesType'
  BY <1>1 DEF PdfInv, CacheFits, FuturesType
<1>7. TableInv'
  <2>1. \A k \in Keys : inflight'[k] # None =>
          future'[inflight'[k]].state # "free" /\ FutureKey(inflight[k])' = k
    BY <1>1, <1>2, <1>4 DEF PdfInv, TableInv
  <2>2. ASSUME NEW g \in Futures, Live(g)' PROVE inflight'[FutureKey(g)'] = g
    <3>1. g # f /\ Live(g) /\ FutureKey(g)' = FutureKey(g) /\ inflight[FutureKey(g)] = g
      BY <1>2, <1>3, <2>2 DEF PdfInv, TableInv
    <3>2. FutureKey(g) \in Keys
      BY <3>1, PdfKey DEF PdfInv, FuturesType, Live, FutureKey, KeyOfPdf
    <3>. QED  BY <1>1, <3>1, <3>2
  <2>. QED  BY <2>1, <2>2 DEF TableInv
<1>8. RequestsInv'
  <2>1. \A r \in Requests : req[r].pc = "wait" => req[r].fut \in Futures \ {f}
    BY <1>1 DEF PdfInv, TypeOK, RequestsInv
  <2>. QED  BY <1>2, <2>1 DEF PdfInv, RequestsInv, ReqKey
<1>9. AnswersFit'
  BY DEF PdfInv, AnswersFit
<1>. QED  BY <1>5, <1>6, <1>7, <1>8, <1>9 DEF PdfInv

LEMMA RenderStep == ASSUME PdfInv, NEW f \in Futures, Render(f) PROVE PdfInv'
<1>1. cache \in Seq(Entry) /\ Len(cache) <= MaxEntries /\ CacheFits
  BY DEF PdfInv, TypeOK, Entry
<1>2. CASE Run(f)
  BY <1>1, <1>2, RenderGoesOn DEF Run, Live, CacheFits
<1>3. CASE Store(f)
  <2>1. Live(f) /\ future[f].pdf \in Pdfs
    BY <1>3 DEF Store, Live, PdfInv, FuturesType
  <2>2. cache' = PutResult(KeyOfPdf(future[f].pdf), future[f].pdf)
    BY <1>3 DEF Store, FutureKey, KeyOfPdf
  <2>3. cache' \in Seq(Entry) /\ Len(cache') <= MaxEntries /\ CacheFits'
    BY <2>1, <2>2, PutKeeps
  <2>. QED  BY <1>3, <2>1, <2>3, RenderGoesOn DEF Store
<1>. QED  BY <1>2, <1>3, CompleteStep, ForgetStep DEF Render

\* The cache may be emptied and the document may change at any time.
LEMMA OthersStep ==
    ASSUME PdfInv, UNCHANGED <<inflight, future, req>>, DocumentsTypeOK',
           cache' = <<>> \/ UNCHANGED cache
    PROVE  PdfInv'
<1>1. CacheFits'
  BY DEF PdfInv, CacheFits
<1>2. cache' \in Seq(Entry) /\ Len(cache') <= MaxEntries
  <2>1. CASE cache' = <<>>
    <3>1. <<>> \in Seq(Entry) /\ Len(<<>>) = 0 /\ 0 <= MaxEntries
      BY PdfAssumption
    <3>. QED  BY <2>1, <3>1
  <2>2. CASE UNCHANGED cache
    BY <2>2 DEF PdfInv, TypeOK, Entry
  <2>. QED  BY <2>1, <2>2
<1>3. TypeOK'
  BY <1>2 DEF PdfInv, TypeOK, Entry
<1>. QED  BY <1>1, <1>3
          DEF PdfInv, FuturesType, TableInv, Live, FutureKey, RequestsInv, ReqKey, AnswersFit

LEMMA PdfNextInv == PdfInv /\ [Next]_vars => PdfInv'
<1> SUFFICES ASSUME PdfInv, [Next]_vars PROVE PdfInv'
  OBVIOUS
<1>1. CASE Clear
  BY <1>1, OthersStep DEF Clear, PdfInv, TypeOK, DocumentsTypeOK, documentVars
<1>2. CASE DocumentsNext /\ UNCHANGED pdfVars
  <2>1. DocumentsTypeOK'
    BY <1>2, DocumentsAssumption
       DEF DocumentsNext, Put, Revert, Boot, SeedCheck, SeedWrite, PdfInv, TypeOK, DocumentsTypeOK
  <2>. QED  BY <1>2, <2>1, OthersStep DEF pdfVars
<1>3. CASE UNCHANGED vars
  BY <1>3, OthersStep DEF vars, pdfVars, documentVars, PdfInv, TypeOK, DocumentsTypeOK
<1>. QED  BY <1>1, <1>2, <1>3, ServeStep, RenderStep DEF Next

\* PdfInv holds in every reachable state.
THEOREM PdfInvariance == Spec => []PdfInv
BY PdfInitInv, PdfNextInv, PTL DEF Spec

\* The variables keep their types, and the cache its bound: _cache_put evicts
\* in the same critical section.
THEOREM PdfTypeCorrect == Spec => []TypeOK
<1>1. PdfInv => TypeOK
  BY DEF PdfInv
<1>. QED  BY <1>1, PdfInvariance, PTL

\* Requests for one PDF share its render from the submission until the PDF is
\* in the cache, for any number of requests and of threads, although the
\* callback that forgets a render may come late.
THEOREM RenderedOnce == Spec => []OneRenderAtATime
<1>1. PdfInv => OneRenderAtATime
  BY DEF PdfInv, TableInv, Live, OneRenderAtATime
<1>. QED  BY <1>1, PdfInvariance, PTL

\* A request is answered with a PDF of the document its read returned (which is
\* the shipped file when the SELECT failed), and of a variant with the tag it asked
\* for, whether it was cached, joined or rendered for it.
THEOREM AnswersFitWhatWasRead == Spec => []AnswersFit
<1>1. PdfInv => AnswersFit
  BY DEF PdfInv
<1>. QED  BY <1>1, PdfInvariance, PTL

-----------------------------------------------------------------------------
(***************************************************************************)
(* Revisions: a selector names a row by its id or a file by its second.    *)
(* Rows belong to one tailoring each; a file may be that of several.       *)
(***************************************************************************)
Selectors == {NoSelector} \cup {RowOf(id) : id \in Nat} \cup {FileOf(s) : s \in Nat}

TailoringSteps == {"tailoring", "insert", "file", "reply", "answered", "failed"}

RevisionsType ==
    /\ DOMAIN revisions \subseteq Nat /\ DOMAIN files \subseteq Nat
    /\ second \in Nat /\ lastId \in Nat
    /\ tailoring \in [Tailorings -> [at : TailoringSteps, stamp : Nat, selector : Selectors]]

\* An id is given out once, and stays a row or was removed.
IdsInv ==
    /\ DOMAIN revisions \cup removed = 1..lastId
    /\ DOMAIN revisions \cap removed = {}

\* A tailoring has its selector from the moment it is stored under it, and the
\* row that selector names is its own.
RowsInv ==
    \A n \in Tailorings, id \in Nat : tailoring[n].selector = RowOf(id) =>
        /\ id \in 1..lastId
        /\ id \in DOMAIN revisions => revisions[id].cv = n

\* The CV in a file is one that was told the file's name, though not the only
\* one perhaps.
FilesInv ==
    /\ \A s \in DOMAIN files : files[s] \in Tailorings /\ tailoring[files[s]].selector = FileOf(s)
    /\ \A n \in Tailorings, s \in Nat : tailoring[n].selector = FileOf(s) => s \in DOMAIN files

\* Only what has been stored is told.
StepsInv ==
    \A n \in Tailorings :
        /\ tailoring[n].at \in {"tailoring", "insert", "file"} => tailoring[n].selector = NoSelector
        /\ tailoring[n].at \in {"reply", "answered"} => tailoring[n].selector # NoSelector

RevisionsInv == RevisionsType /\ IdsInv /\ RowsInv /\ FilesInv /\ StepsInv

\* What each kind of selector is not.
LEMMA SelectorsDiffer ==
    ASSUME NEW id \in Nat, NEW s \in Nat
    PROVE  /\ RowOf(id) # NoSelector /\ FileOf(s) # NoSelector /\ RowOf(id) # FileOf(s)
           /\ RowOf(id) # LatestOne /\ FileOf(s) # LatestOne
           /\ \A other \in Nat : RowOf(id) = RowOf(other) => id = other
           /\ \A other \in Nat : FileOf(s) = FileOf(other) => s = other
<1>1. /\ RowOf(id)[1] = "row" /\ RowOf(id)[2] = id
      /\ FileOf(s)[1] = "file" /\ FileOf(s)[2] = s
      /\ NoSelector[1] = "none" /\ LatestOne[1] = "latest"
  BY DEF RowOf, FileOf, NoSelector, LatestOne
<1>2. \A other \in Nat : RowOf(other)[2] = other /\ FileOf(other)[2] = other
  BY DEF RowOf, FileOf
<1>. QED  BY <1>1, <1>2

\* A tailoring that moves on without being stored anywhere.
LEMMA MovesOn ==
    ASSUME RevisionsInv, NEW n \in Tailorings, NEW step \in TailoringSteps, NEW stamp \in Nat,
           tailoring' = [tailoring EXCEPT ![n].at = step, ![n].stamp = stamp],
           UNCHANGED <<revisions, files, second, lastId, removed>>,
           step \in {"tailoring", "insert", "file"} =>
                tailoring[n].at \in {"tailoring", "insert", "file"},
           step \in {"reply", "answered"} => tailoring[n].at \in {"reply", "answered"}
    PROVE  RevisionsInv'
<1>1. \A m \in Tailorings : tailoring'[m].selector = tailoring[m].selector
  BY DEF RevisionsInv, RevisionsType
<1>2. RevisionsType'
  BY DEF RevisionsInv, RevisionsType
<1>3. StepsInv'
  BY <1>1 DEF RevisionsInv, RevisionsType, StepsInv
<1>. QED  BY <1>1, <1>2, <1>3 DEF RevisionsInv, IdsInv, RowsInv, FilesInv

\* The insert has committed; whether the service was told is known by its step.
LEMMA RowStored ==
    ASSUME RevisionsInv, NEW n \in Tailorings, At(n, "insert"),
           revisions' = WithRow(n), lastId' = NextId, UNCHANGED <<files, second, removed>>,
           \/ tailoring' = [tailoring EXCEPT ![n].at = "reply", ![n].selector = RowOf(NextId)]
           \/ tailoring' = [tailoring EXCEPT ![n].at = "file"]
    PROVE  RevisionsInv'
<1>1. NextId \in Nat /\ NextId \notin 1..lastId /\ 1..lastId' = 1..lastId \cup {NextId}
  BY DEF RevisionsInv, RevisionsType, NextId
<1>2. DOMAIN revisions' = DOMAIN revisions \cup {NextId}
  BY DEF WithRow
<1>3. RowOf(NextId) \in Selectors
  BY <1>1 DEF Selectors
<1>4. RevisionsType'
  BY <1>1, <1>2, <1>3 DEF RevisionsInv, RevisionsType, TailoringSteps
<1>5. IdsInv'
  BY <1>1, <1>2 DEF RevisionsInv, IdsInv
<1>6. tailoring[n].selector = NoSelector
  BY DEF RevisionsInv, StepsInv, At
<1>7. /\ \A m \in Tailorings \ {n} : tailoring'[m] = tailoring[m]
      /\ \/ tailoring'[n].selector = RowOf(NextId) /\ tailoring'[n].at = "reply"
         \/ tailoring'[n].selector = NoSelector /\ tailoring'[n].at = "file"
  BY <1>6 DEF RevisionsInv, RevisionsType
<1>8. RowsInv'
  <2> SUFFICES ASSUME NEW m \in Tailorings, NEW id \in Nat, tailoring'[m].selector = RowOf(id)
               PROVE  id \in 1..lastId' /\ (id \in DOMAIN revisions' => revisions'[id].cv = m)
    BY DEF RowsInv
  <2>1. CASE m = n
    <3>1. id = NextId
      BY <2>1, <1>1, <1>7, SelectorsDiffer
    <3>. QED  BY <3>1, <2>1, <1>1, <1>2 DEF WithRow
  <2>2. CASE m # n
    <3>1. id \in 1..lastId /\ (id \in DOMAIN revisions => revisions[id].cv = m)
      BY <2>2, <1>7 DEF RevisionsInv, RowsInv
    <3>. QED  BY <3>1, <1>1, <1>2 DEF WithRow
  <2>. QED  BY <2>1, <2>2
<1>9. FilesInv'
  BY <1>1, <1>6, <1>7, SelectorsDiffer DEF RevisionsInv, FilesInv, RevisionsType
<1>10. StepsInv'
  BY <1>1, <1>7, SelectorsDiffer DEF RevisionsInv, StepsInv
<1>. QED  BY <1>4, <1>5, <1>8, <1>9, <1>10 DEF RevisionsInv

LEMMA FileStored == ASSUME RevisionsInv, NEW n \in Tailorings, WriteRevisionFile(n) PROVE RevisionsInv'
<1> USE DEF WriteRevisionFile
<1>1. tailoring[n].selector = NoSelector
  BY DEF RevisionsInv, StepsInv, At
<1>2. second \in Nat /\ FileOf(second) \in Selectors
  BY DEF RevisionsInv, RevisionsType, Selectors
<1>3. /\ \A m \in Tailorings \ {n} : tailoring'[m] = tailoring[m]
      /\ tailoring'[n].selector = FileOf(second) /\ tailoring'[n].at = "reply"
  BY DEF RevisionsInv, RevisionsType
<1>4. RevisionsType'
  BY <1>2 DEF RevisionsInv, RevisionsType, TailoringSteps
<1>5. IdsInv'
  BY DEF RevisionsInv, IdsInv
<1>6. RowsInv'
  <2> SUFFICES ASSUME NEW m \in Tailorings, NEW id \in Nat, tailoring'[m].selector = RowOf(id)
               PROVE  id \in 1..lastId' /\ (id \in DOMAIN revisions' => revisions'[id].cv = m)
    BY DEF RowsInv
  <2>1. tailoring[m].selector = RowOf(id)
    BY <1>2, <1>3, SelectorsDiffer
  <2>. QED  BY <2>1 DEF RevisionsInv, RowsInv
<1>7. FilesInv'
  <2>1. ASSUME NEW s \in DOMAIN files'
        PROVE  files'[s] \in Tailorings /\ tailoring'[files'[s]].selector = FileOf(s)
    <3>1. CASE s = second
      BY <3>1, <1>3
    <3>2. CASE s # second
      <4>1. files'[s] = files[s] /\ s \in Nat /\ tailoring[files[s]].selector = FileOf(s)
        BY <3>2 DEF RevisionsInv, RevisionsType, FilesInv
      <4>. QED  BY <4>1, <1>1, <1>3, SelectorsDiffer DEF RevisionsInv, FilesInv
    <3>. QED  BY <3>1, <3>2
  <2>2. ASSUME NEW m \in Tailorings, NEW s \in Nat, tailoring'[m].selector = FileOf(s)
        PROVE  s \in DOMAIN files'
    BY <2>2, <1>2, <1>3, SelectorsDiffer DEF RevisionsInv, FilesInv
  <2>. QED  BY <2>1, <2>2 DEF FilesInv
<1>8. StepsInv'
  BY <1>2, <1>3, SelectorsDiffer DEF RevisionsInv, StepsInv
<1>. QED  BY <1>4, <1>5, <1>6, <1>7, <1>8 DEF RevisionsInv

LEMMA RevisionsNextInv == RevisionsInv /\ [RevisionsNext]_revisionVars => RevisionsInv'
<1> SUFFICES ASSUME RevisionsInv, [RevisionsNext]_revisionVars PROVE RevisionsInv'
  OBVIOUS
<1>1. ASSUME NEW n \in Tailorings, StampRevision(n) PROVE RevisionsInv'
  <2>1. second \in Nat
    BY DEF RevisionsInv, RevisionsType
  <2>. QED  BY <1>1, <2>1, MovesOn DEF StampRevision, At, TailoringSteps
<1>2. ASSUME NEW n \in Tailorings, InsertRevision(n) PROVE RevisionsInv'
  BY <1>2, RowStored DEF InsertRevision
<1>3. ASSUME NEW n \in Tailorings, InsertUnheard(n) PROVE RevisionsInv'
  BY <1>3, RowStored DEF InsertUnheard
<1>4. ASSUME NEW n \in Tailorings, WriteRevisionFile(n) PROVE RevisionsInv'
  BY <1>4, FileStored
<1>5. ASSUME NEW n \in Tailorings, InsertRefused(n) \/ TailoringEnds(n) PROVE RevisionsInv'
  <2>1. PICK step \in {"file", "answered", "failed"} :
          /\ tailoring' = [tailoring EXCEPT ![n].at = step]
          /\ step = "file" => At(n, "insert")
          /\ step = "answered" => At(n, "reply")
    BY <1>5 DEF InsertRefused, TailoringEnds
  <2>2. /\ tailoring[n].stamp \in Nat
        /\ tailoring' = [tailoring EXCEPT ![n].at = step, ![n].stamp = tailoring[n].stamp]
    BY <2>1 DEF RevisionsInv, RevisionsType
  <2>. QED  BY <1>5, <2>1, <2>2, MovesOn DEF InsertRefused, TailoringEnds, At, TailoringSteps
<1>6. ASSUME NEW id \in DOMAIN revisions, DeleteRevision(id) PROVE RevisionsInv'
  BY <1>6 DEF DeleteRevision, RevisionsInv, RevisionsType, IdsInv, RowsInv, FilesInv, StepsInv
<1>7. CASE NextSecond
  BY <1>7 DEF NextSecond, RevisionsInv, RevisionsType, IdsInv, RowsInv, FilesInv, StepsInv
<1>8. CASE UNCHANGED revisionVars
  BY <1>8 DEF revisionVars, RevisionsInv, RevisionsType, IdsInv, RowsInv, FilesInv, StepsInv
<1>. QED  BY <1>1, <1>2, <1>3, <1>4, <1>5, <1>6, <1>7, <1>8 DEF RevisionsNext

\* A tailored CV is found again under the selector its operator was given, for
\* any number of tailorings in any seconds, whatever inserts fail on the way.
THEOREM TailoredAreKept == RevisionsSpec => []SavedIsKept
<1>1. RevisionsInit => RevisionsInv
  <2> SUFFICES ASSUME RevisionsInit PROVE RevisionsInv
    OBVIOUS
  <2> USE DEF RevisionsInit
  <2>1. RevisionsType
    BY DEF RevisionsType, Selectors, TailoringSteps
  <2>2. \A n \in Tailorings : tailoring[n].selector = NoSelector /\ tailoring[n].at = "tailoring"
    OBVIOUS
  <2>3. RowsInv /\ FilesInv /\ StepsInv
    BY <2>2, SelectorsDiffer DEF RowsInv, FilesInv, StepsInv
  <2>. QED  BY <2>1, <2>3 DEF RevisionsInv, IdsInv
<1>2. ASSUME RevisionsInv, NEW n \in Told, NEW dbUp \in BOOLEAN
      PROVE  LET selector == tailoring[n].selector
                 got == LoadTailored(selector, dbUp)
             IN  \/ got = n
                 \/ got = NotFound /\ (~dbUp \/ selector[2] \in removed) /\ selector[1] = "row"
                 \/ got # NotFound /\ selector[1] = "file" /\ SharesFile(n)
  <2>. DEFINE selector == tailoring[n].selector
              rows == IF dbUp THEN revisions ELSE <<>>
  <2>1. n \in Tailorings /\ selector \in Selectors /\ selector # NoSelector
    BY <1>2 DEF RevisionsInv, RevisionsType, StepsInv, Told, At
  <2>2. DOMAIN rows \subseteq Nat /\ (dbUp => rows = revisions) /\ (~dbUp => DOMAIN rows = {})
    BY <1>2 DEF RevisionsInv, RevisionsType
  <2>3. ASSUME NEW id \in Nat, selector = RowOf(id)
        PROVE  \/ LoadTailored(selector, dbUp) = n
               \/ /\ LoadTailored(selector, dbUp) = NotFound
                  /\ (~dbUp \/ selector[2] \in removed) /\ selector[1] = "row"
    <3>1. selector[1] = "row" /\ selector[2] = id
      BY <2>3 DEF RowOf
    <3>2. id \in 1..lastId /\ (id \in DOMAIN revisions => revisions[id].cv = n)
      BY <1>2, <2>1, <2>3 DEF RevisionsInv, RowsInv
    <3>3. FromFile(selector) = NotFound
      BY <1>2, <2>3, SelectorsDiffer DEF FromFile, RevisionsInv, RevisionsType
    <3>4. selector \in {RowOf(other) : other \in DOMAIN rows} <=> id \in DOMAIN rows
      BY <2>2, <2>3, SelectorsDiffer
    <3>5. selector # LatestOne
      BY <2>3, SelectorsDiffer
    <3>6. LoadTailored(selector, dbUp) = IF id \in DOMAIN rows THEN rows[id].cv ELSE NotFound
      BY <3>1, <3>3, <3>4, <3>5 DEF LoadTailored
    <3>. QED  BY <1>2, <2>2, <3>1, <3>2, <3>6 DEF RevisionsInv, IdsInv
  <2>4. ASSUME NEW s \in Nat, selector = FileOf(s)
        PROVE  \/ LoadTailored(selector, dbUp) = n
               \/ /\ LoadTailored(selector, dbUp) # NotFound
                  /\ selector[1] = "file" /\ SharesFile(n)
    <3>1. selector[1] = "file" /\ selector[2] = s
      BY <2>4 DEF FileOf
    <3>2. selector # LatestOne /\ selector \notin {RowOf(id) : id \in DOMAIN rows}
      BY <2>2, <2>4, SelectorsDiffer
    <3>3. s \in DOMAIN files /\ files[s] \in Tailorings /\ tailoring[files[s]].selector = selector
      BY <1>2, <2>1, <2>4 DEF RevisionsInv, FilesInv
    <3>4. LoadTailored(selector, dbUp) = files[s]
      BY <2>4, <3>1, <3>2, <3>3 DEF LoadTailored, FromFile
    <3>5. files[s] # n => SharesFile(n)
      BY <3>3 DEF SharesFile
    <3>. QED  BY <3>1, <3>3, <3>4, <3>5, RevisionsAssumption DEF NotFound, Tailorings
  <2>. QED  BY <2>1, <2>3, <2>4 DEF Selectors
<1>3. RevisionsInv => SavedIsKept
  BY <1>2 DEF SavedIsKept
<1>. QED  BY <1>1, <1>3, RevisionsNextInv, PTL DEF RevisionsSpec
=============================================================================
