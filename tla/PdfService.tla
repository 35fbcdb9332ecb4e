----------------------------- MODULE PdfService -----------------------------
(***************************************************************************)
(* The PDFs of the operator's CV (pdf_generator.PdfService) over the       *)
(* document they are made of.  Requests are coroutines of one event loop,  *)
(* renders run on the threads of an executor, and the two meet in _cache   *)
(* and _inflight under one lock.  What is atomic is a stretch of a         *)
(* coroutine between two awaits, or a critical section of a thread.        *)
(*                                                                         *)
(* A variant is what is asked of a PDF beside the CV: theme, consent, and  *)
(* company.  The cache key folds the company's case and spaces, the render *)
(* does not.                                                               *)
(***************************************************************************)
EXTENDS Documents, Naturals, Sequences, SequencesExt, FiniteSets

CONSTANTS
    Variants,       \* (theme, consent, company) as requested
    Tag,            \* Tag[v]: theme and _consent_tag of variant v
    Requests,       \* coroutines in generate_cv_pdf_async
    Futures,        \* identities for the executor's futures, used again
    MaxEntries,     \* max_entries of the cache
    MaxWorkers      \* max_workers of the executor

ASSUME PdfAssumption ==
    /\ Tag \in [Variants -> Variants] /\ None \notin Futures \cup Variants
    /\ MaxEntries \in Nat \ {0} /\ MaxWorkers \in Nat \ {0}

VARIABLES
    cache,      \* the OrderedDict: entries [key, pdf], least recent first
    inflight,   \* inflight[k]: future rendering key k, None when absent
    future,     \* future[f]: state and arguments of a submitted render
    req         \* req[r]: state of a coroutine

pdfVars == <<cache, inflight, future, req>>
vars == <<documentVars, pdfVars>>

Keys == [doc : Payloads, tag : {Tag[v] : v \in Variants}]
Pdfs == [doc : Payloads, variant : Variants]
\* Mutant: the CV is not part of the key.
KeyByTag(doc, v) == [doc |-> Shipped, tag |-> Tag[v]]

\* _cache_key
KeyOf(doc, v) == [doc |-> doc, tag |-> Tag[v]]

FutureStates == {"free", "queued", "running", "stored", "done", "failed"}
ReqStates == {"idle", "lookup", "wait", "answered"}

TypeOK ==
    /\ DocumentsTypeOK
    /\ cache \in Seq([key : Keys, pdf : Pdfs])
    /\ Len(cache) <= MaxEntries
    /\ inflight \in [Keys -> Futures \cup {None}]
    /\ future \in [Futures -> [state : FutureStates, pdf : Pdfs \cup {None}]]
    /\ req \in [Requests -> [pc : ReqStates, variant : Variants \cup {None},
                             doc : Payloads \cup {None}, fut : Futures \cup {None},
                             pdf : Pdfs \cup {None}]]
    /\ \A k \in Keys : inflight[k] # None => future[inflight[k]].state # "free"

IdleReq == [pc |-> "idle", variant |-> None, doc |-> None, fut |-> None, pdf |-> None]
FreeFuture == [state |-> "free", pdf |-> None]

Init ==
    /\ DocumentsInit
    /\ cache = <<>>
    /\ inflight = [k \in Keys |-> None]
    /\ future = [f \in Futures |-> FreeFuture]
    /\ req = [r \in Requests |-> IdleReq]

-----------------------------------------------------------------------------
(***************************************************************************)
(* The cache                                                               *)
(***************************************************************************)
\* A key has one entry at most: the cache is a dictionary.
Cached(k) == \E i \in DOMAIN cache : cache[i].key = k
PlaceOf(k) == CHOOSE i \in DOMAIN cache : cache[i].key = k
EntryOf(k) == cache[PlaceOf(k)]
Without(k) == IF Cached(k) THEN RemoveAt(cache, PlaceOf(k)) ELSE cache

\* Mutant: the oldest entry goes only when the cache was over the limit before.
PutLate(k, pdf) ==
    LET grown == Append(Without(k), [key |-> k, pdf |-> pdf])
    IN  IF Len(cache) > MaxEntries THEN Tail(grown) ELSE grown

\* move_to_end, then at most one popitem.
PutResult(k, pdf) ==
    LET grown == Append(Without(k), [key |-> k, pdf |-> pdf])
    IN  IF Len(grown) > MaxEntries THEN Tail(grown) ELSE grown

Touch(k) == cache' = Append(Without(k), EntryOf(k))

(***************************************************************************)
(* Requests                                                                *)
(***************************************************************************)
\* cv_data reads the document once without the file and then with it (there
\* is no bucket configured): what it returns is what its last read returned.
Begin(r, v) ==
    /\ req[r].pc = "idle"
    /\ \E p \in Read : req' = [req EXCEPT ![r] = [IdleReq EXCEPT
                                  !.pc = "lookup", !.variant = v, !.doc = p]]
    /\ UNCHANGED <<documentVars, cache, inflight, future>>

ReqKey(r) == KeyOf(req[r].doc, req[r].variant)

Answered(r, pdf) == [req[r] EXCEPT !.pc = "answered", !.fut = None, !.pdf = pdf]

Hit(r) ==
    /\ req[r].pc = "lookup"
    /\ Cached(ReqKey(r))
    /\ Touch(ReqKey(r))
    /\ req' = [req EXCEPT ![r] = Answered(r, EntryOf(ReqKey(r)).pdf)]
    /\ UNCHANGED <<documentVars, inflight, future>>

\* What the render of f came to: its PDF, or None for an exception (a 500).
Result(f) == IF future[f].state = "failed" THEN None ELSE future[f].pdf

\* Mutant: a render that has stored its PDF is taken to be over.
JoinableUnstored(k) ==
    inflight[k] # None /\ (future[inflight[k]].state = "stored" => Cached(k))

Joinable(k) == inflight[k] # None

\* Somebody else's render of the same key, which may have ended already.
Join(r) ==
    /\ req[r].pc = "lookup"
    /\ ~Cached(ReqKey(r))
    /\ Joinable(ReqKey(r))
    /\ LET f == inflight[ReqKey(r)]
       IN  req' = [req EXCEPT ![r] =
                      IF future[f].state \in {"done", "failed"} THEN Answered(r, Result(f))
                      ELSE [@ EXCEPT !.pc = "wait", !.fut = f]]
    /\ UNCHANGED <<documentVars, cache, inflight, future>>

Submit(r) ==
    /\ req[r].pc = "lookup"
    /\ ~Cached(ReqKey(r))
    /\ ~Joinable(ReqKey(r))
    /\ \E f \in Futures :
         /\ future[f] = FreeFuture
         /\ future' = [future EXCEPT ![f] =
                          [state |-> "queued",
                           pdf |-> [doc |-> req[r].doc, variant |-> req[r].variant]]]
         /\ inflight' = [inflight EXCEPT ![ReqKey(r)] = f]
         /\ req' = [req EXCEPT ![r] = [@ EXCEPT !.pc = "wait", !.fut = f]]
    /\ UNCHANGED <<documentVars, cache>>

\* The client goes away: the shield keeps the render going.
Cancel(r) ==
    /\ req[r].pc \in {"lookup", "wait"}
    /\ req' = [req EXCEPT ![r] = IdleReq]
    /\ UNCHANGED <<documentVars, cache, inflight, future>>

Sent(r) ==
    /\ req[r].pc = "answered"
    /\ req' = [req EXCEPT ![r] = IdleReq]
    /\ UNCHANGED <<documentVars, cache, inflight, future>>

(***************************************************************************)
(* Renders                                                                 *)
(***************************************************************************)
Goto(f, next) == future' = [future EXCEPT ![f].state = next]
Busy == {f \in Futures : future[f].state \in {"running", "stored"}}
FutureKey(f) == KeyOf(future[f].pdf.doc, future[f].pdf.variant)

\* A thread takes a render from the queue.
Run(f) ==
    /\ future[f].state = "queued"
    /\ Cardinality(Busy) < MaxWorkers
    /\ Goto(f, "running")
    /\ UNCHANGED <<documentVars, cache, inflight, req>>

\* _cache_put at the end of _render_pdf, in the thread.
Store(f) ==
    /\ future[f].state = "running"
    /\ cache' = PutResult(FutureKey(f), future[f].pdf)
    /\ Goto(f, "stored")
    /\ UNCHANGED <<documentVars, inflight, req>>

\* The future ends with its result, or with what the renderer raised, and so
\* does the await of every request that shares it.
Complete(f) ==
    /\ \/ future[f].state = "stored" /\ Goto(f, "done")
       \/ future[f].state = "running" /\ Goto(f, "failed")
    /\ req' = [r \in Requests |-> IF req[r].fut = f THEN Answered(r, Result(f)') ELSE req[r]]
    /\ UNCHANGED <<documentVars, cache, inflight>>

Removed(f) == [k \in Keys |-> IF inflight[k] = f THEN None ELSE inflight[k]]

\* Mutant: nothing removes a render that failed.
ForgetDone(f) ==
    /\ future[f].state = "done"
    /\ inflight' = Removed(f)
    /\ future' = [future EXCEPT ![f] = FreeFuture]
    /\ UNCHANGED <<documentVars, cache, req>>

\* remove_inflight, which the done-callback schedules on the event loop; then
\* nothing refers to the future any more.
Forget(f) ==
    /\ future[f].state \in {"done", "failed"}
    /\ inflight' = Removed(f)
    /\ future' = [future EXCEPT ![f] = FreeFuture]
    /\ UNCHANGED <<documentVars, cache, req>>

Clear ==
    /\ cache # <<>>
    /\ cache' = <<>>
    /\ UNCHANGED <<documentVars, inflight, future, req>>

-----------------------------------------------------------------------------
Serve(r) ==
    \/ \E v \in Variants : Begin(r, v)
    \/ Hit(r) \/ Join(r) \/ Submit(r)
    \/ Cancel(r) \/ Sent(r)

Render(f) == Run(f) \/ Store(f) \/ Complete(f) \/ Forget(f)

Next ==
    \/ \E r \in Requests : Serve(r)
    \/ \E f \in Futures : Render(f)
    \/ Clear
    \/ DocumentsNext /\ UNCHANGED pdfVars

Spec == Init /\ [][Next]_vars

(***************************************************************************)
(* The event loop runs what is ready, the executor's queue is first come   *)
(* first served, a render ends, and a failed one is not tried for ever by  *)
(* itself: only a new request submits it again.                            *)
(***************************************************************************)
Fairness ==
    /\ \A r \in Requests :
         WF_vars(Hit(r) \/ Join(r) \/ Submit(r))
    /\ \A f \in Futures :
         SF_vars(Run(f)) /\ WF_vars(Store(f) \/ Complete(f)) /\ WF_vars(Forget(f))

FairSpec == Spec /\ Fairness

-----------------------------------------------------------------------------
(***************************************************************************)
(* Properties                                                              *)
(***************************************************************************)
\* A PDF is rendered once at a time, however many requests ask for it, and
\* although its entry leaves _inflight later than it enters the cache.
OneRenderAtATime ==
    \A f, g \in Futures :
        future[f].state \in {"queued", "running", "stored"}
        /\ future[g].state \in {"queued", "running", "stored"}
        /\ FutureKey(f) = FutureKey(g) => f = g

\* What a request is sent is a render of the document it read, in a variant
\* with the same tag: no cached or shared PDF outlives an edit of the CV.
AnswersFit ==
    \A r \in Requests :
        req[r].pc = "answered" /\ req[r].pdf # None =>
            /\ req[r].pdf.doc = req[r].doc
            /\ Tag[req[r].pdf.variant] = Tag[req[r].variant]

\* Every key is out of _inflight again and again, and so a failed render is
\* not the answer of its key for ever.
InflightClears == \A k \in Keys : []<>(inflight[k] = None)
=============================================================================
