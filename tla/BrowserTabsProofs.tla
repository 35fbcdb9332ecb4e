------------------------- MODULE BrowserTabsProofs -------------------------
(***************************************************************************)
(* Proofs about BrowserTabs, for any tabs, jobs and number of tokens.  A   *)
(* replay needs a token that was traded while somebody still holds it; the *)
(* invariant follows where the tokens are - in the cookie, in requests, in *)
(* answers - and says who can still present one that was traded.           *)
(***************************************************************************)
EXTENDS BrowserTabs, TLAPS

\* A token that would be taken for replayed.
Spent(p) == p \notin valid /\ lineage[p] \notin dead

Refreshes(q, p) == q.kind = "refresh" /\ q.token = p /\ p # None

ServerInv ==
    /\ \A p \in valid : lineage[p] # None /\ lineage[p] \notin dead
    /\ \A f \in dead : lineage[f] # None

\* What the browser holds was issued.
HeldInv ==
    /\ cookie # None => lineage[cookie] # None
    /\ \A q \in net : /\ q.token # None => lineage[q.token] # None
                      /\ q.new # None => lineage[q.new] # None
                      /\ q.kind = "refresh" /\ q.state = "ok" => q.token # None

\* A token on its way to the browser is nowhere else, and not traded.
NewInv ==
    \A q \in net : q.new # None =>
        /\ q.state = "ok" /\ q.new # cookie /\ ~Spent(q.new)
        /\ \/ q.kind = "login"
           \/ q.kind = "refresh" /\ q.token # None /\ lineage[q.new] = lineage[q.token]
        /\ \A r \in net : r.token # q.new /\ (r.new = q.new => r = q)

\* A token that was traded is excused, or the answer that replaces it is on
\* its way; two requests for one token excuse it.
ReplayInv ==
    /\ replays \subseteq excused
    /\ cookie # None /\ Spent(cookie) /\ cookie \notin excused =>
         \E r \in net : Refreshes(r, cookie) /\ r.state = "ok"
    /\ \A q \in net : /\ Refreshes(q, q.token) /\ q.state = "sent" /\ Spent(q.token)
                      => q.token \in excused
    /\ \A q, r \in net : Refreshes(q, q.token) /\ Refreshes(r, q.token) /\ q # r
                      => q.token \in excused

\* After a logout everything the browser holds belongs to an ended session.
OutInv ==
    signedOut =>
        /\ cookie # None => lineage[cookie] \in dead
        /\ \A q \in net : /\ q.kind # "login"
                          /\ Refreshes(q, q.token) => lineage[q.token] \in dead

TokenInv == ServerInv /\ HeldInv /\ NewInv /\ ReplayInv /\ OutInv

Inv == TypeOK /\ TokenInv /\ NoneWaitsInVain
-----------------------------------------------------------------------------
LEMMA InitInv == Init => Inv
BY BrowserAssumption
   DEF Init, Inv, TypeOK, TokenInv, ServerInv, HeldInv, NewInv, ReplayInv, OutInv, NoneWaitsInVain,
       Lineage!Init, None, Tokens, AwaitsRefresh, Idle, LoggingIn, LoggingOut, Checking, Waiting
LEMMA FreshToken == Fresh # {} => NextToken \in Tokens /\ lineage[NextToken] = None
BY DEF Fresh, NextToken

LEMMA TypeStep == TypeOK /\ HeldInv /\ [Next]_vars => TypeOK'
<1> SUFFICES ASSUME TypeOK, HeldInv, [Next]_vars PROVE TypeOK'
  OBVIOUS
<1> USE BrowserAssumption DEF TypeOK, Request, history, server
<1>0. ASSUME NEW t \in Tabs, NEW j \in Jobs, Login(t, j) PROVE TypeOK'
  <2>1. Post(t, j, "login", None) \in Request
    BY DEF Post, None
  <2>2. job' \in [Tabs -> [Jobs -> {Idle, LoggingIn, LoggingOut, Checking, Sent, Resent, Waiting}]]
    BY <1>0 DEF Login, Put, LoggingIn
  <2> QED
    BY <1>0, <2>1, <2>2 DEF Login
<1>1. ASSUME NEW t \in Tabs, NEW j \in Jobs, Logout(t, j) PROVE TypeOK'
  <2>1. Post(t, j, "logout", cookie) \in Request
    BY DEF Post, None
  <2>2. job' \in [Tabs -> [Jobs -> {Idle, LoggingIn, LoggingOut, Checking, Sent, Resent, Waiting}]]
    BY <1>1 DEF Logout, Put, LoggingOut
  <2> QED
    BY <1>1, <2>1, <2>2 DEF Logout
<1>2. ASSUME NEW t \in Tabs, NEW j \in Jobs, Check(t, j) \/ CallUnauthorized(t, j) PROVE TypeOK'
  BY <1>2 DEF Check, CallUnauthorized, Put, TryRefresh, Post, None, Checking, Waiting
<1>3. ASSUME NEW t \in Tabs, NEW j \in Jobs, Call(t, j) \/ CallEnds(t, j) PROVE TypeOK'
  BY <1>3 DEF Call, CallEnds, Put, Sent, Idle
<1>4. ASSUME NEW t \in Tabs, Reload(t) PROVE TypeOK'
  BY <1>4 DEF Reload, Idle
<1>5. ASSUME NEW q \in net, HandleLogin(q) PROVE TypeOK'
  BY <1>5, FreshToken DEF HandleLogin, Lineage!Issue, Reply
<1>6. ASSUME NEW q \in net, HandleRefresh(q) PROVE TypeOK'
  BY <1>6, FreshToken DEF HandleRefresh, HeldInv, Lineage!Redeem, Lineage!Revoke, Reply
<1>7. ASSUME NEW q \in net, HandleLogout(q) PROVE TypeOK'
  <2>1. /\ lineage' = lineage /\ valid' \subseteq Tokens /\ dead' \subseteq Tokens
        /\ net' \subseteq Request /\ UNCHANGED <<cookie, authed, job, replays, excused>>
    BY <1>7 DEF HandleLogout, HeldInv, EndedBy, Lineage!Revoke, Reply
  <2>2. signedOut' \in BOOLEAN
    BY <1>7 DEF HandleLogout
  <2> QED
    BY <2>1, <2>2
<1>8. ASSUME NEW q \in net, NEW got \in BOOLEAN, Learn(q, got)
      PROVE  /\ authed' \subseteq Tabs
             /\ job' \in [Tabs -> [Jobs -> {Idle, LoggingIn, LoggingOut, Checking, Sent, Resent, Waiting}]]
  BY <1>8 DEF Learn, Put, SetAccessToken, RefreshDone, Resumed, Idle, Sent, Resent
<1>9. ASSUME NEW q \in net, Answer(q) PROVE TypeOK'
  BY <1>8, <1>9 DEF Answer
<1>10. ASSUME NEW q \in net, Lose(q) PROVE TypeOK'
  BY <1>8, <1>10 DEF Lose, HeldInv
<1>11. CASE UNCHANGED vars
  BY <1>11 DEF vars
<1> QED
  BY <1>0, <1>1, <1>2, <1>3, <1>4, <1>5, <1>6, <1>7, <1>9, <1>10, <1>11
     DEF Next, CallStep, Handle
-----------------------------------------------------------------------------
\* A request that is posted with the cookie.
LEMMA PostStep ==
    ASSUME TypeOK, TokenInv, NEW t \in Tabs, NEW j \in Jobs,
           NEW kind \in {"logout", "refresh"},
           net' = net \cup {Post(t, j, kind, cookie)},
           kind = "refresh" => /\ ~Refreshing(t)
                               /\ \A c \in Tokens : c = cookie /\ Elsewhere(t, c) => c \in excused',
           excused \subseteq excused', UNCHANGED <<server, cookie, replays, signedOut>>
    PROVE  TokenInv'
<1> DEFINE q0 == Post(t, j, kind, cookie)
<1>1. /\ q0.from = t /\ q0.kind = kind /\ q0.token = cookie /\ q0.state = "sent" /\ q0.new = None
      /\ net' = net \cup {q0}
  BY DEF Post
<1> HIDE DEF q0
<1> USE DEF TypeOK, TokenInv, server, Refreshes
<1>2. ServerInv' /\ HeldInv'
  BY <1>1 DEF ServerInv, HeldInv
<1>3. NewInv'
  BY <1>1 DEF NewInv, Spent
<1>4. \A r \in net : Refreshes(r, cookie) /\ kind = "refresh" => cookie \in excused'
  BY DEF Elsewhere, Refreshing, Request
<1>5. ReplayInv'
  BY <1>1, <1>4 DEF ReplayInv, Spent
<1>6. OutInv'
  BY <1>1 DEF OutInv
<1> QED
  BY <1>2, <1>3, <1>5, <1>6

LEMMA TryRefreshStep ==
    ASSUME TypeOK, TokenInv, NEW t \in Tabs, NEW j \in Jobs, TryRefresh(t, j),
           UNCHANGED <<server, cookie, replays, signedOut>>
    PROVE  TokenInv'
<1>1. CASE Refreshing(t)
  BY <1>1 DEF TryRefresh, TokenInv, ServerInv, HeldInv, NewInv, ReplayInv, OutInv, Spent,
              Refreshes, server
<1>2. CASE ~Refreshing(t)
  BY <1>2, PostStep DEF TryRefresh
<1> QED
  BY <1>1, <1>2

LEMMA LoginStep ==
    ASSUME TypeOK, TokenInv, NEW t \in Tabs, NEW j \in Jobs, Login(t, j)
    PROVE  TokenInv'
<1> DEFINE q0 == Post(t, j, "login", None)
<1>1. /\ q0.kind = "login" /\ q0.token = None /\ q0.new = None /\ net' = net \cup {q0}
      /\ ~signedOut' /\ UNCHANGED <<lineage, valid, dead, cookie, replays, excused>>
  BY DEF Login, Post, server
<1> HIDE DEF q0
<1> QED
  BY <1>1 DEF TokenInv, ServerInv, HeldInv, NewInv, ReplayInv, OutInv, Spent, Refreshes, TypeOK

\* A page that is loaded again forgets whom the answers are for, and no more.
LEMMA ReloadStep ==
    ASSUME TypeOK, TokenInv, NEW t \in Tabs, Reload(t)
    PROVE  TokenInv'
<1> DEFINE Left(q) == [q EXCEPT !.from = IF @ = t THEN Gone ELSE @]
<1>1. net' = {Left(q) : q \in net} /\ UNCHANGED <<lineage, valid, dead, cookie, replays, excused, signedOut>>
  BY DEF Reload, server, history
<1>2. \A q \in net : /\ Left(q).kind = q.kind /\ Left(q).token = q.token
                     /\ Left(q).state = q.state /\ Left(q).new = q.new
  BY DEF TypeOK, Request
<1> HIDE DEF Left
<1> USE DEF TokenInv, Refreshes
<1>3. ServerInv' /\ HeldInv'
  BY <1>1, <1>2 DEF ServerInv, HeldInv
<1>4. NewInv'
  BY <1>1, <1>2 DEF NewInv, Spent
<1>5. ReplayInv'
  BY <1>1, <1>2 DEF ReplayInv, Spent
<1>6. OutInv'
  BY <1>1, <1>2 DEF OutInv
<1> QED
  BY <1>3, <1>4, <1>5, <1>6-----------------------------------------------------------------------------
(* The server *)

TokenTypes ==
    /\ lineage \in [Tokens -> Tokens \cup {None}]
    /\ valid \subseteq Tokens /\ dead \subseteq Tokens
    /\ cookie \in Tokens \cup {None}
    /\ \A q \in net : q.token \in Tokens \cup {None} /\ q.new \in Tokens \cup {None}

LEMMA Types == TypeOK => TokenTypes
BY DEF TypeOK, TokenTypes, Request

\* Request q has become q2, which answers it with the token n or with none.
Answered(q, q2, state, n) ==
    /\ q2.from = q.from /\ q2.job = q.job /\ q2.kind = q.kind /\ q2.token = q.token
    /\ q2.state = state /\ q2.new = n
    /\ net' = (net \ {q}) \cup {q2}

LEMMA ReplyAnswers ==
    ASSUME TypeOK, NEW q \in net, NEW state, NEW n, Reply(q, state, n)
    PROVE  \E q2 : Answered(q, q2, state, n)
<1> WITNESS [q EXCEPT !.state = state, !.new = n]
<1> QED
  BY DEF Reply, Answered, TypeOK, Request

LEMMA HandleLoginStep ==
    ASSUME TypeOK, TokenInv, NEW q \in net, HandleLogin(q)
    PROVE  TokenInv'
<1> PICK n \in Tokens : n = NextToken /\ lineage[n] = None
  BY FreshToken DEF HandleLogin
<1> PICK q2 : Answered(q, q2, "ok", n)
  BY ReplyAnswers DEF HandleLogin
<1>1. /\ q2.kind = "login" /\ q2.token = q.token /\ q2.state = "ok" /\ q2.new = n
      /\ q.kind = "login" /\ net' = (net \ {q}) \cup {q2}
  BY DEF HandleLogin, Answered
<1>2. /\ lineage' = [lineage EXCEPT ![n] = n] /\ valid' = valid \cup {n} /\ dead' = dead
      /\ UNCHANGED <<cookie, replays, excused, signedOut>>
  BY DEF HandleLogin, Lineage!Issue, history
<1>3. n # None
  BY DEF None, Tokens
<1> TokenTypes
  BY Types
<1> USE DEF TokenTypes, TokenInv, Refreshes
<1>4. /\ \A r \in net : r.token \in Tokens \cup {None} /\ r.new \in Tokens \cup {None}
      /\ \A r \in net : r.token # n /\ r.new # n
      /\ cookie # n
  BY <1>3 DEF HeldInv
<1>5. ServerInv'
  BY <1>2, <1>3 DEF ServerInv
<1>6. /\ \A p \in Tokens : p # n => lineage'[p] = lineage[p] /\ (Spent(p)' => Spent(p))
      /\ ~Spent(n)' /\ lineage'[n] = n
  BY <1>2 DEF Spent
<1>7. \A r \in net' : (r \in net /\ r # q) \/ r = q2
  BY <1>1
<1> HIDE DEF Spent
<1>8. HeldInv'
  BY <1>1, <1>2, <1>3, <1>4, <1>6, <1>7 DEF HeldInv
<1>9. NewInv'
  <2> SUFFICES ASSUME NEW r \in net', r.new # None
               PROVE  /\ r.state = "ok" /\ r.new # cookie /\ ~Spent(r.new)'
                      /\ \/ r.kind = "login"
                         \/ r.kind = "refresh" /\ r.token # None /\ lineage'[r.new] = lineage'[r.token]
                      /\ \A s \in net' : s.token # r.new /\ (s.new = r.new => s = r)
    BY <1>2 DEF NewInv
  <2>1. CASE r = q2
    BY <2>1, <1>1, <1>4, <1>6, <1>7
  <2>2. CASE r \in net /\ r # q
    BY <2>2, <1>1, <1>4, <1>6, <1>7 DEF NewInv
  <2> QED
    BY <2>1, <2>2, <1>7
<1>10. ReplayInv'
  BY <1>1, <1>2, <1>4, <1>6, <1>7 DEF ReplayInv
<1>11. OutInv'
  BY <1>1, <1>2, <1>4 DEF OutInv
<1> QED
  BY <1>5, <1>8, <1>9, <1>10, <1>11

\* The token of q is traded for a fresh one.
LEMMA RedeemStep ==
    ASSUME TypeOK, TokenInv, NEW q \in net, q.kind = "refresh", q.state = "sent",
           q.token \in valid, Fresh # {}, Lineage!Redeem(q.token, NextToken),
           Reply(q, "ok", NextToken), UNCHANGED <<cookie, replays, excused, signedOut>>
    PROVE  TokenInv'
<1> PICK n \in Tokens : n = NextToken /\ lineage[n] = None
  BY FreshToken
<1> PICK p \in Tokens : p = q.token
  BY DEF TypeOK
<1> PICK q2 : Answered(q, q2, "ok", n)
  BY ReplyAnswers
<1>1. /\ q2.kind = "refresh" /\ q2.token = p /\ q2.state = "ok" /\ q2.new = n
      /\ net' = (net \ {q}) \cup {q2}
  BY DEF Answered
<1>2. /\ p \in valid /\ lineage' = [lineage EXCEPT ![n] = lineage[p]]
      /\ valid' = (valid \ {p}) \cup {n} /\ dead' = dead
  BY DEF Lineage!Redeem
<1>3. n # None /\ p # None /\ lineage[p] # None /\ lineage[p] \notin dead /\ p # n
  BY <1>2 DEF None, Tokens, TokenInv, ServerInv
<1> TokenTypes
  BY Types
<1> USE DEF TokenTypes, TokenInv, Refreshes
<1>4. /\ \A r \in net : r.token \in Tokens \cup {None} /\ r.new \in Tokens \cup {None}
      /\ \A r \in net : r.token # n /\ r.new # n
      /\ cookie # n
  BY <1>3 DEF HeldInv
<1>5. ServerInv'
  BY <1>2, <1>3 DEF ServerInv
<1>6. /\ \A t \in Tokens : t # n => lineage'[t] = lineage[t]
      /\ \A t \in Tokens : t \notin {n, p} /\ Spent(t)' => Spent(t)
      /\ ~Spent(n)' /\ lineage'[n] = lineage[p]
  BY <1>2, <1>3 DEF Spent
<1>7. \A r \in net' : (r \in net /\ r # q) \/ r = q2
  BY <1>1
<1> HIDE DEF Spent
<1>8. HeldInv'
  BY <1>1, <1>2, <1>3, <1>4, <1>6, <1>7 DEF HeldInv
<1>9. NewInv'
  <2> SUFFICES ASSUME NEW r \in net', r.new # None
               PROVE  /\ r.state = "ok" /\ r.new # cookie /\ ~Spent(r.new)'
                      /\ \/ r.kind = "login"
                         \/ r.kind = "refresh" /\ r.token # None /\ lineage'[r.new] = lineage'[r.token]
                      /\ \A s \in net' : s.token # r.new /\ (s.new = r.new => s = r)
    BY <1>2 DEF NewInv
  <2>1. CASE r = q2
    BY <2>1, <1>1, <1>3, <1>4, <1>6, <1>7
  <2>2. CASE r \in net /\ r # q
    BY <2>2, <1>1, <1>4, <1>6, <1>7 DEF NewInv
  <2> QED
    BY <2>1, <2>2, <1>7
<1>10. ReplayInv'
  <2>1. \A r \in net' : Refreshes(r, p) /\ r # q2 => p \in excused
    BY <1>1, <1>3 DEF ReplayInv
  <2>2. cookie # None /\ Spent(cookie)' /\ cookie \notin excused =>
          \E r \in net' : Refreshes(r, cookie) /\ r.state = "ok"
    BY <1>1, <1>3, <1>4, <1>6 DEF ReplayInv
  <2>3. \A r \in net' : Refreshes(r, r.token) /\ r.state = "sent" /\ Spent(r.token)' => r.token \in excused
    BY <2>1, <1>1, <1>3, <1>4, <1>6, <1>7 DEF ReplayInv
  <2>4. \A r, s \in net' : Refreshes(r, r.token) /\ Refreshes(s, r.token) /\ r # s => r.token \in excused
    BY <2>1, <1>1 DEF ReplayInv
  <2> QED
    BY <2>2, <2>3, <2>4 DEF ReplayInv
<1>11. OutInv'
  BY <1>1, <1>2, <1>4 DEF OutInv
<1> QED
  BY <1>5, <1>8, <1>9, <1>10, <1>11

\* A session ends, or a refresh is refused: nothing that was not spent is spent.
LEMMA RefuseStep ==
    ASSUME TypeOK, TokenInv, NEW q \in net, NEW state \in {"ok", "no"}, q.state = "sent",
           q.kind \in {"refresh", "logout"}, q.kind = "refresh" => state = "no",
           Reply(q, state, None), cookie' = cookie, excused' = excused,
           \/ UNCHANGED server
           \/ \E f : f # None /\ Lineage!Revoke({f})
    PROVE  /\ ServerInv' /\ HeldInv' /\ NewInv'
           /\ replays' \subseteq excused => ReplayInv'
           /\ UNCHANGED signedOut => OutInv'
           /\ dead \subseteq dead' /\ lineage' = lineage
<1> PICK q2 : Answered(q, q2, state, None)
  BY ReplyAnswers
<1>1. /\ q2.kind = q.kind /\ q2.token = q.token /\ q2.state = state /\ q2.new = None
      /\ net' = (net \ {q}) \cup {q2}
  BY DEF Answered
<1>2. /\ lineage' = lineage /\ dead \subseteq dead' /\ valid' \subseteq valid
      /\ \A p \in valid : p \in valid' \/ lineage[p] \in dead'
      /\ \A p \in valid' : lineage[p] \notin dead'
      /\ \A f \in dead' : lineage[f] # None
  BY DEF Lineage!Revoke, server, TokenInv, ServerInv
<1> TokenTypes
  BY Types
<1> USE DEF TokenTypes, TokenInv, Refreshes
<1>3. \A p \in Tokens : Spent(p)' => Spent(p)
  BY <1>2 DEF Spent
<1>4. ServerInv' /\ HeldInv'
  BY <1>1, <1>2 DEF ServerInv, HeldInv
<1>5. /\ \A r \in net : r.token \in Tokens \cup {None} /\ r.new \in Tokens \cup {None}
      /\ \A r \in net' : (r \in net /\ r # q) \/ r = q2
  BY <1>1
<1> HIDE DEF Spent
<1>6. NewInv'
  BY <1>1, <1>2, <1>3, <1>5 DEF NewInv
<1>7. replays' \subseteq excused => ReplayInv'
  BY <1>1, <1>2, <1>3, <1>5 DEF ReplayInv
<1>8. UNCHANGED signedOut => OutInv'
  BY <1>1, <1>2 DEF OutInv
<1> QED
  BY <1>2, <1>4, <1>6, <1>7, <1>8
LEMMA HandleRefreshStep ==
    ASSUME TypeOK, TokenInv, NEW q \in net, HandleRefresh(q)
    PROVE  TokenInv'
<1> TokenTypes
  BY Types
<1> USE DEF TokenInv
<1>1. /\ q.kind = "refresh" /\ q.state = "sent"
      /\ UNCHANGED <<cookie, excused, signedOut>>
  BY DEF HandleRefresh
<1>2. CASE q.token \in valid
  <2>1. Fresh # {} /\ Lineage!Redeem(q.token, NextToken) /\ Reply(q, "ok", NextToken) /\ UNCHANGED replays
    BY <1>2 DEF HandleRefresh, None, Tokens, TokenTypes
  <2> QED
    BY <1>1, <1>2, <2>1, RedeemStep
<1>3. CASE q.token # None /\ q.token \notin valid /\ lineage[q.token] \notin dead
  <2>1. Lineage!Revoke({lineage[q.token]}) /\ Reply(q, "no", None) /\ replays' = replays \cup {q.token}
    BY <1>3 DEF HandleRefresh
  <2>2. lineage[q.token] # None
    BY <1>3 DEF HeldInv
  <2>3. q.token \in excused
    BY <1>1, <1>3 DEF ReplayInv, Refreshes, Spent
  <2>4. replays' \subseteq excused
    BY <2>1, <2>3 DEF ReplayInv
  <2> QED
    BY <1>1, <2>1, <2>2, <2>4, RefuseStep
<1>4. CASE q.token # None => q.token \notin valid /\ lineage[q.token] \in dead
  <2>1. q.token \notin valid
    BY <1>4 DEF TokenTypes, None, Tokens
  <2>2. UNCHANGED <<server, replays>> /\ Reply(q, "no", None)
    BY <1>4, <2>1 DEF HandleRefresh
  <2>3. replays' \subseteq excused
    BY <2>2 DEF ReplayInv
  <2> QED
    BY <1>1, <2>2, <2>3, RefuseStep
<1> QED
  BY <1>2, <1>3, <1>4

LEMMA HandleLogoutStep ==
    ASSUME TypeOK, TokenInv, NEW q \in net, HandleLogout(q)
    PROVE  TokenInv'
<1> USE DEF TokenInv
<1>1. /\ q.kind = "logout" /\ q.state = "sent" /\ Reply(q, "ok", None)
      /\ UNCHANGED <<cookie, replays, excused>>
  BY DEF HandleLogout
<1>2. replays' \subseteq excused
  BY <1>1 DEF ReplayInv
<1>3. CASE q.token = None
  <2>1. UNCHANGED server /\ UNCHANGED signedOut
    BY <1>3 DEF HandleLogout
  <2> QED
    BY <1>1, <1>2, <2>1, RefuseStep
<1>4. CASE q.token # None
  <2> PICK f : f = lineage[q.token]
    OBVIOUS
  <2>1. Lineage!Revoke({f}) /\ f # None /\ signedOut' = (signedOut \/ OnlySession(f))
    BY <1>4 DEF HandleLogout, EndedBy, HeldInv
  <2>2. /\ ServerInv' /\ HeldInv' /\ NewInv' /\ ReplayInv'
        /\ (UNCHANGED signedOut => OutInv') /\ lineage' = lineage
    BY <1>1, <1>2, <2>1, RefuseStep
  <2>3. CASE OnlySession(f)
    <3> PICK q2 : Answered(q, q2, "ok", None)
      BY <1>1, ReplyAnswers
    <3>1. f \in dead'
      BY <2>1 DEF Lineage!Revoke
    <3>2. OutInv'
      BY <1>1, <2>2, <2>3, <3>1 DEF OutInv, OnlySession, Answered, Refreshes
    <3> QED
      BY <2>2, <3>2
  <2>4. CASE ~OnlySession(f)
    <3>1. signedOut' = signedOut
      BY <2>1, <2>4 DEF TypeOK
    <3> QED
      BY <2>2, <3>1
  <2> QED
    BY <2>3, <2>4
<1> QED
  BY <1>3, <1>4
-----------------------------------------------------------------------------
(* Answers *)

LEMMA AnswerStep ==
    ASSUME TypeOK, TokenInv, NEW q \in net, Answer(q)
    PROVE  TokenInv'
<1>1. /\ net' = net \ {q} /\ cookie' = IF q.state = "ok" THEN q.new ELSE cookie
      /\ UNCHANGED <<lineage, valid, dead, replays, excused, signedOut>>
  BY DEF Answer, server, history
<1> TokenTypes
  BY Types
<1> USE DEF TokenInv, Refreshes
<1>2. ServerInv' /\ HeldInv'
  BY <1>1 DEF ServerInv, HeldInv
<1>3. NewInv'
  BY <1>1 DEF NewInv, Spent
<1>4. ReplayInv'
  <2>1. CASE q.state = "ok"
    BY <1>1, <2>1 DEF ReplayInv, NewInv, Spent
  <2>2. CASE q.state # "ok"
    BY <1>1, <2>2 DEF ReplayInv, Spent
  <2> QED
    BY <2>1, <2>2
<1>5. OutInv'
  BY <1>1 DEF OutInv, NewInv
<1> QED
  BY <1>2, <1>3, <1>4, <1>5

LEMMA LoseStep ==
    ASSUME TypeOK, TokenInv, NEW q \in net, Lose(q)
    PROVE  TokenInv'
<1>1. /\ net' = net \ {q} /\ UNCHANGED <<lineage, valid, dead, cookie, replays, signedOut>>
      /\ excused' = IF q.kind = "refresh" /\ q.state = "ok" THEN excused \cup {q.token} ELSE excused
  BY DEF Lose, server
<1> USE DEF TokenInv, Refreshes
<1>2. ServerInv' /\ HeldInv'
  BY <1>1 DEF ServerInv, HeldInv
<1>3. NewInv'
  BY <1>1 DEF NewInv, Spent
<1>4. ReplayInv'
  BY <1>1 DEF ReplayInv, Spent
<1>5. OutInv'
  BY <1>1 DEF OutInv
<1> QED
  BY <1>2, <1>3, <1>4, <1>5

LEMMA TokenStep == TypeOK /\ TokenInv /\ [Next]_vars => TokenInv'
<1> SUFFICES ASSUME TypeOK, TokenInv, [Next]_vars PROVE TokenInv'
  OBVIOUS
<1>1. ASSUME NEW t \in Tabs, NEW j \in Jobs, Logout(t, j) PROVE TokenInv'
  BY <1>1, PostStep DEF Logout, history
<1>2. ASSUME NEW t \in Tabs, NEW j \in Jobs, Check(t, j) \/ CallUnauthorized(t, j) PROVE TokenInv'
  BY <1>2, TryRefreshStep DEF Check, CallUnauthorized
<1>3. CASE UNCHANGED <<server, cookie, net, history>>
  BY <1>3 DEF server, history, TokenInv, ServerInv, HeldInv, NewInv, ReplayInv, OutInv, Spent, Refreshes
<1>4. ASSUME NEW t \in Tabs, NEW j \in Jobs, Call(t, j) \/ CallEnds(t, j) PROVE TokenInv'
  BY <1>3, <1>4 DEF Call, CallEnds
<1>5. CASE UNCHANGED vars
  BY <1>3, <1>5 DEF vars
<1> QED
  BY <1>1, <1>2, <1>4, <1>5, LoginStep, ReloadStep, HandleLoginStep, HandleRefreshStep,
     HandleLogoutStep, AnswerStep, LoseStep DEF Next, CallStep, Handle-----------------------------------------------------------------------------
(* Who waits for what *)

LEMMA TryRefreshRefreshes ==
    ASSUME NEW t \in Tabs, NEW j \in Jobs, TryRefresh(t, j)
    PROVE  Refreshing(t)' /\ net \subseteq net'
<1>1. CASE Refreshing(t)
  BY <1>1 DEF TryRefresh, Refreshing
<1>2. CASE ~Refreshing(t)
  <2> PICK q0 : /\ q0 = Post(t, j, "refresh", cookie) /\ net' = net \cup {q0}
    BY <1>2 DEF TryRefresh
  <2>1. q0.from = t /\ q0.kind = "refresh"
    BY DEF Post
  <2> QED
    BY <2>1 DEF Refreshing
<1> QED
  BY <1>1, <1>2

\* The answer to q resumes all that wait for it.
LEMMA LearnStep ==
    ASSUME TypeOK, NoneWaitsInVain, NEW q \in net, NEW got \in BOOLEAN,
           Learn(q, got), net' = net \ {q}
    PROVE  NoneWaitsInVain'
<1> SUFFICES ASSUME NEW t \in Tabs, NEW j \in Jobs
             PROVE  /\ AwaitsRefresh(job'[t][j]) => Refreshing(t)'
                    /\ job'[t][j] \in {LoggingIn, LoggingOut} =>
                         \E r \in net' : r.from = t /\ r.job = j /\ r.kind = job'[t][j]
  BY DEF NoneWaitsInVain, AwaitsRefresh
<1>1. job \in [Tabs -> [Jobs -> {Idle, LoggingIn, LoggingOut, Checking, Sent, Resent, Waiting}]]
  BY DEF TypeOK
<1>2. q.from \in Tabs \cup {Gone} /\ q.job \in Jobs /\ q.kind \in {"login", "refresh", "logout"}
  BY DEF TypeOK, Request
<1>3. /\ AwaitsRefresh(job[t][j]) => Refreshing(t)
      /\ job[t][j] \in {LoggingIn, LoggingOut} =>
           \E r \in net : r.from = t /\ r.job = j /\ r.kind = job[t][j]
  BY DEF NoneWaitsInVain
<1> USE DEF AwaitsRefresh, Idle, LoggingIn, LoggingOut, Checking, Sent, Resent, Waiting
<1>4. ASSUME job'[t][j] = job[t][j], q.from = t => q.job # j /\ q.kind # "refresh"
      PROVE  /\ AwaitsRefresh(job'[t][j]) => Refreshing(t)'
             /\ job'[t][j] \in {LoggingIn, LoggingOut} =>
                  \E r \in net' : r.from = t /\ r.job = j /\ r.kind = job'[t][j]
  BY <1>3, <1>4 DEF Refreshing
<1>5. CASE q.from = Gone
  BY <1>4, <1>5, BrowserAssumption DEF Learn
<1>6. CASE q.from # Gone /\ q.kind = "refresh"
  <2>1. /\ q.from \in Tabs
        /\ q.from # t => job'[t][j] = job[t][j]
        /\ q.from = t => \/ job'[t][j] \in {Idle, Sent, Resent}
                         \/ job'[t][j] = job[t][j] /\ ~AwaitsRefresh(job[t][j])
    BY <1>1, <1>2, <1>6 DEF Learn, RefreshDone, Resumed
  <2> QED
    BY <1>3, <1>4, <1>6, <2>1
<1>7. CASE q.from # Gone /\ q.kind # "refresh"
  <2>1. q.from \in Tabs /\ \E w \in {Idle, Sent} : job' = [job EXCEPT ![q.from][q.job] = w]
    BY <1>2, <1>7 DEF Learn, SetAccessToken, Put
  <2>2. IF q.from = t /\ q.job = j THEN job'[t][j] \in {Idle, Sent} ELSE job'[t][j] = job[t][j]
    BY <1>1, <1>2, <2>1
  <2> QED
    BY <1>4, <1>7, <2>2
<1> QED
  BY <1>5, <1>6, <1>7

LEMMA WaitStep == TypeOK /\ NoneWaitsInVain /\ [Next]_vars => NoneWaitsInVain'
<1> SUFFICES ASSUME TypeOK, NoneWaitsInVain, [Next]_vars PROVE NoneWaitsInVain'
  OBVIOUS
<1>1. job \in [Tabs -> [Jobs -> {Idle, LoggingIn, LoggingOut, Checking, Sent, Resent, Waiting}]]
  BY DEF TypeOK
<1> USE DEF NoneWaitsInVain, AwaitsRefresh, Idle, LoggingIn, LoggingOut, Checking, Sent, Resent, Waiting
<1>2. ASSUME NEW t \in Tabs, NEW j \in Jobs, Login(t, j) PROVE NoneWaitsInVain'
  <2> PICK q0 : q0 = Post(t, j, "login", None) /\ net' = net \cup {q0}
    BY <1>2 DEF Login
  <2>1. q0.from = t /\ q0.job = j /\ q0.kind = LoggingIn
    BY DEF Post
  <2> QED
    BY <1>1, <1>2, <2>1 DEF Login, Put, Refreshing
<1>3. ASSUME NEW t \in Tabs, NEW j \in Jobs, Logout(t, j) PROVE NoneWaitsInVain'
  <2> PICK q0 : q0 = Post(t, j, "logout", cookie) /\ net' = net \cup {q0}
    BY <1>3 DEF Logout
  <2>1. q0.from = t /\ q0.job = j /\ q0.kind = LoggingOut
    BY DEF Post
  <2> QED
    BY <1>1, <1>3, <2>1 DEF Logout, Put, Refreshing
<1>4. ASSUME NEW t \in Tabs, NEW j \in Jobs, Check(t, j) \/ CallUnauthorized(t, j)
      PROVE  NoneWaitsInVain'
  <2>1. Refreshing(t)' /\ net \subseteq net' /\ \E w \in {Checking, Waiting} : Put(t, j, w)
    BY <1>4, TryRefreshRefreshes DEF Check, CallUnauthorized
  <2> QED
    BY <1>1, <2>1 DEF Put, Refreshing
<1>5. ASSUME NEW t \in Tabs, NEW j \in Jobs, Call(t, j) \/ CallEnds(t, j) PROVE NoneWaitsInVain'
  BY <1>1, <1>5 DEF Call, CallEnds, Put, Refreshing
<1>6. ASSUME NEW t \in Tabs, Reload(t) PROVE NoneWaitsInVain'
  <2>1. \A u \in Tabs \ {t} : job'[u] = job[u]
    BY <1>1, <1>6 DEF Reload
  <2>2. \A j \in Jobs : job'[t][j] = Idle
    BY <1>1, <1>6 DEF Reload
  <2>3. \A r \in net : r.from # t => r \in net'
    BY <1>6 DEF Reload, TypeOK, Request
  <2> QED
    BY <2>1, <2>2, <2>3 DEF Refreshing
<1>7. ASSUME NEW q \in net, NEW q2, NEW state, NEW n, Answered(q, q2, state, n), job' = job
      PROVE  NoneWaitsInVain'
  BY <1>7 DEF Answered, Refreshing
<1>8. ASSUME NEW q \in net, Handle(q) PROVE NoneWaitsInVain'
  BY <1>7, <1>8, ReplyAnswers DEF Handle, HandleLogin, HandleRefresh, HandleLogout
<1>9. ASSUME NEW q \in net, Answer(q) \/ Lose(q) PROVE NoneWaitsInVain'
  BY <1>9, LearnStep DEF Answer, Lose
<1>10. CASE UNCHANGED vars
  BY <1>10 DEF vars, Refreshing
<1> QED
  BY <1>2, <1>3, <1>4, <1>5, <1>6, <1>8, <1>9, <1>10 DEF Next, CallStep
-----------------------------------------------------------------------------
LEMMA Invariance == Spec => []Inv
<1>1. Inv /\ [Next]_vars => Inv'
  BY TypeStep, TokenStep, WaitStep DEF Inv, TokenInv
<1> QED
  BY InitInv, <1>1, PTL DEF Spec

THEOREM TypeCorrect == Spec => []TypeOK
BY Invariance, PTL DEF Inv

\* A session is ended for a replay only if two pages had the token under way
\* at the same time, or the answer to its refresh was lost: tryRefresh() shares
\* one request among the callers of a page, and the cookie follows the answers.
THEOREM ReplaysHaveAReason == Spec => []ReplaysAreExcused
<1>1. Inv => ReplaysAreExcused
  BY DEF Inv, TokenInv, ReplayInv, ReplaysAreExcused
<1> QED
  BY Invariance, <1>1, PTL

\* logout() ends the session for good: whatever the browser still holds or is
\* about to get belongs to the revoked family.
THEOREM LogoutIsFinal == Spec => []LogoutSticks
<1>1. Inv => LogoutSticks
  BY DEF Inv, TypeOK, TokenInv, ServerInv, OutInv, LogoutSticks, None, Tokens
<1> QED
  BY Invariance, <1>1, PTL

\* Every caller of tryRefresh(), login() and logout() is waiting for a request
\* that is out, and is resumed when it ends.
THEOREM NobodyIsForgotten == Spec => []NoneWaitsInVain
BY Invariance, PTL DEF Inv
=============================================================================
