------------------------------ MODULE FailBan ------------------------------
(***************************************************************************)
(* The ban list (failban.py) behind the gate (guard_middleware.py) and in  *)
(* front of the rate limits (rate_limiter.py, mcp_limits.py).  A request   *)
(* passes the gate, and later its handler may find the client over a       *)
(* limit: that is a strike.  Times are kept relative to now: a strike has  *)
(* an age, a ban has the time it has left.                                 *)
(***************************************************************************)
EXTENDS Naturals, Sequences, FiniteSets, SequencesExt

CONSTANTS
    Clients,        \* rate-limit keys: resolved client addresses
    Paths,          \* request paths, but for /health, which the gate lets pass
    Allowed,        \* allowed_ips_file: {} when no such policy is configured
    Blocked,        \* blocked_ips_file
    Exempt,         \* loopback peers of a deployment without TRUST_PROXY
    Threshold, Window, BanTime,
    MaxTracked,     \* failban_max_tracked
    MaxOpen,        \* bound on requests between the gate and their answer
    None            \* no ban on record

ASSUME FailBanAssumption ==
    /\ Threshold \in Nat \ {0}      \* 0 turns the tracker off
    /\ Window \in Nat \ {0} /\ BanTime \in Nat \ {0}
    /\ MaxTracked \in Nat
    /\ None \notin Nat

VARIABLES
    strikes,        \* _strikes: strikes[c], oldest first; <<>> when c has no entry
    before,         \* the order of the dict: <<b, c>> when the entry of b is older
    ban,            \* _banned_until: seconds left (0: over, not removed yet), or None
    bannedPaths,    \* _banned_paths
    open,           \* requests past the gate
    recent,         \* history: a client's latest strikes since its last ban
    dropped         \* history: clients that lost strikes to the cap

failBanVars == <<strikes, before, ban, bannedPaths, open, recent, dropped>>

Hit == [age : 0..Window + 1, path : Paths]

FailBanInit ==
    /\ strikes = [c \in Clients |-> <<>>]
    /\ before = {}
    /\ ban = [c \in Clients |-> None]
    /\ bannedPaths = [c \in Clients |-> {}]
    /\ open = <<>>
    /\ recent = [c \in Clients |-> <<>>]
    /\ dropped = {}
-----------------------------------------------------------------------------
\* hits without its leading strikes that are older than limit.
FirstSince(hits, limit) ==
    CHOOSE n \in 1..Len(hits) + 1 :
        /\ \A i \in 1..n - 1 : hits[i].age > limit
        /\ n <= Len(hits) => hits[n].age <= limit
Since(hits, limit) == SubSeq(hits, FirstSince(hits, limit), Len(hits))

\* The strikes of hits that count, for the history below.
Timely(hits) == Since(hits, Window)

\* Mutant: a strike as old as the window is too old.
LiveStrictly(hits) == Since(hits, Window - 1)

\* Mutant: strikes are never too old.
LiveAlways(hits) == hits

\* The pruning of record() and _trim(): strikes leave the deque from the left
\* while they are expired.
Live(hits) == Since(hits, Window)

Banned == {c \in Clients : ban[c] # None}
Striking(table) == {c \in Clients : table[c] # <<>>}

\* No property looks at more than Threshold strikes.
Latest(hits) == SubSeq(hits, IF Len(hits) > Threshold THEN 2 ELSE 1, Len(hits))

\* An entry that exists keeps its place in the dict; a new one comes last.
Entered(c) == IF c \in Striking(strikes) THEN before ELSE before \cup (Striking(strikes) \X {c})

\* _trim: the oldest entries go while strikes and bans together exceed the cap.
\* A ban is never dropped, so with enough of them every entry goes.
Overflow(entries, bans) ==
    IF entries + bans <= MaxTracked THEN 0
    ELSE IF bans >= MaxTracked THEN entries ELSE entries + bans - MaxTracked

Oldest(entries, order, n) ==
    {c \in entries : Cardinality({b \in entries : <<b, c>> \in order}) < n}

\* is_banned(client, path)
IsBanned(c, p) == ban[c] # None /\ ban[c] > 0 /\ p \in bannedPaths[c]

\* GuardMiddleware: allow list, block list, ban.
Refused(c, p) ==
    \/ Allowed # {} /\ c \notin Allowed
    \/ c \in Blocked
    \/ c \notin Exempt /\ IsBanned(c, p)
-----------------------------------------------------------------------------
\* A request at the gate.  Asking about an expired ban removes it, whichever
\* the path; the lists come first, so a client they refuse is not asked about.
Listed(c) == (Allowed = {} \/ c \in Allowed) /\ c \notin Blocked

Arrive(c, p) ==
    /\ Len(open) < MaxOpen
    /\ open' = IF Refused(c, p) THEN open ELSE Append(open, [client |-> c, path |-> p])
    /\ LET over == Listed(c) /\ ban[c] = 0 IN
         /\ ban' = IF over THEN [ban EXCEPT ![c] = None] ELSE ban
         /\ bannedPaths' = IF over THEN [bannedPaths EXCEPT ![c] = {}] ELSE bannedPaths
    /\ UNCHANGED <<strikes, before, recent, dropped>>

Close(i) == open' = RemoveAt(open, i)

\* The handler runs within its limits.
Serve(i) ==
    /\ Close(i)
    /\ UNCHANGED <<strikes, before, ban, bannedPaths, recent, dropped>>

\* ViolationTracker.record for a client that is not exempt.
Strike(c, p) ==
    LET now  == [age |-> 0, path |-> p]
        hits == Live(Append(strikes[c], now))
        all  == Append(recent[c], now)
        hot  == Len(hits) >= Threshold
        kept == [strikes EXCEPT ![c] = IF hot THEN <<>> ELSE hits]
        left == [d \in Clients |-> Live(kept[d])]
        bans == Cardinality(Banned \cup (IF hot THEN {c} ELSE {}))
        gone == Oldest(Striking(left), Entered(c), Overflow(Cardinality(Striking(left)), bans))
    IN  /\ ban' = IF hot THEN [ban EXCEPT ![c] = BanTime] ELSE ban
        /\ bannedPaths' =
             IF hot THEN [bannedPaths EXCEPT ![c] = {hits[i].path : i \in DOMAIN hits}]
             ELSE bannedPaths
        /\ strikes' = [d \in Clients |-> IF d \in gone THEN <<>> ELSE left[d]]
        /\ before' = Entered(c) \cap (Striking(strikes') \X Striking(strikes'))
        /\ recent' = [recent EXCEPT ![c] = IF hot THEN <<>> ELSE Latest(Timely(all))]
        /\ dropped' = (dropped \ (IF hot THEN {c} ELSE {})) \cup gone

\* RateLimitExceeded: the handler of main.py, or _enforce for an MCP tool,
\* records the violation and the request is refused.
OverLimit(i) ==
    LET c == open[i].client IN
    /\ c \notin Exempt
    /\ Close(i)
    /\ Strike(c, open[i].path)

\* Time passes.  Nothing is removed: strikes and bans are pruned on access.
Older(h) == [h EXCEPT !.age = IF @ > Window THEN @ ELSE @ + 1]

Aged(hits) == [i \in DOMAIN hits |-> Older(hits[i])]

Tick ==
    /\ strikes' = [c \in Clients |-> Aged(strikes[c])]
    /\ ban' = [c \in Clients |-> IF ban[c] \in {None, 0} THEN ban[c] ELSE ban[c] - 1]
    /\ recent' = [c \in Clients |-> Timely(Aged(recent[c]))]
    /\ dropped' = {c \in dropped : recent'[c] # <<>>}
    /\ UNCHANGED <<before, bannedPaths, open>>

\* The process restarts: all of it was in memory.
Restart ==
    /\ strikes' = [c \in Clients |-> <<>>]
    /\ before' = {}
    /\ ban' = [c \in Clients |-> None]
    /\ bannedPaths' = [c \in Clients |-> {}]
    /\ open' = <<>>
    /\ recent' = [c \in Clients |-> <<>>]
    /\ dropped' = {}

FailBanNext ==
    \/ Restart
    \/ \E c \in Clients, p \in Paths : Arrive(c, p)
    \/ \E i \in 1..Len(open) : Serve(i) \/ OverLimit(i)
    \/ Tick

FailBanSpec == FailBanInit /\ [][FailBanNext]_failBanVars
-----------------------------------------------------------------------------
(***************************************************************************)
(* Properties                                                              *)
(***************************************************************************)
\* Threshold strikes within Window bring a ban, whatever expires, is asked
\* about or overflows in between; the one way out is that the table is full
\* of others' bans and newer strikes.
OffendersAreBanned == \A c \in Clients \ dropped : Len(recent[c]) < Threshold

\* A ban covers only paths the client overran within Window, since the ban
\* before: no strike counts twice, and no old one widens a ban.
BanIsScoped ==
    [][\A c \in Clients : bannedPaths'[c] \notin {{}, bannedPaths[c]} =>
         \A p \in bannedPaths'[c] :
            \/ \E i \in DOMAIN recent[c] : recent[c][i].path = p /\ recent[c][i].age <= Window
            \/ \E i \in DOMAIN open : open[i] = [client |-> c, path |-> p]]_failBanVars
=============================================================================
