--------------------------- MODULE TokenLineage ---------------------------
(***************************************************************************)
(* What refresh-token families promise, with no requests, no races and no  *)
(* database: docs/refresh-token-families.md.  A lineage starts with the    *)
(* token of a login and grows by one token per redemption; a valid token   *)
(* is redeemed for exactly one successor, and a revoked lineage is over.   *)
(* RefreshTokens is the code, and is shown to implement this.              *)
(***************************************************************************)
CONSTANTS
    Tokens,     \* refresh-token hashes
    None        \* "no lineage": a token that was never issued

VARIABLES
    lineage,    \* lineage[t]: first token of the lineage t belongs to
    valid,      \* the tokens a refresh would accept
    dead        \* revoked lineages

vars == <<lineage, valid, dead>>

Init ==
    /\ lineage = [t \in Tokens |-> None]
    /\ valid = {}
    /\ dead = {}

\* A login starts a lineage of its own.
Issue(n) ==
    /\ lineage[n] = None
    /\ lineage' = [lineage EXCEPT ![n] = n]
    /\ valid' = valid \cup {n}
    /\ UNCHANGED dead

\* A refresh trades one valid token for one successor.
Redeem(t, n) ==
    /\ t \in valid
    /\ lineage[n] = None
    /\ lineage' = [lineage EXCEPT ![n] = lineage[t]]
    /\ valid' = (valid \ {t}) \cup {n}
    /\ UNCHANGED dead

\* A replay, a logout or a disabled account ends lineages for good.
Revoke(F) ==
    /\ \A f \in F : lineage[f] = f
    /\ dead' = dead \cup F
    /\ valid' = {t \in valid : lineage[t] \notin F}
    /\ UNCHANGED lineage

Next ==
    \/ \E n \in Tokens : Issue(n)
    \/ \E t, n \in Tokens : Redeem(t, n)
    \/ \E F \in SUBSET Tokens : Revoke(F)

Spec == Init /\ [][Next]_vars
=============================================================================
