------------------------- MODULE MCRefreshTokens -------------------------
\* RefreshTokens for TLC: users, tokens and requests are interchangeable.
EXTENDS RefreshTokens, TLC

Symmetry ==
    Permutations(Users) \cup Permutations(Tokens) \cup Permutations(Requests)
=============================================================================
