-------------------------- MODULE MCRefreshTokens --------------------------
(* TLC instance of RefreshTokens; the requests are interchangeable.          *)
EXTENDS RefreshTokens, TLC

MCSymmetry == Permutations(Requests)
=============================================================================
