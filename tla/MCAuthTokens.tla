----------------------------- MODULE MCAuthTokens -----------------------------
(* Small instances of AuthTokens: an access token lives one second, a refresh *)
(* token two.  The refreshes are alike.                                       *)
EXTENDS AuthTokens, TLC

CONSTANTS f1, f2

MCRefreshes == {f1, f2}
MCLifetime  == [type \in Types |-> IF type = "access" THEN 1 ELSE 2]
MCSymmetry  == Permutations(MCRefreshes)
===============================================================================
