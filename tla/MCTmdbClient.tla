---------------------------- MODULE MCTmdbClient ----------------------------
(* Small instances of TmdbClient.  The unit of time is 3 s: an attempt      *)
(* takes up to 2, the budget is 4, the breaker stays open for 10.  A        *)
(* backoff is 0 before the second attempt (under 300 ms) and 0 or 1 before  *)
(* the third; a Retry-After asks for 1, or for more than the budget.        *)
EXTENDS TmdbClient

MCBackoffs == [a \in 0..MaxAttempts - 1 |-> IF a = 0 THEN {0} ELSE {0, 1}]
MCRetryAfters == {1, 5}
=============================================================================
