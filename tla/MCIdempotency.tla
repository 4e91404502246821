--------------------------- MODULE MCIdempotency ---------------------------
(* An instance of Idempotency for TLC.                                      *)
EXTENDS Idempotency

CONSTANTS a, b, r1, r2

TwoCallers  == {a, b}
TwoRequests == {r1, r2}
=============================================================================
