------------------------------ MODULE MCPaging ------------------------------
(* An instance of Paging for TLC.                                           *)
EXTENDS Paging

TwoFilters == {AnyStatus, "FAILED"}

\* Failures under the cap and at it, with an item between them that is queued or
\* decided.
FewBatches ==
  LET Is(s, n) == [status |-> s, attempts |-> n]
  IN  {b \in [Items -> {Is("FAILED", 1), Is("FAILED", MaxAttempts), Is("QUEUED", 1)}] :
        b[N] = Is("FAILED", 1)}
      \cup {[i \in Items |-> Is("DECIDED", 1)]}
=============================================================================
