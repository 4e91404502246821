------------------------------ MODULE MCPolicy ------------------------------
(* An instance of Policy for TLC: a tenth stands for a thousand basis       *)
(* points and a score point for a hundred, exact for every cutoff of        *)
(* NewPolicy; integers have 8 bits, so that a sum of months, a limit times  *)
(* a share and an average times the scale each both fit and overflow.       *)
EXTENDS Policy

NewPolicyBands ==
  <<[minScore |-> 8, share |-> 8], [minScore |-> 7, share |-> 5], [minScore |-> 6, share |-> 3]>>

\* The limits and invoices around the largest products that fit.
MCAmounts == {-1, 0, 1, 9, 10, 12, 15, 16, 127}

\* Histories shorter than the window, as long, and longer by one.
MCSpends == UNION {[1 .. n -> {9, 10, 127}] : n \in 0 .. 4}
=============================================================================
