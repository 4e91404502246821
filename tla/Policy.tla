------------------------------- MODULE Policy -------------------------------
(* The product policy: ordered rules decide, the score bands size an        *)
(* approval (internal/rules). Amounts are integers of a given width, so     *)
(* that sums and products overflow as the machine's do.                     *)
EXTENDS Integers, Sequences, SequencesExt

CONSTANTS
  Half,          \* integers are -Half .. Half-1 (2^63 in the program)
  FullShare,     \* the share that is the whole limit (10000 basis points)
  MinScore,      \* MinScore(600)
  MaxLate,       \* MaxLatePayments(2)
  Months,        \* RecentSpend(3, 9000): how many of the last months count
  MaxShare,      \* and the share of the limit their average may take
  Bands,         \* scoreBands, highest score first: [minScore, share]
  Scores, Amounts, Lates, Spends   \* the customers to evaluate

IntRange == -Half .. Half - 1

ASSUME PolicyAssumption ==
  /\ Half \in Nat \ {0} /\ FullShare \in Nat \ {0} /\ Months \in Nat \ {0}
  /\ MinScore \in Int /\ MaxLate \in Int /\ MaxShare \in Nat
  /\ Bands \in Seq([minScore : Int, share : 0 .. FullShare])
  /\ Scores \subseteq IntRange /\ Lates \subseteq IntRange
  /\ Amounts \subseteq IntRange /\ Spends \subseteq Seq(IntRange)

\* A higher band never grants a smaller share.
ASSUME BandsAssumption ==
  \A i, j \in DOMAIN Bands : i < j =>
    Bands[i].minScore > Bands[j].minScore /\ Bands[i].share >= Bands[j].share

\* What Validate lets through: no amount is negative.
Valid(c) ==
  /\ \A v \in {c.score, c.invoice, c.limit, c.late} : v >= 0
  /\ \A i \in DOMAIN c.spend : c.spend[i] >= 0

Customers ==
  {c \in [score : Scores, invoice : Amounts, limit : Amounts,
          late : Lates, spend : Spends] : Valid(c)}

VARIABLES customer, result
vars == <<customer, result>>

Unevaluated == [decision |-> "none", reason |-> "", amount |-> 0]

-----------------------------------------------------------------------------
\* int64 arithmetic: the low bits of the result, and division toward zero.
Wrap(x) == ((x + Half) % (2 * Half)) - Half
Quot(x, n) == IF x >= 0 THEN x \div n ELSE -((-x) \div n)

Passes == ""

BelowMinScore(c) == IF c.score < MinScore THEN "score_below" ELSE Passes
TooManyLate(c) == IF c.late > MaxLate THEN "late_payments_above" ELSE Passes
InvoiceAboveLimit(c) ==
  IF c.invoice > c.limit THEN "invoice_exceeds_credit_limit" ELSE Passes

Recent(s) == SubSeq(s, Len(s) - (IF Len(s) < Months THEN Len(s) ELSE Months) + 1,
                    Len(s))
\* Mutant: a short history is divided by the whole window.
PerMonth(s) == Quot(FoldSeq(LAMBDA v, sum : Wrap(sum + v), 0, s), Months)

Average(s) == Quot(FoldSeq(LAMBDA v, sum : Wrap(sum + v), 0, s), Len(s))

RecentSpend(c) ==
  CASE c.limit <= 0 -> "no_credit_limit"
    [] c.limit > 0 /\ c.spend = <<>> -> "insufficient_spend_history"
    [] OTHER -> IF Wrap(Average(Recent(c.spend)) * FullShare) > Wrap(c.limit * MaxShare)
                THEN "recent_spend_above_share" ELSE Passes

Rules(c) ==
  <<BelowMinScore(c), TooManyLate(c), InvoiceAboveLimit(c), RecentSpend(c)>>

Denying(c) == {i \in 1 .. 4 : Rules(c)[i] # Passes}
First(S) == CHOOSE i \in S : \A j \in S : i <= j

\* Mutant: the comparison turned round.
BandsAbove(c) ==
  LET above == {i \in DOMAIN Bands : c.score < Bands[i].minScore}
  IN  IF above = {} THEN 0 ELSE Bands[First(above)].share

Share(c) ==
  LET reached == {i \in DOMAIN Bands : c.score >= Bands[i].minScore}
  IN  IF reached = {} THEN 0 ELSE Bands[First(reached)].share

\* Mutant: the smaller of the two, not held above zero.
Unclamped(c) ==
  LET byScore  == Quot(Wrap(c.limit * Share(c)), FullShare)
      headroom == Wrap(c.limit - c.invoice)
  IN  IF byScore < headroom THEN byScore ELSE headroom

Amount(c) ==
  LET byScore  == Quot(Wrap(c.limit * Share(c)), FullShare)
      headroom == Wrap(c.limit - c.invoice)
      least    == IF byScore < headroom THEN byScore ELSE headroom
  IN  IF least > 0 THEN least ELSE 0

\* Mutant: the reason of the last rule, not of the one that denied.
LastReason(c) ==
  IF Denying(c) = {}
  THEN [decision |-> "APPROVED", reason |-> "eligible", amount |-> Amount(c)]
  ELSE [decision |-> "DENIED", reason |-> Rules(c)[4], amount |-> 0]

Evaluate(c) ==
  IF Denying(c) = {}
  THEN [decision |-> "APPROVED", reason |-> "eligible", amount |-> Amount(c)]
  ELSE [decision |-> "DENIED", reason |-> Rules(c)[First(Denying(c))], amount |-> 0]

-----------------------------------------------------------------------------
Init == customer \in Customers /\ result = Unevaluated

Evaluates ==
  /\ result = Unevaluated
  /\ result' = Evaluate(customer)
  /\ UNCHANGED customer

Next == Evaluates
Spec == Init /\ [][Next]_vars

-----------------------------------------------------------------------------
\* A result holds one reason of the policy's and an amount of the integers'
\* width (rules.Policy.Evaluate, domain.Result).
Reasons == {"eligible", "score_below", "late_payments_above",
            "invoice_exceeds_credit_limit", "no_credit_limit",
            "insufficient_spend_history", "recent_spend_above_share"}
TypeOK ==
  /\ customer \in Customers
  /\ result = Unevaluated
     \/ result \in [decision : {"APPROVED", "DENIED"}, reason : Reasons, amount : IntRange]

\* An approval never grants more than the limit leaves after the invoice, nor
\* a negative amount - whatever the product of limit and share overflows to
\* (scoreBands.amount).
AmountIsAffordable ==
  result.decision = "APPROVED" =>
    /\ 0 <= result.amount
    /\ result.amount <= customer.limit - customer.invoice

Improved(c, s, i, l) == [c EXCEPT !.score = s, !.invoice = i, !.late = l]

\* Who has a score at least as high, an invoice and late payments at most as
\* high, and the same limit and spend, is approved if the other is, for at least
\* as much, unless a band's product overflows (the order of rules and bands in
\* NewPolicy).
BetterNeverHurts ==
  result.decision = "APPROVED" =>
    \A s \in Scores, i \in Amounts, l \in Lates :
      LET better == Improved(customer, s, i, l)
          other  == Evaluate(better)
      IN  /\ s >= customer.score
          /\ i \in 0 .. customer.invoice
          /\ l \in 0 .. customer.late
          /\ customer.limit * Share(better) \in IntRange
          => /\ other.decision = "APPROVED"
             /\ other.amount >= result.amount

\* The spend rule compares a truncated average: where nothing overflows it
\* denies only who is above the share, and approves nobody who is above it by a
\* cent or more in the average of the months that exist (RecentSpend).
SpendWithinACent ==
  LET months   == Recent(customer.spend)
      n        == Len(months)
      total    == SumFunction(months)
      allowed  == customer.limit * MaxShare
  IN  /\ n > 0
      /\ total \in IntRange /\ allowed \in IntRange
      /\ (total \div n) * FullShare \in IntRange
      => /\ result.reason = "recent_spend_above_share" => total * FullShare > n * allowed
         /\ result.decision = "APPROVED" => total * FullShare < n * (allowed + FullShare)

\* rules.RecentSpend: it "denies when the average spend of the last months
\* exceeds maxShareBPS of the credit limit".
SpendAboveShareIsDenied ==
  LET months == Recent(customer.spend)
      total  == SumFunction(months)
  IN  result.decision = "APPROVED" =>
        total * FullShare <= Len(months) * customer.limit * MaxShare
=============================================================================
