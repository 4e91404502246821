----------------------------- MODULE Evaluation -----------------------------
(* The two evaluation routes (httpapi.one, enqueue and decision) with the   *)
(* validation of internal/domain and the Decisions table: a request is      *)
(* decoded, validated, decided by the policy and recorded before it is      *)
(* answered. A put whose answer is lost may land later, an invocation may   *)
(* die, and a client asks again. Items.Create is one step here; BatchCreate *)
(* is its detail.                                                           *)
EXTENDS Policy

CONSTANTS
  Bodies,         \* what a client sends: sequences of customers
  MaxCustomers,   \* BATCH_SIZE
  MaxRequests     \* bound on the POST requests

ASSUME EvaluationAssumption ==
  /\ \A b \in Bodies : b \in Seq([score : Int, invoice : Int, limit : Int, late : Int,
                                  spend : Seq(Int), named : BOOLEAN, cpf : Seq(Nat)])
  /\ MaxCustomers \in Nat \ {0} /\ MaxRequests \in Nat

\* customer and result are the policy's: what one holds between its validation
\* and its answer.
VARIABLES
  pc,          \* where the handler stands
  n,           \* requests so far; also the fresh UUID each one draws
  route, body, \* the request; an empty body is one that does not decode
  transit,     \* puts sent to the Decisions table and not applied
  decisions,   \* rows of the Decisions table
  items,       \* rows of the BatchItems table
  answers,     \* every answer given to a POST, with what was sent
  read         \* the last answer to GET /evaluations/{id}

stores == <<transit, decisions, items>>
asked == <<n, route, body>>
decided == <<customer, result>>
evars == <<pc, asked, decided, stores, answers, read>>

-----------------------------------------------------------------------------
\* A character is a digit, or one of these.
Dot == 10
Dash == 11
Letter == 12

\* Go's zero value, which a body is decoded into.
NoCustomer == [score |-> 0, invoice |-> 0, limit |-> 0, late |-> 0,
               spend |-> <<>>, named |-> FALSE, cpf |-> <<>>]

Bare(cpf) == SelectSeq(cpf, LAMBDA ch : ch \notin {Dot, Dash})

WeightedSum(prefix) ==
  FoldLeftDomain(LAMBDA sum, i : sum + prefix[i] * (Len(prefix) + 2 - i), 0, prefix)

\* Mutant: the remainder 10 is left as it is.
WithoutTheLastModulus(sum) == (sum * 10) % 11

DigitOf(sum) == ((sum * 10) % 11) % 10

checkDigit(prefix) == DigitOf(WeightedSum(prefix))

CpfCode(cpf) ==
  CASE Len(cpf) # 11 \/ \E i \in 1 .. 11 : cpf[i] \notin 0 .. 9 -> "invalid_length"
    [] OTHER ->
       IF \A i \in 2 .. 11 : cpf[i] = cpf[1] THEN "repeated_digits"
       ELSE IF \/ cpf[10] # checkDigit(SubSeq(cpf, 1, 9))
               \/ cpf[11] # checkDigit(SubSeq(cpf, 1, 10))
            THEN "invalid_check_digits" ELSE ""

\* Validate changes the customer in place and lists what is wrong with it.
Normalized(c) == [c EXCEPT !.cpf = Bare(c.cpf)]
Violates(c) == CpfCode(c.cpf) # "" \/ ~c.named \/ ~Valid(c)

\* Every digit but the first three and the last two is replaced by a letter.
MaskCPF(cpf) ==
  IF Len(cpf) # 11 THEN <<Letter, Letter, Letter>>
  ELSE [i \in 1 .. 11 |-> IF i \in 4 .. 9 THEN Letter ELSE cpf[i]]

Decision(c) ==
  LET policy == Evaluate(c)
  IN  [decision |-> policy.decision, reason |-> policy.reason, amount |-> policy.amount,
       masked |-> MaskCPF(c.cpf)]

-----------------------------------------------------------------------------
EvalInit ==
  /\ pc = "idle" /\ n = 0 /\ route = "one" /\ body = <<>>
  /\ customer = NoCustomer /\ result = Unevaluated
  /\ transit = {} /\ decisions = {} /\ items = {}
  /\ answers = {} /\ read = [id |-> 0, status |-> 404, result |-> Unevaluated]

\* A client sends a request, perhaps again what an earlier one was not told of.
Posts ==
  /\ pc = "idle" /\ n < MaxRequests
  /\ pc' = "received" /\ n' = n + 1
  /\ route' \in {"one", "batch"} /\ body' \in Bodies
  /\ route' = "one" => Len(body') <= 1
  /\ UNCHANGED <<decided, stores, answers, read>>

Answers(status) ==
  /\ pc' = "idle"
  /\ answers' = answers \cup {[of |-> n, route |-> route, body |-> body,
                               status |-> status, result |-> result]}
  /\ customer' = NoCustomer /\ result' = Unevaluated
  /\ UNCHANGED <<asked, read>>

\* The customers of the body as Validate leaves them.
Validated == [i \in DOMAIN body |-> Normalized(body[i])]
Refusal == \E i \in DOMAIN body : Violates(Validated[i])

RefusesUndecoded ==
  /\ pc = "received" /\ body = <<>>
  /\ Answers(400) /\ UNCHANGED stores

RefusesInvalid ==
  /\ pc = "received" /\ body # <<>> /\ Refusal
  /\ Answers(422) /\ UNCHANGED stores

\* The request is let through by decoding and validation.
Accepts(r) == pc = "received" /\ route = r /\ body # <<>> /\ ~Refusal

Row == [id |-> n, customer |-> customer, result |-> result]

\* The policy decides, an ID is drawn and the put is sent.
Decides ==
  /\ Accepts("one")
  /\ pc' = "saving"
  /\ customer' = Validated[1] /\ result' = Decision(customer')
  /\ transit' = transit \cup {[id |-> n, customer |-> customer', result |-> result']}
  /\ UNCHANGED <<asked, decisions, items, answers, read>>

\* The table applies a put, whether its sender still waits or not.
Lands(row) ==
  /\ transit' = transit \ {row}
  /\ decisions' = {d \in decisions : d.id # row.id} \cup {row}
  /\ UNCHANGED <<pc, asked, decided, items, answers, read>>

\* The SDK sends the put again when it hears nothing.
Resends ==
  /\ pc = "saving" /\ Row \notin transit
  /\ transit' = transit \cup {Row}
  /\ UNCHANGED <<pc, asked, decided, decisions, items, answers, read>>

SaveSucceeds ==
  /\ pc = "saving" /\ Row \in decisions
  /\ Answers(200) /\ UNCHANGED stores

\* Mutant: the error of Save is not looked at.
ErrorIsIgnored == 200
AfterSaveError == 503

SaveFails ==
  /\ pc = "saving"
  /\ Answers(AfterSaveError) /\ UNCHANGED stores

-----------------------------------------------------------------------------
TooLarge == Len(body) > MaxCustomers

RefusesTooLarge ==
  /\ Accepts("batch") /\ TooLarge
  /\ Answers(422) /\ UNCHANGED stores

Submitting == Accepts("batch") /\ ~TooLarge

Rows(positions) ==
  {[id |-> n, position |-> i, customer |-> Validated[i]] : i \in positions}

Submits ==
  /\ Submitting
  /\ items' = items \cup Rows(DOMAIN body)
  /\ Answers(202) /\ UNCHANGED <<transit, decisions>>

\* Mutant: any error of Submit is taken for ErrTooLarge.
AnyErrorIsTooLarge == 422
AfterSubmitError == 503

\* Create fails; its rollback may leave any of the rows.
SubmitFails ==
  /\ Submitting
  /\ \E left \in SUBSET DOMAIN body : items' = items \cup Rows(left)
  /\ Answers(AfterSubmitError) /\ UNCHANGED <<transit, decisions>>

\* The invocation is killed: nothing is answered, a batch may be there in part.
Dies ==
  /\ pc # "idle" /\ pc' = "idle"
  /\ customer' = NoCustomer /\ result' = Unevaluated
  /\ \E left \in SUBSET (IF Submitting THEN DOMAIN body ELSE {}) :
       items' = items \cup Rows(left)
  /\ UNCHANGED <<asked, transit, decisions, answers, read>>

-----------------------------------------------------------------------------
\* GET of an ID a client was told, or of one that was never drawn.
Known == {a.of : a \in {b \in answers : b.status = 200}} \cup {0}

Reads(id) ==
  /\ \/ \E d \in decisions :
          d.id = id /\ read' = [id |-> id, status |-> 200, result |-> d.result]
     \/ /\ \A d \in decisions : d.id # id
        /\ read' = [id |-> id, status |-> 404, result |-> Unevaluated]
     \/ read' = [id |-> id, status |-> 500, result |-> Unevaluated]
  /\ UNCHANGED <<pc, asked, decided, stores, answers>>

EvalNext ==
  \/ Posts \/ RefusesUndecoded \/ RefusesInvalid \/ RefusesTooLarge
  \/ Decides \/ Resends \/ SaveSucceeds \/ SaveFails
  \/ Submits \/ SubmitFails \/ Dies
  \/ \E row \in transit : Lands(row)
  \/ \E id \in Known : Reads(id)

EvalSpec == EvalInit /\ [][EvalNext]_evars

-----------------------------------------------------------------------------
\* Rows and answers are of requests that were made, and one ID has one row.
EvalTypeOK ==
  /\ pc \in {"idle", "received", "saving"}
  /\ n \in 0 .. MaxRequests /\ body \in Bodies \cup {<<>>}
  /\ \A r \in transit \cup decisions : r.id \in 1 .. n
  /\ \A r \in items : r.id \in 1 .. n /\ r.position \in 1 .. MaxCustomers
  /\ \A a \in answers : a.of \in 1 .. n /\ a.status \in {200, 202, 400, 422, 503}
  /\ \A d, e \in decisions : d.id = e.id => d = e
  /\ pc = "saving" => customer = Validated[1] /\ result = Decision(customer)

\* Who is told a decision reads the same decision for ever, whatever lands late
\* or is sent again, and what is told is what the policy says of the customer on
\* record; an ID that was never drawn is a 404 or an error (evaluate.Evaluate
\* saves before it returns, Decisions.Get reads consistently).
AnswersStayOnRecord ==
  /\ \A a \in answers : a.status = 200 =>
       /\ \E d \in decisions : d.id = a.of /\ d.result = a.result
       /\ read.id = a.of =>
            read.status = 500 \/ (read.status = 200 /\ read.result = a.result)
  /\ \A d \in decisions : d.result = Decision(d.customer)
  /\ read.id = 0 => read.status # 200

\* A client that is told 400 or 422 may correct its request and send it again:
\* nothing of it is stored, not of one customer of the batch, then or later. One
\* that is told 202 has a row for every customer, and any other POST has at most
\* one decision on record (one, enqueue and Submit).
RefusedLeaveNothing ==
  \A a \in answers :
    LET of == {r \in decisions \cup items : r.id = a.of}
    IN  /\ a.status \in {400, 422} => of = {} /\ \A t \in transit : t.id # a.of
        /\ a.status = 202 => {r.position : r \in of} = DOMAIN a.body
        /\ a.route = "one" => \A r, s \in of : r = s

\* The official rule: a check digit brings the weighted sum to a multiple of 11,
\* and is 0 where that would take ten.
IsOfficial(digit, prefix) ==
  LET sum == SumFunction([i \in DOMAIN prefix |-> prefix[i] * (Len(prefix) + 2 - i)])
  IN  \/ (sum + digit) % 11 = 0
      \/ digit = 0 /\ (sum + 10) % 11 = 0

IsCpf(cpf) ==
  /\ Len(cpf) = 11 /\ \A i \in 1 .. 11 : cpf[i] \in 0 .. 9
  /\ \E i \in 1 .. 11 : cpf[i] # cpf[1]
  /\ IsOfficial(cpf[10], SubSeq(cpf, 1, 9)) /\ IsOfficial(cpf[11], SubSeq(cpf, 1, 10))

Fit(c) == IsCpf(c.cpf) /\ c.named /\ Valid(c)

\* What is stored, by either route, is a customer of 11 bare digits with official
\* check digits and no negative amount; what is refused as invalid has one that is
\* not, however it is punctuated; and a decision shows five digits of the CPF
\* (Customer.Validate, checkDigit, MaskCPF).
FitIsWhatIsStored ==
  /\ \A r \in decisions \cup items : Fit(r.customer)
  /\ \A a \in answers : a.status = 422 =>
       \/ Len(a.body) > MaxCustomers
       \/ \E i \in DOMAIN a.body : ~Fit(Normalized(a.body[i]))
  /\ \A d \in decisions : \A i \in 1 .. 11 :
       d.result.masked[i] = IF i \in 4 .. 9 THEN Letter ELSE d.customer.cpf[i]
=============================================================================
