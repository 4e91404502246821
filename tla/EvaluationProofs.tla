-------------------------- MODULE EvaluationProofs --------------------------
(* Theorems about Evaluation, for any bodies, policy, batch size and number *)
(* of requests.                                                             *)
EXTENDS Evaluation, IntegerFacts, SequenceTheorems, TLAPS

\* The check digit as the code computes it is the official one, for every sum.
\* (checkDigit: "sum*10%11%10".)
LEMMA CheckDigitIsOfficial ==
  ASSUME NEW sum \in Nat
  PROVE  LET d == DigitOf(sum)
         IN  /\ d \in 0 .. 9
             /\ (sum + d) % 11 = 0 \/ (d = 0 /\ (sum + 10) % 11 = 0)
             /\ \A e \in 0 .. 9 : (sum + e) % 11 = 0 => e = d
             /\ (sum + 10) % 11 = 0 => d = 0
<1> DEFINE q == sum \div 11
           r == sum % 11
<1>1. q \in Nat /\ r \in 0 .. 10 /\ sum = 11 * q + r
  BY SMT
<1> HIDE DEF q, r
<1>2. (sum * 10) % 11 = (r * 10) % 11
  <2>1. sum * 10 = 11 * (10 * q) + r * 10
    BY <1>1, SMT
  <2> QED BY <2>1, <1>1, SMT
<1>3. \A e \in 0 .. 10 : (sum + e) % 11 = (r + e) % 11
  BY <1>1, SMT
<1>4. r \in {0, 1, 2, 3, 4, 5, 6, 7, 8, 9, 10}
  BY <1>1, SMT
<1> QED
  BY <1>2, <1>3, <1>4, SMT DEF DigitOf

\* The sum that a loop adds up is that of the products, whatever the order.
LEMMA WeightedSumIsSum ==
  ASSUME NEW prefix, NEW len \in Nat, DOMAIN prefix = 1 .. len, Len(prefix) = len,
         \A i \in 1 .. len : prefix[i] \in 0 .. 9
  PROVE  LET products == [i \in DOMAIN prefix |-> prefix[i] * (Len(prefix) + 2 - i)]
         IN  /\ WeightedSum(prefix) = SumFunction(products)
             /\ SumFunction(products) \in Nat
<1> DEFINE D == DOMAIN prefix
           g == [i \in D |-> i]
           f == [i \in D |-> prefix[i] * (Len(prefix) + 2 - i)]
           P(it) == it = [t \in SUBSET DOMAIN g |->
                            IF t = {} THEN 0
                            ELSE it[t \ {Max(t)}] + prefix[g[Max(t)]] * (Len(prefix) + 2 - g[Max(t)])]
           W == CHOOSE it : P(it)
           pick == [t \in SUBSET D |-> Max(t)]
<1>1. WeightedSum(prefix) = W[DOMAIN g]
  BY Zenon DEF WeightedSum, FoldLeftDomain, FoldLeft, MapThenFoldSet
<1>2. IsFiniteSet(D) BY FS_Interval
<1>3. \A i \in D : f[i] \in Nat
  <2> TAKE i \in D
  <2>1. i \in Int /\ i >= 1 /\ i <= len /\ prefix[i] \in 0 .. 9 OBVIOUS
  <2> DEFINE a == prefix[i]
             b == len + 2 - i
  <2>2. a \in Nat /\ b \in Nat BY <2>1
  <2>3. f[i] = a * b OBVIOUS
  <2> HIDE DEF a, b, f
  <2> QED BY <2>2, <2>3
<1>4. IntOn(f, D) BY <1>3 DEF IntOn
<1>5. Picks(pick, D)
  <2> SUFFICES ASSUME NEW t \in SUBSET D, t # {} PROVE pick[t] \in t
    BY DEF Picks
  <2>1. t \in SUBSET (1 .. len) OBVIOUS
  <2>2. PICK x \in t : \A y \in t : y <= x BY <2>1, LastPosition
  <2>3. \A y \in t : x >= y BY <2>1, <2>2
  <2>4. Max(t) \in t BY <2>3 DEF Max
  <2> QED BY <2>4
<1>6. PICK exact : IsSum(exact, D, f) BY <1>2, <1>4, SumOfFunction
<1> DEFINE step(it, t) == IF t = {} THEN 0
                          ELSE it[t \ {Max(t)}] + prefix[g[Max(t)]] * (Len(prefix) + 2 - g[Max(t)])
<1>7. ASSUME NEW it, NEW t \in SUBSET D
      PROVE  step(it, t) = IF t = {} THEN 0 ELSE it[t \ {pick[t]}] + f[pick[t]]
  <2>1. CASE t = {} BY <2>1
  <2>2. CASE t # {}
    <3>1. pick[t] = Max(t) /\ pick[t] \in D BY <1>5, <2>2 DEF Picks
    <3>2. g[Max(t)] = Max(t) /\ f[Max(t)] = prefix[Max(t)] * (Len(prefix) + 2 - Max(t))
      BY <3>1
    <3> HIDE DEF f, g, pick
    <3> QED BY <2>2, <3>1, <3>2
  <2> QED BY <2>1, <2>2
<1>8. DOMAIN g = D OBVIOUS
<1>9. P(exact)
  <2> DEFINE h == [t \in SUBSET D |-> step(exact, t)]
  <2>1. \A t \in SUBSET D : exact[t] = step(exact, t)
    <3> TAKE t \in SUBSET D
    <3> HIDE DEF step, f, D, pick
    <3>1. CASE t = {} BY <1>6, <1>7, <3>1 DEF IsSum
    <3>2. CASE t # {}
      <4>1. pick[t] \in t BY <1>5, <3>2 DEF Picks
      <4>2. step(exact, t) = exact[t \ {pick[t]}] + f[pick[t]] BY <1>7, <3>2
      <4> QED BY <1>6, <4>1, <4>2 DEF IsSum
    <3> QED BY <3>1, <3>2
  <2>2. exact = h
    <3> HIDE DEF step, f
    <3> QED BY <1>6, <2>1 DEF IsSum
  <2> QED BY <1>8, <2>2
<1>10. P(W)
  <2> HIDE DEF P
  <2> QED BY <1>9
<1>11. \A t \in SUBSET D : W[t] = step(W, t)
  <2> DEFINE h == [t \in SUBSET D |-> step(W, t)]
  <2>1. W = h BY <1>8, <1>10
  <2>2. \A t \in SUBSET D : h[t] = step(W, t) OBVIOUS
  <2> HIDE DEF h, step, W
  <2> QED BY <2>1, <2>2
<1>12. \A t \in SUBSET D : W[t] = IF t = {} THEN 0 ELSE W[t \ {pick[t]}] + f[pick[t]]
  <2> HIDE DEF W, step, f, pick, D
  <2> QED BY <1>7, <1>11
<1>13. W[D] = SumFunctionOnSet(f, D)
  <2> HIDE DEF W, f, pick, D
  <2> QED BY <1>2, <1>4, <1>5, <1>12, AddingUpIsSum
<1>14. SumFunction(f) = SumFunctionOnSet(f, D)
  <2>1. DOMAIN f = D OBVIOUS
  <2> HIDE DEF f, D
  <2> QED BY <2>1 DEF SumFunction
<1>15. SumFunctionOnSet(f, D) \in Nat
  <2> HIDE DEF f, D
  <2> QED BY <1>2, <1>3, SumIsNat
<1> HIDE DEF W
<1> QED BY <1>1, <1>8, <1>13, <1>14, <1>15

\* A check digit is the one the code computes if and only if it is official.
LEMMA DigitIsOfficial ==
  ASSUME NEW prefix, NEW len \in Nat, DOMAIN prefix = 1 .. len, Len(prefix) = len,
         \A i \in 1 .. len : prefix[i] \in 0 .. 9, NEW digit \in 0 .. 9
  PROVE  digit = checkDigit(prefix) <=> IsOfficial(digit, prefix)
<1> DEFINE sum == SumFunction([i \in DOMAIN prefix |-> prefix[i] * (Len(prefix) + 2 - i)])
<1>1. WeightedSum(prefix) = sum /\ sum \in Nat BY WeightedSumIsSum
<1>2. IsOfficial(digit, prefix) <=>
        (sum + digit) % 11 = 0 \/ (digit = 0 /\ (sum + 10) % 11 = 0)
  BY Zenon DEF IsOfficial
<1> HIDE DEF sum
<1>3. checkDigit(prefix) = DigitOf(sum) BY <1>1 DEF checkDigit
<1> QED BY <1>1, <1>2, <1>3, CheckDigitIsOfficial

\* The validation finds nothing wrong with what is a CPF, and with nothing else.
LEMMA CodeIsOfficial ==
  ASSUME NEW cpf
  PROVE  CpfCode(cpf) = "" <=> IsCpf(cpf)
<1>1. CASE Len(cpf) # 11 \/ \E i \in 1 .. 11 : cpf[i] \notin 0 .. 9
  BY <1>1 DEF CpfCode, IsCpf
<1>2. CASE Len(cpf) = 11 /\ \A i \in 1 .. 11 : cpf[i] \in 0 .. 9
  <2>1. ASSUME NEW k \in 9 .. 10
        PROVE  cpf[k + 1] = checkDigit(SubSeq(cpf, 1, k)) <=> IsOfficial(cpf[k + 1], SubSeq(cpf, 1, k))
    <3> DEFINE s == SubSeq(cpf, 1, k)
    <3>1. \A i \in 1 .. k : cpf[i] \in 0 .. 9 BY <1>2
    <3>2. k \in Int /\ k \in Nat /\ 1 <= k OBVIOUS
    <3>3. s \in Seq(0 .. 9) /\ Len(s) = k
      BY <3>1, <3>2, SubSeqProperties
    <3>4. cpf[k + 1] \in 0 .. 9 BY <1>2
    <3> HIDE DEF s
    <3>5. DOMAIN s = 1 .. k /\ \A i \in 1 .. k : s[i] \in 0 .. 9 BY <3>2, <3>3
    <3>6. cpf[k + 1] = checkDigit(s) <=> IsOfficial(cpf[k + 1], s)
      BY <3>2, <3>3, <3>4, <3>5, DigitIsOfficial
    <3> QED BY <3>6 DEF s
  <2>2. /\ cpf[10] = checkDigit(SubSeq(cpf, 1, 9)) <=> IsOfficial(cpf[10], SubSeq(cpf, 1, 9))
        /\ cpf[11] = checkDigit(SubSeq(cpf, 1, 10)) <=> IsOfficial(cpf[11], SubSeq(cpf, 1, 10))
    <3>1. 9 \in 9 .. 10 /\ 10 \in 9 .. 10 /\ 9 + 1 = 10 /\ 10 + 1 = 11 OBVIOUS
    <3> QED BY <2>1, <3>1
  <2>3. (\A i \in 2 .. 11 : cpf[i] = cpf[1]) <=> ~ \E i \in 1 .. 11 : cpf[i] # cpf[1]
    <3>1. \A i \in 1 .. 11 : i = 1 \/ i \in 2 .. 11 OBVIOUS
    <3>2. \A i \in 2 .. 11 : i \in 1 .. 11 OBVIOUS
    <3> QED BY <3>1, <3>2, Zenon
  <2>4. CpfCode(cpf) = IF \A i \in 2 .. 11 : cpf[i] = cpf[1] THEN "repeated_digits"
                       ELSE IF \/ cpf[10] # checkDigit(SubSeq(cpf, 1, 9))
                               \/ cpf[11] # checkDigit(SubSeq(cpf, 1, 10))
                            THEN "invalid_check_digits" ELSE ""
    <3>1. ~ (Len(cpf) # 11 \/ \E i \in 1 .. 11 : cpf[i] \notin 0 .. 9) BY <1>2
    <3> QED BY <3>1, Zenon DEF CpfCode
  <2> DEFINE same == \A i \in 2 .. 11 : cpf[i] = cpf[1]
             ten == cpf[10] = checkDigit(SubSeq(cpf, 1, 9))
             eleven == cpf[11] = checkDigit(SubSeq(cpf, 1, 10))
  <2>5. CpfCode(cpf) = "" <=> ~ same /\ ten /\ eleven
    BY <2>4
  <2> QED BY <1>2, <2>2, <2>3, <2>5, Zenon DEF IsCpf
<1> QED BY <1>1, <1>2

\* Validation lets through exactly who is fit.
LEMMA ViolatesIsUnfit ==
  ASSUME NEW c
  PROVE  ~ Violates(c) <=> Fit(c)
BY CodeIsOfficial, Zenon DEF Violates, Fit

-----------------------------------------------------------------------------
(* The inductive invariant. *)

Puts == transit \cup decisions

\* Rows of one ID are equal, are of a request that was made, and say what the
\* policy says; a request has rows only once it is let through.
RowInv ==
  /\ \A r, s \in Puts : r.id = s.id => r = s
  /\ \A r \in Puts : r.id \in 1 .. n /\ r.result = Decision(r.customer)
  /\ \A r \in items : r.id \in 1 .. n
  /\ pc = "received" => \A r \in Puts \cup items : r.id # n
  /\ pc = "saving" => /\ route = "one" /\ result = Decision(customer)
                      /\ \A r \in Puts : r.id = n => r = Row
                      /\ \A r \in items : r.id # n

\* The request being handled has no answer yet, and an answer agrees with the
\* rows of its request, those in transit included.
AnswerInv ==
  /\ pc # "idle" => \A a \in answers : a.of # n
  /\ \A a \in answers :
       /\ a.of \in 1 .. n
       /\ a.status = 200 => \E d \in decisions : d.id = a.of /\ d.result = a.result
       /\ a.status \in {400, 422} => \A r \in Puts \cup items : r.id # a.of
       /\ a.status = 202 => /\ \A r \in Puts : r.id # a.of
                            /\ {r.position : r \in {s \in items : s.id = a.of}} = DOMAIN a.body
       /\ a.route = "one" => \A r \in items : r.id # a.of

\* Only what was answered is read.
ReadInv ==
  /\ read.id = 0 => read.status # 200
  /\ read.id # 0 => \E a \in answers : a.of = read.id
  /\ \A a \in answers : a.of = read.id /\ a.status = 200 =>
       read.status = 500 \/ (read.status = 200 /\ read.result = a.result)

PcInv ==
  /\ pc \in {"idle", "received", "saving"} /\ n \in Nat
  /\ pc # "idle" => n >= 1

IInv == PcInv /\ RowInv /\ AnswerInv /\ ReadInv

LEMMA InitInv == EvalInit => IInv
BY SMT DEF EvalInit, IInv, PcInv, RowInv, AnswerInv, ReadInv, Puts

\* Where an action leaves the rows and answers of a request alone, or adds to them.
LEMMA PcStep == IInv /\ [EvalNext]_evars => PcInv'
<1> SUFFICES ASSUME IInv, [EvalNext]_evars PROVE PcInv'
  OBVIOUS
<1> USE DEF IInv, PcInv, asked
<1>1. CASE Posts
  BY <1>1, SMT DEF Posts
<1>2. CASE UNCHANGED evars
  BY <1>2, SMT DEF evars
<1>3. CASE \/ RefusesUndecoded \/ RefusesInvalid \/ RefusesTooLarge
           \/ SaveSucceeds \/ SaveFails \/ Submits \/ SubmitFails
  BY <1>3, SMT DEF RefusesUndecoded, RefusesInvalid, RefusesTooLarge, SaveSucceeds,
     SaveFails, Submits, SubmitFails, Answers
<1>4. CASE Decides \/ Resends \/ Dies
  BY <1>4, SMT DEF Decides, Accepts, Resends, Dies
<1>5. CASE (\E row \in transit : Lands(row)) \/ (\E id \in Known : Reads(id))
  BY <1>5, SMT DEF Lands, Reads
<1> QED
  BY <1>1, <1>2, <1>3, <1>4, <1>5 DEF EvalNext

LEMMA RowStep == IInv /\ [EvalNext]_evars => RowInv'
<1> SUFFICES ASSUME IInv, [EvalNext]_evars PROVE RowInv'
  OBVIOUS
<1> USE DEF IInv, PcInv, RowInv, Puts, asked, stores, decided
<1>1. CASE Posts
  BY <1>1, SMT DEF Posts
<1>2. CASE UNCHANGED evars
  BY <1>2, SMT DEF evars, Row
<1>3. CASE RefusesUndecoded \/ RefusesInvalid \/ RefusesTooLarge \/ SaveSucceeds \/ SaveFails
  BY <1>3, SMT DEF RefusesUndecoded, RefusesInvalid, RefusesTooLarge, SaveSucceeds,
     SaveFails, Answers
<1>4. CASE Submits \/ SubmitFails \/ Dies
  <2>1. ASSUME NEW S PROVE \A r \in Rows(S) : r.id = n
    BY DEF Rows
  <2> QED
    BY <1>4, <2>1, SMT DEF Submits, SubmitFails, Dies, Answers, Submitting, Accepts
<1>5. CASE Decides
  BY <1>5, SMT DEF Decides, Accepts, Row
<1>6. CASE Resends
  BY <1>6, SMT DEF Resends, Row
<1>7. ASSUME NEW row \in transit, Lands(row) PROVE RowInv'
  BY <1>7, SMT DEF Lands, Row
<1>8. ASSUME NEW id \in Known, Reads(id) PROVE RowInv'
  BY <1>8, SMT DEF Reads, Row
<1> QED
  BY <1>1, <1>2, <1>3, <1>4, <1>5, <1>6, <1>7, <1>8 DEF EvalNext

LEMMA AnswerStep == IInv /\ [EvalNext]_evars => AnswerInv'
<1> SUFFICES ASSUME IInv, [EvalNext]_evars PROVE AnswerInv'
  OBVIOUS
<1> USE DEF IInv, PcInv, RowInv, AnswerInv, Puts, asked, stores, decided
<1>1. CASE Posts
  BY <1>1, SMT DEF Posts
<1>2. CASE UNCHANGED evars
  BY <1>2, SMT DEF evars
<1>3. CASE RefusesUndecoded \/ RefusesInvalid \/ RefusesTooLarge
  BY <1>3, SMT DEF RefusesUndecoded, RefusesInvalid, RefusesTooLarge, Answers, Accepts
<1>4. CASE SaveSucceeds \/ SaveFails
  BY <1>4, SMT DEF SaveSucceeds, SaveFails, AfterSaveError, Answers, Row
<1> DEFINE Of(set, id) == {r.position : r \in {s \in set : s.id = id}}
<1>5. ASSUME NEW S, items' = items \cup Rows(S), pc = "received"
      PROVE  /\ \A id : id # n => Of(items', id) = Of(items, id)
             /\ Of(items', n) = S
             /\ \A r \in items' : r.id # n => r \in items
  <2>1. \A r \in Rows(S) : r.id = n /\ r.position \in S
    BY DEF Rows
  <2>2. ASSUME NEW i \in S PROVE \E r \in Rows(S) : r.id = n /\ r.position = i
    <3>1. [id |-> n, position |-> i, customer |-> Validated[i]] \in Rows(S)
      BY DEF Rows
    <3> QED BY <3>1
  <2>3. \A r \in items : r.id # n
    BY <1>5
  <2>4. ASSUME NEW id, id # n PROVE Of(items', id) = Of(items, id)
    <3>1. {s \in items' : s.id = id} = {s \in items : s.id = id}
      BY <1>5, <2>1, <2>4
    <3> QED BY <3>1
  <2>5. Of(items', n) = S
    <3>1. {s \in items' : s.id = n} = Rows(S)
      BY <1>5, <2>1, <2>3
    <3>2. {r.position : r \in Rows(S)} = S
      BY <2>1, <2>2
    <3> QED BY <3>1, <3>2
  <2> QED BY <1>5, <2>1, <2>4, <2>5
<1>a. \A a \in answers : a.status = 202 => Of(items, a.of) = DOMAIN a.body
  OBVIOUS
<1>b. ASSUME NEW S, items' = items \cup Rows(S), pc = "received",
             transit' = transit, decisions' = decisions, n' = n,
             \E status \in {0, 202, 503} :
               /\ status = 0 => answers' = answers
               /\ status = 202 => S = DOMAIN body
               /\ status # 0 => \E a : /\ answers' = answers \cup {a}
                                       /\ a.of = n /\ a.status = status
                                       /\ a.body = body /\ a.route = "batch",
             pc' = "idle"
      PROVE  AnswerInv'
  <2>1. \A a \in answers' : a.status = 202 => Of(items', a.of) = DOMAIN a.body
    BY <1>a, <1>b, <1>5
  <2>2. \A a \in answers' : a \in answers \/ (a.of = n /\ a.route = "batch" /\ a.status \in {202, 503})
    BY <1>b
  <2>3. \A a \in answers' : a.status = 202 => {r.position : r \in {s \in items' : s.id = a.of}} = DOMAIN a.body
    BY <2>1
  <2>4. \A r \in items' : r.id # n => r \in items
    BY <1>b, <1>5
  <2> HIDE DEF Of
  <2> QED BY <1>b, <2>2, <2>3, <2>4, SMT
<1>6. CASE Submits
  BY <1>6, <1>b, SMT DEF Submits, Submitting, Accepts, Answers
<1>7. CASE SubmitFails
  BY <1>7, <1>b, SMT DEF SubmitFails, AfterSubmitError, Submitting, Accepts, Answers
<1>8. CASE Dies
  <2>1. CASE Submitting
    BY <1>8, <2>1, <1>b, SMT DEF Dies, Submitting, Accepts
  <2>2. CASE ~Submitting
    <3>1. Rows({}) = {}
      BY DEF Rows
    <3>2. items' = items
      <4>1. PICK left \in SUBSET {} : items' = items \cup Rows(left)
        BY <1>8, <2>2, SMT DEF Dies
      <4>2. left = {}
        OBVIOUS
      <4> QED BY <3>1, <4>1, <4>2
    <3> QED BY <1>8, <3>2, SMT DEF Dies
  <2> QED BY <2>1, <2>2
<1>9. CASE Decides
  BY <1>9, SMT DEF Decides, Accepts
<1>10. CASE Resends
  BY <1>10, SMT DEF Resends, Row
<1>11. ASSUME NEW row \in transit, Lands(row) PROVE AnswerInv'
  BY <1>11, SMT DEF Lands
<1>12. ASSUME NEW id \in Known, Reads(id) PROVE AnswerInv'
  BY <1>12, SMT DEF Reads
<1> QED
  BY <1>1, <1>2, <1>3, <1>4, <1>6, <1>7, <1>8, <1>9, <1>10, <1>11, <1>12 DEF EvalNext

LEMMA ReadStep == IInv /\ [EvalNext]_evars => ReadInv'
<1> SUFFICES ASSUME IInv, [EvalNext]_evars PROVE ReadInv'
  OBVIOUS
<1> USE DEF IInv, PcInv, RowInv, AnswerInv, ReadInv, Puts, asked, stores
<1>1. CASE read' = read /\ answers' = answers
  BY <1>1, SMT
<1>2. ASSUME NEW status, pc # "idle", Answers(status) PROVE ReadInv'
  BY <1>2, SMT DEF Answers
<1>3. ASSUME NEW id \in Known, Reads(id) PROVE ReadInv'
  <2>1. id = 0 \/ \E a \in answers : a.of = id /\ a.status = 200
    BY DEF Known
  <2> QED BY <1>3, <2>1, SMT DEF Reads
<1>4. CASE \/ RefusesUndecoded \/ RefusesInvalid \/ RefusesTooLarge
           \/ SaveSucceeds \/ SaveFails \/ Submits \/ SubmitFails
  BY <1>4, <1>2, SMT DEF RefusesUndecoded, RefusesInvalid, RefusesTooLarge, SaveSucceeds,
     SaveFails, Submits, SubmitFails, Submitting, Accepts
<1>5. CASE Posts \/ Decides \/ Resends \/ Dies \/ UNCHANGED evars
           \/ \E row \in transit : Lands(row)
  BY <1>5, <1>1, SMT DEF Posts, Decides, Resends, Dies, Lands, evars
<1> QED
  BY <1>3, <1>4, <1>5 DEF EvalNext

LEMMA Inductive == EvalSpec => []IInv
<1>1. IInv /\ [EvalNext]_evars => IInv'
  BY PcStep, RowStep, AnswerStep, ReadStep DEF IInv
<1> QED
  BY <1>1, InitInv, PTL DEF EvalSpec

-----------------------------------------------------------------------------
\* Who is told a decision finds it on record and reads it for ever, as the policy
\* decided it (evaluate.Evaluate, Decisions.Save and Get).
THEOREM AnsweredIsOnRecord == EvalSpec => []AnswersStayOnRecord
<1>1. IInv => AnswersStayOnRecord
  BY SMT DEF IInv, RowInv, AnswerInv, ReadInv, Puts, AnswersStayOnRecord
<1> QED
  BY <1>1, Inductive, PTL

\* A request answered 400 or 422 left nothing and never will, one answered 202
\* left a row for each customer, and a single evaluation at most one row
\* (httpapi.one and enqueue).
THEOREM NothingOfTheRefused == EvalSpec => []RefusedLeaveNothing
<1>1. IInv => RefusedLeaveNothing
  <2> SUFFICES ASSUME IInv, NEW a \in answers
               PROVE  LET of == {r \in decisions \cup items : r.id = a.of}
                      IN  /\ a.status \in {400, 422} => of = {} /\ \A t \in transit : t.id # a.of
                          /\ a.status = 202 => {r.position : r \in of} = DOMAIN a.body
                          /\ a.route = "one" => \A r, s \in of : r = s
    BY DEF RefusedLeaveNothing
  <2> DEFINE of == {r \in decisions \cup items : r.id = a.of}
  <2> USE DEF IInv, RowInv, AnswerInv, Puts
  <2>1. a.status \in {400, 422} => of = {} /\ \A t \in transit : t.id # a.of
    OBVIOUS
  <2>2. ASSUME a.status = 202 PROVE {r.position : r \in of} = DOMAIN a.body
    <3>1. of = {s \in items : s.id = a.of}
      BY <2>2
    <3> QED BY <2>2, <3>1
  <2>3. a.route = "one" => \A r, s \in of : r = s
    OBVIOUS
  <2> QED BY <2>1, <2>2, <2>3
<1> QED
  BY <1>1, Inductive, PTL

\* Types, which the theorems below use.
LEMMA TypeCorrect == EvalSpec => []EvalTypeOK
<1> DEFINE Typed ==
      /\ n <= MaxRequests /\ body \in Bodies \cup {<<>>}
      /\ \A r \in items : r.position \in 1 .. MaxCustomers
      /\ \A a \in answers : a.status \in {200, 202, 400, 422, 503}
      /\ pc = "saving" => customer = Validated[1]
<1>1. EvalInit => Typed
  BY EvaluationAssumption, SMT DEF EvalInit
<1>2. IInv /\ Typed /\ [EvalNext]_evars => Typed'
  <2> SUFFICES ASSUME IInv, Typed, [EvalNext]_evars PROVE Typed'
    OBVIOUS
  <2> USE EvaluationAssumption DEF IInv, PcInv, asked, stores, decided
  <2>1. CASE Posts
    BY <2>1, SMT DEF Posts
  <2>2. CASE \/ RefusesUndecoded \/ RefusesInvalid \/ RefusesTooLarge
             \/ SaveSucceeds \/ SaveFails
    <3>1. /\ \A a \in answers' : a \in answers \/ a.status \in {200, 400, 422, 503}
          /\ UNCHANGED <<asked, items>> /\ pc' = "idle"
      BY <2>2 DEF RefusesUndecoded, RefusesInvalid, RefusesTooLarge, SaveSucceeds,
         SaveFails, AfterSaveError, Answers
    <3> QED BY <3>1
  <2>3. ASSUME NEW S, \A i \in S : i \in DOMAIN body, Submitting
        PROVE  \A r \in Rows(S) : r.position \in 1 .. MaxCustomers
    <3> DEFINE C == [score : Int, invoice : Int, limit : Int, late : Int,
                     spend : Seq(Int), named : BOOLEAN, cpf : Seq(Nat)]
    <3>1. body \in Seq(C)
      BY <2>3 DEF Submitting, Accepts
    <3> HIDE DEF C
    <3>2. DOMAIN body \subseteq 1 .. MaxCustomers
      <4> DEFINE len == Len(body)
      <4>1. len \in Nat /\ DOMAIN body = 1 .. len
        BY <3>1
      <4>2. ~(len > MaxCustomers) /\ MaxCustomers \in Nat
        BY <2>3 DEF Submitting, TooLarge
      <4> HIDE DEF len
      <4> QED BY <4>1, <4>2, SMT
    <3>3. \A r \in Rows(S) : r.position \in S
      BY DEF Rows
    <3> QED BY <2>3, <3>2, <3>3
  <2>4. CASE Submits
    <3>1. \A r \in items' : r.position \in 1 .. MaxCustomers
      <4>1. Submitting /\ items' = items \cup Rows(DOMAIN body)
        BY <2>4 DEF Submits
      <4> QED BY <2>3, <4>1
    <3> QED BY <2>4, <3>1, SMT DEF Submits, Answers
  <2>5. CASE SubmitFails
    <3>1. \A r \in items' : r.position \in 1 .. MaxCustomers
      <4>1. PICK left \in SUBSET DOMAIN body : items' = items \cup Rows(left)
        BY <2>5 DEF SubmitFails
      <4>2. Submitting /\ \A i \in left : i \in DOMAIN body
        BY <2>5 DEF SubmitFails
      <4>3. \A r \in Rows(left) : r.position \in 1 .. MaxCustomers
        BY <2>3, <4>2
      <4> QED BY <4>1, <4>3
    <3> QED BY <2>5, <3>1, SMT DEF SubmitFails, AfterSubmitError, Answers
  <2>6. CASE Dies
    <3>1. Rows({}) = {}
      BY DEF Rows
    <3>2. PICK left \in SUBSET (IF Submitting THEN DOMAIN body ELSE {}) :
                 items' = items \cup Rows(left)
      BY <2>6 DEF Dies
    <3>3. \A r \in items' : r.position \in 1 .. MaxCustomers
      <4>1. CASE Submitting
        <5>1. \A i \in left : i \in DOMAIN body
          BY <3>2, <4>1
        <5>2. \A r \in Rows(left) : r.position \in 1 .. MaxCustomers
          BY <2>3, <4>1, <5>1
        <5> QED BY <3>2, <5>2
      <4>2. CASE ~Submitting
        <5>1. left = {}
          BY <3>2, <4>2, SMT
        <5> QED BY <3>1, <3>2, <5>1
      <4> QED BY <4>1, <4>2
    <3> QED BY <2>6, <3>3, SMT DEF Dies
  <2>7. CASE Decides
    BY <2>7, SMT DEF Decides, Validated
  <2>8. ASSUME Resends \/ (\E row \in transit : Lands(row)) \/ (\E id \in Known : Reads(id))
               \/ UNCHANGED evars
        PROVE  UNCHANGED <<pc, asked, decided, items, answers>>
    BY <2>8 DEF Resends, Lands, Reads, evars
  <2>9. ASSUME UNCHANGED <<pc, asked, decided, items, answers>> PROVE Typed'
    BY <2>9, SMT DEF Validated
  <2> QED
    BY <2>1, <2>2, <2>4, <2>5, <2>6, <2>7, <2>8, <2>9 DEF EvalNext
<1>3. IInv /\ Typed => EvalTypeOK
  BY SMT DEF IInv, PcInv, RowInv, AnswerInv, Puts, EvalTypeOK
<1> HIDE DEF Typed
<1> QED
  BY <1>1, <1>2, <1>3, Inductive, PTL DEF EvalSpec

-----------------------------------------------------------------------------
(* Whose the rows are. *)

\* What is stored under an ID, or is still on its way there, is one row, however
\* often its put was sent; and once the request that drew the ID is answered, by a
\* 200 or a 503, the row is the decision on the customer of that request's body.
RowIsOfItsRequest ==
  /\ \A r, s \in Puts : r.id = s.id => r = s
  /\ \A a \in answers, r \in Puts : r.id = a.of =>
       /\ a.route = "one" /\ a.body # <<>>
       /\ r.customer = Normalized(a.body[1])
       /\ r.result = Decision(r.customer)

RequestInv ==
  /\ pc = "saving" => body # <<>>
  /\ \A a \in answers, r \in Puts : r.id = a.of =>
       /\ a.route = "one" /\ a.body # <<>>
       /\ r.customer = Normalized(a.body[1])

\* A body that is not empty has a first customer.
LEMMA FirstOfBody ==
  ASSUME body \in Bodies, body # <<>>
  PROVE  1 \in DOMAIN body
<1> DEFINE C == [score : Int, invoice : Int, limit : Int, late : Int,
                 spend : Seq(Int), named : BOOLEAN, cpf : Seq(Nat)]
<1>1. body \in Seq(C) BY EvaluationAssumption
<1> HIDE DEF C
<1> QED BY <1>1

LEMMA RequestStep == IInv /\ EvalTypeOK /\ RequestInv /\ [EvalNext]_evars => RequestInv'
<1> SUFFICES ASSUME IInv, EvalTypeOK, RequestInv, [EvalNext]_evars PROVE RequestInv'
  OBVIOUS
<1> USE DEF RequestInv, Puts, asked, stores, decided
<1>1. CASE Posts \/ Dies \/ UNCHANGED evars
  BY <1>1 DEF Posts, Dies, evars
<1>2. CASE RefusesUndecoded \/ RefusesInvalid \/ RefusesTooLarge \/ Submits \/ SubmitFails
  <2>1. pc = "received" /\ pc' = "idle" /\ Puts' = Puts
    BY <1>2 DEF RefusesUndecoded, RefusesInvalid, RefusesTooLarge, Submits, SubmitFails,
       Submitting, Accepts, Answers
  <2>2. \A a \in answers' : a \in answers \/ a.of = n
    BY <1>2 DEF RefusesUndecoded, RefusesInvalid, RefusesTooLarge, Submits, SubmitFails, Answers
  <2>3. \A r \in Puts : r.id # n
    BY <2>1 DEF IInv, RowInv
  <2> QED BY <2>1, <2>2, <2>3
<1>3. CASE SaveSucceeds \/ SaveFails
  <2>1. /\ pc = "saving" /\ pc' = "idle" /\ Puts' = Puts
        /\ \A a \in answers' : a \in answers \/ (a.of = n /\ a.route = route /\ a.body = body)
    BY <1>3 DEF SaveSucceeds, SaveFails, Answers
  <2>2. route = "one" /\ body # <<>> /\ \A r \in Puts : r.id = n => r.customer = customer
    BY <2>1 DEF IInv, RowInv, Row
  <2>3. customer = Normalized(body[1])
    BY <2>1, <2>2, FirstOfBody DEF EvalTypeOK, Validated
  <2> QED BY <2>1, <2>2, <2>3
<1>4. CASE Decides \/ Resends
  <2>1. /\ \A r \in Puts' : r \in Puts \/ r.id = n
        /\ answers' = answers /\ pc # "idle" /\ pc' = "saving" /\ body' # <<>>
    BY <1>4 DEF Decides, Resends, Accepts, Row
  <2>2. \A a \in answers : a.of # n
    BY <2>1 DEF IInv, AnswerInv
  <2> QED BY <2>1, <2>2
<1>5. ASSUME NEW row \in transit, Lands(row) PROVE RequestInv'
  BY <1>5 DEF Lands
<1>6. ASSUME NEW id \in Known, Reads(id) PROVE RequestInv'
  BY <1>6 DEF Reads
<1> QED
  BY <1>1, <1>2, <1>3, <1>4, <1>5, <1>6 DEF EvalNext

\* No put that lands late, twice or after its sender gave up is stored under another
\* request's ID or with another customer (evaluate.Evaluate, Decisions.Save).
THEOREM RowsAreOfTheirRequests == EvalSpec => []RowIsOfItsRequest
<1>1. EvalInit => RequestInv
  BY DEF EvalInit, RequestInv
<1>2. IInv /\ RequestInv => RowIsOfItsRequest
  BY DEF IInv, RowInv, RequestInv, RowIsOfItsRequest
<1> QED BY <1>1, <1>2, Inductive, TypeCorrect, RequestStep, PTL DEF EvalSpec

-----------------------------------------------------------------------------
(* What is stored. *)

\* Whoever is on record, on the way to it or about to be, is fit, and who is
\* refused as invalid is not.
FitInv ==
  /\ \A r \in Puts \cup items : Fit(r.customer)
  /\ pc = "saving" => Fit(customer)
  /\ \A a \in answers : a.status = 422 =>
       \/ Len(a.body) > MaxCustomers
       \/ \E i \in DOMAIN a.body : ~Fit(Normalized(a.body[i]))

\* A request is let through if every customer of it is fit.
LEMMA RefusalIsOfTheUnfit ==
  ~Refusal <=> \A i \in DOMAIN body : Fit(Validated[i]) /\ Validated[i] = Normalized(body[i])
BY ViolatesIsUnfit DEF Refusal, Validated

LEMMA FitStep == IInv /\ EvalTypeOK /\ FitInv /\ [EvalNext]_evars => FitInv'
<1> SUFFICES ASSUME IInv, EvalTypeOK, FitInv, [EvalNext]_evars PROVE FitInv'
  OBVIOUS
<1> USE DEF FitInv, Puts, asked, stores, decided
<1>1. ASSUME NEW S, Accepts("batch"), \A i \in S : i \in DOMAIN body
      PROVE  \A r \in Rows(S) : Fit(r.customer)
  BY <1>1, RefusalIsOfTheUnfit DEF Rows, Accepts
<1>2. CASE Posts BY <1>2 DEF Posts
<1>3. CASE RefusesUndecoded BY <1>3 DEF RefusesUndecoded, Answers
<1>4. CASE RefusesInvalid
  <2>1. \E i \in DOMAIN body : ~Fit(Normalized(body[i]))
    BY <1>4, ViolatesIsUnfit DEF RefusesInvalid, Refusal, Validated
  <2> QED BY <1>4, <2>1 DEF RefusesInvalid, Answers
<1>5. CASE RefusesTooLarge
  BY <1>5 DEF RefusesTooLarge, TooLarge, Answers
<1>6. CASE Decides
  <2>1. 1 \in DOMAIN body
    BY <1>6, FirstOfBody DEF Decides, Accepts, EvalTypeOK
  <2>2. Fit(Validated[1]) BY <1>6, <2>1, RefusalIsOfTheUnfit DEF Decides, Accepts
  <2> QED BY <1>6, <2>2 DEF Decides
<1>7. CASE Resends BY <1>7 DEF Resends, Row
<1>8. CASE SaveSucceeds \/ SaveFails
  BY <1>8 DEF SaveSucceeds, SaveFails, AfterSaveError, Answers
<1>9. CASE Submits
  <2>1. \A r \in items' : Fit(r.customer)
    BY <1>1, <1>9 DEF Submits, Submitting
  <2> QED BY <1>9, <2>1 DEF Submits, Answers
<1>10. CASE SubmitFails
  <2>1. PICK left \in SUBSET DOMAIN body : items' = items \cup Rows(left)
    BY <1>10 DEF SubmitFails
  <2>2. \A r \in items' : Fit(r.customer)
    BY <1>1, <1>10, <2>1 DEF SubmitFails, Submitting
  <2> QED BY <1>10, <2>2 DEF SubmitFails, AfterSubmitError, Answers
<1>11. CASE Dies
  <2>1. PICK left \in SUBSET (IF Submitting THEN DOMAIN body ELSE {}) :
               items' = items \cup Rows(left)
    BY <1>11 DEF Dies
  <2>2. \A r \in items' : Fit(r.customer)
    <3>1. CASE Submitting BY <1>1, <2>1, <3>1 DEF Submitting
    <3>2. CASE ~Submitting
      <4>1. left = {} BY <2>1, <3>2
      <4>2. Rows({}) = {} BY DEF Rows
      <4> QED BY <2>1, <4>1, <4>2
    <3> QED BY <3>1, <3>2
  <2> QED BY <1>11, <2>2 DEF Dies
<1>12. ASSUME NEW row \in transit, Lands(row) PROVE FitInv' BY <1>12 DEF Lands
<1>13. ASSUME NEW id \in Known, Reads(id) PROVE FitInv' BY <1>13 DEF Reads
<1>14. CASE UNCHANGED evars BY <1>14 DEF evars
<1> QED
  BY <1>2, <1>3, <1>4, <1>5, <1>6, <1>7, <1>8, <1>9, <1>10, <1>11, <1>12, <1>13, <1>14
  DEF EvalNext

\* FitIsWhatIsStored for any bodies: the stripping, the validation and the check
\* digits store a customer exactly if the CPF is official and no amount negative,
\* and a decision shows five of its digits (Customer.Validate, checkDigit, MaskCPF).
THEOREM FitIsStored == EvalSpec => []FitIsWhatIsStored
<1>1. EvalInit => FitInv BY DEF EvalInit, FitInv, Puts
<1>2. IInv /\ FitInv => FitIsWhatIsStored
  <2> SUFFICES ASSUME IInv, FitInv PROVE FitIsWhatIsStored OBVIOUS
  <2>1. ASSUME NEW d \in decisions, NEW i \in 1 .. 11
        PROVE  d.result.masked[i] = IF i \in 4 .. 9 THEN Letter ELSE d.customer.cpf[i]
    <3>1. d.result = Decision(d.customer) /\ Fit(d.customer)
      BY DEF IInv, RowInv, FitInv, Puts
    <3>2. d.result.masked = MaskCPF(d.customer.cpf) BY <3>1 DEF Decision
    <3>3. Len(d.customer.cpf) = 11 BY <3>1 DEF Fit, IsCpf
    <3> QED BY <3>2, <3>3 DEF MaskCPF
  <2> QED BY <2>1 DEF FitInv, FitIsWhatIsStored, Puts
<1> QED BY <1>1, <1>2, Inductive, TypeCorrect, FitStep, PTL DEF EvalSpec
=============================================================================
