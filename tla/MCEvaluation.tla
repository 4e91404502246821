---------------------------- MODULE MCEvaluation ----------------------------
(* An instance of Evaluation for TLC, with the policy of MCPolicy.          *)
EXTENDS Evaluation

NewPolicyBands ==
  <<[minScore |-> 8, share |-> 8], [minScore |-> 7, share |-> 5], [minScore |-> 6, share |-> 3]>>

Zeros(len) == [i \in 1 .. len |-> 0]

\* First digits whose weighted sums leave every remainder by 11.
FirstDigits == {<<k>> \o Zeros(7) \o <<1>> : k \in 0 .. 9} \cup {<<9>> \o Zeros(6) \o <<7, 1>>}

Complete(prefix) ==
  LET ten == Append(prefix, CHOOSE d \in 0 .. 9 : IsOfficial(d, prefix))
  IN  Append(ten, CHOOSE d \in 0 .. 9 : IsOfficial(d, ten))

ACpf == Complete(<<3, 9, 0, 5, 3, 3, 4, 4, 7>>)
Punctuated ==
  SubSeq(ACpf, 1, 3) \o <<Dot>> \o SubSeq(ACpf, 4, 6) \o <<Dot>> \o SubSeq(ACpf, 7, 9)
    \o <<Dash>> \o SubSeq(ACpf, 10, 11)

CPFs ==
  {Complete(p) : p \in FirstDigits}
  \cup {[ACpf EXCEPT ![i] = (ACpf[i] + 1) % 10] : i \in {2, 10, 11}}
  \cup {ACpf, Punctuated, SubSeq(ACpf, 1, 10), Append(ACpf, 0), [ACpf EXCEPT ![5] = Letter],
        [i \in 1 .. 11 |-> 1]}

Ana == [score |-> 7, invoice |-> 1, limit |-> 10, late |-> 0, spend |-> <<1, 2, 1>>,
        named |-> TRUE, cpf |-> Punctuated]
Denied == [Ana EXCEPT !.score = 5]
Unfit == {[Ana EXCEPT !.late = -1], [Ana EXCEPT !.spend = <<1, -1>>], [Ana EXCEPT !.named = FALSE]}

MCBodies ==
  {<<>>, <<Denied>>} \cup {<<[Ana EXCEPT !.cpf = c]>> : c \in CPFs} \cup {<<c>> : c \in Unfit}
  \cup UNION {[1 .. len -> {Ana, CHOOSE c \in Unfit : TRUE}] : len \in 2 .. 3}
=============================================================================
