-------------------------- MODULE MCBatchPipeline --------------------------
(* Instances of BatchPipeline for TLC. They have one item: what several     *)
(* items in one relay batch add is checked in MCPublisher, and the theorems *)
(* of BatchPipelineProofs hold of any number of items.                      *)
EXTENDS BatchPipeline, TLC

CONSTANTS i1, c1, c2, o1, o2

OneItem      == {i1}
OneCopy      == {c1}
TwoCopies    == {c1, c2}
OneOperator  == {o1}
TwoOperators == {o1, o2}

\* Messages of others in the queue at the start.
NoMessages  == {}
NoItemNamed == {NoItem}
BothKinds   == {NoBatch, NoItem}

\* No property tells the two decisions apart.
OneVerdict == [i \in OneItem |-> "APPROVED"]

\* The copies of a message are interchangeable, and so are the operators.
CopySymmetry     == Permutations(TwoCopies)
OperatorSymmetry == Permutations(TwoOperators)
=============================================================================
