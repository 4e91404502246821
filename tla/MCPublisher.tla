---------------------------- MODULE MCPublisher ----------------------------
(* An instance of Publisher for TLC.                                        *)
EXTENDS Publisher

CONSTANTS i1, i2

TwoItems == {i1, i2}

\* Shards that start with work (records that are none before it only delay it) and
\* hold at most one record that is none, between others: i1 moving on, or one
\* that nobody can read.
FewShards ==
  LET Queued(i) == [item |-> i, status |-> "QUEUED"]
      Others    == {Unreadable, [item |-> i1, status |-> "MOVED"]}
  IN  {s \in [1 .. Last -> Change] :
        /\ s[1] = Queued(i1)
        /\ \A k \in {1, 2, 4, Last} : s[k] \in {Queued(i1), Queued(i2)}
        /\ s[3] \in {Queued(i1), Queued(i2)} \cup Others}
=============================================================================
