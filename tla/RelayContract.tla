--------------------------- MODULE RelayContract ---------------------------
(***************************************************************************)
(* What a consumer of the table's stream must promise so that no work is   *)
(* lost, whatever it publishes to, in whatever order and however often:    *)
(* a change that queues an item is passed only once it was sent, or when   *)
(* the same change comes again later. Sending twice is allowed.            *)
(*                                                                         *)
(* Publisher implements this specification.                                *)
(***************************************************************************)
EXTENDS Integers

CONSTANTS
  Last,     \* the number of records of the stream
  Changes,  \* the changes a record may hold
  Work      \* the changes that queue an item

VARIABLES
  stream,    \* the change at each position
  position,  \* the first record not passed
  sent       \* the changes the queue has accepted

vars == <<stream, position, sent>>

Init ==
  /\ stream \in [1..Last -> Changes]
  /\ position = 1
  /\ sent = {}

\* Some of the work not passed is sent.
Send ==
  \E S \in SUBSET {k \in position..Last : stream[k] \in Work} :
    sent' = sent \cup {stream[k] : k \in S}

\* Everything before next is passed.
PassTo(next, accepted) ==
  \A k \in 1..(next - 1) : stream[k] \in Work =>
    stream[k] \in accepted \/ \E j \in next..Last : stream[j] = stream[k]

Pass ==
  \E next \in position..(Last + 1) :
    /\ PassTo(next, sent)
    /\ position' = next
    /\ UNCHANGED sent

Next ==
  /\ UNCHANGED stream
  /\ (Send /\ UNCHANGED position) \/ Pass

Spec == Init /\ [][Next]_vars

=============================================================================
