-------------------------- MODULE MCKafkaReceiver --------------------------
(* Every way to mark and to commit, the two initial offsets, and a topic    *)
(* without and with a message that never passes.                            *)
EXTENDS KafkaReceiver

CONSTANTS p1, p2

MCPartitions == {p1, p2}
MCMessages   == [p \in MCPartitions |-> IF p = p1 THEN 2 ELSE 1]

Marks(autocommit, after, onError, initial) ==
  [autocommit |-> autocommit, after |-> after, onError |-> onError, initial |-> initial]

Passing == [malformed |-> {}, rejected |-> {}]

MCStarts ==
  {<<Marks(TRUE, FALSE, FALSE, "latest"), Passing>>,
   <<Marks(FALSE, FALSE, FALSE, "earliest"), [Passing EXCEPT !.malformed = {<<p1, 0>>}]>>,
   <<Marks(TRUE, TRUE, FALSE, "earliest"), Passing>>,
   <<Marks(FALSE, TRUE, FALSE, "earliest"), [Passing EXCEPT !.malformed = {<<p1, 1>>}]>>,
   <<Marks(TRUE, TRUE, TRUE, "earliest"), [Passing EXCEPT !.rejected = {<<p1, 0>>}]>>}
=============================================================================
