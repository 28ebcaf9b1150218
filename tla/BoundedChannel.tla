--------------------------- MODULE BoundedChannel ---------------------------
(***************************************************************************)
(* What the buffer of src/ex16_cond_wait/main.c is for: a FIFO channel of  *)
(* bounded capacity that carries 0, 1, ..., ITEMS - 1.                     *)
(***************************************************************************)
EXTENDS Integers, Sequences

CONSTANTS CAPACITY, ITEMS

VARIABLES
  sent,     \* how many items were sent
  queue,    \* the items under way
  received  \* the items received

vars == <<sent, queue, received>>

Init == sent = 0 /\ queue = <<>> /\ received = <<>>

Send ==
  /\ sent < ITEMS /\ Len(queue) < CAPACITY
  /\ queue' = Append(queue, sent)
  /\ sent' = sent + 1
  /\ UNCHANGED received

Receive ==
  /\ queue # <<>>
  /\ received' = Append(received, Head(queue))
  /\ queue' = Tail(queue)
  /\ UNCHANGED sent

Next == Send \/ Receive

Spec == Init /\ [][Next]_vars
FairSpec == Spec /\ WF_vars(Send) /\ WF_vars(Receive)
=============================================================================
