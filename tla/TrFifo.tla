------------------------------- MODULE TrFifo -------------------------------
(***************************************************************************)
(* What the XFR2TR ring promises firmware that respects the depth of the   *)
(* submit FIFO: a first-in first-out queue of TR IDs, each copied exactly  *)
(* once and in the order of submission (xfr/task_ring_accelerator.py,      *)
(* "Landing order is submission order").  Only a submission that finds     *)
(* more than Depth IDs outstanding may break the promise, and then nothing *)
(* is promised until the next reset.                                       *)
(***************************************************************************)
EXTENDS Naturals, Sequences

CONSTANTS Depth,         \* IDs the FIFO holds
          MaxIdsPerXout  \* IDs one XOUT carries at most

VARIABLES queue,      \* IDs accepted and not yet copied, oldest first
          delivered,  \* IDs copied since the last reset, in order
          broken      \* TRUE after an overrun, until the next reset

fifoVars == <<queue, delivered, broken>>

FifoInit == queue = <<>> /\ delivered = <<>> /\ broken = FALSE

\* IDs are numbered in the order they are submitted.
NextId == Len(delivered) + Len(queue) + 1

Enqueue(n) ==
  /\ ~broken
  /\ queue' = queue \o [i \in 1..n |-> NextId + i - 1]
  /\ UNCHANGED <<delivered, broken>>

Deliver ==
  /\ ~broken /\ queue # <<>>
  /\ delivered' = Append(delivered, Head(queue))
  /\ queue' = Tail(queue)
  /\ UNCHANGED broken

\* The only excuse: firmware submitted more than the FIFO holds.
Overrun(n) == ~broken /\ Len(queue) + n > Depth /\ broken'

Clear == queue' = <<>> /\ delivered' = <<>> /\ ~broken'

FifoNext ==
  \/ \E n \in 1..MaxIdsPerXout : Enqueue(n) \/ Overrun(n)
  \/ Deliver
  \/ Clear
  \/ broken /\ broken'

FifoSpec == FifoInit /\ [][FifoNext]_fifoVars
=============================================================================
