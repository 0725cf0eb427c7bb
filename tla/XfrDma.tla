------------------------------- MODULE XfrDma -------------------------------
(***************************************************************************)
(* The XFRDMA threads of one core (xfr/xfrdma_accelerator.py): a FIFO of   *)
(* packets per receive thread, and one transmit thread that shares its XID *)
(* with a receive thread.  A transfer the accelerator holds is executed    *)
(* again, the same instruction, until it retires (PRUCore.step).           *)
(*                                                                         *)
(* The bytes of a receive thread are numbered in the order the peer        *)
(* injects them, and a transmitted payload is the number of its            *)
(* instruction, so that a lost, doubled or reordered one shows.            *)
(***************************************************************************)
EXTENDS Integers, SequencesExt

CONSTANTS
  RxThreads,    \* RX_THREADS
  TxThread,     \* XFRDMA_TX_THREAD
  TxMax,        \* tx_max
  MaxInjected,  \* bound: bytes injected into a thread
  MaxTransfer,  \* bound: bytes of a transfer and of a packet
  MaxRetired    \* bound: payloads the firmware sends

ASSUME ThreadAssumption == TxThread \in RxThreads /\ TxMax \in Nat \ {0}

VARIABLES
  stallWhenFull, \* stall_when_full, fixed when the bridge is built
  rxFifo,        \* rx_fifos
  txFifo,        \* tx_fifos[TxThread]
  txDropped,     \* tx_dropped
  held,          \* the transfer the core is held on, or NoTransfer
  injected,      \* history: bytes injected into each thread
  ends,          \* history: last byte of every packet injected
  taken,         \* history: bytes of each thread that reached a register
  retired,       \* history: payloads whose instruction has retired
  drained        \* history: payloads the peer has drained or lost to drops

dmaVars == <<stallWhenFull, rxFifo, txFifo, txDropped, held,
             injected, ends, taken, retired, drained>>

NoTransfer == [op |-> "none", thread |-> TxThread, length |-> 0]
Transfers == [op : {"XIN", "XOUT", "XCHG"}, thread : RxThreads, length : 1..MaxTransfer]

DmaTypeOK ==
  /\ stallWhenFull \in BOOLEAN
  /\ rxFifo \in [RxThreads -> Seq(Seq(Nat))]
  /\ txFifo \in Seq(Nat) /\ txDropped \in Nat
  /\ held \in Transfers \cup {NoTransfer}
  /\ injected \in [RxThreads -> Nat] /\ taken \in [RxThreads -> Nat]
  /\ ends \in [RxThreads -> SUBSET Nat]
  /\ retired \in Nat /\ drained \in Seq(Nat)

Nothing(v) == [t \in RxThreads |-> v]

DmaInit ==
  /\ stallWhenFull \in BOOLEAN
  /\ rxFifo = Nothing(<< >>) /\ txFifo = << >> /\ txDropped = 0
  /\ held = NoTransfer
  /\ injected = Nothing(0) /\ taken = Nothing(0) /\ ends = Nothing({})
  /\ retired = 0 /\ drained = << >>
-----------------------------------------------------------------------------
\* inject_rx and drain_tx, the peer's side.
Inject ==
  /\ \E t \in RxThreads, n \in 1..MaxTransfer :
       /\ injected[t] + n <= MaxInjected
       /\ rxFifo' = [rxFifo EXCEPT ![t] = Append(@, [i \in 1..n |-> injected[t] + i])]
       /\ injected' = [injected EXCEPT ![t] = @ + n]
       /\ ends' = [ends EXCEPT ![t] = @ \cup {injected[t] + n}]
  /\ UNCHANGED <<stallWhenFull, txFifo, txDropped, held, taken, retired, drained>>

Drain ==
  /\ txFifo # << >>
  /\ drained' = drained \o txFifo
  /\ txFifo' = << >>
  /\ UNCHANGED <<stallWhenFull, rxFifo, txDropped, held, injected, ends, taken, retired>>

\* _consume_rx: at most the rest of the packet at the head.
Consume(fifo, n) ==
  IF fifo = << >> THEN [bytes |-> << >>, rest |-> << >>]
  ELSE IF Len(Head(fifo)) > n
       THEN [bytes |-> SubSeq(Head(fifo), 1, n),
             rest |-> <<SubSeq(Head(fifo), n + 1, Len(Head(fifo)))>> \o Tail(fifo)]
       ELSE [bytes |-> Head(fifo), rest |-> Tail(fifo)]

\* The bytes the thread has; the rest of the registers is filled with zeros.
Receive(t, n) ==
  /\ rxFifo' = [rxFifo EXCEPT ![t] = Consume(@, n).rest]
  /\ taken' = [taken EXCEPT ![t] = @ + Len(Consume(rxFifo[t], n).bytes)]

Full == Len(txFifo) >= TxMax

Queue == txFifo' = Append(txFifo, retired + 1) /\ UNCHANGED txDropped
DropPayload == txDropped' = txDropped + 1 /\ UNCHANGED txFifo

\* A payload to the transmit thread; without a peer a full thread drops it.
Send ==
  /\ \/ ~Full /\ Queue
     \/ Full /\ ~stallWhenFull /\ DropPayload
  /\ retired' = retired + 1

\* Seeded fault: a payload the full thread holds is queued all the same.
HoldQueues(tr) ==
  /\ tr.thread = TxThread /\ Full /\ stallWhenFull
  /\ held' = tr
  /\ txFifo' = Append(txFifo, retired + 1)
  /\ UNCHANGED <<rxFifo, txDropped, taken, retired>>

\* Seeded fault: a held XCHG has taken its bytes already.
HoldTakes(tr) ==
  /\ tr.thread = TxThread /\ Full /\ stallWhenFull
  /\ held' = tr
  /\ rxFifo' = IF tr.op = "XCHG" THEN [rxFifo EXCEPT ![tr.thread] = Consume(@, tr.length).rest]
                                ELSE rxFifo
  /\ UNCHANGED <<txFifo, txDropped, taken, retired>>

\* hold_pc: neither side moves and the instruction is executed again.
Hold(tr) ==
  /\ tr.thread = TxThread /\ Full /\ stallWhenFull
  /\ held' = tr
  /\ UNCHANGED <<rxFifo, txFifo, txDropped, taken, retired>>

Xin(tr) ==
  /\ Receive(tr.thread, tr.length)
  /\ held' = NoTransfer
  /\ UNCHANGED <<txFifo, txDropped, retired>>

\* A write to a receive-only thread is discarded.
Xout(tr) ==
  \/ /\ IF tr.thread = TxThread THEN retired < MaxRetired /\ Send
        ELSE UNCHANGED <<txFifo, txDropped, retired>>
     /\ held' = NoTransfer
     /\ UNCHANGED <<rxFifo, taken>>
  \/ Hold(tr)

Xchg(tr) ==
  \/ /\ Receive(tr.thread, tr.length)
     /\ IF tr.thread = TxThread THEN retired < MaxRetired /\ Send
        ELSE UNCHANGED <<txFifo, txDropped, retired>>
     /\ held' = NoTransfer
  \/ Hold(tr)

\* The transfer the firmware executes next, the held one if there is one.
Transfer ==
  /\ \E tr \in Transfers :
       /\ held \in {NoTransfer, tr}
       /\ \/ tr.op = "XIN" /\ Xin(tr)
          \/ tr.op = "XOUT" /\ Xout(tr)
          \/ tr.op = "XCHG" /\ Xchg(tr)
  /\ UNCHANGED <<stallWhenFull, injected, ends, drained>>

\* A core reset empties both sides.
ResetDma ==
  /\ rxFifo' = Nothing(<< >>) /\ txFifo' = << >> /\ txDropped' = 0
  /\ held' = NoTransfer
  /\ injected' = Nothing(0) /\ taken' = Nothing(0) /\ ends' = Nothing({})
  /\ retired' = 0 /\ drained' = << >>
  /\ UNCHANGED stallWhenFull

Dma == Inject \/ Drain \/ Transfer \/ ResetDma

DmaSpec == DmaInit /\ [][Dma]_dmaVars
-----------------------------------------------------------------------------
\* Every payload whose instruction retired is in the thread or with the peer
\* once and in order, or was dropped and counted; with stall_when_full none is
\* dropped, however often the instruction was executed while it was held.
SentOnce ==
  LET sent == drained \o txFifo IN
  /\ \A i, j \in 1..Len(sent) : i < j => sent[i] < sent[j]
  /\ \A i \in 1..Len(sent) : sent[i] \in 1..retired
  /\ Len(sent) + txDropped = retired
  /\ stallWhenFull => txDropped = 0

\* Bytes reach the registers in the order they were injected and none is lost,
\* not by a held XCHG either, and no transfer goes on past the end of a packet.
ReceivedInOrder ==
  [][\A t \in RxThreads :
       /\ FlattenSeq(rxFifo'[t]) = [i \in 1..injected'[t] - taken'[t] |-> taken'[t] + i]
       /\ \A e \in ends[t] : ~(taken[t] < e /\ e < taken'[t])]_dmaVars

\* Both directions, with the transfer held on the full thread in between.
DmaIsExact == [][SentOnce']_dmaVars /\ ReceivedInOrder
=============================================================================
