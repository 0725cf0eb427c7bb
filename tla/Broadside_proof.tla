-------------------------- MODULE Broadside_proof --------------------------
(***************************************************************************)
(* What the broadside units of a core keep for every size of their         *)
(* windows, sums and packets.                                              *)
(*                                                                         *)
(* XFR2VBUS: VbusInv says where the word after the buffered ones comes     *)
(* from, InStep, and that what a reissue or a latched request asks for     *)
(* fits the window; each handler keeps it, and StreamHasNoGap follows.     *)
(*                                                                         *)
(* MAC: SumInv relates the register pair, the carry bit and the products   *)
(* added since the last clear; the sum is exact as long as the carry was   *)
(* not lost.                                                               *)
(*                                                                         *)
(* XFRDMA: Whole(p, s, o, e) says what the queue holds of the packets put  *)
(* in, so that what leaves it, flattened, is what was put in.              *)
(*                                                                         *)
(* CRC: Reached(m, s, bytes, reg) says that the register holds what feeding *)
(* the bytes to the seed leaves.  A run of the register and one of the     *)
(* long division go side by side: after k bits what is left of the         *)
(* dividend is Rest, the register at the top and the bits to come under it. *)
(*                                                                         *)
(* Scratchpads: SentUpTo and BackUpTo say register by register what a      *)
(* rotated transfer has put into the bank and what one back has fetched;   *)
(* an exchange keeps the counts of Holding on both sides together.         *)
(***************************************************************************)
EXTENDS MCBroadside, FiniteSetTheorems, Lemmas

-----------------------------------------------------------------------------
(* XFR2VBUS. *)

LEMMA AddressSpace ==
  ASSUME NEW lo \in 0..LoMod-1, NEW hi \in 0..HiMod-1
  PROVE  hi * LoMod + lo \in Addresses
<1>1. LoMod \in Nat \ {0} /\ HiMod \in Nat \ {0}
  BY AddressAssumption
<1>2. hi * LoMod + lo < (hi + 1) * LoMod
  BY <1>1
<1>3. (hi + 1) * LoMod <= HiMod * LoMod
  BY <1>1
<1>4. LoMod * HiMod = HiMod * LoMod /\ LoMod * HiMod \in Nat
  BY <1>1
<1>5. hi * LoMod + lo \in Nat
  BY <1>1
<1>6. (hi + 1) * LoMod \in Nat
  BY <1>1
<1> QED BY <1>1, <1>2, <1>3, <1>4, <1>5, <1>6 DEF Addresses

LEMMA AddressParts ==
  ASSUME NEW a \in Addresses
  PROVE  /\ a % LoMod \in 0..LoMod-1 /\ a \div LoMod \in 0..HiMod-1
         /\ (a \div LoMod) * LoMod + (a % LoMod) = a
<1>1. LoMod \in Nat \ {0} /\ HiMod \in Nat \ {0} /\ a \in Nat
  BY AddressAssumption DEF Addresses
<1> DEFINE q == a \div LoMod  r == a % LoMod
<1>2. q \in Nat /\ r \in 0..LoMod-1 /\ a = q * LoMod + r
  BY <1>1, DivModParts
<1>3. a < LoMod * HiMod
  BY <1>1 DEF Addresses
<1> HIDE DEF q, r
<1>4. q < HiMod
  <2> SUFFICES ASSUME q >= HiMod PROVE FALSE
    BY <1>1, <1>2
  <2>1. q * LoMod >= HiMod * LoMod
    BY <1>1, <1>2
  <2>2. HiMod * LoMod = LoMod * HiMod /\ LoMod * HiMod \in Nat /\ q * LoMod \in Nat
    BY <1>1, <1>2
  <2> QED BY <1>1, <1>2, <1>3, <2>1, <2>2
<1> QED BY <1>1, <1>2, <1>4 DEF q, r

LEMMA FollowingTyped ==
  ASSUME NEW a \in Addresses, NEW code \in SizeCodes
  PROVE  Following(a, code) \in Addresses
<1>1. LoMod \in Nat \ {0} /\ HiMod \in Nat \ {0} /\ a \in Nat
  BY AddressAssumption DEF Addresses
<1>2. LoMod * HiMod \in Nat \ {0}
  BY <1>1
<1>3. Words[code] \in Nat
  BY SizeAssumption
<1> DEFINE m == LoMod * HiMod  n == a + Words[code]
<1> HIDE DEF m, n
<1>4. n \in Nat /\ m \in Nat \ {0}
  BY <1>1, <1>2, <1>3 DEF n, m
<1>5. n % m \in 0..m-1
  BY <1>4, DivModParts
<1> QED BY <1>5 DEF n, m, Following, Addresses

\* What a channel holds of the stream that owes chunk o next.
InStep(ch, o) ==
  o # Nowhere =>
    /\ o = AddrOf(ch)
    /\ ch.pending # NoRead =>
         /\ Len(ch.pending) = Words[ch.code]
         /\ \A i \in 1..Words[ch.code] : ch.pending[i][1] = o + i - 1
    /\ ch.ready => \A i \in 1..Words[ch.code] : ch.data[i][1] = o + i - 1

VbusInv ==
  /\ VbusTypeOK
  /\ \A a \in Mapped : memory[a][1] = a
  /\ InStep(rd, owed)

LEMMA ReadTyped ==
  ASSUME VbusInv, NEW addr \in Nat, NEW n \in Nat \ {0}, Reachable(addr, n),
         NEW w, w = ReadWords(addr, n)
  PROVE  /\ w \in Seq(Content) /\ w # NoRead /\ Len(w) = n
         /\ \A i \in 1..n : w[i][1] = addr + i - 1
<1>1. w = [i \in 1..n |-> memory[addr + i - 1]]
  BY DEF ReadWords
<1>2. ASSUME NEW i \in 1..n
      PROVE  addr + i - 1 \in Mapped
  BY DEF Reachable
<1>3. ASSUME NEW i \in 1..n
      PROVE  w[i] \in Content /\ w[i][1] = addr + i - 1
  BY <1>1, <1>2 DEF VbusInv, VbusTypeOK
<1>4. w \in Seq(Content) /\ Len(w) = n
  <2>1. w \in [1..n -> Content]
    BY <1>1, <1>3
  <2> QED BY <2>1, IsASeq, LenProperties
<1>5. w # NoRead
  BY <1>4 DEF NoRead
<1> QED BY <1>3, <1>4, <1>5

\* The fields of a channel.
LEMMA ChannelFields ==
  ASSUME NEW ch \in ReadChannel
  PROVE  /\ ch = [lo |-> ch.lo, hi |-> ch.hi, auto |-> ch.auto, code |-> ch.code,
                  data |-> ch.data, ready |-> ch.ready, pending |-> ch.pending,
                  left |-> ch.left]
         /\ ch.lo \in 0..LoMod-1 /\ ch.hi \in 0..HiMod-1 /\ ch.auto \in BOOLEAN
         /\ ch.code \in SizeCodes /\ ch.data \in [1..Window -> Content]
         /\ ch.ready \in BOOLEAN /\ ch.pending \in Seq(Content) /\ ch.left \in Int
         /\ AddrOf(ch) \in Addresses /\ AddrOf(ch) \in Nat
<1>1. /\ ch = [lo |-> ch.lo, hi |-> ch.hi, auto |-> ch.auto, code |-> ch.code,
               data |-> ch.data, ready |-> ch.ready, pending |-> ch.pending,
               left |-> ch.left]
      /\ ch.lo \in 0..LoMod-1 /\ ch.hi \in 0..HiMod-1 /\ ch.auto \in BOOLEAN
      /\ ch.code \in SizeCodes /\ ch.data \in [1..Window -> Content]
      /\ ch.ready \in BOOLEAN /\ ch.pending \in Seq(Content) /\ ch.left \in Int
  BY DEF ReadChannel
<1>2. AddrOf(ch) \in Addresses
  BY <1>1, AddressSpace DEF AddrOf
<1>3. Addresses \subseteq Nat
  BY AddressAssumption DEF Addresses
<1> QED BY <1>1, <1>2, <1>3

LEMMA SizeOfWords ==
  ASSUME NEW code \in SizeCodes
  PROVE  Words[code] \in 1..Window /\ Words[code] \in Nat \ {0} /\ Latency[code] \in Nat
         /\ Window \in Nat
BY SizeAssumption

\* Time passes for a channel: the words under way land as they were read.
LEMMA AdvancedInStep ==
  ASSUME NEW ch \in ReadChannel, NEW o, InStep(ch, o), NEW n \in Nat, NEW x, x = Advanced(ch, n)
  PROVE  x \in ReadChannel /\ InStep(x, o)
<1>1. CASE ch.pending = NoRead
  BY <1>1 DEF Advanced
<1>2. CASE ch.pending # NoRead /\ ch.left > n
  <2>1. x = [ch EXCEPT !.left = ch.left - n]
    BY <1>2 DEF Advanced
  <2>2. x = [lo |-> ch.lo, hi |-> ch.hi, auto |-> ch.auto, code |-> ch.code,
             data |-> ch.data, ready |-> ch.ready, pending |-> ch.pending,
             left |-> ch.left - n]
    BY <2>1, ChannelFields
  <2>3. x \in ReadChannel
    BY <2>2, ChannelFields DEF ReadChannel
  <2> QED BY <2>2, <2>3 DEF InStep, AddrOf
<1>3. CASE ch.pending # NoRead /\ ~(ch.left > n)
  <2> DEFINE landed == [i \in 1..Window |-> IF i <= Len(ch.pending)
                                            THEN ch.pending[i] ELSE ch.data[i]]
  <2>1. x = [ch EXCEPT !.data = landed, !.ready = TRUE, !.pending = NoRead, !.left = 0]
    BY <1>3 DEF Advanced
  <2>2. ch.pending \in Seq(Content) /\ ch.data \in [1..Window -> Content] /\ Window \in Nat
    BY ChannelFields, SizeAssumption
  <2>3. landed \in [1..Window -> Content]
    BY <2>2
  <2>4. o # Nowhere => \A i \in 1..Words[ch.code] : landed[i][1] = o + i - 1
    <3> SUFFICES ASSUME o # Nowhere, NEW i \in 1..Words[ch.code]
                 PROVE  landed[i][1] = o + i - 1
      OBVIOUS
    <3>1. Words[ch.code] \in 1..Window
      BY ChannelFields, SizeOfWords
    <3>2. Len(ch.pending) = Words[ch.code] /\ ch.pending[i][1] = o + i - 1
      BY <1>3 DEF InStep
    <3> QED BY <2>2, <3>1, <3>2
  <2> HIDE DEF landed
  <2>5. x = [lo |-> ch.lo, hi |-> ch.hi, auto |-> ch.auto, code |-> ch.code,
             data |-> landed, ready |-> TRUE, pending |-> NoRead, left |-> 0]
    <3>1. ch = [lo |-> ch.lo, hi |-> ch.hi, auto |-> ch.auto, code |-> ch.code,
                data |-> ch.data, ready |-> ch.ready, pending |-> ch.pending,
                left |-> ch.left]
      BY ChannelFields
    <3> QED BY <2>1, <3>1, Zenon
  <2>6. NoRead \in Seq(Content)
    BY DEF NoRead
  <2>7. x \in ReadChannel
    BY <2>3, <2>5, <2>6, ChannelFields DEF ReadChannel
  <2> QED BY <2>4, <2>5, <2>7 DEF InStep, AddrOf
<1> QED BY <1>1, <1>2, <1>3

\* A read submitted to an idle channel is the stream the channel then owes.
LEMMA IssuedInStep ==
  ASSUME VbusInv, NEW ch \in ReadChannel, CanIssue(ch), NEW extra \in Nat,
         NEW x, x = Issued(ch, extra)
  PROVE  x \in ReadChannel /\ InStep(x, AddrOf(ch))
<1> DEFINE w == ReadWords(AddrOf(ch), Words[ch.code])  l == Latency[ch.code] + extra
<1>1. Words[ch.code] \in Nat \ {0} /\ l \in Int
  BY ChannelFields, SizeOfWords
<1>2. /\ w \in Seq(Content) /\ w # NoRead /\ Len(w) = Words[ch.code]
      /\ \A i \in 1..Words[ch.code] : w[i][1] = AddrOf(ch) + i - 1
  <2>1. Reachable(AddrOf(ch), Words[ch.code]) /\ AddrOf(ch) \in Nat
    BY ChannelFields DEF CanIssue
  <2> QED BY <1>1, <2>1, ReadTyped
<1>3. ch.ready = FALSE
  BY ChannelFields DEF CanIssue, Busy
<1>4. x = [ch EXCEPT !.pending = w, !.left = l]
  BY DEF Issued
<1> HIDE DEF w, l
<1>5. x = [lo |-> ch.lo, hi |-> ch.hi, auto |-> ch.auto, code |-> ch.code,
           data |-> ch.data, ready |-> FALSE, pending |-> w, left |-> l]
  BY <1>3, <1>4, ChannelFields
<1>6. x \in ReadChannel
  BY <1>1, <1>2, <1>5, ChannelFields DEF ReadChannel
<1>7. AddrOf(x) = AddrOf(ch)
  BY <1>5 DEF AddrOf
<1> QED BY <1>2, <1>5, <1>6, <1>7 DEF InStep

LEMMA NowhereInStep == ASSUME NEW ch  PROVE InStep(ch, Nowhere)
BY DEF InStep

LEMMA VbusStart == VbusInit => VbusInv
<1> SUFFICES ASSUME VbusInit PROVE VbusInv
  OBVIOUS
<1>1. memory \in [Mapped -> Content] /\ \A a \in Mapped : memory[a][1] = a
  BY AddressAssumption DEF VbusInit, Content, Addresses
<1>2. [i \in 1..Window |-> Blank] \in [1..Window -> Content] /\ NoRead \in Seq(Content)
  BY DEF Content, NoRead
<1>3. 0 \in 0..LoMod-1 /\ 0 \in 0..HiMod-1 /\ 0 \in SizeCodes
  BY AddressAssumption, SizeAssumption
<1>4. rd \in ReadChannel
  BY <1>2, <1>3 DEF VbusInit, ReadReset, ReadChannel
<1>5. written \in Nat /\ wr \in [lo : 0..LoMod-1, hi : 0..HiMod-1, busy : Nat]
  BY <1>3 DEF VbusInit, WriteReset
<1> QED BY <1>1, <1>4, <1>5, NowhereInStep DEF VbusInit, VbusInv, VbusTypeOK

WriteChannel == [lo : 0..LoMod-1, hi : 0..HiMod-1, busy : Nat]

\* An XFR instruction retires.
LEMMA RetireInStep ==
  ASSUME NEW ch \in ReadChannel, NEW w \in WriteChannel, NEW o, InStep(ch, o), Retire(ch, w)
  PROVE  rd' \in ReadChannel /\ InStep(rd', o) /\ wr' \in WriteChannel
<1>1. rd' = Advanced(ch, 1) /\ wr' = Drained(w, 1)
  BY DEF Retire
<1>2. wr' \in WriteChannel
  BY <1>1 DEF Drained, WriteChannel
<1> QED BY <1>1, <1>2, AdvancedInStep

\* Latching an address or a configuration leaves the rest of a channel alone.
LEMMA Latched ==
  ASSUME NEW ch \in ReadChannel, NEW lo \in 0..LoMod-1, NEW hi \in 0..HiMod-1,
         NEW x, x = [ch EXCEPT !.lo = lo, !.hi = hi]
  PROVE  x \in ReadChannel /\ AddrOf(x) = hi * LoMod + lo
BY DEF ReadChannel, AddrOf

LEMMA Reconfigured ==
  ASSUME NEW ch \in ReadChannel, NEW hi \in 0..HiMod-1, NEW auto \in BOOLEAN,
         NEW code \in SizeCodes
  PROVE  /\ [ch EXCEPT !.hi = hi] \in ReadChannel
         /\ Configured(ch, auto, code) \in ReadChannel
         /\ [ch EXCEPT !.ready = FALSE] \in ReadChannel
         /\ auto = ch.auto /\ code = ch.code => Configured(ch, auto, code) = ch
BY DEF ReadChannel, Configured

\* The address of the next chunk is the one that follows.
LEMMA NextTyped ==
  ASSUME NEW ch \in ReadChannel, NEW x, x = NextAddress([ch EXCEPT !.ready = FALSE])
  PROVE  x \in ReadChannel /\ AddrOf(x) = Following(AddrOf(ch), ch.code)
<1> DEFINE p == [ch EXCEPT !.ready = FALSE]
           next == Following(AddrOf(p), p.code)
<1>1. p \in ReadChannel /\ AddrOf(p) = AddrOf(ch) /\ p.code = ch.code
  BY DEF ReadChannel, AddrOf
<1>2. next \in Addresses
  BY <1>1, ChannelFields, FollowingTyped
<1>3. x = [p EXCEPT !.lo = next % LoMod, !.hi = next \div LoMod]
  BY DEF NextAddress
<1>4. next = Following(AddrOf(ch), ch.code)
  BY <1>1
<1> HIDE DEF p, next
<1> DEFINE lo == next % LoMod  hi == next \div LoMod
<1>5. lo \in 0..LoMod-1 /\ hi \in 0..HiMod-1 /\ hi * LoMod + lo = next
  BY <1>2, AddressParts
<1>6. x = [p EXCEPT !.lo = lo, !.hi = hi]
  BY <1>3
<1> HIDE DEF lo, hi
<1>7. x \in ReadChannel /\ AddrOf(x) = hi * LoMod + lo
  BY <1>1, <1>5, <1>6, Latched
<1> QED BY <1>4, <1>5, <1>7

LEMMA SubmitInStep ==
  ASSUME VbusInv, NEW ch \in ReadChannel, NEW lo \in 0..LoMod-1, NEW hi \in 0..HiMod-1,
         Submit(ch, lo, hi), Busy(ch) => InStep(ch, owed)
  PROVE  rd' \in ReadChannel /\ wr' \in WriteChannel /\ InStep(rd', owed')
         /\ owed' \in Addresses \cup {Nowhere}
<1> DEFINE pointed == [ch EXCEPT !.lo = lo, !.hi = hi]
<1>1. pointed \in ReadChannel /\ AddrOf(pointed) \in Addresses
  BY Latched, ChannelFields
<1>2. wr \in WriteChannel /\ owed \in Addresses \cup {Nowhere}
  BY DEF VbusInv, VbusTypeOK, WriteChannel
<1> HIDE DEF pointed
<1>3. CASE Busy(ch) /\ Retire(ch, wr) /\ UNCHANGED owed
  BY <1>2, <1>3, RetireInStep
<1>4. CASE CanIssue(pointed) /\ Retire(Issued(pointed, 0), wr) /\ owed' = AddrOf(pointed)
  <2> DEFINE x == Issued(pointed, 0)
  <2>1. x \in ReadChannel /\ InStep(x, AddrOf(pointed))
    BY <1>1, <1>4, IssuedInStep
  <2>2. Retire(x, wr)
    BY <1>4
  <2> HIDE DEF x
  <2> QED BY <1>1, <1>2, <1>4, <2>1, <2>2, RetireInStep
<1>5. CASE rd' = pointed /\ owed' = Nowhere /\ UNCHANGED wr
  BY <1>1, <1>2, <1>5, NowhereInStep
<1> QED BY <1>3, <1>4, <1>5, Zenon DEF Submit, pointed

LEMMA StoreKeeps ==
  ASSUME VbusInv, NEW addr, NEW n, Store(addr, n)
  PROVE  /\ memory' \in [Mapped -> Content] /\ \A a \in Mapped : memory'[a][1] = a
         /\ written' \in Nat
<1>1. Mapped \subseteq Addresses
  BY AddressAssumption DEF Addresses
<1> QED BY <1>1 DEF VbusInv, VbusTypeOK, Store, Content

LEMMA VbusStep == VbusInv /\ [Vbus]_vbusVars => VbusInv'
<1> SUFFICES ASSUME VbusInv, [Vbus]_vbusVars PROVE VbusInv'
  OBVIOUS
<1>1. rd \in ReadChannel /\ wr \in WriteChannel /\ owed \in Addresses \cup {Nowhere}
      /\ InStep(rd, owed) /\ rd.lo \in 0..LoMod-1 /\ rd.hi \in 0..HiMod-1
  BY DEF VbusInv, VbusTypeOK, WriteChannel, ReadChannel
<1>2. ASSUME UNCHANGED <<memory, written>>, rd' \in ReadChannel, wr' \in WriteChannel,
             owed' \in Addresses \cup {Nowhere}, InStep(rd', owed')
      PROVE  VbusInv'
  BY <1>2 DEF VbusInv, VbusTypeOK, WriteChannel
<1>3. ASSUME UNCHANGED <<memory, written, owed>>, Retire(rd, wr)
      PROVE  VbusInv'
  BY <1>1, <1>2, <1>3, RetireInStep
<1>4. ASSUME NEW ch \in ReadChannel, UNCHANGED <<memory, written>>, Retire(ch, wr),
             owed' = Nowhere
      PROVE  VbusInv'
  BY <1>1, <1>2, <1>4, RetireInStep, NowhereInStep
<1>5. CASE Pass
  <2>1. PICK n \in 1..MaxElapsed : rd' = Advanced(rd, n) /\ wr' = Drained(wr, n)
    BY <1>5 DEF Pass
  <2>2. wr' \in WriteChannel
    BY <1>1, <2>1 DEF Drained, WriteChannel
  <2>3. rd' \in ReadChannel /\ InStep(rd', owed)
    BY <1>1, <2>1, AdvancedInStep
  <2> QED BY <1>1, <1>2, <1>5, <2>2, <2>3 DEF Pass
<1>6. CASE XoutConfig
  <2>1. PICK auto \in BOOLEAN, code \in SizeCodes : Retire(Configured(rd, auto, code), wr)
    BY <1>6 DEF XoutConfig
  <2>2. Configured(rd, auto, code) \in ReadChannel
    BY <1>1, Reconfigured
  <2> QED BY <1>4, <1>6, <2>1, <2>2 DEF XoutConfig
<1>7. CASE XoutAddress
  <2>1. PICK lo \in 0..LoMod-1, hi \in 0..HiMod-1 : Submit(rd, lo, hi)
    BY <1>7 DEF XoutAddress
  <2> QED BY <1>1, <1>2, <1>7, <2>1, SubmitInStep DEF XoutAddress
<1>8. CASE XoutConfigAddress
  <2>1. PICK auto \in BOOLEAN, code \in SizeCodes, lo \in 0..LoMod-1 :
          /\ ~Busy(rd) \/ (auto = rd.auto /\ code = rd.code)
          /\ Submit(Configured(rd, auto, code), lo, rd.hi)
    BY <1>8 DEF XoutConfigAddress
  <2> DEFINE ch == Configured(rd, auto, code)
  <2>2. ch \in ReadChannel
    BY <1>1, Reconfigured
  <2>3. Busy(ch) <=> Busy(rd)
    BY <1>1 DEF Configured, Busy, ReadChannel
  <2>4. Busy(ch) => InStep(ch, owed)
    <3>1. auto = rd.auto /\ code = rd.code => ch = rd
      BY <1>1 DEF ReadChannel, Configured
    <3> QED BY <1>1, <2>1, <2>3, <3>1
  <2>5. Submit(ch, lo, rd.hi)
    BY <2>1
  <2> HIDE DEF ch
  <2>6. rd' \in ReadChannel /\ wr' \in WriteChannel /\ InStep(rd', owed')
        /\ owed' \in Addresses \cup {Nowhere}
    BY <1>1, <2>2, <2>4, <2>5, SubmitInStep
  <2> QED BY <1>2, <1>8, <2>6 DEF XoutConfigAddress
<1>9. CASE XoutHigh
  <2>1. PICK hi \in 0..HiMod-1 : Retire([rd EXCEPT !.hi = hi], wr)
    BY <1>9 DEF XoutHigh
  <2>2. [rd EXCEPT !.hi = hi] \in ReadChannel
    BY <1>1 DEF ReadChannel
  <2> QED BY <1>4, <1>9, <2>1, <2>2 DEF XoutHigh
<1>10. CASE XinStatus \/ XinEarly
  BY <1>3, <1>10 DEF XinStatus, XinEarly
<1>11. CASE XinData
  <2>1. [rd EXCEPT !.ready = FALSE] \in ReadChannel
    BY <1>1 DEF ReadChannel
  <2> QED BY <1>4, <1>11, <2>1 DEF XinData
<1>12. CASE XinNext
  <2> DEFINE popped == NextAddress([rd EXCEPT !.ready = FALSE])
             x == Issued(popped, ReissueExtra)
  <2>1. popped \in ReadChannel /\ AddrOf(popped) = Following(AddrOf(rd), rd.code)
    BY <1>1, NextTyped
  <2>2. AddrOf(popped) \in Addresses
    BY <2>1, ChannelFields
  <2>3. \/ /\ CanIssue(popped) /\ Retire(x, wr)
           /\ owed' = IF owed = Nowhere THEN Nowhere ELSE Following(owed, rd.code)
        \/ rd' = popped /\ owed' = Nowhere /\ UNCHANGED wr
    BY <1>12 DEF XinNext
  <2>4. UNCHANGED <<memory, written>>
    BY <1>12 DEF XinNext
  <2>5. CanIssue(popped) => x \in ReadChannel /\ InStep(x, AddrOf(popped))
    <3> HIDE DEF popped
    <3> QED BY <2>1, IssuedInStep, CycleAssumption
  <2> HIDE DEF popped, x
  <2>6. CASE rd' = popped /\ owed' = Nowhere /\ UNCHANGED wr
    BY <1>1, <1>2, <2>1, <2>4, <2>6, NowhereInStep
  <2>7. CASE /\ CanIssue(popped) /\ Retire(x, wr)
             /\ owed' = IF owed = Nowhere THEN Nowhere ELSE Following(owed, rd.code)
    <3>1. owed' = Nowhere \/ owed' = AddrOf(popped)
      BY <1>1, <2>1, <2>7 DEF InStep
    <3>2. InStep(x, owed')
      BY <2>5, <2>7, <3>1, NowhereInStep
    <3>3. rd' \in ReadChannel /\ InStep(rd', owed') /\ wr' \in WriteChannel
      BY <1>1, <2>5, <2>7, <3>2, RetireInStep
    <3>4. owed' \in Addresses \cup {Nowhere}
      BY <2>2, <3>1
    <3> QED BY <1>2, <2>4, <3>3, <3>4
  <2> QED BY <2>3, <2>6, <2>7
<1>13. CASE XoutWriteAddress
  <2>1. PICK lo \in 0..LoMod-1, hi \in 0..HiMod-1 : Retire(rd, [wr EXCEPT !.lo = lo, !.hi = hi])
    BY <1>13 DEF XoutWriteAddress
  <2>2. [wr EXCEPT !.lo = lo, !.hi = hi] \in WriteChannel
    BY <1>1 DEF WriteChannel
  <2> QED BY <1>1, <1>2, <1>13, <2>1, <2>2, RetireInStep DEF XoutWriteAddress
<1>14. ASSUME rd' \in ReadChannel, wr' \in WriteChannel, InStep(rd', owed'), UNCHANGED owed,
              UNCHANGED <<memory, written>> \/ \E addr, n : Store(addr, n)
       PROVE  VbusInv'
  <2>1. /\ memory' \in [Mapped -> Content] /\ \A a \in Mapped : memory'[a][1] = a
        /\ written' \in Nat
    BY <1>14, StoreKeeps DEF VbusInv, VbusTypeOK
  <2> QED BY <1>1, <1>14, <2>1 DEF VbusInv, VbusTypeOK, WriteChannel
<1>15. CASE XoutShort
  <2> DEFINE w == [wr EXCEPT !.busy = @ + WrBusy]
  <2>1. w \in WriteChannel
    BY <1>1, CycleAssumption DEF WriteChannel
  <2>2. Retire(rd, w) /\ UNCHANGED owed
        /\ (UNCHANGED <<memory, written>> \/ Store(AddrOf(wr), 1))
    BY <1>15 DEF XoutShort
  <2> HIDE DEF w
  <2> QED BY <1>1, <1>14, <2>1, <2>2, RetireInStep
<1>16. CASE XoutLine
  <2>1. PICK lo \in 0..LoMod-1, hi \in 0..HiMod-1 :
          LET pointed == [wr EXCEPT !.lo = lo, !.hi = hi] IN
          \/ /\ Reachable(AddrOf(pointed), LineWords)
             /\ Store(AddrOf(pointed), LineWords)
             /\ Retire(rd, [pointed EXCEPT !.busy = @ + WrBusy])
          \/ wr' = pointed /\ UNCHANGED <<rd, memory, written>>
    BY <1>16 DEF XoutLine
  <2> DEFINE pointed == [wr EXCEPT !.lo = lo, !.hi = hi]
             w == [pointed EXCEPT !.busy = @ + WrBusy]
  <2>2. pointed \in WriteChannel /\ w \in WriteChannel
    <3>1. pointed \in WriteChannel
      BY <1>1 DEF WriteChannel
    <3> HIDE DEF pointed
    <3> QED BY <3>1, CycleAssumption DEF WriteChannel
  <2>3. \/ Store(AddrOf(pointed), LineWords) /\ Retire(rd, w)
        \/ wr' = pointed /\ UNCHANGED <<rd, memory, written>>
    BY <2>1
  <2>4. UNCHANGED owed
    BY <1>16 DEF XoutLine
  <2> HIDE DEF pointed, w
  <2>5. CASE wr' = pointed /\ UNCHANGED <<rd, memory, written>>
    BY <1>1, <1>14, <2>2, <2>4, <2>5
  <2>6. CASE Store(AddrOf(pointed), LineWords) /\ Retire(rd, w)
    <3>1. rd' \in ReadChannel /\ InStep(rd', owed) /\ wr' \in WriteChannel
      BY <1>1, <2>2, <2>6, RetireInStep
    <3> QED BY <1>14, <2>4, <2>6, <3>1
  <2> QED BY <2>3, <2>5, <2>6
<1>17. CASE ResetChannels
  <2>1. [i \in 1..Window |-> Blank] \in [1..Window -> Content] /\ NoRead \in Seq(Content)
    BY DEF Content, NoRead
  <2>2. 0 \in 0..LoMod-1 /\ 0 \in 0..HiMod-1 /\ 0 \in SizeCodes
    BY AddressAssumption, SizeAssumption
  <2>3. ReadReset \in ReadChannel
    BY <2>1, <2>2 DEF ReadReset, ReadChannel
  <2>4. WriteReset \in WriteChannel
    BY <2>2 DEF WriteReset, WriteChannel
  <2> QED BY <1>2, <1>17, <2>3, <2>4, NowhereInStep DEF ResetChannels
<1>18. CASE UNCHANGED vbusVars
  BY <1>1, <1>2, <1>18 DEF vbusVars
<1> QED BY <1>5, <1>6, <1>7, <1>8, <1>9, <1>10, <1>11, <1>12, <1>13, <1>15, <1>16, <1>17,
           <1>18 DEF Vbus

\* What has landed is the whole of the chunk the stream owes next, for any
\* sizes, latencies, addresses and memory.
THEOREM StreamsHaveNoGap == VbusSpec => []StreamHasNoGap
<1>1. VbusInv => StreamHasNoGap
  BY DEF VbusInv, InStep, StreamHasNoGap
<1> QED BY <1>1, VbusStart, VbusStep, PTL DEF VbusSpec

\* The memory keeps every word at its address and the channels their types.
THEOREM VbusTyped == VbusSpec => []VbusTypeOK
<1>1. VbusInv => VbusTypeOK
  BY DEF VbusInv
<1> QED BY <1>1, VbusStart, VbusStep, PTL DEF VbusSpec

-----------------------------------------------------------------------------
(* MAC. *)

\* What is added to a remainder counts modulo the same.
LEMMA AddToRemainder ==
  ASSUME NEW n \in Nat, NEW p \in Nat, NEW d \in Nat \ {0}
  PROVE  ((n % d) + p) % d = (n + p) % d
<1> DEFINE q == n \div d  r == n % d  m == r + p
<1>1. q \in Nat /\ r \in Nat /\ n = q * d + r
  BY DivModParts
<1> HIDE DEF q, r
<1>2. m \in Nat /\ n + p \in Nat /\ n + p = q * d + m
  <2>1. q * d \in Nat
    BY <1>1
  <2> QED BY <1>1, <2>1
<1> HIDE DEF m
<1> DEFINE a == m \div d  x == m % d  b == (n + p) \div d  y == (n + p) % d
<1>3. a \in Nat /\ x \in 0..d-1 /\ m = a * d + x
  BY <1>2, DivModParts
<1>4. b \in Nat /\ y \in 0..d-1 /\ n + p = b * d + y
  BY <1>2, DivModParts
<1> HIDE DEF a, x, b, y
<1>5. q + a \in Nat /\ (q + a) * d = q * d + a * d /\ q * d \in Nat /\ a * d \in Nat
  BY <1>1, <1>3
<1> DEFINE s == q + a
<1>6. s * d + x = b * d + y /\ s \in Nat
  BY <1>2, <1>3, <1>4, <1>5
<1> HIDE DEF s
<1>7. x = y
  <2>1. s = b /\ x = y
    BY <1>3, <1>4, <1>6, OneQuotient
  <2> QED BY <2>1
<1> QED BY <1>7 DEF x, y, m, r

\* The exact sum, as far as the firmware has kept it, and what the carry says of it.
SumInv ==
  /\ r28 \in Operand /\ r29 \in Operand
  /\ latched \in (Operand \X Operand) \cup {NotLatched}
  /\ accumulator \in 0..Wide-1 /\ accCarry \in BOOLEAN
  /\ settled => Operands = <<r28, r29>>
  /\ total \in Nat \cup {Unknown} /\ cleared \in Int
  /\ total # Unknown =>
       /\ accumulator = total % Wide
       /\ accCarry => total - cleared >= Wide
       /\ ~accCarry => total - cleared = accumulator

LEMMA WideTyped == Wide \in Nat \ {0} /\ Base \in Nat \ {0} /\ Wide > 0
<1>1. Base \in Nat \ {0}
  BY BaseAssumption
<1>2. Base * Base \in Nat \ {0}
  BY <1>1
<1> QED BY <1>1, <1>2 DEF Wide

LEMMA ProductTyped == ASSUME NEW a \in Operand, NEW b \in Operand  PROVE a * b \in Nat
<1>1. a \in Nat /\ b \in Nat
  BY WideTyped DEF Operand
<1> QED BY <1>1

LEMMA Difference == ASSUME NEW m \in Int, NEW n \in Int  PROVE m - (m - n) = n /\ m - 0 = m
OBVIOUS

LEMMA SmallRemainder ==
  ASSUME NEW n \in 0..Wide-1
  PROVE  n % Wide = n /\ n \in Nat /\ n < Wide
BY WideTyped

LEMMA MacStart == MacInit => SumInv
<1> SUFFICES ASSUME MacInit PROVE SumInv
  OBVIOUS
<1>1. 0 \in 0..Wide-1 /\ 0 \in Operand
  BY WideTyped DEF Operand
<1>2. accumulator = total % Wide
  BY <1>1, SmallRemainder DEF MacInit
<1>3. settled => Operands = <<r28, r29>>
  BY DEF MacInit, Operands
<1>4. ~accCarry /\ accCarry \in BOOLEAN
  BY DEF MacInit
<1>5. /\ r28 = 0 /\ r29 = 0 /\ latched = NotLatched
      /\ accumulator = 0 /\ total = 0 /\ cleared = 0
  BY DEF MacInit
<1> QED BY <1>1, <1>2, <1>3, <1>4, <1>5 DEF SumInv

\* The operands of the next instruction are those this one has begun with.
LEMMA BeginKeeps ==
  ASSUME SumInv, Begin
  PROVE  /\ latched' \in (Operand \X Operand) \cup {NotLatched}
         /\ UNCHANGED <<r28, r29>> => Operands' = <<r28', r29'>>
BY DEF SumInv, Begin, Operands

LEMMA AddingKeeps ==
  ASSUME SumInv, NEW clear \in BOOLEAN, Accumulate(clear)
  PROVE  /\ accumulator' \in 0..Wide-1 /\ accCarry' \in BOOLEAN
         /\ total' \in Nat \cup {Unknown} /\ cleared' \in Int
         /\ total' # Unknown =>
              /\ accumulator' = total' % Wide
              /\ accCarry' => total' - cleared' >= Wide
              /\ ~accCarry' => total' - cleared' = accumulator'
<1> DEFINE p == Operands[1] * Operands[2]  sum == accumulator + p
<1>1. p \in Nat
  <2>1. Operands[1] \in Operand /\ Operands[2] \in Operand
    BY DEF Operands, SumInv
  <2> QED BY <2>1, ProductTyped
<1>2. sum \in Nat
  BY <1>1, WideTyped DEF SumInv
<1>3. accumulator' = sum % Wide /\ total' = Summed
      /\ accCarry' = (~clear /\ (accCarry \/ sum >= Wide))
      /\ cleared' = IF clear THEN total' - accumulator' ELSE cleared
  BY DEF Accumulate
<1>4. settled => p = r28 * r29
  BY DEF SumInv
<1>5. total' = IF settled /\ total # Unknown THEN total + p ELSE Unknown
  BY <1>3, <1>4 DEF Summed
<1> HIDE DEF p
<1>6. accumulator' \in 0..Wide-1 /\ accumulator' \in Nat
  <2> HIDE DEF sum
  <2> QED BY <1>2, <1>3, DivModParts, WideTyped
<1>7. total' \in Nat \cup {Unknown} /\ total' \in Int
  BY <1>1, <1>5 DEF SumInv, Unknown
<1>8. cleared' \in Int /\ accCarry' \in BOOLEAN
  BY <1>3, <1>6, <1>7 DEF SumInv
<1>9. ASSUME total' # Unknown
      PROVE  /\ accumulator' = total' % Wide
             /\ accCarry' => total' - cleared' >= Wide
             /\ ~accCarry' => total' - cleared' = accumulator'
  <2>1. total # Unknown /\ total \in Nat /\ total' = total + p
    BY <1>5, <1>9 DEF SumInv
  <2>2. accumulator = total % Wide
    BY <2>1 DEF SumInv
  <2>3. accumulator' = total' % Wide
    <3>1. ((total % Wide) + p) % Wide = (total + p) % Wide
      BY <1>1, <2>1, AddToRemainder, WideTyped
    <3> QED BY <1>3, <2>1, <2>2, <3>1
  <2>4. CASE clear
    <3>1. cleared' = total' - accumulator'
      BY <1>3, <2>4
    <3>2. ~accCarry'
      BY <1>3, <2>4
    <3>3. total' - cleared' = accumulator'
      <4>1. accumulator' \in Int /\ total' \in Int
        BY <1>6, <1>7
      <4> QED BY <3>1, <4>1, Difference
    <3> QED BY <2>3, <3>2, <3>3
  <2>5. CASE ~clear /\ accCarry
    <3>1. total - cleared >= Wide /\ cleared' = cleared /\ accCarry'
      BY <1>3, <2>1, <2>5 DEF SumInv
    <3> QED BY <1>1, <2>1, <2>3, <3>1, WideTyped DEF SumInv
  <2>6. CASE ~clear /\ ~accCarry
    <3>1. total - cleared = accumulator /\ cleared' = cleared /\ (accCarry' <=> sum >= Wide)
      BY <1>3, <2>1, <2>6 DEF SumInv
    <3>2. total' - cleared' = sum
      BY <1>1, <2>1, <3>1, WideTyped DEF SumInv
    <3>3. ~(sum >= Wide) => sum % Wide = sum
      BY <1>2, WideTyped
    <3> QED BY <1>3, <2>3, <3>1, <3>2, <3>3
  <2> QED BY <2>4, <2>5, <2>6
<1> QED BY <1>6, <1>7, <1>8, <1>9

LEMMA LeavingKeeps ==
  ASSUME SumInv, NEW clear \in BOOLEAN, LeaveMacMode(clear)
  PROVE  /\ accumulator' \in 0..Wide-1 /\ accCarry' \in BOOLEAN
         /\ total' \in Nat \cup {Unknown} /\ cleared' \in Int
         /\ total' # Unknown =>
              /\ accumulator' = total' % Wide
              /\ accCarry' => total' - cleared' >= Wide
              /\ ~accCarry' => total' - cleared' = accumulator'
<1>1. 0 \in 0..Wide-1 /\ -Wide \in Int /\ 0 - (-Wide) = Wide
  BY WideTyped
<1>2. /\ accumulator' = 0 /\ total' = 0 /\ accCarry' \in BOOLEAN
      /\ cleared' = IF accCarry' THEN -Wide ELSE 0
  BY DEF LeaveMacMode
<1>3. accumulator' = total' % Wide
  BY <1>1, <1>2, SmallRemainder
<1>4. /\ accCarry' => total' - cleared' >= Wide
      /\ ~accCarry' => total' - cleared' = accumulator'
  <2>1. accCarry' => cleared' = -Wide
    BY <1>2
  <2>2. ~accCarry' => cleared' = 0
    BY <1>2
  <2>3. total' = 0 /\ accumulator' = 0
    BY <1>2
  <2>4. accCarry' => total' - cleared' >= Wide
    BY <1>1, <2>1, <2>3, WideTyped
  <2>5. ~accCarry' => total' - cleared' = accumulator'
    BY <2>2, <2>3
  <2> QED BY <2>4, <2>5
<1> QED BY <1>1, <1>2, <1>3, <1>4

LEMMA MacStep == SumInv /\ [Mac]_macVars => SumInv'
<1> SUFFICES ASSUME SumInv, [Mac]_macVars PROVE SumInv'
  OBVIOUS
<1>1. CASE LoadOperand
  <2>1. r28' \in Operand /\ r29' \in Operand
    BY <1>1 DEF LoadOperand, SumInv
  <2>2. latched' \in (Operand \X Operand) \cup {NotLatched}
    BY <1>1, BeginKeeps DEF LoadOperand
  <2> QED BY <1>1, <2>1, <2>2 DEF LoadOperand, SumInv
<1>2. CASE OtherInstruction
  <2>1. latched' \in (Operand \X Operand) \cup {NotLatched} /\ Operands' = <<r28', r29'>>
    BY <1>2, BeginKeeps DEF OtherInstruction
  <2> QED BY <1>2, <2>1 DEF OtherInstruction, SumInv
<1>3. CASE XoutControl
  <2>1. latched' \in (Operand \X Operand) \cup {NotLatched} /\ Operands' = <<r28', r29'>>
    BY <1>3, BeginKeeps DEF XoutControl
  <2>2. PICK clear \in BOOLEAN : Accumulate(clear) \/ LeaveMacMode(clear)
    BY <1>3 DEF XoutControl
  <2>3. /\ accumulator' \in 0..Wide-1 /\ accCarry' \in BOOLEAN
        /\ total' \in Nat \cup {Unknown} /\ cleared' \in Int
        /\ total' # Unknown =>
              /\ accumulator' = total' % Wide
              /\ accCarry' => total' - cleared' >= Wide
              /\ ~accCarry' => total' - cleared' = accumulator'
    BY <2>2, AddingKeeps, LeavingKeeps
  <2>4. UNCHANGED <<r28, r29>>
    BY <1>3 DEF XoutControl
  <2> QED BY <2>1, <2>3, <2>4 DEF SumInv
<1>4. CASE XoutSeed
  <2>1. latched' \in (Operand \X Operand) \cup {NotLatched} /\ Operands' = <<r28', r29'>>
    BY <1>4, BeginKeeps DEF XoutSeed
  <2>2. accumulator' \in 0..Wide-1 /\ accumulator' \in Nat /\ accumulator' % Wide = accumulator'
    <3>1. accumulator' \in 0..Wide-1
      BY <1>4 DEF XoutSeed
    <3> QED BY <3>1, SmallRemainder
  <2>3. total' = accumulator' /\ cleared' = 0 /\ UNCHANGED <<r28, r29>>
    BY <1>4 DEF XoutSeed
  <2>4. accumulator' = total' % Wide /\ total' - cleared' = accumulator'
    <3>1. accumulator' - 0 = accumulator'
      <4>1. accumulator' \in Int /\ 0 \in Int
        BY <2>2
      <4> QED BY <4>1, Difference
    <3> QED BY <2>2, <2>3, <3>1
  <2>5. ~accCarry' /\ accCarry' \in BOOLEAN
    BY <1>4 DEF XoutSeed
  <2> QED BY <2>1, <2>2, <2>3, <2>4, <2>5 DEF SumInv
<1>5. CASE ResetMac
  <2>1. 0 \in 0..Wide-1 /\ 0 \in Operand
    BY WideTyped DEF Operand
  <2>2. accumulator' = total' % Wide
    BY <1>5, <2>1, SmallRemainder DEF ResetMac
  <2>3. Operands' = <<r28', r29'>>
    BY <1>5 DEF ResetMac, Operands
  <2>4. ~accCarry' /\ accCarry' \in BOOLEAN
    BY <1>5 DEF ResetMac
  <2>5. /\ r28' = 0 /\ r29' = 0 /\ latched' = NotLatched
        /\ accumulator' = 0 /\ total' = 0 /\ cleared' = 0
    BY <1>5 DEF ResetMac
  <2> QED BY <2>1, <2>2, <2>3, <2>4, <2>5 DEF SumInv
<1>6. CASE UNCHANGED macVars
  BY <1>6 DEF macVars, SumInv, Operands
<1> QED BY <1>1, <1>2, <1>3, <1>4, <1>5, <1>6 DEF Mac

\* As long as the firmware waits for its operands, the accumulator is the exact
\* sum modulo its width and the carry tells whether it has wrapped since it was
\* cleared, for any width of the operands.
THEOREM SumIsExact == MacSpec => []AccumulatorExact
<1>1. SumInv => AccumulatorExact
  BY WideTyped DEF SumInv, AccumulatorExact
<1> QED BY <1>1, MacStart, MacStep, PTL DEF MacSpec

-----------------------------------------------------------------------------
(* XFRDMA. *)

\* Bytes in the order they were injected, the last of them last.
Packet(p) == p \in Seq(Nat) /\ p # << >> /\ \A i \in 1..Len(p) : p[i] = p[1] + i - 1
LastOf(p) == p[1] + Len(p) - 1

\* A thread that has taken the bytes up to from and has those up to to; no packet
\* ends within one of its packets.
Whole(fifo, from, to, es) ==
  /\ fifo \in Seq(Seq(Nat)) /\ from \in Nat /\ to \in Nat /\ es \in SUBSET Nat
  /\ \A k \in 1..Len(fifo) :
       /\ Packet(fifo[k]) /\ LastOf(fifo[k]) <= to
       /\ \A e \in es : ~(fifo[k][1] <= e /\ e < LastOf(fifo[k]))
  /\ \A k \in 1..Len(fifo)-1 : fifo[k+1][1] = LastOf(fifo[k]) + 1
  /\ fifo = << >> => from = to
  /\ fifo # << >> => fifo[1][1] = from + 1 /\ LastOf(fifo[Len(fifo)]) = to
  /\ \A e \in es : e <= to

LEMMA PacketTyped ==
  ASSUME NEW p, Packet(p)
  PROVE  /\ p[1] \in Nat /\ Len(p) \in Nat \ {0} /\ LastOf(p) \in Nat /\ LastOf(p) >= p[1]
         /\ p \in [1..Len(p) -> Nat]
<1>1. p \in Seq(Nat) /\ p # << >>
  BY DEF Packet
<1>2. Len(p) \in Nat \ {0} /\ p \in [1..Len(p) -> Nat]
  BY <1>1, EmptySeq, LenProperties
<1> QED BY <1>2 DEF LastOf

LEMMA NothingWhole == Whole(<< >>, 0, 0, {})
BY DEF Whole

LEMMA InjectWhole ==
  ASSUME NEW f, NEW a, NEW b, NEW es, Whole(f, a, b, es), NEW n \in Nat \ {0},
         NEW p, p = [i \in 1..n |-> b + i]
  PROVE  Whole(Append(f, p), a, b + n, es \cup {b + n})
<1>1. f \in Seq(Seq(Nat)) /\ a \in Nat /\ b \in Nat /\ es \in SUBSET Nat
  BY DEF Whole
<1>2. p \in Seq(Nat) /\ Len(p) = n /\ p # << >>
  <2>1. p \in [1..n -> Nat]
    BY <1>1
  <2>2. p \in Seq(Nat)
    BY <2>1, SeqDef
  <2>3. DOMAIN p = 1..n /\ DOMAIN p = 1..Len(p) /\ Len(p) \in Nat
    BY <2>1, <2>2, LenProperties
  <2>4. Len(p) = n
    BY <2>3
  <2> QED BY <2>2, <2>4, EmptySeq
<1>3. Packet(p) /\ p[1] = b + 1 /\ LastOf(p) = b + n
  <2>1. \A i \in 1..n : p[i] = b + i
    OBVIOUS
  <2>2. p[1] = b + 1
    BY <2>1
  <2>3. \A i \in 1..n : p[i] = p[1] + i - 1
    BY <1>1, <2>1, <2>2
  <2> QED BY <1>1, <1>2, <2>2, <2>3 DEF Packet, LastOf
<1> DEFINE g == Append(f, p)  m == Len(f) + 1
<1>4. /\ g \in Seq(Seq(Nat)) /\ Len(f) \in Nat /\ Len(g) = m /\ g[m] = p /\ g # << >>
      /\ \A k \in 1..Len(f) : g[k] = f[k]
  <2> DEFINE S == Seq(Nat)
  <2>1. f \in Seq(S) /\ p \in S
    BY <1>1, <1>2
  <2> HIDE DEF S
  <2>2. Len(f) \in Nat
    BY <2>1, LenProperties
  <2>3. /\ g \in Seq(S) /\ Len(g) = Len(f) + 1 /\ g[Len(f)+1] = p /\ g # << >>
        /\ \A k \in 1..Len(f) : g[k] = f[k]
    BY <2>1, AppendProperties
  <2> QED BY <2>2, <2>3 DEF S
<1>5. \A e \in es : e <= b
  BY DEF Whole
<1>6. \A k \in 1..Len(f) : /\ Packet(f[k]) /\ LastOf(f[k]) \in Nat /\ LastOf(f[k]) <= b
                           /\ \A e \in es : ~(f[k][1] <= e /\ e < LastOf(f[k]))
  BY PacketTyped DEF Whole
<1> HIDE DEF g, m
<1>7. ASSUME NEW k \in 1..Len(g)
      PROVE  /\ Packet(g[k]) /\ LastOf(g[k]) <= b + n
             /\ \A e \in es \cup {b + n} : ~(g[k][1] <= e /\ e < LastOf(g[k]))
  <2>1. CASE k = m
    <3>1. g[k] = p
      BY <1>4, <2>1
    <3>2. ASSUME NEW e \in es \cup {b + n}  PROVE ~(b + 1 <= e /\ e < b + n)
      BY <1>1, <1>5
    <3>3. g[k][1] = b + 1 /\ LastOf(g[k]) = b + n /\ Packet(g[k])
      BY <1>3, <3>1
    <3>4. LastOf(g[k]) <= b + n
      BY <1>1, <3>3
    <3> QED BY <3>2, <3>3, <3>4
  <2>2. CASE k # m
    <3>1. k \in 1..Len(f) /\ g[k] = f[k]
      BY <1>4, <2>2 DEF m
    <3>2. /\ Packet(g[k]) /\ LastOf(g[k]) \in Nat /\ LastOf(g[k]) <= b
          /\ \A e \in es : ~(g[k][1] <= e /\ e < LastOf(g[k]))
      BY <1>6, <3>1
    <3> DEFINE last == LastOf(g[k])
    <3>3. last <= b + n /\ ~(b + n < last)
      <4> HIDE DEF last
      <4>1. last \in Nat /\ last <= b
        BY <3>2 DEF last
      <4> QED BY <1>1, <4>1
    <3>4. \A e \in es \cup {b + n} : e \in es \/ e = b + n
      OBVIOUS
    <3> HIDE DEF last
    <3>5. \A e \in es \cup {b + n} : ~(g[k][1] <= e /\ e < last)
      BY <3>2, <3>3, <3>4 DEF last
    <3> QED BY <3>2, <3>3, <3>5 DEF last
  <2> QED BY <2>1, <2>2
<1>8. ASSUME NEW k \in 1..Len(g)-1  PROVE g[k+1][1] = LastOf(g[k]) + 1
  <2>1. CASE k + 1 = m
    <3>1. k = Len(f) /\ k \in 1..Len(f) /\ g[k] = f[k] /\ f # << >>
      BY <1>4, <2>1 DEF m
    <3>2. LastOf(f[Len(f)]) = b
      BY <3>1 DEF Whole
    <3> QED BY <1>3, <1>4, <2>1, <3>1, <3>2
  <2>2. CASE k + 1 # m
    <3>1. k \in 1..Len(f)-1 /\ k \in 1..Len(f) /\ k + 1 \in 1..Len(f)
      BY <1>4, <2>2 DEF m
    <3>2. g[k] = f[k] /\ g[k+1] = f[k+1]
      BY <1>4, <3>1
    <3>3. f[k+1][1] = LastOf(f[k]) + 1
      BY <3>1 DEF Whole
    <3> QED BY <3>2, <3>3
  <2> QED BY <2>1, <2>2
<1>9. g[1][1] = a + 1
  <2>1. CASE f = << >>
    <3>1. a = b /\ m = 1
      BY <1>4, <2>1, EmptySeq DEF Whole, m
    <3> QED BY <1>3, <1>4, <3>1
  <2>2. CASE f # << >>
    <3>1. 1 \in 1..Len(f) /\ f[1][1] = a + 1
      BY <1>1, <2>2, EmptySeq DEF Whole
    <3> QED BY <1>4, <3>1
  <2> QED BY <2>1, <2>2
<1>10. LastOf(g[Len(g)]) = b + n
  BY <1>3, <1>4
<1>11. \A e \in es \cup {b + n} : e <= b + n
  BY <1>1, <1>5
<1>12. b + n \in Nat /\ es \cup {b + n} \in SUBSET Nat
  BY <1>1
<1> QED BY <1>1, <1>4, <1>7, <1>8, <1>9, <1>10, <1>11, <1>12 DEF Whole, g
\* What a transfer takes is the beginning of the first packet.
LEMMA ConsumeWhole ==
  ASSUME NEW f, NEW a, NEW b, NEW es, Whole(f, a, b, es), NEW n \in Nat \ {0},
         NEW c, c = Consume(f, n), NEW l, l = Len(c.bytes)
  PROVE  /\ l \in Nat /\ a + l \in Nat /\ Whole(c.rest, a + l, b, es)
         /\ \A e \in es : ~(a < e /\ e < a + l)
<1> DEFINE S == Seq(Nat)  h == f[1]
<1>1. f \in Seq(S) /\ a \in Nat /\ b \in Nat /\ es \in SUBSET Nat
  BY DEF Whole
<1>2. CASE f = << >>
  <2>1. c.bytes = << >> /\ c.rest = f
    BY <1>2 DEF Consume
  <2>2. l = 0 /\ a + l = a
    BY <1>1, <2>1, EmptySeq
  <2> QED BY <1>1, <2>1, <2>2
<1>3. CASE f # << >>
  <2> HIDE DEF S
  <2>1. /\ Len(f) \in Nat \ {0} /\ Head(f) = h /\ Tail(f) \in Seq(S)
        /\ Len(Tail(f)) = Len(f) - 1 /\ \A i \in 1..Len(f)-1 : Tail(f)[i] = f[i+1]
    <3>1. Len(f) \in Nat \ {0}
      BY <1>1, <1>3, EmptySeq
    <3>2. Tail(f) \in Seq(S) /\ Len(Tail(f)) = Len(f) - 1
          /\ \A i \in 1..Len(f)-1 : Tail(f)[i] = f[i+1]
      BY <1>1, <1>3, HeadTailProperties
    <3>3. Head(f) = h
      BY <1>1, <1>3, <3>1
    <3> QED BY <3>1, <3>2, <3>3
  <2>2. /\ Packet(h) /\ h[1] = a + 1 /\ LastOf(h) <= b
        /\ \A e \in es : ~(h[1] <= e /\ e < LastOf(h))
    BY <1>3, <2>1 DEF Whole
  <2>3. h \in Seq(Nat) /\ Len(h) \in Nat \ {0} /\ LastOf(h) = a + Len(h)
        /\ \A i \in 1..Len(h) : h[i] = a + i
    <3>1. h \in Seq(Nat) /\ Len(h) \in Nat \ {0}
      BY <2>2, PacketTyped DEF Packet
    <3>2. LastOf(h) = h[1] + Len(h) - 1 /\ \A i \in 1..Len(h) : h[i] = h[1] + i - 1
      BY <2>2 DEF LastOf, Packet
    <3> HIDE DEF h
    <3>3. h[1] = a + 1
      BY <2>2
    <3>4. LastOf(h) = a + Len(h)
      BY <1>1, <3>1, <3>2, <3>3
    <3>5. ASSUME NEW i \in 1..Len(h)  PROVE h[i] = a + i
      BY <1>1, <3>1, <3>2, <3>3
    <3> QED BY <3>1, <3>4, <3>5
  <2>4. \A e \in es : ~(a < e /\ e < a + Len(h))
    <3>1. \A e \in es : e \in Nat /\ ~(a + 1 <= e /\ e < a + Len(h))
      BY <1>1, <2>2, <2>3
    <3> HIDE DEF h
    <3> QED BY <1>1, <2>3, <3>1
  <2>5. \A k \in 1..Len(f) :
          /\ Packet(f[k]) /\ LastOf(f[k]) <= b
          /\ \A e \in es : ~(f[k][1] <= e /\ e < LastOf(f[k]))
    BY DEF Whole
  <2>6. \A k \in 1..Len(f)-1 : f[k+1][1] = LastOf(f[k]) + 1
    BY DEF Whole
  <2>7. LastOf(f[Len(f)]) = b /\ \A e \in es : e <= b
    BY <1>3 DEF Whole
  <2> HIDE DEF h
  <2>8. CASE Len(h) > n
    <3> DEFINE p == SubSeq(h, n + 1, Len(h))  g == <<p>> \o Tail(f)
    <3>1. c.bytes = SubSeq(h, 1, n) /\ c.rest = g
      BY <1>3, <2>1, <2>8 DEF Consume
    <3>2. l = n
      <4>1. \A i \in 1..n : h[i] \in Nat
        BY <1>1, <2>3, <2>8
      <4>2. Len(SubSeq(h, 1, n)) = IF 1 <= n THEN n - 1 + 1 ELSE 0
        BY <4>1, SubSeqProperties
      <4> QED BY <3>1, <4>2
    <3>3. p \in Seq(Nat) /\ Len(p) = Len(h) - n /\ \A i \in 1..Len(p) : p[i] = a + n + i
      <4> DEFINE m == n + 1  q == Len(h)
      <4>1. m \in Int /\ q \in Int /\ m <= q
        BY <2>3, <2>8
      <4>2. \A i \in m..q : h[i] \in Nat
        BY <1>1, <2>3
      <4> HIDE DEF m, q
      <4>3. SubSeq(h, m, q) \in Seq(Nat) /\ Len(SubSeq(h, m, q)) = q - m + 1
            /\ \A i \in 1..q-m+1 : SubSeq(h, m, q)[i] = h[m+i-1]
        BY <4>1, <4>2, SubSeqProperties
      <4>4. q - m + 1 = Len(h) - n
        BY <2>3 DEF m, q
      <4>5. p = SubSeq(h, m, q)
        BY DEF m, q
      <4> HIDE DEF p
      <4>6. Len(p) = Len(h) - n
        BY <4>3, <4>4, <4>5
      <4>7. ASSUME NEW i \in 1..Len(p)  PROVE p[i] = a + n + i
        <5>1. i \in 1..q-m+1 /\ n + i \in 1..Len(h) /\ m + i - 1 = n + i
          BY <2>3, <2>8, <4>4, <4>6 DEF m
        <5>2. p[i] = h[m+i-1]
          BY <4>3, <4>5, <5>1
        <5>3. h[n+i] = a + (n + i)
          BY <2>3, <5>1
        <5> QED BY <1>1, <5>1, <5>2, <5>3
      <4> QED BY <4>3, <4>5, <4>6, <4>7
    <3> HIDE DEF p
    <3>4. Packet(p) /\ p[1] = a + n + 1 /\ LastOf(p) = LastOf(h)
      <4>1. p[1] = a + n + 1 /\ Len(p) \in Nat \ {0}
        BY <1>1, <2>3, <2>8, <3>3, SMTT(30)
      <4>2. \A i \in 1..Len(p) : p[i] = p[1] + i - 1
        BY <1>1, <3>3, <4>1
      <4>3. p # << >>
        BY <4>1, EmptySeq
      <4>4. LastOf(p) = LastOf(h)
        BY <1>1, <2>3, <3>3, <4>1 DEF LastOf
      <4> QED BY <3>3, <4>1, <4>2, <4>3, <4>4 DEF Packet
    <3>5. /\ g \in Seq(S) /\ Len(g) = Len(f) /\ g # << >> /\ g[1] = p
          /\ \A k \in 2..Len(f) : g[k] = f[k]
      <4>1. <<p>> \in Seq(S) /\ Len(<<p>>) = 1 /\ <<p>>[1] = p
        BY <3>3 DEF S
      <4> DEFINE o == <<p>>
      <4> HIDE DEF o
      <4>2. /\ o \o Tail(f) \in Seq(S) /\ Len(o \o Tail(f)) = Len(o) + Len(Tail(f))
            /\ \A i \in 1..Len(o)+Len(Tail(f)) :
                 (o \o Tail(f))[i] = IF i <= Len(o) THEN o[i] ELSE Tail(f)[i - Len(o)]
        BY <2>1, <4>1, ConcatProperties DEF o
      <4>3. Len(o) = 1 /\ o[1] = p /\ g = o \o Tail(f)
        BY <4>1 DEF o
      <4>4. Len(g) = Len(f) /\ g[1] = p
        BY <2>1, <4>2, <4>3
      <4>5. ASSUME NEW k \in 2..Len(f)  PROVE g[k] = f[k]
        <5>1. k \in 1..Len(f) /\ ~(k <= 1) /\ k - 1 \in 1..Len(f)-1 /\ (k - 1) + 1 = k
          BY <2>1
        <5>2. g[k] = Tail(f)[k - 1]
          BY <2>1, <4>2, <4>3, <5>1
        <5>3. Tail(f)[k - 1] = f[(k - 1) + 1]
          BY <2>1, <5>1
        <5> QED BY <5>1, <5>2, <5>3
      <4>6. g # << >>
        BY <2>1, <4>4, EmptySeq
      <4> QED BY <4>2, <4>3, <4>4, <4>5, <4>6
    <3> HIDE DEF g
    <3>6. ASSUME NEW k \in 1..Len(g)
          PROVE  /\ Packet(g[k]) /\ LastOf(g[k]) <= b
                 /\ \A e \in es : ~(g[k][1] <= e /\ e < LastOf(g[k]))
      <4>1. CASE k = 1
        <5>1. \A e \in es : ~(p[1] <= e /\ e < LastOf(p))
          BY <1>1, <2>2, <3>4
        <5> QED BY <2>2, <3>4, <3>5, <4>1, <5>1
      <4>2. CASE k # 1
        <5>1. k \in 2..Len(f) /\ k \in 1..Len(f)
          BY <2>1, <3>5, <4>2
        <5> QED BY <2>5, <3>5, <5>1
      <4> QED BY <4>1, <4>2
    <3>7. ASSUME NEW k \in 1..Len(g)-1  PROVE g[k+1][1] = LastOf(g[k]) + 1
      <4>1. k \in 1..Len(f)-1 /\ k + 1 \in 2..Len(f) /\ g[k+1] = f[k+1]
        BY <2>1, <3>5
      <4>2. LastOf(g[k]) = LastOf(f[k])
        <5>1. CASE k = 1
          BY <3>4, <3>5, <5>1 DEF h
        <5>2. CASE k # 1
          BY <3>5, <4>1, <5>2
        <5> QED BY <5>1, <5>2
      <4> QED BY <2>6, <4>1, <4>2
    <3>8. LastOf(g[Len(g)]) = b
      <4>1. CASE Len(f) = 1
        BY <2>7, <3>4, <3>5, <4>1 DEF h
      <4>2. CASE Len(f) # 1
        BY <2>1, <2>7, <3>5, <4>2
      <4> QED BY <4>1, <4>2
    <3>9. a + l \in Nat /\ g[1][1] = (a + l) + 1
      BY <1>1, <3>2, <3>4, <3>5
    <3>10. Whole(g, a + l, b, es)
      BY <1>1, <2>7, <3>5, <3>6, <3>7, <3>8, <3>9 DEF Whole, S
    <3>11. \A e \in es : ~(a < e /\ e < a + l)
      BY <1>1, <2>3, <2>4, <2>8, <3>2
    <3> QED BY <3>1, <3>2, <3>9, <3>10, <3>11
  <2>9. CASE ~(Len(h) > n)
    <3> DEFINE g == Tail(f)
    <3>1. c.bytes = h /\ c.rest = g
      BY <1>3, <2>1, <2>9 DEF Consume
    <3>2. l = Len(h) /\ a + l = LastOf(h) /\ a + l \in Nat
      BY <1>1, <2>3, <3>1
    <3>3. /\ g \in Seq(S) /\ Len(g) = Len(f) - 1 /\ \A k \in 1..Len(g) : g[k] = f[k+1]
      BY <2>1
    <3> HIDE DEF g
    <3>4. ASSUME NEW k \in 1..Len(g)
          PROVE  /\ Packet(g[k]) /\ LastOf(g[k]) <= b
                 /\ \A e \in es : ~(g[k][1] <= e /\ e < LastOf(g[k]))
      <4>1. k + 1 \in 1..Len(f) /\ g[k] = f[k+1]
        BY <2>1, <3>3
      <4> QED BY <2>5, <4>1
    <3>5. ASSUME NEW k \in 1..Len(g)-1  PROVE g[k+1][1] = LastOf(g[k]) + 1
      <4>1. k + 1 \in 1..Len(f)-1 /\ g[k] = f[k+1] /\ g[k+1] = f[(k+1)+1]
        BY <2>1, <3>3
      <4> QED BY <2>6, <4>1
    <3>6. g = << >> => a + l = b
      <4> SUFFICES ASSUME g = << >> PROVE a + l = b
        OBVIOUS
      <4>1. Len(g) = 0
        BY EmptySeq
      <4>2. Len(f) = 1
        <5>1. Len(f) \in Int /\ Len(f) - 1 = 0
          <6>1. Len(g) = Len(f) - 1
            BY <3>3, Zenon
          <6>2. Len(f) \in Int
            BY <2>1
          <6> QED BY <4>1, <6>1, <6>2, Zenon
        <5> QED BY <5>1
      <4> QED BY <2>7, <3>2, <4>2 DEF h
    <3>7. g # << >> => g[1][1] = (a + l) + 1 /\ LastOf(g[Len(g)]) = b
      <4> SUFFICES ASSUME g # << >> PROVE g[1][1] = (a + l) + 1 /\ LastOf(g[Len(g)]) = b
        OBVIOUS
      <4>1. Len(g) \in Nat \ {0}
        BY <3>3, EmptySeq
      <4>2. 1 \in 1..Len(g) /\ 1 \in 1..Len(f)-1 /\ Len(g) \in 1..Len(g) /\ Len(g) + 1 = Len(f)
        BY <2>1, <3>3, <4>1
      <4>3. g[1] = f[1+1] /\ f[1+1][1] = LastOf(f[1]) + 1
        BY <2>6, <3>3, <4>2
      <4>4. g[Len(g)] = f[Len(f)]
        BY <3>3, <4>2
      <4> QED BY <2>7, <3>2, <4>3, <4>4 DEF h
    <3>8. Whole(g, a + l, b, es)
      BY <1>1, <2>7, <3>2, <3>3, <3>4, <3>5, <3>6, <3>7 DEF Whole, S
    <3>9. \A e \in es : ~(a < e /\ e < a + l)
      BY <2>4, <3>2
    <3>10. l \in Nat
      BY <2>3, <3>2
    <3> QED BY <3>1, <3>2, <3>8, <3>9, <3>10
  <2> QED BY <2>8, <2>9
<1> QED BY <1>2, <1>3

\* The thread as one sequence: the bytes it has been given and not yet taken.
LEMMA WholeFlattens ==
  ASSUME NEW f, NEW a, NEW b, NEW es, Whole(f, a, b, es)
  PROVE  FlattenSeq(f) = [i \in 1..b-a |-> a + i]
<1> DEFINE S == Seq(Nat)  n == Len(f)
<1>1. f \in Seq(S) /\ a \in Nat /\ b \in Nat
  BY DEF Whole
<1>2. CASE f = << >>
  <2>1. FlattenSeq(f) = << >>
    <3>1. Len(f) = 0
      BY <1>2, EmptySeq
    <3> QED BY <1>2, <3>1, Zenon DEF FlattenSeq
  <2>2. b - a = 0
    BY <1>1, <1>2 DEF Whole
  <2>3. [i \in 1..0 |-> a + i] = << >>
    OBVIOUS
  <2> QED BY <2>1, <2>2, <2>3
<1>3. CASE f # << >>
  <2>1. n \in Nat \ {0}
    <3> HIDE DEF S
    <3> QED BY <1>1, <1>3, EmptySeq
  <2> DEFINE h == [k \in 1..n |-> [i \in 1..LastOf(f[k])-a |-> a + i]]
  <2>2. \A k \in 1..n : Packet(f[k]) /\ f[k][1] \in Nat /\ Len(f[k]) \in Nat \ {0}
                        /\ LastOf(f[k]) \in Nat /\ LastOf(f[k]) >= f[k][1]
    BY PacketTyped DEF Whole
  <2>3. f[1][1] = a + 1 /\ LastOf(f[n]) = b /\ \A k \in 1..n-1 : f[k+1][1] = LastOf(f[k]) + 1
    BY <1>3 DEF Whole
  <2>4. h[1] = f[1]
    <3> DEFINE p == f[1]
    <3>1. Packet(p) /\ p[1] = a + 1 /\ LastOf(p) - a = Len(p) /\ p \in [1..Len(p) -> Nat]
      <4>1. 1 \in 1..n
        BY <2>1
      <4>2. Packet(p) /\ p[1] = a + 1 /\ Len(p) \in Nat
        BY <2>2, <2>3, <4>1
      <4>3. LastOf(p) = p[1] + Len(p) - 1
        BY DEF LastOf
      <4> HIDE DEF p
      <4>4. LastOf(p) - a = Len(p)
        BY <1>1, <4>2, <4>3
      <4> QED BY <4>2, <4>4, PacketTyped
    <3>2. h[1] = [i \in 1..LastOf(p)-a |-> a + i]
      BY <2>1
    <3> HIDE DEF p, h
    <3>3. h[1] = [i \in 1..Len(p) |-> a + i]
      BY <3>1, <3>2
    <3>4. \A i \in 1..Len(p) : p[i] = a + i
      BY <1>1, <3>1 DEF Packet
    <3>5. h[1] = p
      BY <3>1, <3>3, <3>4
    <3> QED BY <3>5 DEF p
  <2>5. \A k \in 1..n : LastOf(f[k]) >= a
    <3> DEFINE P == {j \in Nat : j + 1 <= n => LastOf(f[j+1]) >= a}
    <3>1. 0 \in P
      BY <1>1, <2>1, <2>2, <2>3
    <3>2. ASSUME NEW j \in P  PROVE j + 1 \in P
      <4> SUFFICES ASSUME j + 2 <= n  PROVE LastOf(f[(j+1)+1]) >= a
        OBVIOUS
      <4>1. j + 1 \in 1..n-1 /\ (j + 1) + 1 \in 1..n
        BY <2>1
      <4>2. LastOf(f[j+1]) >= a
        BY <4>1
      <4>3. f[(j+1)+1][1] = LastOf(f[j+1]) + 1
        BY <2>3, <4>1
      <4>4. LastOf(f[(j+1)+1]) >= f[(j+1)+1][1] /\ LastOf(f[(j+1)+1]) \in Nat
            /\ LastOf(f[j+1]) \in Nat
        BY <2>2, <4>1
      <4> QED BY <1>1, <4>2, <4>3, <4>4
    <3>3. P = Nat
      <4> HIDE DEF P
      <4>1. P \in SUBSET Nat
        BY DEF P
      <4> QED BY <3>1, <3>2, <4>1, SetInduction
    <3>4. ASSUME NEW k \in 1..n  PROVE LastOf(f[k]) >= a
      <4>1. k - 1 \in P
        <5> HIDE DEF P
        <5> QED BY <3>3
      <4>2. (k - 1) + 1 = k
        OBVIOUS
      <4> QED BY <2>1, <4>1, <4>2
    <3> QED BY <3>4
  <2>6. ASSUME NEW k \in 2..n  PROVE h[k] = h[k-1] \o f[k]
    <3> DEFINE p == f[k-1]  q == f[k]
               u == LastOf(p) - a  v == LastOf(q) - a
    <3>1. k - 1 \in 1..n /\ k \in 1..n /\ k - 1 \in 1..n-1 /\ (k - 1) + 1 = k
      BY <2>1
    <3>2. q[1] = LastOf(p) + 1 /\ LastOf(p) \in Nat /\ LastOf(p) >= a
      BY <2>2, <2>3, <2>5, <3>1
    <3>3. q \in [1..Len(q) -> Nat] /\ q \in Seq(Nat) /\ Len(q) \in Nat
          /\ \A i \in 1..Len(q) : q[i] = q[1] + i - 1
      BY <2>2, <3>1, PacketTyped DEF Packet
    <3>4. h[k] = [i \in 1..v |-> a + i] /\ h[k-1] = [i \in 1..u |-> a + i]
      BY <3>1
    <3>5. LastOf(q) = q[1] + Len(q) - 1
      BY DEF LastOf
    <3> HIDE DEF p, q, h
    <3>6. u \in Nat /\ v = u + Len(q) /\ v \in Nat
      <4>1. LastOf(q) = LastOf(p) + Len(q)
        <5>1. LastOf(q) = (LastOf(p) + 1) + Len(q) - 1
          BY <3>2, <3>5
        <5> QED BY <3>2, <3>3, <5>1
      <4>2. LastOf(p) \in Nat /\ LastOf(p) >= a /\ a \in Nat /\ Len(q) \in Nat
        BY <1>1, <3>2, <3>3
      <4> DEFINE x == LastOf(p)  y == LastOf(q)  l == Len(q)
      <4> HIDE DEF x, y, l
      <4>3. y = x + l /\ x \in Nat /\ x >= a /\ a \in Nat /\ l \in Nat
        BY <4>1, <4>2 DEF x, y, l
      <4>4. x - a \in Nat /\ y - a = (x - a) + l /\ y - a \in Nat
        BY <4>3
      <4> QED BY <4>4 DEF x, y, l
    <3> HIDE DEF u, v
    <3>7. ASSUME NEW i \in 1..Len(q)  PROVE q[i] = a + (u + i)
      <4>1. q[i] = LastOf(p) + 1 + i - 1
        BY <3>2, <3>3
      <4> QED BY <1>1, <3>2, <4>1 DEF u
    <3> DEFINE x == h[k-1]  y == h[k]
    <3>8. x \in Seq(Nat) /\ Len(x) = u /\ y \in Seq(Nat) /\ Len(y) = v
      BY <1>1, <3>4, <3>6
    <3>9. Len(x \o q) = v /\ x \o q \in Seq(Nat)
      <4> HIDE DEF x
      <4> QED BY <3>3, <3>6, <3>8, ConcatProperties
    <3>10. ASSUME NEW i \in 1..v  PROVE (x \o q)[i] = y[i]
      <4>1. y[i] = a + i
        BY <3>4
      <4>2. \A j \in 1..u : x[j] = a + j
        BY <3>4
      <4> HIDE DEF x, y
      <4>3. (x \o q)[i] = IF i <= u THEN x[i] ELSE q[i - u]
        BY <3>3, <3>6, <3>8, ConcatProperties
      <4>4. CASE i <= u
        BY <3>6, <4>1, <4>2, <4>3, <4>4
      <4>5. CASE ~(i <= u)
        <5>1. i - u \in 1..Len(q) /\ u + (i - u) = i
          BY <3>3, <3>6, <4>5
        <5>2. q[i - u] = a + i
          BY <3>7, <5>1
        <5> QED BY <4>1, <4>3, <4>5, <5>2
      <4> QED BY <4>4, <4>5
    <3>11. x \o q = y
      <4> HIDE DEF x, y
      <4> QED BY <3>8, <3>9, <3>10, SeqEqual
    <3> QED BY <3>11 DEF x, y, q
  <2>7. FlattenSeq(f) = h[n]
    <3> HIDE DEF h
    <3>1. Joins(f, h)
      BY <2>1, <2>4, <2>6 DEF Joins
    <3> QED BY <3>1, Flattened
  <2>8. h[n] = [i \in 1..b-a |-> a + i]
    <3>1. n \in 1..n
      BY <2>1
    <3> HIDE DEF n
    <3>2. h[n] = [i \in 1..LastOf(f[n])-a |-> a + i]
      BY <3>1
    <3> QED BY <2>3, <3>2
  <2> QED BY <2>7, <2>8
<1> QED BY <1>2, <1>3

\* Payloads once and in order, those dropped counted.
Once(s, r, d) ==
  /\ s \in Seq(Nat) /\ r \in Nat /\ d \in Nat
  /\ \A i, j \in 1..Len(s) : i < j => s[i] < s[j]
  /\ \A i \in 1..Len(s) : s[i] \in 1..r
  /\ Len(s) + d = r

LEMMA OnceMore ==
  ASSUME NEW s, NEW r, NEW d, Once(s, r, d)
  PROVE  Once(Append(s, r + 1), r + 1, d) /\ Once(s, r + 1, d + 1)
<1>1. s \in Seq(Nat) /\ r \in Nat /\ d \in Nat /\ Len(s) + d = r /\ Len(s) \in Nat
  BY LenProperties DEF Once
<1>2. \A i, j \in 1..Len(s) : i < j => s[i] < s[j]
  BY DEF Once
<1>3. \A i \in 1..Len(s) : s[i] \in 1..r
  BY DEF Once
<1> DEFINE x == Append(s, r + 1)
<1>4. /\ x \in Seq(Nat) /\ Len(x) = Len(s) + 1 /\ x[Len(s)+1] = r + 1
      /\ \A i \in 1..Len(s) : x[i] = s[i]
  <2>1. r + 1 \in Nat
    BY <1>1
  <2> QED BY <1>1, <2>1, AppendProperties
<1> HIDE DEF x
<1>5. ASSUME NEW i \in 1..Len(x)  PROVE x[i] \in 1..r+1
  <2>1. CASE i = Len(s) + 1
    <3>1. x[i] = r + 1
      BY <1>4, <2>1
    <3> QED BY <1>1, <3>1
  <2>2. CASE i # Len(s) + 1
    <3>1. i \in 1..Len(s)
      BY <1>1, <1>4, <2>2
    <3>2. x[i] = s[i] /\ s[i] \in 1..r
      BY <1>3, <1>4, <3>1
    <3> QED BY <1>1, <3>2
  <2> QED BY <2>1, <2>2
<1>6. ASSUME NEW i \in 1..Len(x), NEW j \in 1..Len(x), i < j  PROVE x[i] < x[j]
  <2>1. i \in 1..Len(s) /\ x[i] = s[i] /\ s[i] \in 1..r
    BY <1>1, <1>3, <1>4, <1>6, SMTT(30)
  <2>2. CASE j = Len(s) + 1
    BY <1>1, <1>4, <2>1, <2>2
  <2>3. CASE j # Len(s) + 1
    <3>1. j \in 1..Len(s) /\ x[j] = s[j]
      BY <1>1, <1>4, <2>3
    <3> QED BY <1>2, <1>6, <2>1, <3>1
  <2> QED BY <2>2, <2>3
<1>7. Once(x, r + 1, d)
  BY <1>1, <1>4, <1>5, <1>6 DEF Once
<1>8. Once(s, r + 1, d + 1)
  <2>1. \A i \in 1..Len(s) : s[i] \in 1..r+1
    BY <1>1, <1>3
  <2> QED BY <1>1, <1>2, <2>1 DEF Once
<1> QED BY <1>7, <1>8 DEF x

Threads ==
  /\ DOMAIN rxFifo = RxThreads /\ DOMAIN taken = RxThreads /\ DOMAIN injected = RxThreads
  /\ DOMAIN ends = RxThreads
  /\ \A t \in RxThreads : Whole(rxFifo[t], taken[t], injected[t], ends[t])

Transmitted ==
  /\ drained \in Seq(Nat) /\ txFifo \in Seq(Nat)
  /\ Once(drained \o txFifo, retired, txDropped)
  /\ stallWhenFull => txDropped = 0

DmaInv == Threads /\ Transmitted

\* A packet is not taken beyond its end.
WithinPackets ==
  \A t \in RxThreads : \A e \in ends[t] : ~(taken[t] < e /\ e < taken'[t])

LEMMA NoTaking ==
  ASSUME Threads, UNCHANGED taken PROVE WithinPackets
<1> SUFFICES ASSUME NEW t \in RxThreads, NEW e \in ends[t], taken[t] < e, e < taken[t]
             PROVE  FALSE
  BY DEF WithinPackets
<1>1. taken[t] \in Nat /\ e \in Nat
  BY DEF Threads, Whole
<1> QED BY <1>1

LEMMA ReceiveKeeps ==
  ASSUME Threads, NEW t \in RxThreads, NEW n \in Nat \ {0}, Receive(t, n),
         UNCHANGED <<injected, ends>>
  PROVE  Threads' /\ WithinPackets
<1> DEFINE c == Consume(rxFifo[t], n)  l == Len(c.bytes)
<1>1. Whole(rxFifo[t], taken[t], injected[t], ends[t])
  BY DEF Threads
<1>2. /\ l \in Nat /\ taken[t] + l \in Nat /\ Whole(c.rest, taken[t] + l, injected[t], ends[t])
      /\ \A e \in ends[t] : ~(taken[t] < e /\ e < taken[t] + l)
  BY <1>1, ConsumeWhole
<1>3. rxFifo' = [rxFifo EXCEPT ![t] = c.rest] /\ taken' = [taken EXCEPT ![t] = taken[t] + l]
  BY DEF Receive
<1> HIDE DEF c, l
<1>4. /\ rxFifo'[t] = c.rest /\ taken'[t] = taken[t] + l
      /\ DOMAIN rxFifo' = RxThreads /\ DOMAIN taken' = RxThreads
      /\ \A u \in RxThreads \ {t} : rxFifo'[u] = rxFifo[u] /\ taken'[u] = taken[u]
  BY <1>3 DEF Threads
<1>5. ASSUME NEW u \in RxThreads
      PROVE  /\ Whole(rxFifo'[u], taken'[u], injected'[u], ends'[u])
             /\ \A e \in ends[u] : ~(taken[u] < e /\ e < taken'[u])
  <2>1. CASE u = t
    BY <1>2, <1>4, <2>1
  <2>2. CASE u # t
    <3>1. Whole(rxFifo'[u], taken'[u], injected'[u], ends'[u])
      BY <1>4, <2>2 DEF Threads
    <3>2. taken'[u] = taken[u] /\ taken[u] \in Nat /\ \A e \in ends[u] : e \in Nat
      BY <1>4, <2>2 DEF Threads, Whole
    <3> QED BY <3>1, <3>2
  <2> QED BY <2>1, <2>2
<1>6. WithinPackets
  BY <1>5 DEF WithinPackets
<1>7. DOMAIN injected' = RxThreads /\ DOMAIN ends' = RxThreads
  BY DEF Threads
<1>8. Threads'
  BY <1>4, <1>5, <1>7 DEF Threads
<1> QED BY <1>6, <1>8

LEMMA SendKeeps ==
  ASSUME Transmitted, Send, UNCHANGED <<stallWhenFull, drained>>
  PROVE  Transmitted'
<1>1. CASE Queue
  <2>1. txFifo' = Append(txFifo, retired + 1) /\ txDropped' = txDropped /\ retired' = retired + 1
    BY <1>1 DEF Send, Queue
  <2>2. txFifo \in Seq(Nat) /\ drained \in Seq(Nat) /\ retired + 1 \in Nat
    BY DEF Transmitted, Once
  <2>3. txFifo' \in Seq(Nat)
    BY <2>1, <2>2
  <2>4. drained \o txFifo' = Append(drained \o txFifo, retired + 1)
    BY <2>1, <2>2
  <2>5. Once(Append(drained \o txFifo, retired + 1), retired + 1, txDropped)
    BY OnceMore DEF Transmitted
  <2> QED BY <2>1, <2>2, <2>3, <2>4, <2>5 DEF Transmitted
<1>2. CASE ~stallWhenFull /\ DropPayload
  <2>1. txFifo' = txFifo /\ txDropped' = txDropped + 1 /\ retired' = retired + 1
    BY <1>2 DEF Send, DropPayload
  <2>2. Once(drained \o txFifo, retired + 1, txDropped + 1)
    BY OnceMore DEF Transmitted
  <2> QED BY <1>2, <2>1, <2>2 DEF Transmitted
<1> QED BY <1>1, <1>2 DEF Send

LEMMA DmaStart == DmaInit => DmaInv
<1> SUFFICES ASSUME DmaInit PROVE DmaInv
  OBVIOUS
<1>1. Threads
  BY NothingWhole DEF DmaInit, Threads, Nothing
<1>2. << >> \o << >> = << >> /\ << >> \in Seq(Nat) /\ Len(<< >>) = 0
  OBVIOUS
<1>3. Once(<< >>, 0, 0)
  BY <1>2 DEF Once
<1>4. Transmitted
  BY <1>2, <1>3 DEF DmaInit, Transmitted
<1> QED BY <1>1, <1>4 DEF DmaInv

LEMMA DmaStep ==
  ASSUME DmaInv, [Dma]_dmaVars
  PROVE  DmaInv' /\ WithinPackets
<1> USE DEF DmaInv
<1>1. CASE Inject
  <2>1. PICK t \in RxThreads, n \in 1..MaxTransfer :
          /\ rxFifo' = [rxFifo EXCEPT ![t] = Append(@, [i \in 1..n |-> injected[t] + i])]
          /\ injected' = [injected EXCEPT ![t] = @ + n]
          /\ ends' = [ends EXCEPT ![t] = @ \cup {injected[t] + n}]
    BY <1>1 DEF Inject
  <2>2. UNCHANGED <<stallWhenFull, txFifo, txDropped, taken, retired, drained>>
    BY <1>1 DEF Inject
  <2> DEFINE p == [i \in 1..n |-> injected[t] + i]  f == Append(rxFifo[t], p)
             b == injected[t] + n  es == ends[t] \cup {injected[t] + n}
  <2>3. n \in Nat \ {0}
    OBVIOUS
  <2>4. Whole(f, taken[t], b, es)
    <3>1. Whole(rxFifo[t], taken[t], injected[t], ends[t])
      BY DEF Threads
    <3> QED BY <2>3, <3>1, InjectWhole
  <2>5. rxFifo' = [rxFifo EXCEPT ![t] = f] /\ injected' = [injected EXCEPT ![t] = b]
        /\ ends' = [ends EXCEPT ![t] = es]
    BY <2>1
  <2> HIDE DEF p, f, b, es
  <2>6. Threads'
    BY <2>2, <2>4, <2>5 DEF Threads
  <2>7. Transmitted'
    BY <2>2 DEF Transmitted
  <2> QED BY <2>2, <2>6, <2>7, NoTaking
<1>2. CASE Drain
  <2>1. drained' = drained \o txFifo /\ txFifo' = << >>
        /\ UNCHANGED <<stallWhenFull, rxFifo, txDropped, injected, ends, taken, retired>>
    BY <1>2 DEF Drain
  <2>2. drained' \in Seq(Nat) /\ txFifo' \in Seq(Nat) /\ drained' \o txFifo' = drained \o txFifo
    <3>1. drained \o txFifo \in Seq(Nat)
      BY DEF Transmitted, Once
    <3> QED BY <2>1, <3>1, ConcatEmptySeq
  <2>3. Transmitted'
    BY <2>1, <2>2 DEF Transmitted
  <2>4. Threads'
    BY <2>1 DEF Threads
  <2> QED BY <2>1, <2>3, <2>4, NoTaking
<1>3. CASE Transfer
  <2>1. PICK tr \in Transfers : \/ Xin(tr) \/ Xout(tr) \/ Xchg(tr)
    BY <1>3 DEF Transfer
  <2>2. UNCHANGED <<stallWhenFull, injected, ends, drained>>
    BY <1>3 DEF Transfer
  <2>3. tr.thread \in RxThreads /\ tr.length \in Nat \ {0}
    BY DEF Transfers
  <2>4. ASSUME Receive(tr.thread, tr.length)  PROVE Threads' /\ WithinPackets
    BY <2>2, <2>3, <2>4, ReceiveKeeps
  <2>5. ASSUME UNCHANGED <<rxFifo, taken>>  PROVE Threads' /\ WithinPackets
    BY <2>2, <2>5, NoTaking DEF Threads
  <2>6. ASSUME UNCHANGED <<txFifo, txDropped, retired>>  PROVE Transmitted'
    BY <2>2, <2>6 DEF Transmitted
  <2>7. ASSUME Send  PROVE Transmitted'
    BY <2>2, <2>7, SendKeeps
  <2>8. CASE Xin(tr)
    BY <2>4, <2>6, <2>8 DEF Xin
  <2>9. CASE Hold(tr)
    BY <2>5, <2>6, <2>9 DEF Hold
  <2>10. CASE Xout(tr)
    BY <2>5, <2>6, <2>7, <2>9, <2>10 DEF Xout
  <2>11. CASE Xchg(tr)
    BY <2>4, <2>6, <2>7, <2>9, <2>11 DEF Xchg
  <2> QED BY <2>1, <2>8, <2>10, <2>11
<1>4. CASE ResetDma
  <2>1. Threads'
    BY <1>4, NothingWhole DEF ResetDma, Threads, Nothing
  <2>2. << >> \o << >> = << >> /\ << >> \in Seq(Nat) /\ Len(<< >>) = 0
    OBVIOUS
  <2>3. Once(<< >>, 0, 0)
    BY <2>2 DEF Once
  <2>4. Transmitted'
    BY <1>4, <2>2, <2>3 DEF ResetDma, Transmitted
  <2>5. WithinPackets
    <3> SUFFICES ASSUME NEW t \in RxThreads, NEW e \in ends[t], taken[t] < e, e < taken'[t]
                 PROVE  FALSE
      BY DEF WithinPackets
    <3>1. taken[t] \in Nat /\ e \in Nat /\ taken'[t] = 0
      BY <1>4 DEF Threads, Whole, ResetDma, Nothing
    <3> QED BY <3>1
  <2> QED BY <2>1, <2>4, <2>5
<1>5. CASE UNCHANGED dmaVars
  <2>1. UNCHANGED <<stallWhenFull, rxFifo, txFifo, txDropped, injected, ends, taken, retired,
                    drained>>
    BY <1>5 DEF dmaVars
  <2>2. Threads' /\ Transmitted'
    BY <2>1 DEF Threads, Transmitted
  <2> QED BY <2>1, <2>2, NoTaking
<1> QED BY <1>1, <1>2, <1>3, <1>4, <1>5 DEF Dma

\* Both directions of the DMA threads are exact, for any threads, capacities,
\* packets and transfers.
THEOREM DmaAlwaysExact == DmaSpec => DmaIsExact
<1>1. DmaInv => SentOnce
  BY DEF DmaInv, Transmitted, Once, SentOnce
<1>2. DmaInv /\ [Dma]_dmaVars => DmaInv'
  BY DmaStep
<1>3. DmaInv /\ [Dma]_dmaVars =>
        [\A t \in RxThreads :
           /\ FlattenSeq(rxFifo'[t]) = [i \in 1..injected'[t] - taken'[t] |-> taken'[t] + i]
           /\ \A e \in ends[t] : ~(taken[t] < e /\ e < taken'[t])]_dmaVars
  <2> SUFFICES ASSUME DmaInv, [Dma]_dmaVars, NEW t \in RxThreads
               PROVE  /\ FlattenSeq(rxFifo'[t])
                           = [i \in 1..injected'[t] - taken'[t] |-> taken'[t] + i]
                      /\ \A e \in ends[t] : ~(taken[t] < e /\ e < taken'[t])
    OBVIOUS
  <2>1. DmaInv' /\ WithinPackets
    BY DmaStep
  <2>2. Whole(rxFifo'[t], taken'[t], injected'[t], ends'[t])
    BY <2>1 DEF DmaInv, Threads
  <2>3. FlattenSeq(rxFifo'[t]) = [i \in 1..injected'[t] - taken'[t] |-> taken'[t] + i]
    BY <2>2, WholeFlattens
  <2> QED BY <2>1, <2>3 DEF WithinPackets
<1>4. SentOnce' => [SentOnce']_dmaVars
  OBVIOUS
<1> QED BY <1>1, <1>2, <1>3, <1>4, DmaStart, PTL DEF DmaSpec, DmaIsExact, ReceivedInOrder

-----------------------------------------------------------------------------
(* CRC. *)

LEMMA WidthTyped ==
  ASSUME NEW m \in Modes
  PROVE  Width[m] \in Nat \ {0} /\ Poly[m] \in SUBSET Mask(m) /\ Mask(m) = 0..Width[m]-1
  BY CrcAssumption DEF Mask

LEMMA ShiftTyped ==
  ASSUME NEW m \in Modes, NEW reg \in SUBSET Mask(m), NEW bit \in BOOLEAN
  PROVE  ShiftIn(m, reg, bit) \in SUBSET Mask(m)
  BY WidthTyped DEF ShiftIn, Xor

\* The fold over a byte is a run of shifts, one for each bit.
ByteRun(m, reg, byte, run) ==
  /\ run \in [0..ByteBits -> SUBSET Mask(m)] /\ run[0] = reg
  /\ run[ByteBits] = UpdateByte(m, reg, byte)
  /\ \A k \in 1..ByteBits : run[k] = ShiftIn(m, run[k-1], BitOrder(m)[k] \in byte)

LEMMA ByteRuns ==
  ASSUME NEW m \in Modes, NEW reg \in SUBSET Mask(m), NEW byte
  PROVE  \E run : ByteRun(m, reg, byte, run)
<1> DEFINE n == ByteBits
           S == SUBSET Mask(m)
           f(i, x) == ShiftIn(m, x, BitOrder(m)[i] \in byte)
           g == [i \in 1..n |-> [x \in S |-> f(i, x)]]
<1>0. n \in Nat
  BY CrcAssumption
<1>1. \A i \in 1..n, x \in S : g[i][x] = f(i, x) /\ f(i, x) \in S
  <2> SUFFICES ASSUME NEW i \in 1..n, NEW x \in S  PROVE f(i, x) \in S
    <3> HIDE DEF f
    <3> QED OBVIOUS
  <2>1. (BitOrder(m)[i] \in byte) \in BOOLEAN
    OBVIOUS
  <2> QED BY <2>1, ShiftTyped
<1> HIDE DEF g
<1>2. Folding(n, S, g, reg)
  <2> HIDE DEF f, S
  <2>1. reg \in S
    BY DEF S
  <2> QED BY <1>0, <1>1, <2>1 DEF Folding
<1>3. PICK run : FoldRun(n, S, g, reg, run)
  <2> HIDE DEF S, n
  <2> QED BY <1>2, FoldRuns
<1> DEFINE dom == DOMAIN BitOrder(m)
           Eq(h) == h = [s \in SUBSET (1..n) |->
                          IF s = {} THEN reg ELSE f(Max(s), h[s \ {Max(s)}])]
           h == CHOOSE x : Eq(x)
<1>4. UpdateByte(m, reg, byte) = h[1..n]
  <2>1. dom = 1..n
    BY DEF BitOrder
  <2>2. UpdateByte(m, reg, byte) =
          LET it == CHOOSE x : x = [s \in SUBSET dom |->
                 IF s = {} THEN reg ELSE f(Max(s), x[s \ {Max(s)}])]
          IN  it[dom]
    BY Zenon DEF UpdateByte, FoldLeft, MapThenFoldSet
  <2> HIDE DEF dom, f
  <2> QED BY <2>1, <2>2, Zenon
<1>5. \E x : Eq(x)
  <2>1. PICK x \in [SUBSET (1..n) -> S] : Table(n, g, reg, x)
    <3> HIDE DEF S, n
    <3> QED BY <1>2, FoldTable
  <2>2. ASSUME NEW s \in SUBSET (1..n)
        PROVE  x[s] = IF s = {} THEN reg ELSE f(Max(s), x[s \ {Max(s)}])
    <3>1. CASE s = {}
      BY <2>1, <3>1 DEF Table
    <3>2. CASE s # {}
      <4>1. Max(s) \in 1..n
        BY <1>0, <3>2, LastOne
      <4>2. x[s \ {Max(s)}] \in S
        BY <2>1
      <4>3. x[s] = g[Max(s)][x[s \ {Max(s)}]]
        BY <2>1, <3>2 DEF Table
      <4> HIDE DEF f, S
      <4> QED BY <1>1, <3>2, <4>1, <4>2, <4>3
    <3> QED BY <3>1, <3>2
  <2> DEFINE H == [s \in SUBSET (1..n) |-> IF s = {} THEN reg ELSE f(Max(s), x[s \ {Max(s)}])]
  <2>3. \A s \in SUBSET (1..n) : x[s] = H[s]
    <3> HIDE DEF f
    <3> QED BY <2>2
  <2>4. x = H
    <3>1. H = [s \in SUBSET (1..n) |-> H[s]] /\ x = [s \in SUBSET (1..n) |-> x[s]]
      <4> HIDE DEF f
      <4> QED OBVIOUS
    <3> HIDE DEF H
    <3> QED BY <2>3, <3>1
  <2> QED BY <2>4
<1>6. Eq(h)
  <2> HIDE DEF Eq
  <2> QED BY <1>5
<1> HIDE DEF h
<1>7. h[{}] = reg
  BY <1>6
<1>8. ASSUME NEW k \in 1..n, h[1..k-1] \in S  PROVE h[1..k] = g[k][h[1..k-1]]
  <2>1. Max(1..k) = k /\ (1..k) \ {k} = 1..k-1 /\ 1..k # {} /\ 1..k \in SUBSET (1..n)
    BY <1>0, LastOfFirst, SMTT(30)
  <2>2. h[1..k] = f(k, h[1..k-1])
    <3> HIDE DEF f
    <3> QED BY <1>6, <2>1
  <2> HIDE DEF f, S
  <2> QED BY <1>1, <1>8, <2>2
<1>9. h[1..n] = run[n]
  <2> HIDE DEF n, S, f
  <2> QED BY <1>0, <1>3, <1>7, <1>8, FoldEnds
<1>10. /\ run \in [0..n -> S] /\ run[0] = reg
       /\ \A k \in 1..n : run[k] = g[k][run[k-1]]
  BY <1>3 DEF FoldRun
<1>11. ASSUME NEW k \in 1..n  PROVE run[k] = f(k, run[k-1])
  <2>1. k - 1 \in 0..n
    BY <1>0
  <2> HIDE DEF f, S
  <2> QED BY <1>1, <1>10, <2>1
<1>13. ByteRun(m, reg, byte, run)
  <2> QED BY <1>4, <1>9, <1>10, <1>11, Zenon DEF ByteRun
<1> QED BY <1>13

LEMMA ByteTyped ==
  ASSUME NEW m \in Modes, NEW reg \in SUBSET Mask(m), NEW byte
  PROVE  UpdateByte(m, reg, byte) \in SUBSET Mask(m)
<1>1. PICK run : ByteRun(m, reg, byte, run)
  BY ByteRuns
<1>2. ByteBits \in 0..ByteBits
  BY CrcAssumption
<1> QED BY <1>1, <1>2 DEF ByteRun

\* The fold over the bytes of a write is a run of the fold over a byte.
WriteRun(m, reg, data, run) ==
  /\ run \in [0..Len(data) -> SUBSET Mask(m)] /\ run[0] = reg
  /\ run[Len(data)] = FoldLeft(LAMBDA r, b : UpdateByte(m, r, b), reg, data)
  /\ \A k \in 1..Len(data) : run[k] = UpdateByte(m, run[k-1], data[k])

LEMMA WriteRuns ==
  ASSUME NEW m \in Modes, NEW reg \in SUBSET Mask(m), NEW data \in Seq(Bytes)
  PROVE  \E run : WriteRun(m, reg, data, run)
<1> DEFINE n == Len(data)
           S == SUBSET Mask(m)
           f(i, x) == UpdateByte(m, x, data[i])
           g == [i \in 1..n |-> [x \in S |-> f(i, x)]]
<1>0. n \in Nat
  OBVIOUS
<1>1. \A i \in 1..n, x \in S : g[i][x] = f(i, x) /\ f(i, x) \in S
  <2> SUFFICES ASSUME NEW i \in 1..n, NEW x \in S  PROVE f(i, x) \in S
    <3> HIDE DEF f
    <3> QED OBVIOUS
  <2> QED BY ByteTyped
<1> HIDE DEF g
<1>2. Folding(n, S, g, reg)
  <2> HIDE DEF f, S
  <2>1. reg \in S
    BY DEF S
  <2> QED BY <1>0, <1>1, <2>1 DEF Folding
<1>3. PICK run : FoldRun(n, S, g, reg, run)
  <2> HIDE DEF S, n
  <2> QED BY <1>2, FoldRuns
<1> DEFINE dom == DOMAIN data
           result == FoldLeft(LAMBDA r, b : UpdateByte(m, r, b), reg, data)
           Eq(h) == h = [s \in SUBSET (1..n) |->
                          IF s = {} THEN reg ELSE f(Max(s), h[s \ {Max(s)}])]
           h == CHOOSE x : Eq(x)
<1>4. result = h[1..n]
  <2>1. dom = 1..n
    BY LenProperties
  <2>2. result =
          LET it == CHOOSE x : x = [s \in SUBSET dom |->
                 IF s = {} THEN reg ELSE f(Max(s), x[s \ {Max(s)}])]
          IN  it[dom]
    BY Zenon DEF FoldLeft, MapThenFoldSet
  <2> HIDE DEF dom, f, result
  <2> QED BY <2>1, <2>2, Zenon
<1>5. \E x : Eq(x)
  <2>1. PICK x \in [SUBSET (1..n) -> S] : Table(n, g, reg, x)
    <3> HIDE DEF S, n
    <3> QED BY <1>2, FoldTable
  <2>2. ASSUME NEW s \in SUBSET (1..n)
        PROVE  x[s] = IF s = {} THEN reg ELSE f(Max(s), x[s \ {Max(s)}])
    <3>1. CASE s = {}
      BY <2>1, <3>1 DEF Table
    <3>2. CASE s # {}
      <4>1. Max(s) \in 1..n
        BY <1>0, <3>2, LastOne
      <4>2. x[s \ {Max(s)}] \in S
        BY <2>1
      <4>3. x[s] = g[Max(s)][x[s \ {Max(s)}]]
        BY <2>1, <3>2 DEF Table
      <4> HIDE DEF f, S
      <4> QED BY <1>1, <3>2, <4>1, <4>2, <4>3
    <3> QED BY <3>1, <3>2
  <2> DEFINE H == [s \in SUBSET (1..n) |-> IF s = {} THEN reg ELSE f(Max(s), x[s \ {Max(s)}])]
  <2>3. \A s \in SUBSET (1..n) : x[s] = H[s]
    <3> HIDE DEF f
    <3> QED BY <2>2
  <2>4. x = H
    <3>1. H = [s \in SUBSET (1..n) |-> H[s]] /\ x = [s \in SUBSET (1..n) |-> x[s]]
      <4> HIDE DEF f
      <4> QED OBVIOUS
    <3> HIDE DEF H
    <3> QED BY <2>3, <3>1
  <2> QED BY <2>4
<1>6. Eq(h)
  <2> HIDE DEF Eq
  <2> QED BY <1>5
<1> HIDE DEF h
<1>7. h[{}] = reg
  BY <1>6
<1>8. ASSUME NEW k \in 1..n, h[1..k-1] \in S  PROVE h[1..k] = g[k][h[1..k-1]]
  <2>1. Max(1..k) = k /\ (1..k) \ {k} = 1..k-1 /\ 1..k # {} /\ 1..k \in SUBSET (1..n)
    BY <1>0, LastOfFirst, SMTT(30)
  <2>2. h[1..k] = f(k, h[1..k-1])
    <3> HIDE DEF f
    <3> QED BY <1>6, <2>1
  <2> HIDE DEF f, S
  <2> QED BY <1>1, <1>8, <2>2
<1>9. h[1..n] = run[n]
  <2> HIDE DEF n, S, f
  <2> QED BY <1>0, <1>3, <1>7, <1>8, FoldEnds
<1>10. /\ run \in [0..n -> S] /\ run[0] = reg
       /\ \A k \in 1..n : run[k] = g[k][run[k-1]]
  BY <1>3 DEF FoldRun
<1>11. ASSUME NEW k \in 1..n  PROVE run[k] = f(k, run[k-1])
  <2>1. k - 1 \in 0..n
    BY <1>0
  <2> HIDE DEF f, S
  <2> QED BY <1>1, <1>10, <2>1
<1>13. WriteRun(m, reg, data, run)
  <2> QED BY <1>4, <1>9, <1>10, <1>11, Zenon DEF WriteRun
<1> QED BY <1>13

\* One step of the long division, for the highest power left.
Divided(m, n, k, p) ==
  LET top == Width[m] + n - k
  IN  IF top \in p THEN Xor(p, {top} \cup {top - Width[m] + i : i \in Poly[m]}) ELSE p

\* The division is a run of such steps.
DivisionRun(m, n, poly, run) ==
  /\ run \in [0..n -> SUBSET Nat] /\ run[0] = poly
  /\ run[n] = Remainder(m, poly, n)
  /\ \A k \in 1..n : run[k] = Divided(m, n, k, run[k-1])

LEMMA DivisionRuns ==
  ASSUME NEW m \in Modes, NEW n \in Nat, NEW poly \in SUBSET Nat
  PROVE  \E run : DivisionRun(m, n, poly, run)
<1> DEFINE S == SUBSET Nat
           seq == [k \in 1..n |-> k]
           f(i, x) == Divided(m, n, seq[i], x)
           g == [i \in 1..n |-> [x \in S |-> f(i, x)]]
<1>0. n \in Nat
  OBVIOUS
<1>1. \A i \in 1..n, x \in S : g[i][x] = f(i, x) /\ f(i, x) \in S
  <2> SUFFICES ASSUME NEW i \in 1..n, NEW x \in S  PROVE f(i, x) \in S
    <3> HIDE DEF f
    <3> QED OBVIOUS
  <2>1. Width[m] \in Nat /\ \A j \in Poly[m] : j \in Nat
    BY WidthTyped
  <2>2. Width[m] + n - i \in Nat
    BY <2>1
  <2> DEFINE top == Width[m] + n - i
             low == {top - Width[m] + j : j \in Poly[m]}
  <2>3. low \in SUBSET Nat /\ top \in Nat
    <3>1. ASSUME NEW j \in Poly[m]  PROVE top - Width[m] + j \in Nat
      BY <2>1
    <3>2. top \in Nat
      BY <2>2
    <3> HIDE DEF top
    <3> QED BY <3>1, <3>2
  <2>4. Divided(m, n, i, x) = IF top \in x THEN Xor(x, {top} \cup low) ELSE x
    BY DEF Divided
  <2> HIDE DEF top, low
  <2>5. Divided(m, n, i, x) \in S
    BY <2>3, <2>4 DEF Xor
  <2> QED BY <2>5
<1> HIDE DEF g
<1>2. Folding(n, S, g, poly)
  <2> HIDE DEF f, S
  <2>1. poly \in S
    BY DEF S
  <2> QED BY <1>0, <1>1, <2>1 DEF Folding
<1>3. PICK run : FoldRun(n, S, g, poly, run)
  <2> HIDE DEF S
  <2> QED BY <1>2, FoldRuns
<1> DEFINE dom == DOMAIN seq
           Eq(h) == h = [s \in SUBSET (1..n) |->
                          IF s = {} THEN poly ELSE f(Max(s), h[s \ {Max(s)}])]
           h == CHOOSE x : Eq(x)
<1>4. Remainder(m, poly, n) = h[1..n]
  <2>1. dom = 1..n
    OBVIOUS
  <2>2. Remainder(m, poly, n) =
          LET it == CHOOSE x : x = [s \in SUBSET dom |->
                 IF s = {} THEN poly ELSE f(Max(s), x[s \ {Max(s)}])]
          IN  it[dom]
    BY Zenon DEF Remainder, Divided, FoldLeft, MapThenFoldSet
  <2> HIDE DEF dom, f
  <2> QED BY <2>1, <2>2, Zenon
<1>5. \E x : Eq(x)
  <2>1. PICK x \in [SUBSET (1..n) -> S] : Table(n, g, poly, x)
    <3> HIDE DEF S
    <3> QED BY <1>2, FoldTable
  <2>2. ASSUME NEW s \in SUBSET (1..n)
        PROVE  x[s] = IF s = {} THEN poly ELSE f(Max(s), x[s \ {Max(s)}])
    <3>1. CASE s = {}
      BY <2>1, <3>1 DEF Table
    <3>2. CASE s # {}
      <4>1. Max(s) \in 1..n
        BY <1>0, <3>2, LastOne
      <4>2. x[s \ {Max(s)}] \in S
        BY <2>1
      <4>3. x[s] = g[Max(s)][x[s \ {Max(s)}]]
        BY <2>1, <3>2 DEF Table
      <4> HIDE DEF f, S
      <4> QED BY <1>1, <3>2, <4>1, <4>2, <4>3
    <3> QED BY <3>1, <3>2
  <2> DEFINE H == [s \in SUBSET (1..n) |-> IF s = {} THEN poly ELSE f(Max(s), x[s \ {Max(s)}])]
  <2>3. \A s \in SUBSET (1..n) : x[s] = H[s]
    <3> HIDE DEF f
    <3> QED BY <2>2
  <2>4. x = H
    <3>1. H = [s \in SUBSET (1..n) |-> H[s]] /\ x = [s \in SUBSET (1..n) |-> x[s]]
      <4> HIDE DEF f
      <4> QED OBVIOUS
    <3> HIDE DEF H
    <3> QED BY <2>3, <3>1
  <2> QED BY <2>4
<1>6. Eq(h)
  <2> HIDE DEF Eq
  <2> QED BY <1>5
<1> HIDE DEF h
<1>7. h[{}] = poly
  BY <1>6
<1>8. ASSUME NEW k \in 1..n, h[1..k-1] \in S  PROVE h[1..k] = g[k][h[1..k-1]]
  <2>1. Max(1..k) = k /\ (1..k) \ {k} = 1..k-1 /\ 1..k # {} /\ 1..k \in SUBSET (1..n)
    BY <1>0, LastOfFirst, SMTT(30)
  <2>2. h[1..k] = f(k, h[1..k-1])
    <3> HIDE DEF f
    <3> QED BY <1>6, <2>1
  <2> HIDE DEF f, S
  <2> QED BY <1>1, <1>8, <2>2
<1>9. h[1..n] = run[n]
  <2> HIDE DEF S, f
  <2> QED BY <1>0, <1>3, <1>7, <1>8, FoldEnds
<1>10. /\ run \in [0..n -> S] /\ run[0] = poly
       /\ \A k \in 1..n : run[k] = g[k][run[k-1]]
  BY <1>3 DEF FoldRun
<1>11. ASSUME NEW k \in 1..n  PROVE run[k] = f(k, run[k-1])
  <2>1. k - 1 \in 0..n
    BY <1>0
  <2> HIDE DEF f, S
  <2> QED BY <1>1, <1>10, <2>1
<1>12. \A k \in 1..n : run[k] = Divided(m, n, k, run[k-1])
  BY <1>11
<1>13. DivisionRun(m, n, poly, run)
  <2> QED BY <1>4, <1>9, <1>10, <1>12, Zenon DEF DivisionRun
<1> QED BY <1>13

\* The shift register fed the bits at the positions in B.
Fed(m, n, B, R) ==
  /\ R \in [0..n -> SUBSET Mask(m)]
  /\ \A k \in 1..n : R[k] = ShiftIn(m, R[k-1], k \in B)

\* What is left of the dividend when k bits are divided: the register at the
\* top, under it the bits not yet fed.
Rest(m, n, B, reg, k) ==
  {e \in Nat : (e - (n - k) \in reg) # (n + Width[m] - e \in B /\ n + Width[m] - e > k)}

LEMMA RestStart ==
  ASSUME NEW m \in Modes, NEW n \in Nat, NEW B \in SUBSET (1..n), NEW reg \in SUBSET Mask(m)
  PROVE  Rest(m, n, B, reg, 0)
           = Xor({i + n : i \in reg}, {i + Width[m] : i \in {n - j : j \in B}})
<1> DEFINE W == Width[m]
           A == {i + n : i \in reg}
           C == {i + W : i \in {n - j : j \in B}}
<1>1. W \in Nat \ {0} /\ \A i \in reg : i \in 0..W-1
  BY WidthTyped
<1>2. A \in SUBSET Nat /\ C \in SUBSET Nat
  BY <1>1
<1>3. ASSUME NEW e \in Nat  PROVE (e \in A <=> e - (n - 0) \in reg)
  <2>1. \A i \in reg : i + n = e <=> i = e - (n - 0)
    BY <1>1
  <2> QED BY <2>1
<1>4. ASSUME NEW e \in Nat
      PROVE  e \in C <=> (n + W - e \in B /\ n + W - e > 0)
  <2>1. \A j \in B : (n - j) + W = e <=> j = n + W - e
    BY <1>1
  <2>2. e \in C <=> \E j \in B : e = (n - j) + W
    OBVIOUS
  <2>3. \A j \in B : j > 0
    OBVIOUS
  <2> HIDE DEF C
  <2> QED BY <2>1, <2>2, <2>3
<1> HIDE DEF A, C
<1>5. \A e \in Nat : e \in Xor(A, C) <=> e \in Rest(m, n, B, reg, 0)
  BY <1>3, <1>4 DEF Rest, Xor
<1>6. Xor(A, C) \in SUBSET Nat /\ Rest(m, n, B, reg, 0) \in SUBSET Nat
  BY <1>2 DEF Rest, Xor
<1>7. Xor(A, C) = Rest(m, n, B, reg, 0)
  BY <1>5, <1>6
<1> QED BY <1>7 DEF A, C

LEMMA RestEnd ==
  ASSUME NEW m \in Modes, NEW n \in Nat, NEW B \in SUBSET (1..n), NEW reg \in SUBSET Mask(m)
  PROVE  Rest(m, n, B, reg, n) = reg
<1>1. Mask(m) \in SUBSET Nat
  BY WidthTyped
<1>2. \A e \in Nat : e - (n - n) = e
  OBVIOUS
<1>3. \A j \in B : ~(j > n)
  OBVIOUS
<1>4. ASSUME NEW e \in Nat  PROVE e \in Rest(m, n, B, reg, n) <=> e \in reg
  <2> DEFINE j == n + Width[m] - e
  <2>1. e \in Rest(m, n, B, reg, n) <=> ~(e - (n - n) \in reg <=> (j \in B /\ j > n))
    BY DEF Rest
  <2>2. e - (n - n) = e
    OBVIOUS
  <2> HIDE DEF j
  <2> QED BY <1>3, <2>1, <2>2
<1>5. Rest(m, n, B, reg, n) \in SUBSET Nat
  BY DEF Rest
<1> QED BY <1>1, <1>4, <1>5

\* A shift of the register is a step of the division.
LEMMA RestStep ==
  ASSUME NEW m \in Modes, NEW n \in Nat, NEW B \in SUBSET (1..n), NEW reg \in SUBSET Mask(m),
         NEW k \in 1..n
  PROVE  Rest(m, n, B, ShiftIn(m, reg, k \in B), k) = Divided(m, n, k, Rest(m, n, B, reg, k - 1))
<1> DEFINE W == Width[m]
           P == Poly[m]
           top == W + n - k
           p == Rest(m, n, B, reg, k - 1)
           shifted == {i + 1 : i \in reg} \cap Mask(m)
           new == ShiftIn(m, reg, k \in B)
           low == {top - W + i : i \in P}
           sub == {top} \cup low
           feedback == (W - 1 \in reg) # (k \in B)
<1>0. W \in Nat \ {0} /\ P \in SUBSET (0..W-1) /\ Mask(m) = 0..W-1 /\ n \in Nat /\ k \in 1..n
  BY WidthTyped
<1>1. top \in p <=> feedback
  <2>1. top - (n - (k - 1)) = W - 1 /\ n + W - top = k /\ k > k - 1 /\ top \in Nat
    BY <1>0
  <2> HIDE DEF top, W
  <2> QED BY <2>1 DEF Rest, W
<1>2. new = IF feedback THEN Xor(shifted, P) ELSE shifted
  BY DEF ShiftIn
<1>3. Divided(m, n, k, p) = IF top \in p THEN Xor(p, sub) ELSE p
  BY DEF Divided
<1>4. ASSUME NEW e \in Nat
      PROVE  /\ e - (n - k) \in shifted <=> e # top /\ e - (n - (k - 1)) \in reg
             /\ e - (n - k) \in P <=> e \in low
             /\ (n + W - e \in B /\ n + W - e > k - 1)
                  <=> (n + W - e \in B /\ n + W - e > k) \/ (e = top /\ k \in B)
             /\ e = top => e \notin low /\ ~(n + W - e > k)
  <2>1. e - (n - k) \in P <=> e \in low
    <3>1. \A i \in P : top - W + i = e <=> i = e - (n - k)
      BY <1>0
    <3> QED BY <3>1
  <2>2. e - (n - k) \in shifted <=> e # top /\ e - (n - (k - 1)) \in reg
    <3>1. \A i \in reg : i \in 0..W-1
      BY <1>0
    <3>2. \A i \in reg : i + 1 = e - (n - k) <=> i = e - (n - (k - 1))
      BY <1>0, <3>1
    <3>3. e - (n - k) \in {i + 1 : i \in reg} <=> e - (n - (k - 1)) \in reg
      BY <3>2
    <3>4. e - (n - (k - 1)) \in reg => (e - (n - k) \in 0..W-1 <=> e # top)
      BY <1>0, <3>1
    <3> QED BY <1>0, <3>3, <3>4
  <2>3. /\ n + W - e > k - 1 <=> n + W - e > k \/ e = top
        /\ e = top => n + W - e = k /\ ~(n + W - e > k)
    BY <1>0
  <2>4. e = top => e \notin low
    <3>1. \A i \in P : top - W + i # top
      BY <1>0
    <3> QED BY <3>1
  <2> HIDE DEF top, W, P, low, shifted
  <2> QED BY <2>1, <2>2, <2>3, <2>4
<1>5. ASSUME NEW e \in Nat
      PROVE  e \in Rest(m, n, B, new, k) <=> e \in Divided(m, n, k, p)
  <2> DEFINE r0 == e - (n - (k - 1)) \in reg
             r1 == e - (n - k) \in new
             m1 == n + W - e \in B /\ n + W - e > k
             m0 == n + W - e \in B /\ n + W - e > k - 1
  <2>1. e \in Rest(m, n, B, new, k) <=> ~(r1 <=> m1)
    BY DEF Rest
  <2>2. e \in p <=> ~(r0 <=> m0)
    BY DEF Rest
  <2>3. e \in sub <=> e = top \/ e \in low
    OBVIOUS
  <2>4. e \in Divided(m, n, k, p) <=> ~(e \in p <=> (feedback /\ e \in sub))
    <3> HIDE DEF p, sub, feedback, top
    <3> QED BY <1>1, <1>3 DEF Xor
  <2>5. r1 <=> ~((e # top /\ r0) <=> (feedback /\ e \in low))
    <3>1. e - (n - k) \in new <=> ~(e - (n - k) \in shifted <=> (feedback /\ e - (n - k) \in P))
      <4> HIDE DEF new, shifted, feedback, P
      <4> QED BY <1>2 DEF Xor
    <3> HIDE DEF shifted, new, feedback, P, top, low
    <3> QED BY <1>4, <3>1
  <2>6. m0 <=> m1 \/ (e = top /\ k \in B)
    BY <1>4
  <2>7. e = top => e \notin low /\ ~m1 /\ (r0 <=> W - 1 \in reg)
    <3>1. top - (n - (k - 1)) = W - 1
      BY <1>0
    <3> HIDE DEF top, W, low
    <3> QED BY <1>4, <3>1 DEF W
  <2>8. feedback <=> ~(W - 1 \in reg <=> k \in B)
    OBVIOUS
  <2> HIDE DEF r0, r1, m0, m1, top, low, p, sub, new, W, feedback
  <2>9. CASE e = top
    BY <2>1, <2>2, <2>3, <2>4, <2>5, <2>6, <2>7, <2>8, <2>9, Zenon
  <2>10. CASE e # top
    BY <2>1, <2>2, <2>3, <2>4, <2>5, <2>6, <2>7, <2>8, <2>10, Zenon
  <2> QED BY <2>9, <2>10
<1>6. Rest(m, n, B, new, k) \in SUBSET Nat /\ p \in SUBSET Nat /\ sub \in SUBSET Nat
  <2>1. \A i \in P : top - W + i \in Nat
    BY <1>0
  <2>2. top \in Nat
    BY <1>0
  <2> QED BY <2>1, <2>2 DEF Rest
<1>7. Divided(m, n, k, p) \in SUBSET Nat
  <2> HIDE DEF p, sub
  <2> QED BY <1>3, <1>6 DEF Xor
<1> HIDE DEF new, p
<1>8. Rest(m, n, B, new, k) = Divided(m, n, k, p)
  BY <1>5, <1>6, <1>7
<1> QED BY <1>8 DEF new, p

\* A register that was fed n bits holds the remainder of what it was fed.
LEMMA FedIsRemainder ==
  ASSUME NEW m \in Modes, NEW n \in Nat, NEW B \in SUBSET (1..n), NEW R, Fed(m, n, B, R)
  PROVE  R[n] = Remainder(m, Xor({i + n : i \in R[0]},
                                 {i + Width[m] : i \in {n - j : j \in B}}), n)
<1> DEFINE poly == Rest(m, n, B, R[0], 0)
<1>1. \A k \in 0..n : R[k] \in SUBSET Mask(m)
  BY DEF Fed
<1>2. \A k \in 1..n : R[k] = ShiftIn(m, R[k-1], k \in B)
  BY DEF Fed
<1>3. PICK run : DivisionRun(m, n, poly, run)
  <2>1. poly \in SUBSET Nat
    BY DEF Rest
  <2> HIDE DEF poly
  <2> QED BY <2>1, DivisionRuns
<1> DEFINE Agree(k) == run[k] = Rest(m, n, B, R[k], k)
           P == {k \in Nat : k <= n => Agree(k)}
<1>4. 0 \in P
  <2>1. Agree(0)
    BY <1>3 DEF DivisionRun
  <2> QED BY <2>1
<1>5. ASSUME NEW k \in P  PROVE k + 1 \in P
  <2> DEFINE i == k + 1
  <2> SUFFICES ASSUME i <= n  PROVE Agree(i)
    <3> HIDE DEF Agree
    <3> QED OBVIOUS
  <2>1. i \in 1..n /\ i - 1 = k /\ k \in 0..n /\ k <= n
    OBVIOUS
  <2>2. Agree(k)
    BY <2>1
  <2> HIDE DEF i
  <2>3. run[i] = Divided(m, n, i, run[k])
    BY <1>3, <2>1 DEF DivisionRun
  <2>4. R[i] = ShiftIn(m, R[k], i \in B)
    BY <1>2, <2>1
  <2>5. R[k] \in SUBSET Mask(m)
    BY <1>1, <2>1
  <2>6. Rest(m, n, B, R[i], i) = Divided(m, n, i, Rest(m, n, B, R[k], k))
    BY <2>1, <2>4, <2>5, RestStep
  <2> QED BY <2>2, <2>3, <2>6
<1>6. P = Nat
  <2> HIDE DEF P
  <2>1. P \in SUBSET Nat
    BY DEF P
  <2> QED BY <1>4, <1>5, <2>1, SetInduction
<1>7. Agree(n)
  <2>1. n \in P
    <3> HIDE DEF P
    <3> QED BY <1>6
  <2> QED BY <2>1
<1>8. R[n] = run[n]
  <2>1. R[n] \in SUBSET Mask(m)
    BY <1>1
  <2>2. Rest(m, n, B, R[n], n) = R[n]
    BY <2>1, RestEnd
  <2> QED BY <1>7, <2>2
<1>9. run[n] = Remainder(m, poly, n)
  BY <1>3 DEF DivisionRun
<1>10. poly = Xor({i + n : i \in R[0]}, {i + Width[m] : i \in {n - j : j \in B}})
  <2>1. R[0] \in SUBSET Mask(m)
    BY <1>1
  <2> QED BY <2>1, RestStart
<1> QED BY <1>8, <1>9, <1>10

\* The positions of the ones of a message, in the order the bits are fed.
BitsOf(m, bytes) ==
  {j \in 1..Len(bytes)*ByteBits :
     BitOrder(m)[((j - 1) % ByteBits) + 1] \in bytes[((j - 1) \div ByteBits) + 1]}

\* The register reg is what feeding the message to the seed s leaves.
Reached(m, s, bytes, reg) ==
  \E R : /\ Fed(m, Len(bytes)*ByteBits, BitsOf(m, bytes), R)
         /\ R[0] = s /\ R[Len(bytes)*ByteBits] = reg

LEMMA ReachedNow ==
  ASSUME NEW m \in Modes, NEW s \in SUBSET Mask(m)
  PROVE  Reached(m, s, << >>, s)
<1> DEFINE R == [k \in 0..0 |-> s]
<1>1. Len(<< >>)*ByteBits = 0
  BY CrcAssumption, EmptySeq
<1>2. Fed(m, 0, BitsOf(m, << >>), R) /\ R[0] = s
  BY DEF Fed
<1> QED BY <1>1, <1>2 DEF Reached

LEMMA ReachedTyped ==
  ASSUME NEW m \in Modes, NEW s, NEW bytes \in Seq(Bytes), NEW reg, Reached(m, s, bytes, reg)
  PROVE  reg \in SUBSET Mask(m)
<1> DEFINE n == Len(bytes)*ByteBits
<1>1. n \in Nat
  BY CrcAssumption, LenProperties
<1>2. PICK R : Fed(m, n, BitsOf(m, bytes), R) /\ R[n] = reg
  BY DEF Reached
<1> HIDE DEF n
<1>3. n \in 0..n
  BY <1>1
<1> QED BY <1>2, <1>3 DEF Fed

LEMMA ReachedIsRemainder ==
  ASSUME NEW m \in Modes, NEW s, NEW bytes \in Seq(Bytes), NEW reg, Reached(m, s, bytes, reg)
  PROVE  reg = Remainder(m, Xor({i + Len(bytes)*ByteBits : i \in s},
                                {i + Width[m] : i \in Message(m, bytes)}), Len(bytes)*ByteBits)
<1> DEFINE n == Len(bytes)*ByteBits
           B == BitsOf(m, bytes)
<1>1. n \in Nat
  BY CrcAssumption, LenProperties
<1>2. B \in SUBSET (1..n)
  BY DEF BitsOf
<1>3. Message(m, bytes) = {n - j : j \in B}
  BY Zenon DEF Message, BitsOf
<1>4. PICK R : Fed(m, n, B, R) /\ R[0] = s /\ R[n] = reg
  BY DEF Reached
<1> HIDE DEF n, B
<1>5. R[n] = Remainder(m, Xor({i + n : i \in R[0]}, {i + Width[m] : i \in {n - j : j \in B}}), n)
  BY <1>1, <1>2, <1>4, FedIsRemainder
<1> QED BY <1>3, <1>4, <1>5 DEF n

LEMMA MoreBits ==
  ASSUME NEW m \in Modes, NEW bytes \in Seq(Bytes), NEW byte \in Bytes,
         NEW n, n = Len(bytes)*ByteBits, NEW more, more = Append(bytes, byte)
  PROVE  /\ n \in Nat /\ Len(more)*ByteBits = n + ByteBits
         /\ \A j \in 1..n : j \in BitsOf(m, more) <=> j \in BitsOf(m, bytes)
         /\ \A i \in 1..ByteBits : n + i \in BitsOf(m, more) <=> BitOrder(m)[i] \in byte
<1> DEFINE L == Len(bytes)
<1>1. ByteBits \in Nat \ {0}
  BY CrcAssumption
<1>2. L \in Nat
  BY LenProperties
<1>3. Len(more) = L + 1 /\ more[L + 1] = byte /\ \A i \in 1..L : more[i] = bytes[i]
  BY AppendProperties
<1> HIDE DEF L
<1>4. n = L*ByteBits /\ n \in Nat
  BY <1>1, <1>2 DEF L
<1>5. Len(more)*ByteBits = n + ByteBits
  BY <1>1, <1>2, <1>3, <1>4
<1>6. ASSUME NEW j \in 1..n  PROVE j \in BitsOf(m, more) <=> j \in BitsOf(m, bytes)
  <2> DEFINE q == (j - 1) \div ByteBits
  <2>1. j - 1 \in Nat
    OBVIOUS
  <2>2. q \in Nat /\ (j - 1) % ByteBits \in 0..ByteBits-1
          /\ j - 1 = q * ByteBits + ((j - 1) % ByteBits)
    BY <1>1, <2>1, DivModParts
  <2>3. q + 1 \in 1..L
    <3> HIDE DEF q
    <3>1. SUFFICES ASSUME q >= L PROVE FALSE
      BY <1>2, <2>2
    <3>2. q * ByteBits >= L * ByteBits
      BY <1>1, <1>2, <2>2, <3>1
    <3>3. q * ByteBits \in Nat
      BY <1>1, <2>2
    <3> QED BY <1>4, <2>1, <2>2, <3>2, <3>3
  <2>4. more[q + 1] = bytes[q + 1]
    BY <1>3, <2>3
  <2>5. j \in 1..n + ByteBits
    BY <1>1, <1>4
  <2> QED BY <1>4, <1>5, <2>4, <2>5 DEF BitsOf, L
<1>7. ASSUME NEW i \in 1..ByteBits
      PROVE  n + i \in BitsOf(m, more) <=> BitOrder(m)[i] \in byte
  <2>1. i - 1 \in 0..ByteBits-1 /\ (n + i) - 1 = L*ByteBits + (i - 1)
    BY <1>1, <1>4
  <2>2. ((n + i) - 1) \div ByteBits = L /\ ((n + i) - 1) % ByteBits = i - 1
    <3> DEFINE at == (n + i) - 1
               r == i - 1
    <3>1. r \in 0..ByteBits-1 /\ at = L*ByteBits + r
      BY <2>1
    <3> HIDE DEF at, r
    <3>2. at \div ByteBits = L /\ at % ByteBits = r
      BY <1>1, <1>2, <3>1, Quotient
    <3> QED BY <3>2 DEF at, r
  <2>3. n + i \in 1..n + ByteBits /\ (i - 1) + 1 = i
    BY <1>1, <1>4
  <2> QED BY <1>3, <1>5, <2>2, <2>3 DEF BitsOf
<1> QED BY <1>4, <1>5, <1>6, <1>7

LEMMA ReachedByte ==
  ASSUME NEW m \in Modes, NEW s, NEW bytes \in Seq(Bytes), NEW reg, Reached(m, s, bytes, reg),
         NEW byte \in Bytes
  PROVE  Reached(m, s, Append(bytes, byte), UpdateByte(m, reg, byte))
<1> DEFINE n == Len(bytes)*ByteBits
           more == Append(bytes, byte)
           B == BitsOf(m, bytes)
           C == BitsOf(m, more)
<1>1. /\ n \in Nat /\ Len(more)*ByteBits = n + ByteBits
      /\ \A j \in 1..n : j \in C <=> j \in B
      /\ \A i \in 1..ByteBits : n + i \in C <=> BitOrder(m)[i] \in byte
  BY MoreBits
<1>2. PICK R : Fed(m, n, B, R) /\ R[0] = s /\ R[n] = reg
  BY DEF Reached
<1> HIDE DEF n, more, B, C
<1>3. ByteBits \in Nat \ {0}
  BY CrcAssumption
<1>4. /\ R \in [0..n -> SUBSET Mask(m)] /\ \A k \in 1..n : R[k] = ShiftIn(m, R[k-1], k \in B)
  BY <1>2 DEF Fed
<1>5. reg \in SUBSET Mask(m)
  <2>1. n \in 0..n
    BY <1>1
  <2> QED BY <1>2, <1>4, <2>1
<1>6. PICK run : ByteRun(m, reg, byte, run)
  BY <1>5, ByteRuns
<1>7. /\ run \in [0..ByteBits -> SUBSET Mask(m)] /\ run[0] = reg
      /\ run[ByteBits] = UpdateByte(m, reg, byte)
      /\ \A k \in 1..ByteBits : run[k] = ShiftIn(m, run[k-1], BitOrder(m)[k] \in byte)
  BY <1>6 DEF ByteRun
<1> DEFINE Q == [k \in 0..n+ByteBits |-> IF k <= n THEN R[k] ELSE run[k - n]]
<1>8. \A k \in 0..n : Q[k] = R[k]
  BY <1>1, <1>3
<1>9. \A i \in 0..ByteBits : Q[n + i] = run[i]
  <2>1. ASSUME NEW i \in 0..ByteBits  PROVE Q[n + i] = run[i]
    <3>1. n + i \in 0..n+ByteBits /\ (n + i) - n = i /\ (n + i <= n <=> i = 0) /\ n + 0 = n
      BY <1>1, <1>3
    <3> QED BY <1>2, <1>7, <3>1
  <2> QED BY <2>1
<1>10. Q \in [0..n+ByteBits -> SUBSET Mask(m)]
  <2>1. \A k \in 0..n+ByteBits : k <= n => k \in 0..n
    BY <1>1, <1>3
  <2>2. \A k \in 0..n+ByteBits : ~(k <= n) => k - n \in 0..ByteBits
    BY <1>1, <1>3
  <2> QED BY <1>4, <1>7, <2>1, <2>2
<1> HIDE DEF Q
<1>11. ASSUME NEW k \in 1..n+ByteBits  PROVE Q[k] = ShiftIn(m, Q[k-1], k \in C)
  <2>1. CASE k <= n
    <3>1. k \in 1..n /\ k \in 0..n /\ k - 1 \in 0..n
      BY <1>1, <2>1
    <3>2. (k \in C) = (k \in B)
      BY <1>1, <3>1
    <3> QED BY <1>4, <1>8, <3>1, <3>2
  <2>2. CASE ~(k <= n)
    <3> DEFINE i == k - n
    <3>1. i \in 1..ByteBits /\ i \in 0..ByteBits /\ i - 1 \in 0..ByteBits
          /\ k = n + i /\ k - 1 = n + (i - 1)
      BY <1>1, <1>3, <2>2
    <3> HIDE DEF i
    <3>2. Q[k] = run[i] /\ Q[k-1] = run[i-1]
      BY <1>9, <3>1
    <3>3. (k \in C) = (BitOrder(m)[i] \in byte)
      BY <1>1, <3>1
    <3> QED BY <1>7, <3>1, <3>2, <3>3
  <2> QED BY <2>1, <2>2
<1>12. Fed(m, n + ByteBits, C, Q)
  BY <1>10, <1>11 DEF Fed
<1>13. Q[0] = s
  BY <1>1, <1>2, <1>8
<1>14. Q[n + ByteBits] = UpdateByte(m, reg, byte)
  BY <1>3, <1>7, <1>9
<1> QED BY <1>1, <1>12, <1>13, <1>14 DEF Reached, C, more

LEMMA ReachedWrite ==
  ASSUME NEW m \in Modes, NEW s, NEW bytes \in Seq(Bytes), NEW reg \in SUBSET Mask(m),
         Reached(m, s, bytes, reg), NEW data \in Seq(Bytes)
  PROVE  Reached(m, s, bytes \o data, FoldLeft(LAMBDA r, b : UpdateByte(m, r, b), reg, data))
<1>1. PICK run : WriteRun(m, reg, data, run)
  BY WriteRuns
<1>2. /\ run[0] = reg /\ \A k \in 1..Len(data) : run[k] = UpdateByte(m, run[k-1], data[k])
      /\ run[Len(data)] = FoldLeft(LAMBDA r, b : UpdateByte(m, r, b), reg, data)
  BY <1>1 DEF WriteRun
<1> DEFINE L == Len(data)
           part(k) == bytes \o SubSeq(data, 1, k)
           At(k) == Reached(m, s, part(k), run[k])
           P == {k \in Nat : k <= L => At(k)}
<1>0. L \in Nat /\ \A k \in 1..L : data[k] \in Bytes
  BY LenProperties, ElementOfSeq
<1>3. 0 \in P
  <2>1. SubSeq(data, 1, 0) = << >>
    BY SubSeqEmpty
  <2>2. part(0) = bytes
    BY <2>1, ConcatEmptySeq
  <2>3. At(0)
    BY <1>2, <2>2
  <2> QED BY <2>3
<1>4. ASSUME NEW k \in P  PROVE k + 1 \in P
  <2> DEFINE i == k + 1
  <2> SUFFICES ASSUME i <= L  PROVE At(i)
    <3> HIDE DEF At
    <3> QED OBVIOUS
  <2>1. i \in 1..L /\ k \in 0..L /\ i - 1 = k /\ k <= L
    BY <1>0
  <2>2. At(k)
    BY <2>1
  <2> HIDE DEF i
  <2>3. part(k) \in Seq(Bytes) /\ part(i) = Append(part(k), data[i])
    <3> DEFINE sub == SubSeq(data, 1, k)
    <3>1. sub \in Seq(Bytes)
      BY <1>0, <2>1, SubSeqProperties
    <3>2. SubSeq(data, 1, i) = Append(sub, data[i])
      BY <1>0, <2>1, SubSeqRecursiveSecond
    <3> HIDE DEF sub
    <3>3. Append(sub, data[i]) = sub \o << data[i] >> /\ << data[i] >> \in Seq(Bytes)
      BY <1>0, <2>1, <3>1, AppendIsConcat
    <3>4. bytes \o sub \in Seq(Bytes)
      BY <3>1, ConcatProperties
    <3>5. bytes \o (sub \o << data[i] >>) = (bytes \o sub) \o << data[i] >>
      BY <3>1, <3>3, ConcatAssociative
    <3>6. Append(bytes \o sub, data[i]) = (bytes \o sub) \o << data[i] >>
      BY <1>0, <2>1, <3>4, AppendIsConcat
    <3> QED BY <3>2, <3>3, <3>4, <3>5, <3>6 DEF sub
  <2>4. Reached(m, s, Append(part(k), data[i]), UpdateByte(m, run[k], data[i]))
    <3> HIDE DEF part
    <3> QED BY <1>0, <2>1, <2>2, <2>3, ReachedByte
  <2> QED BY <1>2, <2>1, <2>3, <2>4
<1>5. P = Nat
  <2> HIDE DEF P
  <2>1. P \in SUBSET Nat
    BY DEF P
  <2> QED BY <1>3, <1>4, <2>1, SetInduction
<1>6. At(L)
  <2>1. L \in P
    <3> HIDE DEF P
    <3> QED BY <1>0, <1>5
  <2> QED BY <1>0, <2>1
<1>7. part(L) = bytes \o data
  <2>1. SubSeq(data, 1, L) = data
    BY SubSeqFull
  <2> QED BY <2>1
<1> QED BY <1>2, <1>6, <1>7

\* The register holds what feeding fed to the seed leaves.
CrcInv == CrcTypeOK /\ Reached(mode, seed, fed, crcReg)

LEMMA FreshRegister ==
  ASSUME NEW m \in Modes, NEW s \in SUBSET Mask(m)
  PROVE  Reached(m, s, << >>, s) /\ << >> \in Seq(Bytes)
  BY ReachedNow, EmptySeq

LEMMA CrcStart == CrcInit => CrcInv
<1> SUFFICES ASSUME CrcInit PROVE CrcInv
  OBVIOUS
<1>1. mode \in Modes /\ seed \in SUBSET Mask(mode) /\ crcReg = seed /\ fed = << >>
  BY DEF CrcInit, Modes
<1> QED BY <1>1, FreshRegister DEF CrcInv, CrcTypeOK

LEMMA SeedsAndResets ==
  ASSUME mode' \in Modes, seed' \in SUBSET Mask(mode'), crcReg' = seed', fed' = << >>
  PROVE  CrcInv'
  BY FreshRegister DEF CrcInv, CrcTypeOK

LEMMA CrcStep == CrcInv /\ [Crc]_crcVars => CrcInv'
<1> SUFFICES ASSUME CrcInv, [Crc]_crcVars PROVE CrcInv'
  OBVIOUS
<1>0. /\ mode \in Modes /\ seed \in SUBSET Mask(mode) /\ crcReg \in SUBSET Mask(mode)
      /\ fed \in Seq(Bytes) /\ Reached(mode, seed, fed, crcReg)
  BY DEF CrcInv, CrcTypeOK
<1>1. CASE Configure
  <2>1. mode' \in Modes /\ seed' = DefaultSeed(mode') /\ crcReg' = seed' /\ fed' = << >>
    BY <1>1 DEF Configure
  <2>2. DefaultSeed(mode') \in SUBSET Mask(mode')
    BY DEF DefaultSeed
  <2> QED BY <2>1, <2>2, SeedsAndResets
<1>2. CASE LoadSeed
  <2>1. mode' = mode /\ seed' \in SUBSET Mask(mode') /\ crcReg' = seed' /\ fed' = << >>
    BY <1>2 DEF LoadSeed
  <2> QED BY <1>0, <2>1, SeedsAndResets
<1>3. CASE Feed
  <2>1. PICK data \in UNION {[1..n -> Bytes] : n \in {1, 2, 4}} :
             /\ crcReg' = FoldLeft(LAMBDA r, b : UpdateByte(mode, r, b), crcReg, data)
             /\ fed' = fed \o data
    BY <1>3 DEF Feed
  <2>2. data \in Seq(Bytes)
    <3>1. PICK n \in {1, 2, 4} : data \in [1..n -> Bytes]
      OBVIOUS
    <3> QED BY <3>1, SeqDef
  <2>3. mode' = mode /\ seed' = seed
    BY <1>3 DEF Feed
  <2>4. fed' \in Seq(Bytes)
    BY <1>0, <2>1, <2>2, ConcatProperties
  <2>5. Reached(mode, seed, fed', crcReg')
    <3>1. Reached(mode, seed, fed \o data,
                  FoldLeft(LAMBDA r, b : UpdateByte(mode, r, b), crcReg, data))
      BY <1>0, <2>2, ReachedWrite
    <3> QED BY <2>1, <3>1, Zenon
  <2>6. crcReg' \in SUBSET Mask(mode)
    BY <1>0, <2>4, <2>5, ReachedTyped
  <2> QED BY <1>0, <2>3, <2>4, <2>5, <2>6 DEF CrcInv, CrcTypeOK
<1>4. CASE ReadCrc
  <2>1. mode' = mode /\ seed' = seed /\ crcReg' = seed' /\ fed' = << >>
    BY <1>4 DEF ReadCrc
  <2> QED BY <1>0, <2>1, SeedsAndResets
<1>5. CASE ResetCrc
  <2>1. mode' = "CRC16" /\ seed' = {} /\ crcReg' = seed' /\ fed' = << >>
    BY <1>5 DEF ResetCrc
  <2>2. mode' \in Modes
    BY <2>1 DEF Modes
  <2> QED BY <2>1, <2>2, SeedsAndResets
<1>6. CASE UNCHANGED crcVars
  <2>1. mode' = mode /\ seed' = seed /\ crcReg' = crcReg /\ fed' = fed
    BY <1>6 DEF crcVars
  <2> QED BY <1>0, <2>1 DEF CrcInv, CrcTypeOK
<1> QED BY <1>1, <1>2, <1>3, <1>4, <1>5, <1>6 DEF Crc

LEMMA CrcRemainders == CrcInv => CrcIsRemainder
<1> SUFFICES ASSUME CrcInv PROVE CrcIsRemainder
  OBVIOUS
<1>1. /\ mode \in Modes /\ fed \in Seq(Bytes) /\ Reached(mode, seed, fed, crcReg)
  BY DEF CrcInv, CrcTypeOK
<1> QED BY <1>1, ReachedIsRemainder, Zenon DEF CrcIsRemainder

\* Whatever was configured, seeded, fed and reset, the register holds the
\* remainder of the bits fed since, divided by the polynomial, for every width.
THEOREM CrcsAreExact == CrcSpec => []CrcIsRemainder
<1>1. CrcInv /\ [Crc]_crcVars => CrcInv'
  BY CrcStep
<1> QED BY <1>1, CrcStart, CrcRemainders, PTL DEF CrcSpec

\* The registers of the CRC unit keep their widths.
THEOREM CrcTyped == CrcSpec => []CrcTypeOK
<1>1. CrcInv => CrcTypeOK
  BY DEF CrcInv
<1> QED BY <1>1, CrcStart, CrcStep, PTL DEF CrcSpec

-----------------------------------------------------------------------------
(* Scratchpads. *)

\* The registers of a core and a pad of size bytes.
StOK(st, size) ==
  /\ st = [reg |-> st.reg, pad |-> st.pad] /\ size \in Nat
  /\ st.reg \in [RegPositions -> ByteValues] /\ st.pad \in [0..size-1 -> ByteValues]

\* m bytes that exist on both sides.
Inside(r, p, m, size) == r \in Nat /\ p \in Nat /\ m \in Nat /\ r + m <= Regs*RegBytes /\ p + m <= size

\* Sizes of what consists of registers.
LEMMA Products ==
  /\ Regs*RegBytes \in Nat \ {0} /\ BankRegs*RegBytes \in Nat \ {0} /\ IpcRegs*RegBytes \in Nat
  /\ \A i \in 0..Regs-1 : i*RegBytes \in Nat /\ i*RegBytes + RegBytes <= Regs*RegBytes
  /\ \A i \in 0..BankRegs-1 : i*RegBytes \in Nat /\ i*RegBytes + RegBytes <= BankRegs*RegBytes
  /\ \A i \in Nat : i*RegBytes \in Nat /\ (i >= Regs => i*RegBytes >= Regs*RegBytes)
<1>1. Regs \in Nat \ {0} /\ BankRegs \in Nat \ {0} /\ RegBytes \in Nat \ {0} /\ IpcRegs \in Nat
  BY PadAssumption
<1>2. ASSUME NEW n \in Nat, NEW b \in Nat, NEW i \in 0..n-1  PROVE i*b \in Nat /\ i*b + b <= n*b
  <2>1. i + 1 <= n
    OBVIOUS
  <2>2. (i + 1)*b <= n*b
    BY <2>1
  <2> QED BY <2>2
<1>3. ASSUME NEW n \in Nat, NEW b \in Nat, NEW i \in Nat, i >= n  PROVE i*b \in Nat /\ i*b >= n*b
  BY <1>3
<1>4. ASSUME NEW n \in Nat \ {0}, NEW b \in Nat \ {0}  PROVE n*b \in Nat \ {0}
  BY <1>4
<1>5. \A i \in Nat : i*RegBytes \in Nat
  BY <1>1
<1> QED BY <1>1, <1>2, <1>3, <1>4, <1>5

\* A copy keeps the type of what it is put into.
LEMMA CopiedTyped ==
  ASSUME NEW V, NEW F \in Nat, NEW G \in Nat, NEW f \in [0..F-1 -> V], NEW g \in [0..G-1 -> V],
         NEW a \in Nat, NEW b \in Nat, NEW n \in Nat, a + n <= F
  PROVE  Copied(f, a, g, b, n) \in [0..G-1 -> V]
<1>1. ASSUME NEW x \in 0..G-1  PROVE (IF x \in b..b+n-1 THEN f[a + x - b] ELSE g[x]) \in V
  <2>1. CASE x \in b..b+n-1
    <3>1. a + x - b \in 0..F-1
      BY <2>1
    <3> QED BY <2>1, <3>1
  <2> QED BY <2>1
<1>2. DOMAIN g = 0..G-1
  OBVIOUS
<1> QED BY <1>1, <1>2 DEF Copied

\* Where f holds v.
Holding(f, F, v) == {x \in 0..F-1 : f[x] = v}

\* Beside a range and in it.
Kept(f, F, v, r, m) == {x \in 0..F-1 : x \notin r..r+m-1 /\ f[x] = v}
Moved(f, v, r, m) == {x \in r..r+m-1 : f[x] = v}

\* What of a copy holds v: what is not overwritten and what was copied.
LEMMA CopiedCounts ==
  ASSUME NEW F \in Nat, NEW G \in Nat, NEW f, NEW g, DOMAIN g = 0..G-1, NEW v,
         NEW a \in Nat, NEW b \in Nat, NEW n \in Nat, a + n <= F, b + n <= G
  PROVE  Cardinality(Holding(Copied(f, a, g, b, n), G, v))
           = Cardinality(Kept(g, G, v, b, n)) + Cardinality(Moved(f, v, a, n))
<1> DEFINE kept == {x \in 0..G-1 : x \notin b..b+n-1 /\ g[x] = v}
           moved == {x \in a..a+n-1 : f[x] = v}
           come == {x \in b..b+n-1 : f[a + x - b] = v}
           h == Copied(f, a, g, b, n)
<1>1. \A x \in 0..G-1 : h[x] = IF x \in b..b+n-1 THEN f[a + x - b] ELSE g[x]
  BY DEF Copied
<1>2. Holding(h, G, v) = kept \cup come
  <2>1. \A x \in b..b+n-1 : x \in 0..G-1
    OBVIOUS
  <2> HIDE DEF h
  <2> QED BY <1>1, <2>1 DEF Holding
<1>3. kept \cap come = {}
  OBVIOUS
<1>4. IsFiniteSet(kept) /\ IsFiniteSet(come) /\ IsFiniteSet(moved)
  <2>1. IsFiniteSet(0..G-1) /\ IsFiniteSet(b..b+n-1) /\ IsFiniteSet(a..a+n-1)
    BY FS_Interval
  <2>2. kept \in SUBSET (0..G-1) /\ come \in SUBSET (b..b+n-1) /\ moved \in SUBSET (a..a+n-1)
    OBVIOUS
  <2> HIDE DEF kept, come, moved
  <2> QED BY <2>1, <2>2, FS_Subset
<1>5. Cardinality(come) = Cardinality(moved)
  <2> DEFINE j == [x \in moved |-> b + x - a]
  <2>1. \A x \in moved : j[x] \in come
    <3> SUFFICES ASSUME NEW x \in moved PROVE j[x] \in come
      OBVIOUS
    <3>1. x \in a..a+n-1 /\ f[x] = v /\ b + x - a \in b..b+n-1
      OBVIOUS
    <3>2. a + (b + x - a) - b = x
      BY <3>1
    <3> QED BY <3>1, <3>2
  <2>2. \A x, y \in moved : j[x] = j[y] => x = y
    OBVIOUS
  <2>3. \A y \in come : \E x \in moved : j[x] = y
    <3> SUFFICES ASSUME NEW y \in come PROVE \E x \in moved : j[x] = y
      OBVIOUS
    <3>1. y \in b..b+n-1 /\ f[a + y - b] = v /\ a + y - b \in a..a+n-1 /\ b + (a + y - b) - a = y
      OBVIOUS
    <3>2. a + y - b \in moved
      BY <3>1
    <3> QED BY <3>1, <3>2
  <2>4. j \in Bijection(moved, come)
    <3> HIDE DEF come, moved
    <3>1. j \in [moved -> come]
      BY <2>1
    <3> HIDE DEF j
    <3> QED BY <2>2, <2>3, <3>1 DEF Bijection, Injection, Surjection, IsInjective
  <2> HIDE DEF come, moved, j
  <2> QED BY <1>4, <2>4, FS_Bijection DEF ExistsBijection
<1> HIDE DEF kept, come, moved, h
<1>6. Cardinality(kept \cup come) = Cardinality(kept) + Cardinality(come) - Cardinality(kept \cap come)
  BY <1>4, FS_Union
<1>7. Cardinality(kept \cap come) = 0
  BY <1>3, FS_EmptySet
<1>8. Cardinality(kept) \in Nat /\ Cardinality(come) \in Nat
  BY <1>4, FS_CardinalityType
<1> QED BY <1>2, <1>5, <1>6, <1>7, <1>8 DEF kept, moved, h, Kept, Moved

\* What holds v is in a range or beside it.
LEMMA Parted ==
  ASSUME NEW F \in Nat, NEW f, NEW v, NEW r \in Nat, NEW m \in Nat, r + m <= F
  PROVE  /\ Cardinality(Holding(f, F, v)) = Cardinality(Kept(f, F, v, r, m)) + Cardinality(Moved(f, v, r, m))
         /\ Cardinality(Kept(f, F, v, r, m)) \in Nat /\ Cardinality(Moved(f, v, r, m)) \in Nat
<1> DEFINE kept == Kept(f, F, v, r, m)  moved == Moved(f, v, r, m)
<1>1. IsFiniteSet(0..F-1)
  BY FS_Interval
<1>2. kept \in SUBSET (0..F-1) /\ moved \in SUBSET (0..F-1)
  BY DEF Kept, Moved
<1>3. Holding(f, F, v) = kept \cup moved /\ kept \cap moved = {}
  BY DEF Holding, Kept, Moved
<1> HIDE DEF kept, moved
<1>4. IsFiniteSet(kept) /\ IsFiniteSet(moved)
  BY <1>1, <1>2, FS_Subset
<1>5. Cardinality(kept \cup moved) = Cardinality(kept) + Cardinality(moved) - Cardinality(kept \cap moved)
  BY <1>4, FS_Union
<1>6. Cardinality(kept \cap moved) = 0 /\ Cardinality(kept) \in Nat /\ Cardinality(moved) \in Nat
  BY <1>3, <1>4, FS_EmptySet, FS_CardinalityType
<1> QED BY <1>3, <1>5, <1>6 DEF kept, moved

\* Ranges that are exchanged hold together what they held.
LEMMA SwapCounts ==
  ASSUME NEW F \in Nat, NEW G \in Nat, NEW f, NEW g, DOMAIN f = 0..F-1, DOMAIN g = 0..G-1, NEW v,
         NEW r \in Nat, NEW p \in Nat, NEW m \in Nat, r + m <= F, p + m <= G
  PROVE  Cardinality(Holding(Copied(g, p, f, r, m), F, v)) + Cardinality(Holding(Copied(f, r, g, p, m), G, v))
           = Cardinality(Holding(f, F, v)) + Cardinality(Holding(g, G, v))
<1> DEFINE kf == Cardinality(Kept(f, F, v, r, m))  mf == Cardinality(Moved(f, v, r, m))
           kg == Cardinality(Kept(g, G, v, p, m))  mg == Cardinality(Moved(g, v, p, m))
<1>1. Cardinality(Holding(f, F, v)) = kf + mf /\ kf \in Nat /\ mf \in Nat
  BY Parted
<1>2. Cardinality(Holding(g, G, v)) = kg + mg /\ kg \in Nat /\ mg \in Nat
  BY Parted
<1>3. Cardinality(Holding(Copied(g, p, f, r, m), F, v)) = kf + mg
  BY CopiedCounts
<1>4. Cardinality(Holding(Copied(f, r, g, p, m), G, v)) = kg + mf
  BY CopiedCounts
<1> HIDE DEF kf, mf, kg, mg
<1> QED BY <1>1, <1>2, <1>3, <1>4

\* Contents counts both sides, byte value by byte value.
LEMMA ContentsCount ==
  ASSUME NEW st, NEW size, StOK(st, size)
  PROVE  Contents(st) = [v \in ByteValues |-> Cardinality(Holding(st.reg, Regs*RegBytes, v))
                                               + Cardinality(Holding(st.pad, size, v))]
<1>1. DOMAIN st.pad = 0..size-1
  BY DEF StOK
<1>2. ASSUME NEW v
      PROVE  /\ {b \in RegPositions : st.reg[b] = v} = Holding(st.reg, Regs*RegBytes, v)
             /\ {b \in DOMAIN st.pad : st.pad[b] = v} = Holding(st.pad, size, v)
  BY <1>1 DEF Holding, RegPositions
<1> QED BY <1>2 DEF Contents

\* Bytes that are there on both sides go from where they are to where they belong.
LEMMA MoveInside ==
  ASSUME NEW st, NEW size, StOK(st, size), NEW r, NEW p, NEW n \in Nat,
         Inside(r, p, Clip(r, n), size), NEW op \in {"XIN", "XOUT", "XCHG"}
  PROVE  /\ StOK(Move(op, st, r, p, n), size)
         /\ Move(op, st, r, p, n).reg = (IF op = "XOUT" THEN st.reg ELSE Copied(st.pad, p, st.reg, r, Clip(r, n)))
         /\ Move(op, st, r, p, n).pad = (IF op = "XIN" THEN st.pad ELSE Copied(st.reg, r, st.pad, p, Clip(r, n)))
<1> DEFINE m == Clip(r, n)  x == Copied(st.pad, p, st.reg, r, m)  y == Copied(st.reg, r, st.pad, p, m)
           R == Regs*RegBytes  z == Move(op, st, r, p, n)
<1>1. r \in Nat /\ p \in Nat /\ m \in Nat /\ r + m <= R /\ p + m <= size /\ R \in Nat /\ size \in Nat
  BY Products DEF Inside, StOK
<1>2. st.reg \in [0..R-1 -> ByteValues] /\ st.pad \in [0..size-1 -> ByteValues] /\ st = [reg |-> st.reg, pad |-> st.pad]
  BY DEF StOK, RegPositions
<1> HIDE DEF m
<1>3. x \in [0..R-1 -> ByteValues] /\ y \in [0..size-1 -> ByteValues]
  <2> HIDE DEF R
  <2> QED BY <1>1, <1>2, CopiedTyped
<1> HIDE DEF x, y, R
<1>4. z = [reg |-> IF op = "XOUT" THEN st.reg ELSE x, pad |-> IF op = "XIN" THEN st.pad ELSE y]
  <2>1. CASE op = "XIN"
    <3>1. z = [st EXCEPT !.reg = x]
      BY <2>1, Zenon DEF Move, MoveIn, x, m
    <3> QED BY ONLY <1>2, <2>1, <3>1
  <2>2. CASE op = "XOUT"
    <3>1. z = [st EXCEPT !.pad = y]
      BY <2>2 DEF Move, MoveOut, y, m
    <3> QED BY ONLY <1>2, <2>2, <3>1
  <2>3. CASE op = "XCHG"
    <3>1. z = [reg |-> x, pad |-> y]
      BY <2>3 DEF Move, Swap, x, y, m
    <3> QED BY <2>3, <3>1
  <2> QED BY <2>1, <2>2, <2>3
<1> HIDE DEF z
<1>5. z.reg = (IF op = "XOUT" THEN st.reg ELSE x) /\ z.pad = (IF op = "XIN" THEN st.pad ELSE y)
  BY <1>4
<1>6. StOK(z, size)
  <2>1. z = [reg |-> z.reg, pad |-> z.pad]
    BY <1>4, <1>5, Zenon
  <2> QED BY <1>1, <1>2, <1>3, <1>5, <2>1 DEF StOK, RegPositions, R
<1> QED BY <1>5, <1>6 DEF x, y, m, z

\* An exchange of bytes that are there on both sides loses none.
LEMMA SwapKeeps ==
  ASSUME NEW st, NEW size, StOK(st, size), NEW r, NEW p, NEW n \in Nat, Inside(r, p, Clip(r, n), size)
  PROVE  Contents(Move("XCHG", st, r, p, n)) = Contents(st)
<1> DEFINE m == Clip(r, n)  z == Move("XCHG", st, r, p, n)  R == Regs*RegBytes
<1>1. StOK(z, size) /\ z.reg = Copied(st.pad, p, st.reg, r, m) /\ z.pad = Copied(st.reg, r, st.pad, p, m)
  BY MoveInside
<1>2. /\ r \in Nat /\ p \in Nat /\ m \in Nat /\ r + m <= R /\ p + m <= size /\ R \in Nat /\ size \in Nat
      /\ DOMAIN st.reg = 0..R-1 /\ DOMAIN st.pad = 0..size-1
  BY Products DEF Inside, StOK, RegPositions
<1> HIDE DEF m, z, R
<1>3. ASSUME NEW v
      PROVE  Cardinality(Holding(z.reg, R, v)) + Cardinality(Holding(z.pad, size, v))
               = Cardinality(Holding(st.reg, R, v)) + Cardinality(Holding(st.pad, size, v))
  BY <1>1, <1>2, SwapCounts
<1>4. Contents(z) = [v \in ByteValues |-> Cardinality(Holding(z.reg, R, v)) + Cardinality(Holding(z.pad, size, v))]
  BY <1>1, ContentsCount DEF R
<1>5. Contents(st) = [v \in ByteValues |-> Cardinality(Holding(st.reg, R, v)) + Cardinality(Holding(st.pad, size, v))]
  BY ContentsCount DEF R
<1> QED BY <1>3, <1>4, <1>5 DEF z

WordsOf(tr) == (tr.length + RegBytes - 1) \div RegBytes
Piece(tr, i) == IF tr.length - i*RegBytes < RegBytes THEN tr.length - i*RegBytes ELSE RegBytes

\* The register of the bank that the i-th register of a transfer meets.
Turn(st, tr, i) == (tr.start + i + Shift(st.reg)) % BankRegs

\* The registers of a transfer are as many as its bytes need.
LEMMA WordCount ==
  ASSUME NEW tr \in PadTransfers
  PROVE  /\ WordsOf(tr) \in Nat
         /\ \A i \in 0..WordsOf(tr)-1 : Piece(tr, i) \in 1..RegBytes
         /\ tr.length <= PadSize("bank") => WordsOf(tr) <= BankRegs
         /\ \A y \in 0..tr.length-1 : /\ y \div RegBytes \in 0..WordsOf(tr)-1
                                      /\ y % RegBytes \in 0..Piece(tr, y \div RegBytes)-1
                                      /\ y = (y \div RegBytes)*RegBytes + (y % RegBytes)
<1> DEFINE l == tr.length  w == WordsOf(tr)  B == RegBytes
<1>1. l \in Nat \ {0} /\ B \in Nat \ {0} /\ BankRegs \in Nat
  BY PadAssumption DEF PadTransfers
<1>2. w \in Nat /\ w*B <= l + B - 1 /\ l <= w*B
  <2> DEFINE n == l + B - 1
  <2>1. n \in Nat /\ w = n \div B
    BY <1>1 DEF WordsOf
  <2>2. w \in Nat /\ n % B \in 0..B-1 /\ n = w*B + (n % B)
    <3> HIDE DEF w, n, B
    <3> QED BY <1>1, <2>1, DivModParts
  <2>3. w*B \in Nat
    <3> HIDE DEF w, B
    <3> QED BY <1>1, <2>2
  <2> QED
    <3> DEFINE q == w*B  e == n % B
    <3>1. q \in Nat /\ e \in 0..B-1 /\ l + B - 1 = q + e
      BY <2>2, <2>3
    <3> HIDE DEF q, e, w, B, l, n
    <3> QED BY <1>1, <2>2, <3>1 DEF q
<1> HIDE DEF w, B, l
<1>3. ASSUME NEW i \in 0..w-1  PROVE Piece(tr, i) \in 1..B
  <2>1. i + 1 <= w /\ i \in Nat
    BY <1>2
  <2>2. (i + 1)*B <= w*B /\ (i + 1)*B = i*B + B /\ i*B \in Nat
    BY ONLY <1>1, <1>2, <2>1
  <2>3. l - i*B > 0
    <3> DEFINE q == i*B  u == w*B  z == (i + 1)*B
    <3> HIDE DEF q, u, z
    <3>1. q \in Nat /\ z = q + B /\ z <= u /\ u <= l + B - 1
      BY <1>2, <2>2 DEF q, u, z
    <3>2. u \in Nat
      BY ONLY <1>1, <1>2 DEF u
    <3>3. l - q > 0
      BY ONLY <1>1, <3>1, <3>2
    <3> QED BY <3>3 DEF q
  <2>4. l - i*B \in Int
    BY ONLY <1>1, <2>2
  <2>5. Piece(tr, i) = IF l - i*B < B THEN l - i*B ELSE B
    BY DEF Piece, l, B
  <2> DEFINE d == l - i*B
  <2> HIDE DEF d
  <2>6. Piece(tr, i) = (IF d < B THEN d ELSE B) /\ d > 0 /\ d \in Int
    BY <2>3, <2>4, <2>5 DEF d
  <2> QED BY ONLY <1>1, <2>6
<1>4. ASSUME l <= PadSize("bank")  PROVE w <= BankRegs
  <2>1. l <= BankRegs*B
    BY <1>4 DEF PadSize, B
  <2>2. ASSUME w >= BankRegs + 1  PROVE FALSE
    <3>1. w*B >= (BankRegs + 1)*B /\ (BankRegs + 1)*B = BankRegs*B + B
      BY ONLY <1>1, <1>2, <2>2
    <3> DEFINE u == w*B  z == BankRegs*B  y == (BankRegs + 1)*B
    <3>2. u \in Nat /\ z \in Nat /\ y \in Nat
      BY ONLY <1>1, <1>2
    <3> HIDE DEF u, z, y
    <3>3. u >= y /\ y = z + B /\ u <= l + B - 1 /\ l <= z
      BY <1>2, <2>1, <3>1 DEF u, z, y
    <3> QED BY ONLY <1>1, <3>2, <3>3
  <2> QED BY <1>1, <1>2, <2>2
<1>5. ASSUME NEW y \in 0..l-1
      PROVE  /\ y \div B \in 0..w-1 /\ y % B \in 0..Piece(tr, y \div B)-1
             /\ y = (y \div B)*B + (y % B)
  <2> DEFINE q == y \div B  e == y % B
  <2>1. q \in Nat /\ e \in 0..B-1 /\ y = q*B + e
    <3>1. y \in Nat
      BY <1>1
    <3>2. (y \div B) \in Nat /\ (y % B) \in 0..B-1 /\ y = (y \div B)*B + (y % B)
      BY ONLY <1>1, <3>1, DivModParts
    <3> QED BY <3>2
  <2> HIDE DEF q, e
  <2>2. q*B \in Nat
    BY ONLY <1>1, <2>1
  <2>3. q <= w - 1
    <3>1. ASSUME q >= w  PROVE FALSE
      <4>1. q*B >= w*B /\ w*B \in Nat
        BY ONLY <1>1, <1>2, <2>1, <3>1
      <4> DEFINE a == q*B  b == w*B
      <4> HIDE DEF a, b
      <4>2. a >= b /\ b \in Nat /\ a \in Nat /\ y = a + e /\ l <= b
        BY <1>2, <2>1, <2>2, <4>1 DEF a, b
      <4> QED BY ONLY <1>1, <2>1, <4>2, y \in 0..l-1
    <3> QED BY <1>2, <2>1, <3>1
  <2>4. e \in 0..Piece(tr, q)-1
    <3> DEFINE a == q*B  d == l - a
    <3>1. Piece(tr, q) = IF d < B THEN d ELSE B
      BY DEF Piece, l, B
    <3> HIDE DEF a, d
    <3>2. a \in Nat /\ y = a + e /\ d = l - a
      BY <2>1, <2>2 DEF a, d
    <3> QED BY ONLY <1>1, <2>1, <3>1, <3>2, y \in 0..l-1
  <2> QED BY <1>2, <2>1, <2>3, <2>4 DEF q, e
<1> QED BY <1>2, <1>3, <1>4, <1>5 DEF w, B, l

\* One register of a rotated transfer, where it lies on both sides.
LEMMA WordMoves ==
  ASSUME NEW st, StOK(st, PadSize("bank")), NEW tr \in PadTransfers, NEW i \in 0..WordsOf(tr)-1, NEW op
  PROVE  LET r == (tr.start + i)*RegBytes  p == Turn(st, tr, i)*RegBytes  n == Piece(tr, i) IN
         /\ tr.start + i >= Regs => ShiftedWord(op, st, tr, i) = st
         /\ tr.start + i < Regs => /\ ShiftedWord(op, st, tr, i) = Move(op, st, r, p, n)
                                   /\ Inside(r, p, n, PadSize("bank")) /\ Clip(r, n) = n
         /\ Turn(st, tr, i) \in 0..BankRegs-1 /\ n \in 1..RegBytes
         /\ st.reg[0] \in Nat /\ Shift(st.reg) \in Nat
<1> DEFINE k == tr.start + i  r == k*RegBytes  q == Turn(st, tr, i)  p == q*RegBytes  n == Piece(tr, i)
           R == Regs*RegBytes  size == PadSize("bank")
<1>1. WordsOf(tr) \in Nat /\ n \in 1..RegBytes
  BY WordCount
<1>2. k \in Nat /\ RegBytes \in Nat \ {0} /\ Regs \in Nat \ {0} /\ BankRegs \in Nat \ {0} /\ ShiftMod \in Nat \ {0}
  BY <1>1, PadAssumption DEF PadTransfers
<1>3. st.reg[0] \in Nat /\ Shift(st.reg) \in Nat
  <2>1. 0 \in RegPositions
    BY Products DEF RegPositions
  <2>2. st.reg[0] \in Nat
    BY <2>1, PadAssumption DEF StOK
  <2>3. st.reg[0] % ShiftMod \in 0..ShiftMod-1
    BY <1>2, <2>2, DivModParts
  <2> QED BY <1>2, <2>2, <2>3 DEF Shift
<1>4. q \in 0..BankRegs-1
  <2> DEFINE s == Shift(st.reg)
  <2> HIDE DEF s
  <2>1. k + s \in Nat /\ q = (k + s) % BankRegs
    BY <1>2, <1>3 DEF s, Turn
  <2> HIDE DEF q, k
  <2> QED BY <1>2, <2>1, DivModParts
<1>5. BankPosition(st.reg, k) = p /\ size = BankRegs*RegBytes
  BY DEF BankPosition, Turn, PadSize
<1>6. ShiftedWord(op, st, tr, i) = IF r >= R THEN st ELSE Move(op, st, r, p, n)
  BY <1>5 DEF ShiftedWord, Piece
<1> HIDE DEF k, q, n
<1>7. r \in Nat /\ p \in Nat /\ R \in Nat \ {0} /\ size \in Nat /\ p + RegBytes <= size
  BY <1>2, <1>4, <1>5, Products
<1>8. k >= Regs => r >= R
  BY <1>2, Products
<1>9. k < Regs => r + RegBytes <= R
  BY <1>2, Products
<1> HIDE DEF r, p, R, size
<1>10. ASSUME k < Regs  PROVE ~(r >= R) /\ Inside(r, p, n, size) /\ Clip(r, n) = n
  <2>1. r + n <= R /\ p + n <= size /\ ~(r >= R)
    BY <1>1, <1>2, <1>7, <1>9, <1>10
  <2>2. Clip(r, n) = n
    BY <2>1 DEF Clip, R
  <2> QED BY <1>1, <1>7, <2>1, <2>2 DEF Inside, R
<1> QED BY <1>1, <1>3, <1>4, <1>6, <1>8, <1>10 DEF k, r, q, p, n, size

\* The registers of a rotated transfer, one after the other.
Worded(op, st, tr, n, f) == f[0] = st /\ \A k \in 1..n : f[k] = ShiftedWord(op, f[k-1], tr, k - 1)

\* A rotated transfer is that of its registers, one after the other.
LEMMA WordsExist ==
  ASSUME NEW op, NEW st, NEW tr, WordsOf(tr) \in Nat
  PROVE  \E f : Worded(op, st, tr, WordsOf(tr), f) /\ Shifted(op, st, tr) = f[WordsOf(tr)]
<1> DEFINE n == WordsOf(tr)
           Eq(m, g) == g = [k \in 0..m |-> IF k = 0 THEN st ELSE ShiftedWord(op, g[k-1], tr, k - 1)]
           P == {m \in Nat : \E g : Eq(m, g)}
<1>1. 0 \in P
  <2> DEFINE g == [k \in 0..0 |-> st]
  <2>1. g = [k \in 0..0 |-> IF k = 0 THEN st ELSE ShiftedWord(op, g[k-1], tr, k - 1)]
    <3>1. \A k \in 0..0 : k = 0
      OBVIOUS
    <3> QED BY <3>1
  <2> QED BY <2>1
<1>2. ASSUME NEW m \in P  PROVE m + 1 \in P
  <2>1. m \in Nat
    OBVIOUS
  <2>2. PICK g : Eq(m, g)
    OBVIOUS
  <2> DEFINE h == [k \in 0..m+1 |-> IF k <= m THEN g[k] ELSE ShiftedWord(op, g[m], tr, m)]
             r == [k \in 0..m+1 |-> IF k = 0 THEN st ELSE ShiftedWord(op, h[k-1], tr, k - 1)]
  <2>3. ASSUME NEW k \in 0..m+1
        PROVE  h[k] = IF k = 0 THEN st ELSE ShiftedWord(op, h[k-1], tr, k - 1)
    <3>1. CASE k = 0
      <4>1. k \in 0..m /\ k <= m
        BY <2>1, <3>1
      <4> QED BY <2>2, <3>1, <4>1
    <3>2. CASE k # 0 /\ k <= m
      <4>1. k \in 0..m /\ k - 1 \in 0..m+1 /\ k - 1 <= m
        BY <2>1, <3>2
      <4>2. h[k] = g[k] /\ h[k-1] = g[k-1]
        BY <3>2, <4>1
      <4>3. g[k] = ShiftedWord(op, g[k-1], tr, k - 1)
        BY <2>2, <3>2, <4>1
      <4> QED BY <3>2, <4>2, <4>3
    <3>3. CASE ~(k <= m)
      <4>1. k = m + 1 /\ k # 0 /\ m \in 0..m+1 /\ k - 1 = m /\ m <= m
        BY <2>1, <3>3
      <4>2. h[k] = ShiftedWord(op, g[m], tr, m) /\ h[m] = g[m]
        BY <3>3, <4>1
      <4> QED BY <4>1, <4>2
    <3> QED BY <3>1, <3>2, <3>3
  <2>4. h = r
    <3>1. \A k \in 0..m+1 : h[k] = r[k]
      BY <2>3
    <3>2. h = [k \in 0..m+1 |-> h[k]] /\ r = [k \in 0..m+1 |-> r[k]]
      OBVIOUS
    <3> QED BY <3>1, <3>2
  <2>5. Eq(m + 1, h)
    BY <2>4
  <2> HIDE DEF h, Eq
  <2> QED BY <2>1, <2>5
<1>3. P = Nat
  <2> HIDE DEF P
  <2>1. P \in SUBSET Nat
    BY DEF P
  <2> QED BY <1>1, <1>2, <2>1, SetInduction
<1>4. \E g : Eq(n, g)
  <2> HIDE DEF Eq, n
  <2>1. n \in Nat
    BY DEF n
  <2>2. n \in P
    <3> HIDE DEF P
    <3> QED BY <1>3, <2>1
  <2> QED BY <2>2
<1> DEFINE f == CHOOSE x : Eq(n, x)
<1>5. Eq(n, f)
  <2> HIDE DEF Eq
  <2> QED BY <1>4
<1>6. Shifted(op, st, tr) = f[n]
  BY Zenon DEF Shifted, WordsOf
<1>7. Worded(op, st, tr, n, f)
  <2> HIDE DEF f, n
  <2>1. n \in Nat
    BY DEF n
  <2>2. \A k \in 0..n : f[k] = IF k = 0 THEN st ELSE ShiftedWord(op, f[k-1], tr, k - 1)
    <3>1. f = [k \in 0..n |-> IF k = 0 THEN st ELSE ShiftedWord(op, f[k-1], tr, k - 1)]
      BY <1>5
    <3> DEFINE e == [k \in 0..n |-> IF k = 0 THEN st ELSE ShiftedWord(op, f[k-1], tr, k - 1)]
    <3>2. \A k \in 0..n : e[k] = IF k = 0 THEN st ELSE ShiftedWord(op, f[k-1], tr, k - 1)
      OBVIOUS
    <3> QED BY <3>1, <3>2
  <2> QED BY <2>1, <2>2 DEF Worded
<1> QED BY <1>6, <1>7

\* What holds before the first register and is kept by each holds behind the last.
LEMMA WordsInduct ==
  ASSUME NEW n \in Nat, NEW G, 0 \in G, \A k \in 0..n-1 : k \in G => k + 1 \in G
  PROVE  n \in G
<1> DEFINE P == {k \in Nat : k <= n => k \in G}
<1>1. 0 \in P /\ P \in SUBSET Nat
  OBVIOUS
<1>2. \A k \in P : k + 1 \in P
  OBVIOUS
<1> HIDE DEF P
<1>3. P = Nat
  BY <1>1, <1>2, SetInduction
<1> QED BY <1>3 DEF P

\* The bank has the size of the registers it stands for.
LEMMA ShiftedTyped ==
  ASSUME NEW st, StOK(st, PadSize("bank")), NEW tr \in PadTransfers, NEW op \in {"XIN", "XOUT", "XCHG"}
  PROVE  /\ StOK(Shifted(op, st, tr), PadSize("bank"))
         /\ op = "XCHG" => Contents(Shifted(op, st, tr)) = Contents(st)
<1> DEFINE n == WordsOf(tr)  size == PadSize("bank")
<1>1. n \in Nat
  BY WordCount
<1>2. PICK f : Worded(op, st, tr, n, f) /\ Shifted(op, st, tr) = f[n]
  BY <1>1, WordsExist
<1> DEFINE Good(x) == StOK(x, size) /\ (op = "XCHG" => Contents(x) = Contents(st))
           G == {k \in 0..n : Good(f[k])}
<1>3. 0 \in G
  BY <1>1, <1>2 DEF Worded
<1>4. ASSUME NEW x, Good(x), NEW i \in 0..n-1  PROVE Good(ShiftedWord(op, x, tr, i))
  <2> DEFINE r == (tr.start + i)*RegBytes  p == Turn(x, tr, i)*RegBytes  m == Piece(tr, i)
  <2>1. CASE ~(tr.start + i < Regs)
    <3>1. tr.start + i >= Regs
      BY <1>1, <2>1, PadAssumption DEF PadTransfers
    <3>2. ShiftedWord(op, x, tr, i) = x
      BY <1>4, <3>1, WordMoves
    <3> QED BY <1>4, <3>2
  <2>2. CASE tr.start + i < Regs
    <3>1. /\ ShiftedWord(op, x, tr, i) = Move(op, x, r, p, m)
          /\ Inside(r, p, Clip(r, m), size) /\ m \in Nat
      BY <1>4, <2>2, WordMoves
    <3> HIDE DEF r, p, m, size
    <3>2. StOK(Move(op, x, r, p, m), size)
      BY <1>4, <3>1, MoveInside
    <3>3. op = "XCHG" => Contents(Move(op, x, r, p, m)) = Contents(x)
      BY <1>4, <3>1, SwapKeeps
    <3> QED BY <1>4, <3>1, <3>2, <3>3
  <2> QED BY <2>1, <2>2
<1>5. ASSUME NEW k \in 0..n-1, k \in G  PROVE k + 1 \in G
  <2>1. f[k+1] = ShiftedWord(op, f[k], tr, k)
    <3>1. k + 1 \in 1..n /\ (k + 1) - 1 = k
      BY <1>1
    <3> QED BY <1>2, <3>1 DEF Worded
  <2>2. Good(f[k]) /\ k + 1 \in 0..n
    BY <1>1, <1>5
  <2> HIDE DEF Good
  <2>3. Good(f[k+1])
    BY <1>4, <2>1, <2>2
  <2> QED BY <2>2, <2>3
<1>6. n \in G
  <2> HIDE DEF G, n
  <2> QED BY <1>1, <1>3, <1>5, WordsInduct
<1> QED BY <1>2, <1>6

\* Registers of the bank less than a bank apart are different.
LEMMA TurnsDiffer ==
  ASSUME NEW B \in Nat \ {0}, NEW a \in Nat, NEW i \in 0..B-1, NEW j \in 0..B-1, i < j
  PROVE  (a + i) % B # (a + j) % B
<1> SUFFICES ASSUME (a + i) % B = (a + j) % B PROVE FALSE
  OBVIOUS
<1> DEFINE u == a + i  v == a + j  p == u \div B  q == v \div B  e == u % B
<1>1. u \in Nat /\ v \in Nat
  OBVIOUS
<1>2. p \in Nat /\ u = p*B + e /\ e \in 0..B-1
  <2> HIDE DEF u, v
  <2> QED BY <1>1, DivModParts
<1>3. q \in Nat /\ v = q*B + e
  <2>1. e = v % B
    OBVIOUS
  <2> HIDE DEF u, v, e
  <2> QED BY <1>1, <2>1, DivModParts
<1>4. v - u > 0 /\ v - u < B
  OBVIOUS
<1> HIDE DEF u, v, p, q, e
<1>5. CASE q <= p
  <2>1. q*B <= p*B /\ q*B \in Nat /\ p*B \in Nat
    BY ONLY <1>2, <1>3, <1>5, B \in Nat \ {0}
  <2> DEFINE x == q*B  y == p*B
  <2> HIDE DEF x, y
  <2>2. x <= y /\ x \in Nat /\ y \in Nat /\ v = x + e /\ u = y + e
    BY <1>2, <1>3, <2>1 DEF x, y
  <2> QED BY ONLY <1>2, <1>4, <2>2
<1>6. CASE q >= p + 1
  <2>1. q*B >= (p + 1)*B /\ (p + 1)*B = p*B + B /\ q*B \in Nat /\ p*B \in Nat
    BY ONLY <1>2, <1>3, <1>6, B \in Nat \ {0}
  <2> DEFINE x == q*B  y == p*B  z == (p + 1)*B
  <2> HIDE DEF x, y, z
  <2>2. x >= z /\ z = y + B /\ x \in Nat /\ y \in Nat /\ v = x + e /\ u = y + e
    BY <1>2, <1>3, <2>1 DEF x, y, z
  <2> QED BY ONLY <1>2, <1>4, <2>2, B \in Nat \ {0}
<1> QED BY <1>2, <1>3, <1>5, <1>6

\* What of the registers the bank has once k of them went out.
SentUpTo(st, tr, k, y) ==
  /\ StOK(y, PadSize("bank")) /\ y.reg = st.reg
  /\ \A i \in 0..k-1 : \A x \in 0..Piece(tr, i)-1 :
       tr.start + i < Regs => y.pad[Turn(st, tr, i)*RegBytes + x] = st.reg[(tr.start + i)*RegBytes + x]

\* One register more goes out.
LEMMA SentOne ==
  ASSUME NEW st, StOK(st, PadSize("bank")), NEW tr \in PadTransfers, tr.length <= PadSize("bank"),
         NEW k \in 0..WordsOf(tr)-1, NEW y, SentUpTo(st, tr, k, y)
  PROVE  SentUpTo(st, tr, k + 1, ShiftedWord("XOUT", y, tr, k))
<1> DEFINE size == PadSize("bank")  w == WordsOf(tr)  z == ShiftedWord("XOUT", y, tr, k)
           B == RegBytes  R == Regs*RegBytes
           r == (tr.start + k)*B  q == Turn(st, tr, k)  p == q*B  m == Piece(tr, k)
<1>1. /\ w \in Nat /\ w <= BankRegs /\ k \in Nat /\ tr.start \in Nat /\ Regs \in Nat
      /\ B \in Nat \ {0} /\ BankRegs \in Nat \ {0}
  BY WordCount, PadAssumption DEF PadTransfers
<1>2. StOK(y, size) /\ y.reg = st.reg /\ Turn(y, tr, k) = q
  BY DEF SentUpTo, Turn
<1>3. \A i \in 0..w-1 : Piece(tr, i) \in 1..B /\ Turn(st, tr, i) \in 0..BankRegs-1 /\ Shift(st.reg) \in Nat
  BY WordMoves
<1>4. CASE ~(tr.start + k < Regs)
  <2>1. z = y
    BY <1>1, <1>2, <1>4, WordMoves
  <2>2. ASSUME NEW i \in 0..(k+1)-1, tr.start + i < Regs  PROVE i \in 0..k-1
    BY <1>1, <1>4, <2>2
  <2> QED BY <2>1, <2>2 DEF SentUpTo
<1>5. CASE tr.start + k < Regs
  <2>1. z = Move("XOUT", y, r, p, m) /\ Inside(r, p, m, size) /\ Clip(r, m) = m /\ m \in 1..B
    BY <1>2, <1>5, WordMoves
  <2>2. StOK(z, size) /\ z.reg = y.reg /\ z.pad = Copied(y.reg, r, y.pad, p, m)
    <3> HIDE DEF r, p, m, z, size
    <3> QED BY <1>2, <2>1, MoveInside
  <2>3. r \in Nat /\ p \in Nat /\ r + m <= R /\ p + m <= size /\ size \in Nat /\ DOMAIN y.pad = 0..size-1
    BY <1>2, <2>1 DEF Inside, StOK
  <2>4. ASSUME NEW i \in 0..(k+1)-1, NEW x \in 0..Piece(tr, i)-1, tr.start + i < Regs
        PROVE  z.pad[Turn(st, tr, i)*B + x] = st.reg[(tr.start + i)*B + x]
    <3>1. CASE i = k
      <4> HIDE DEF r, p, m, z, size, R
      <4>1. x \in 0..m-1
        BY <3>1 DEF m
      <4>2. p + x \in 0..size-1 /\ p + x \in p..p+m-1 /\ r + (p + x) - p = r + x
        BY <2>1, <2>3, <4>1
      <4>3. z.pad[p + x] = y.reg[r + x]
        BY <2>2, <2>3, <4>2 DEF Copied
      <4> QED BY <1>2, <3>1, <4>3 DEF r, p
    <3>2. CASE i # k
      <4> DEFINE u == Turn(st, tr, i)  b == u*B + x
      <4>1. i \in 0..k-1 /\ i \in 0..w-1
        BY <1>1, <3>2
      <4>2. y.pad[b] = st.reg[(tr.start + i)*B + x]
        BY <2>4, <4>1 DEF SentUpTo
      <4>3. u \in 0..BankRegs-1 /\ q \in 0..BankRegs-1 /\ x \in 0..B-1
        <5>1. Piece(tr, i) \in 1..B /\ u \in 0..BankRegs-1 /\ q \in 0..BankRegs-1
          BY <1>3, <4>1
        <5> QED BY <1>1, <5>1
      <4>4. u # q
        <5> DEFINE a == tr.start + Shift(st.reg)
        <5>1. a \in Nat /\ tr.start + i + Shift(st.reg) = a + i /\ tr.start + k + Shift(st.reg) = a + k
          <6> DEFINE s == Shift(st.reg)
          <6> HIDE DEF s
          <6>1. s \in Nat
            BY <1>3 DEF s
          <6>2. (tr.start + s) \in Nat /\ tr.start + i + s = (tr.start + s) + i /\ tr.start + k + s = (tr.start + s) + k
            BY <1>1, <6>1
          <6> QED BY <6>2 DEF s
        <5>2. i < k /\ i \in 0..BankRegs-1 /\ k \in 0..BankRegs-1
          BY <1>1, <4>1
        <5>3. u = (a + i) % BankRegs /\ q = (a + k) % BankRegs
          BY <5>1 DEF Turn
        <5> HIDE DEF a, u, q
        <5> QED BY <1>1, <5>1, <5>2, <5>3, TurnsDiffer
      <4>5. b \in 0..size-1
        <5>1. u*B \in Nat /\ u*B + B <= size
          BY <4>3, Products DEF PadSize
        <5> DEFINE a == u*B
        <5> HIDE DEF a, u
        <5>2. a \in Nat /\ a + B <= size
          BY <5>1 DEF a
        <5>3. a + x \in 0..size-1
          BY ONLY <1>1, <2>3, <4>3, <5>2
        <5> QED BY <5>3 DEF a
      <4>6. b \notin p..p+m-1
        <5> SUFFICES ASSUME b \in p..p+m-1 PROVE FALSE
          OBVIOUS
        <5> DEFINE e == b - p
        <5>0. u*B \in Nat
          BY <4>3, Products
        <5>1. e \in 0..B-1 /\ b = p + e
          <6> HIDE DEF b, p, m
          <6> QED BY <1>1, <2>1, <2>3, b \in p..p+m-1
        <5>2. u*B + x = q*B + e
          BY <5>1
        <5> HIDE DEF u, q, e, b, p
        <5> QED BY <1>1, <4>3, <4>4, <5>1, <5>2, OneQuotient
      <4> HIDE DEF b, p, m, r, z, size
      <4>7. z.pad[b] = y.pad[b]
        BY <2>2, <2>3, <4>5, <4>6 DEF Copied
      <4> QED BY <4>2, <4>7 DEF b
    <3> QED BY <3>1, <3>2
  <2> HIDE DEF z
  <2>5. \A i \in 0..(k+1)-1 : \A x \in 0..Piece(tr, i)-1 :
          tr.start + i < Regs => z.pad[Turn(st, tr, i)*RegBytes + x] = st.reg[(tr.start + i)*RegBytes + x]
    BY <2>4
  <2>6. z.reg = st.reg /\ StOK(z, PadSize("bank"))
    BY <1>2, <2>2
  <2>7. SentUpTo(st, tr, k + 1, z)
    BY ONLY <2>5, <2>6 DEF SentUpTo
  <2> QED BY <2>7 DEF z
<1> QED BY <1>4, <1>5

\* What goes out to the bank.
LEMMA SentOut ==
  ASSUME NEW st, StOK(st, PadSize("bank")), NEW tr \in PadTransfers, tr.length <= PadSize("bank")
  PROVE  SentUpTo(st, tr, WordsOf(tr), Shifted("XOUT", st, tr))
<1> DEFINE n == WordsOf(tr)
<1>1. n \in Nat
  BY WordCount
<1>2. PICK f : Worded("XOUT", st, tr, n, f) /\ Shifted("XOUT", st, tr) = f[n]
  BY <1>1, WordsExist
<1> DEFINE G == {k \in 0..n : SentUpTo(st, tr, k, f[k])}
<1>3. 0 \in G
  BY <1>1, <1>2 DEF Worded, SentUpTo
<1>4. ASSUME NEW k \in 0..n-1, k \in G  PROVE k + 1 \in G
  <2>1. f[k+1] = ShiftedWord("XOUT", f[k], tr, k)
    <3>1. k + 1 \in 1..n /\ (k + 1) - 1 = k
      BY <1>1
    <3> QED BY <1>2, <3>1 DEF Worded
  <2>2. SentUpTo(st, tr, k, f[k]) /\ k + 1 \in 0..n
    BY <1>1, <1>4
  <2>3. SentUpTo(st, tr, k + 1, f[k+1])
    BY <2>1, <2>2, SentOne
  <2> QED BY <2>2, <2>3
<1>5. n \in G
  <2> HIDE DEF G, n
  <2> QED BY <1>1, <1>3, <1>4, WordsInduct
<1> QED BY <1>2, <1>5

\* A byte of a register of the transfer.
InWords(tr, k, b) ==
  b = 0 \/ \E i \in 0..k-1 : /\ tr.start + i < Regs
                             /\ \E x \in 0..Piece(tr, i)-1 : b = (tr.start + i)*RegBytes + x

\* What of the bank the registers y have again after k of them.
BackUpTo(st, tr, out, k, y) ==
  /\ StOK(y, PadSize("bank")) /\ y.pad = out.pad
  /\ \A b \in RegPositions : InWords(tr, k, b) => y.reg[b] = st.reg[b]

\* One register more comes back.
LEMMA BackOne ==
  ASSUME NEW st, StOK(st, PadSize("bank")), NEW tr \in PadTransfers, NEW out,
         SentUpTo(st, tr, WordsOf(tr), out),
         NEW k \in 0..WordsOf(tr)-1, NEW y, BackUpTo(st, tr, out, k, y)
  PROVE  BackUpTo(st, tr, out, k + 1, ShiftedWord("XIN", y, tr, k))
<1> DEFINE size == PadSize("bank")  w == WordsOf(tr)  z == ShiftedWord("XIN", y, tr, k)
           B == RegBytes  R == Regs*RegBytes
           r == (tr.start + k)*B  q == Turn(st, tr, k)  p == q*B  m == Piece(tr, k)
<1>1. /\ w \in Nat /\ k \in Nat /\ tr.start \in Nat /\ Regs \in Nat /\ B \in Nat \ {0}
  BY WordCount, PadAssumption DEF PadTransfers
<1>2. StOK(y, size) /\ y.pad = out.pad /\ Turn(y, tr, k) = q
  <2>1. 0 \in RegPositions /\ InWords(tr, k, 0)
    BY Products DEF RegPositions, InWords
  <2> QED BY <2>1 DEF BackUpTo, Turn, Shift
<1>3. CASE ~(tr.start + k < Regs)
  <2>1. z = y
    BY <1>1, <1>2, <1>3, WordMoves
  <2>2. ASSUME NEW i \in 0..(k+1)-1, tr.start + i < Regs  PROVE i \in 0..k-1
    BY <1>1, <1>3, <2>2
  <2>3. \A b \in RegPositions : InWords(tr, k + 1, b) => InWords(tr, k, b)
    BY <2>2 DEF InWords
  <2> QED BY <2>1, <2>3 DEF BackUpTo
<1>4. CASE tr.start + k < Regs
  <2>1. z = Move("XIN", y, r, p, m) /\ Inside(r, p, m, size) /\ Clip(r, m) = m /\ m \in 1..B
    BY <1>2, <1>4, WordMoves
  <2>2. StOK(z, size) /\ z.pad = y.pad /\ z.reg = Copied(y.pad, p, y.reg, r, m)
    <3> HIDE DEF r, p, m, z, size
    <3> QED BY <1>2, <2>1, MoveInside
  <2>3. r \in Nat /\ p \in Nat /\ r + m <= R /\ p + m <= size /\ size \in Nat /\ DOMAIN y.reg = 0..R-1
    BY <1>2, <2>1 DEF Inside, StOK, RegPositions
  <2>4. \A x \in 0..m-1 : out.pad[p + x] = st.reg[r + x]
    <3>1. k \in 0..w-1
      OBVIOUS
    <3> QED BY <1>4, <3>1 DEF SentUpTo
  <2>5. ASSUME NEW b \in RegPositions, b \in r..r+m-1  PROVE z.reg[b] = st.reg[b]
    <3> DEFINE x == b - r
    <3> HIDE DEF r, p, m, z, size, R
    <3>1. b \in 0..R-1
      BY DEF RegPositions, R
    <3>2. x \in 0..m-1 /\ b = r + x /\ p + b - r = p + x
      BY <2>1, <2>3, <2>5
    <3>3. z.reg[b] = y.pad[p + b - r]
      BY <2>2, <2>3, <2>5, <3>1 DEF Copied
    <3> HIDE DEF x
    <3> QED BY <1>2, <2>4, <3>2, <3>3
  <2>6. ASSUME NEW b \in RegPositions, b \notin r..r+m-1  PROVE z.reg[b] = y.reg[b]
    <3> HIDE DEF r, p, m, z, size
    <3> QED BY <2>2, <2>3, <2>6 DEF Copied, RegPositions
  <2>7. ASSUME NEW b \in RegPositions, InWords(tr, k + 1, b), b \notin r..r+m-1
        PROVE  InWords(tr, k, b)
    <3>1. ASSUME NEW i \in 0..(k+1)-1, NEW x \in 0..Piece(tr, i)-1, b = (tr.start + i)*B + x
          PROVE  i \in 0..k-1
      <4>1. ASSUME i = k  PROVE FALSE
        <5>1. x \in 0..m-1 /\ b = r + x
          BY <3>1, <4>1
        <5> HIDE DEF r, m
        <5>2. b \in r..r+m-1
          BY <2>1, <2>3, <5>1
        <5> QED BY <2>7, <5>2
      <4> QED BY <1>1, <4>1
    <3> QED BY <2>7, <3>1, Zenon DEF InWords
  <2>8. \A b \in RegPositions : InWords(tr, k + 1, b) => z.reg[b] = st.reg[b]
    <3> HIDE DEF z, r, m
    <3> QED BY <2>5, <2>6, <2>7 DEF BackUpTo
  <2> HIDE DEF z
  <2>9. BackUpTo(st, tr, out, k + 1, z)
    BY <1>2, <2>2, <2>8, Zenon DEF BackUpTo
  <2> QED BY <2>9 DEF z
<1> QED BY <1>3, <1>4

\* What comes back from the bank.
LEMMA BackAgain ==
  ASSUME NEW st, StOK(st, PadSize("bank")), NEW tr \in PadTransfers, NEW out,
         SentUpTo(st, tr, WordsOf(tr), out),
         NEW y, StOK(y, PadSize("bank")), y.pad = out.pad, y.reg[0] = st.reg[0]
  PROVE  BackUpTo(st, tr, out, WordsOf(tr), Shifted("XIN", y, tr))
<1> DEFINE n == WordsOf(tr)
<1>1. n \in Nat
  BY WordCount
<1>2. PICK f : Worded("XIN", y, tr, n, f) /\ Shifted("XIN", y, tr) = f[n]
  BY <1>1, WordsExist
<1> DEFINE G == {k \in 0..n : BackUpTo(st, tr, out, k, f[k])}
<1>3. 0 \in G
  <2>1. \A b \in RegPositions : InWords(tr, 0, b) => b = 0
    BY DEF InWords
  <2> QED BY <1>1, <1>2, <2>1 DEF Worded, BackUpTo
<1>4. ASSUME NEW k \in 0..n-1, k \in G  PROVE k + 1 \in G
  <2>1. f[k+1] = ShiftedWord("XIN", f[k], tr, k)
    <3>1. k + 1 \in 1..n /\ (k + 1) - 1 = k
      BY <1>1
    <3> QED BY <1>2, <3>1 DEF Worded
  <2>2. BackUpTo(st, tr, out, k, f[k]) /\ k + 1 \in 0..n
    BY <1>1, <1>4
  <2>3. BackUpTo(st, tr, out, k + 1, f[k+1])
    BY <2>1, <2>2, BackOne
  <2> QED BY <2>2, <2>3
<1>5. n \in G
  <2> HIDE DEF G, n
  <2> QED BY <1>1, <1>3, <1>4, WordsInduct
<1> QED BY <1>2, <1>5

\* All bytes of a transfer lie in its registers.
LEMMA BytesInWords ==
  ASSUME NEW tr \in PadTransfers,
         NEW b \in tr.start*RegBytes .. tr.start*RegBytes + Clip(tr.start*RegBytes, tr.length) - 1
  PROVE  b \in RegPositions /\ InWords(tr, WordsOf(tr), b)
<1> DEFINE s == tr.start  B == RegBytes  r == s*B  R == Regs*B  l == tr.length  y == b - r
           i == y \div B  x == y % B
<1>1. /\ s \in Nat /\ s < Regs /\ Regs \in Nat /\ B \in Nat \ {0} /\ l \in Nat \ {0}
      /\ r \in Nat /\ R \in Nat
  BY Products, PadAssumption DEF PadTransfers
<1>2. b \in Nat /\ b >= r /\ b < R /\ y \in 0..l-1
  <2>1. Clip(r, l) = IF r + l <= R THEN l ELSE R - r
    BY DEF Clip
  <2>2. b \in r..r+Clip(r, l)-1
    OBVIOUS
  <2> HIDE DEF r, R, l
  <2> QED BY <1>1, <2>1, <2>2
<1>3. i \in 0..WordsOf(tr)-1 /\ x \in 0..Piece(tr, i)-1 /\ y = i*B + x
  <2> HIDE DEF y
  <2> QED BY <1>2, WordCount DEF l
<1>4. i \in Nat /\ x \in Nat
  <2>1. WordsOf(tr) \in Nat
    BY WordCount
  <2>2. Piece(tr, i) \in 1..B
    BY <1>3, WordCount
  <2> HIDE DEF i, x
  <2> QED BY <1>3, <2>1, <2>2
<1>5. b = (s + i)*B + x
  <2>1. \A j \in Nat : (s + j)*B = s*B + j*B /\ j*B \in Nat
    BY <1>1
  <2>2. (s + i)*B = s*B + i*B /\ i*B \in Nat
    BY <1>4, <2>1
  <2> DEFINE u == s*B  v == i*B  z == (s + i)*B
  <2>3. u \in Nat /\ v \in Nat /\ z = u + v /\ b - u = v + x
    BY <1>1, <1>3, <2>2
  <2> HIDE DEF u, v, z, x
  <2>4. b = z + x
    BY ONLY <1>2, <1>4, <2>3
  <2> QED BY <2>4 DEF z
<1>6. s + i < Regs
  <2> HIDE DEF i, x, y, s, r, R, l
  <2> SUFFICES ASSUME s + i >= Regs PROVE FALSE
    BY <1>1, <1>4
  <2>1. (s + i)*B >= Regs*B /\ (s + i)*B \in Nat
    BY <1>1, <1>4, Products
  <2> DEFINE z == (s + i)*B
  <2> HIDE DEF z
  <2>2. z >= R /\ z \in Nat /\ b = z + x
    BY <1>5, <2>1 DEF z, R
  <2> QED BY ONLY <1>1, <1>2, <1>4, <2>2
<1>7. b \in RegPositions
  BY <1>1, <1>2 DEF RegPositions
<1> HIDE DEF i, x
<1> QED BY <1>3, <1>5, <1>6, <1>7 DEF InWords

\* What one core sends through the bank, another receives.
LEMMA RoundTrips == PadTypeOK => RoundTrip
<1> SUFFICES ASSUME PadTypeOK, NEW c \in Cores, NEW d \in Cores, NEW tr \in PadTransfers,
                    tr.pad = "bank", tr.length <= PadSize("bank")
             PROVE  LET out == Shifted("XOUT", [reg |-> regs[c], pad |-> pads["bank"]], tr)
                        other == [b \in RegPositions |-> IF b < RegBytes THEN regs[c][b] ELSE regs[d][b]]
                        back == Shifted("XIN", [reg |-> other, pad |-> out.pad], tr)
                        r == tr.start * RegBytes
                    IN  \A b \in r..r + Clip(r, tr.length) - 1 : back.reg[b] = regs[c][b]
  BY DEF RoundTrip
<1> DEFINE size == PadSize("bank")
           st == [reg |-> regs[c], pad |-> pads["bank"]]
           out == Shifted("XOUT", st, tr)
           other == [b \in RegPositions |-> IF b < RegBytes THEN regs[c][b] ELSE regs[d][b]]
           y == [reg |-> other, pad |-> out.pad]
           back == Shifted("XIN", y, tr)
<1>1. /\ regs[c] \in [RegPositions -> ByteValues] /\ regs[d] \in [RegPositions -> ByteValues]
      /\ pads["bank"] \in [0..size-1 -> ByteValues] /\ size \in Nat
  BY Products DEF PadTypeOK, Pads, PadSize
<1>2. StOK(st, size) /\ st.reg = regs[c]
  BY <1>1 DEF StOK
<1>3. SentUpTo(st, tr, WordsOf(tr), out)
  <2> HIDE DEF st
  <2> QED BY <1>2, SentOut
<1>4. StOK(out, size)
  BY <1>3 DEF SentUpTo
<1> HIDE DEF st, out
<1>5. StOK(y, size) /\ y.pad = out.pad /\ y.reg[0] = st.reg[0]
  <2>1. other \in [RegPositions -> ByteValues]
    BY <1>1
  <2>2. 0 \in RegPositions /\ 0 < RegBytes
    BY Products, PadAssumption DEF RegPositions
  <2>3. other[0] = regs[c][0]
    BY <2>2
  <2> HIDE DEF other
  <2> QED BY <1>2, <1>4, <2>1, <2>3 DEF StOK
<1> HIDE DEF y
<1>6. BackUpTo(st, tr, out, WordsOf(tr), back)
  BY <1>2, <1>3, <1>5, BackAgain
<1>7. ASSUME NEW b \in tr.start*RegBytes .. tr.start*RegBytes + Clip(tr.start*RegBytes, tr.length) - 1
      PROVE  back.reg[b] = regs[c][b]
  BY <1>2, <1>6, BytesInWords DEF BackUpTo
<1> QED BY <1>7 DEF y, out, st

\* Where an unrotated transfer lies.
LEMMA PlainInside ==
  ASSUME NEW tr \in PadTransfers, NEW op \in {"XIN", "XOUT", "XCHG"}, Fits(op, tr)
  PROVE  Inside(tr.start*RegBytes + tr.byte, Offset(tr), Clip(tr.start*RegBytes + tr.byte, tr.length),
                PadSize(tr.pad))
<1> DEFINE r == tr.start*RegBytes + tr.byte  R == Regs*RegBytes  l == tr.length  m == Clip(r, l)
           p == Offset(tr)  size == PadSize(tr.pad)
<1>1. r \in Nat /\ r < R /\ R \in Nat /\ l \in Nat \ {0} /\ size \in Nat
  <2>1. tr.start*RegBytes \in Nat /\ tr.start*RegBytes + RegBytes <= R /\ R \in Nat
    BY Products DEF PadTransfers
  <2>2. tr.byte \in Nat /\ tr.byte < RegBytes /\ l \in Nat \ {0} /\ RegBytes \in Nat
    BY PadAssumption DEF PadTransfers
  <2>3. size \in Nat
    BY Products DEF PadSize, PadTransfers
  <2> DEFINE a == tr.start*RegBytes
  <2> HIDE DEF a, R, l, size
  <2>4. a \in Nat /\ a + RegBytes <= R
    BY <2>1 DEF a
  <2>5. a + tr.byte \in Nat /\ a + tr.byte < R
    BY <2>1, <2>2, <2>4
  <2> QED BY <2>1, <2>2, <2>3, <2>5 DEF a
<1>2. m = IF r + l <= R THEN l ELSE R - r
  BY DEF Clip
<1>3. p \in Int
  <2>1. PadFirst(tr.pad) \in Nat /\ tr.start \in Nat /\ tr.byte \in Nat /\ RegBytes \in Nat
    BY PadAssumption DEF PadFirst, PadTransfers
  <2>2. tr.start - PadFirst(tr.pad) \in Int
    BY <2>1
  <2>3. (tr.start - PadFirst(tr.pad))*RegBytes \in Int
    BY ONLY <2>1, <2>2
  <2> QED BY ONLY <2>1, <2>3 DEF Offset
<1>4. p >= 0 /\ p + (IF op = "XIN" THEN l ELSE m) <= size
  BY DEF Fits
<1> HIDE DEF r, R, l, m, p, size
<1>5. m \in Nat /\ m <= l /\ r + m <= R
  BY ONLY <1>1, <1>2
<1>6. p \in Nat /\ p + m <= size
  BY ONLY <1>1, <1>3, <1>4, <1>5
<1> QED BY <1>1, <1>5, <1>6 DEF Inside, r, R, l, m, p, size

\* A transfer keeps the sizes of both sides, and an exchange their contents.
LEMMA ResultTyped ==
  ASSUME PadTypeOK, NEW c \in Cores, NEW tr \in PadTransfers, NEW op \in {"XIN", "XOUT", "XCHG"},
         Rotates(tr) \/ Fits(op, tr)
  PROVE  /\ StOK(Result(op, c, tr), PadSize(tr.pad))
         /\ op = "XCHG" => Contents(Result(op, c, tr)) = Contents([reg |-> regs[c], pad |-> pads[tr.pad]])
<1> DEFINE st == [reg |-> regs[c], pad |-> pads[tr.pad]]  size == PadSize(tr.pad)
<1>1. StOK(st, size)
  BY Products DEF PadTypeOK, Pads, PadTransfers, PadSize, StOK
<1> HIDE DEF st
<1>2. CASE Rotates(tr)
  <2>1. tr.pad = "bank" /\ Result(op, c, tr) = Shifted(op, st, tr)
    BY <1>2 DEF Rotates, Result, st
  <2> QED BY <1>1, <2>1, ShiftedTyped DEF st
<1>3. CASE ~Rotates(tr)
  <2> DEFINE r == tr.start*RegBytes + tr.byte  p == Offset(tr)  n == tr.length
  <2>1. Result(op, c, tr) = Move(op, st, r, p, n)
    BY <1>3 DEF Result, st
  <2>2. Inside(r, p, Clip(r, n), size) /\ n \in Nat
    BY <1>3, PlainInside DEF PadTransfers
  <2> HIDE DEF r, p, n
  <2>3. StOK(Move(op, st, r, p, n), size)
    BY <1>1, <2>2, MoveInside
  <2>4. Contents(Move("XCHG", st, r, p, n)) = Contents(st)
    BY <1>1, <2>2, SwapKeeps
  <2> QED BY <2>1, <2>3, <2>4 DEF st
<1> QED BY <1>2, <1>3

\* An exchange loses no byte.
LEMMA ExchangesLoseNothing == PadTypeOK => ExchangeLosesNothing
BY ResultTyped DEF ExchangeLosesNothing

\* Registers and pads after reset.
LEMMA PadStart == PadInit => PadTypeOK
<1> SUFFICES ASSUME PadInit PROVE PadTypeOK
  OBVIOUS
<1>1. 0 \in ByteValues /\ DOMAIN pads = Pads /\ shiftEn \in BOOLEAN
  BY PadAssumption DEF PadInit
<1>2. regs \in [Cores -> [RegPositions -> ByteValues]]
  BY <1>1 DEF PadInit
<1>3. ASSUME NEW d \in Pads  PROVE pads[d] \in [0..PadSize(d)-1 -> ByteValues]
  <2>1. pads[d] = [b \in 0..PadSize(d)-1 |-> 0]
    BY DEF PadInit
  <2> QED BY <1>1, <2>1
<1> QED BY <1>1, <1>2, <1>3 DEF PadTypeOK

\* Registers and pads keep their sizes and contents of bytes.
LEMMA PadStep == PadTypeOK /\ [Spad]_padVars => PadTypeOK'
<1> SUFFICES ASSUME PadTypeOK, [Spad]_padVars PROVE PadTypeOK'
  OBVIOUS
<1>1. ASSUME NEW c \in Cores, NEW tr \in PadTransfers, NEW op \in {"XIN", "XOUT", "XCHG"}, Execute(op, c, tr)
      PROVE  PadTypeOK'
  <2> DEFINE done == Result(op, c, tr)
  <2>1. StOK(done, PadSize(tr.pad))
    BY <1>1, ResultTyped DEF Execute
  <2>2. regs' = [regs EXCEPT ![c] = done.reg] /\ pads' = [pads EXCEPT ![tr.pad] = done.pad] /\ shiftEn' = shiftEn
    BY <1>1 DEF Execute
  <2> HIDE DEF done
  <2>3. done.reg \in [RegPositions -> ByteValues] /\ done.pad \in [0..PadSize(tr.pad)-1 -> ByteValues]
    BY <2>1 DEF StOK
  <2>4. regs' \in [Cores -> [RegPositions -> ByteValues]]
    BY <2>2, <2>3 DEF PadTypeOK
  <2>5. ASSUME NEW e \in Pads  PROVE pads'[e] \in [0..PadSize(e)-1 -> ByteValues]
    <3>1. e \in DOMAIN pads
      BY DEF PadTypeOK
    <3>2. CASE e = tr.pad
      BY <2>2, <2>3, <3>1, <3>2
    <3>3. CASE e # tr.pad
      BY <2>2, <3>3 DEF PadTypeOK
    <3> QED BY <3>2, <3>3
  <2>6. DOMAIN pads' = Pads
    BY <2>2 DEF PadTypeOK
  <2> QED BY <2>2, <2>4, <2>5, <2>6 DEF PadTypeOK
<1>2. CASE XinPad
  BY <1>1, <1>2 DEF XinPad
<1>3. CASE XoutPad
  BY <1>1, <1>3 DEF XoutPad
<1>4. CASE XchgPad
  BY <1>1, <1>4 DEF XchgPad
<1>5. CASE WriteByte
  BY <1>5 DEF WriteByte, PadTypeOK
<1>6. CASE SetShift
  BY <1>6 DEF SetShift, PadTypeOK
<1>7. CASE ResetBus
  BY <1>7, PadAssumption DEF ResetBus, PadTypeOK
<1>8. CASE UNCHANGED padVars
  BY <1>8 DEF padVars, PadTypeOK
<1> QED BY <1>2, <1>3, <1>4, <1>5, <1>6, <1>7, <1>8 DEF Spad

\* Registers and pads keep their sizes under every transfer, write and reset.
THEOREM PadTyped == SpadSpec => []PadTypeOK
BY PadStart, PadStep, PTL DEF SpadSpec

\* XOUT and XIN of the same bytes with the same shift bring them back, and XCHG loses
\* none, for registers, banks and shifts of every size.
THEOREM TransfersAreExact == SpadSpec => [](RoundTrip /\ ExchangeLosesNothing)
BY PadTyped, RoundTrips, ExchangesLoseNothing, PTL

-----------------------------------------------------------------------------
(* The units of one core. *)

\* Whatever unit the firmware of a core uses, and in whatever order, the sums
\* and the remainders it reads are exact, for every polynomial, width and base.
THEOREM ResultsAlwaysExact == MCSpec => []ResultsAreExact
<1> DEFINE Inv == CrcInv /\ SumInv
<1>1. MCInit => Inv
  BY CrcStart, MacStart DEF MCInit
<1>2. Inv /\ [MCNext]_<<unit, vbusVars, dmaVars, crcVars, macVars, padVars>> => Inv'
  <2>1. [MCNext]_<<unit, vbusVars, dmaVars, crcVars, macVars, padVars>>
          => [Crc]_crcVars /\ [Mac]_macVars
    BY Zenon DEF MCNext
  <2> QED BY <2>1, CrcStep, MacStep
<1>3. Inv => ResultsAreExact
  <2>1. SumInv => AccumulatorExact
    BY WideTyped DEF SumInv, AccumulatorExact
  <2> QED BY <2>1, CrcRemainders DEF ResultsAreExact
<1> QED BY <1>1, <1>2, <1>3, PTL DEF MCSpec

\* Whatever firmware and host do to registers, banks and shifts, what one core sends
\* through a scratchpad another receives, and an exchange loses no byte.
THEOREM PadsAlwaysExact == MCSpec => []PadsAreExact
<1>1. MCInit => PadTypeOK
  BY PadStart DEF MCInit
<1>2. PadTypeOK /\ [MCNext]_<<unit, vbusVars, dmaVars, crcVars, macVars, padVars>> => PadTypeOK'
  <2>1. [MCNext]_<<unit, vbusVars, dmaVars, crcVars, macVars, padVars>> => [Spad]_padVars
    BY Zenon DEF MCNext
  <2> QED BY <2>1, PadStep
<1>3. PadTypeOK => PadsAreExact
  BY RoundTrips, ExchangesLoseNothing DEF PadsAreExact
<1> QED BY <1>1, <1>2, <1>3, PTL DEF MCSpec
=============================================================================
