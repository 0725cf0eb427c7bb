---------------------------- MODULE Devices_proof ----------------------------
(***************************************************************************)
(* What holds of the units around a core, for every value of the           *)
(* constants.                                                              *)
(*                                                                         *)
(* IEP timer: PhaseInv is the division equation of time, ticks and         *)
(* remainder.  A batch of n + 1 ticks is a batch of n and a tick           *)
(* (BatchStep), because hit_distance finds the first tick at which the     *)
(* counter has a value (HitIs).                                            *)
(*                                                                         *)
(* Device bus: DeviceBusInv says what is true behind each operation: what  *)
(* the bus has written to the ports is what it resolves now (Written),     *)
(* what is on record of a net is the contention it has (KnownConflicts),   *)
(* and a leased pin remembers the direction it is to get back.  Settling   *)
(* is two phases; what one phase does to ports and devices is said once,   *)
(* for any answers, and every operation ends with it.                      *)
(*                                                                         *)
(* Sigma-delta filter: the cascade of accumulators is three weighted sums  *)
(* of the stream; the last one is the sum the filter stands for.           *)
(*                                                                         *)
(* I/O expander: Moment says for each step of the firmware what the chip   *)
(* has made of the transfer so far, Listens between two bits and Answers   *)
(* at an acknowledgement. The lemmas on pins (LowPins, RisePins, ...) say  *)
(* what a write to the pins does to the chip; the steps behind them speak  *)
(* of the protocol only.                                                   *)
(*                                                                         *)
(* SSI encoder: the invariants say what firmware, encoder and mailbox know *)
(* of one another.  The encoder's monoflop measures the time since the     *)
(* firmware's last fall (EncoderInv).  With that a fast frame is in step   *)
(* with the encoder, or the encoder is ahead and will report it; a slow    *)
(* one is blamed by its third bit (FrameInv); and the mailbox is written   *)
(* between two flips of its sequence (MailInv).                            *)
(***************************************************************************)
EXTENDS IepTimer, DeviceBus, SsiReader, I2cExpander, SdFilter,
        FiniteSetTheorems, SequenceTheorems, Lemmas

-----------------------------------------------------------------------------
(* The IEP timer. *)

PhaseInv ==
  /\ external_clock \in ExternalRates
  /\ tick_remainder \in Nat /\ elapsed \in Nat /\ ticks \in Nat
  /\ PhaseExact

LEMMA DivMod ==
  ASSUME NEW n \in Nat, NEW d \in Nat \ {0}
  PROVE  /\ n \div d \in Nat /\ n % d \in Nat /\ n % d < d
         /\ n = (n \div d) * d + (n % d)
  OBVIOUS

LEMMA Distribute ==
  ASSUME NEW a \in Nat, NEW b \in Nat, NEW c \in Nat
  PROVE  (a + b) * c = a * c + b * c /\ a * c \in Nat /\ b * c \in Nat
  OBVIOUS

LEMMA ActiveRate ==
  ASSUME external_clock \in ExternalRates
  PROVE  active_clock[1] \in Nat \ {0} /\ active_clock[2] \in Nat \ {0}
<1>1. active_clock \in Rates
  BY DEF active_clock, Rates
<1> QED BY <1>1, RateAssumption

LEMMA PhaseInit == Init => PhaseInv
<1> SUFFICES ASSUME Init  PROVE PhaseInv
  OBVIOUS
<1>1. active_clock[1] \in Nat \ {0} /\ active_clock[2] \in Nat \ {0}
  BY ActiveRate DEF Init
<1> QED BY <1>1 DEF Init, PhaseInv, PhaseExact

\* Observing elapsed time moves ticks and remainder together.
LEMMA ObserveKeepsPhase ==
  ASSUME PhaseInv, NEW units \in Nat, Observe(units)
  PROVE  PhaseInv'
<1>1. external_clock' = external_clock /\ cnt_enable' = cnt_enable /\ active_clock' = active_clock
  BY DEF Observe, clocks, active_clock
<1>2. CASE ~cnt_enable
  BY <1>1, <1>2 DEF Observe, phase, PhaseInv, PhaseExact
<1>3. CASE cnt_enable
  <2> DEFINE num == active_clock[1]
             den == active_clock[2]
             due == tick_remainder + units * num
  <2>1. num \in Nat \ {0} /\ den \in Nat \ {0}
    BY ActiveRate DEF PhaseInv
  <2>2. units * num \in Nat /\ due \in Nat
    BY <2>1 DEF PhaseInv
  <2>3. numerator = num /\ denominator = den /\ numerator' = num /\ denominator' = den
    BY <1>1, <1>3 DEF numerator, denominator
  <2>4. /\ tick_remainder' = due % den
        /\ elapsed' = elapsed + units /\ ticks' = ticks + (due \div den)
    BY <1>3, <2>3 DEF Observe
  <2> HIDE DEF num, den
  <2>5. /\ due \div den \in Nat /\ due % den \in Nat /\ due % den < den
        /\ due = (due \div den) * den + (due % den)
    BY <2>1, <2>2, DivMod
  <2>6. elapsed * num = ticks * den + tick_remainder
    BY <1>3, <2>3 DEF PhaseInv, PhaseExact
  <2> HIDE DEF due
  <2>7. (elapsed + units) * num = elapsed * num + units * num
    BY <2>1, Distribute DEF PhaseInv
  <2>8. (ticks + (due \div den)) * den = ticks * den + (due \div den) * den
    BY <2>1, <2>5, Distribute DEF PhaseInv
  <2>9. ticks * den \in Nat /\ (due \div den) * den \in Nat /\ elapsed * num \in Nat
    BY <2>1, <2>5, Distribute DEF PhaseInv
  <2>10. elapsed' * num = ticks' * den + tick_remainder'
    BY <2>2, <2>4, <2>5, <2>6, <2>7, <2>8, <2>9 DEF PhaseInv, due
  <2>11. PhaseExact'
    BY <2>3, <2>4, <2>5, <2>10 DEF PhaseExact
  <2>12. elapsed' \in Nat /\ ticks' \in Nat /\ tick_remainder' \in Nat
    BY <2>4, <2>5 DEF PhaseInv
  <2> QED BY <1>1, <2>11, <2>12 DEF PhaseInv
<1> QED BY <1>2, <1>3

\* A write that may change the timing starts a new phase when it does.
LEMMA RetimeKeepsPhase ==
  ASSUME PhaseInv, external_clock' \in ExternalRates, Retime
  PROVE  PhaseInv'
<1>1. active_clock'[1] \in Nat \ {0} /\ active_clock'[2] \in Nat \ {0}
  <2>1. active_clock' \in Rates
    BY DEF active_clock, Rates
  <2> QED BY <2>1, RateAssumption
<1>2. CASE timing' # timing
  <2>1. tick_remainder' = 0 /\ elapsed' = 0 /\ ticks' = 0
    BY <1>2 DEF Retime, RemainderAfter
  <2> QED BY <1>1, <2>1 DEF PhaseInv, PhaseExact, numerator, denominator
<1>3. CASE timing' = timing
  <2>1. cnt_enable' = cnt_enable /\ active_clock' = active_clock
    BY <1>3 DEF timing
  <2>2. numerator' = numerator /\ denominator' = denominator
    BY <2>1 DEF numerator, denominator
  <2>3. tick_remainder' = tick_remainder /\ elapsed' = elapsed /\ ticks' = ticks
    BY <1>3 DEF Retime, RemainderAfter
  <2> QED BY <2>1, <2>2, <2>3 DEF PhaseInv, PhaseExact
<1> QED BY <1>2, <1>3

LEMMA PhaseStep == PhaseInv /\ [Next]_vars => PhaseInv'
<1> SUFFICES ASSUME PhaseInv, [Next]_vars  PROVE PhaseInv'
  OBVIOUS
<1>1. ASSUME NEW units \in Steps, Observe(units)  PROVE PhaseInv'
  BY <1>1, ObserveKeepsPhase, StepAssumption
<1>2. CASE WriteGlobalCfg \/ WriteIepclk \/ set_clock_mhz
  <2>1. external_clock' \in ExternalRates /\ Retime
    BY <1>2 DEF WriteGlobalCfg, WriteIepclk, set_clock_mhz, clocks, PhaseInv
  <2> QED BY <2>1, RetimeKeepsPhase
<1>3. ASSUME UNCHANGED <<cnt_enable, clocks, phase>>  PROVE PhaseInv'
  BY <1>3 DEF clocks, phase, PhaseInv, PhaseExact, numerator, denominator, active_clock
<1>4. CASE \/ \E word \in Words, upper \in BOOLEAN :
                WriteCount(word, upper) \/ \E j \in Compares : WriteCompare(j, word, upper)
           \/ WriteCmpCfg \/ WriteCapCfg
  BY <1>3, <1>4 DEF WriteCount, WriteCompare, WriteCmpCfg, WriteCapCfg
<1>5. CASE StatusWrite \/ \E n \in Captures : capture_event(n)
  BY <1>3, <1>5 DEF StatusWrite, WriteCmpStatus, WriteCapStatus, capture_event
<1>6. CASE HardwareReset
  <2>1. cnt_enable' = FALSE /\ tick_remainder' = 0 /\ elapsed' = 0 /\ ticks' = 0
        /\ external_clock' = external_clock
    BY <1>6 DEF HardwareReset, ResetRegisters
  <2> QED BY <2>1 DEF PhaseInv, PhaseExact
<1>7. CASE UNCHANGED vars
  BY <1>3, <1>7 DEF vars, registers
<1> QED BY <1>1, <1>2, <1>4, <1>5, <1>6, <1>7 DEF Next

\* For any clock rates: the ticks counted since the timing last changed, with the
\* remainder, are exactly the elapsed time at that rate.
THEOREM NoDrift == Spec => []PhaseExact
<1>1. PhaseInv => PhaseExact  BY DEF PhaseInv
<1> QED BY <1>1, PhaseInit, PhaseStep, PTL DEF Spec

\* Captures are words of the counter, and only enabled channels' flags are up.
CaptureInv == cap_status \subseteq Captures /\ DOMAIN capture = Captures

LEMMA CaptureStep ==
  ASSUME CaptureInv, [Next]_vars
  PROVE  /\ CaptureInv'
         /\ HardwareReset \/ \A n \in cap_status \cap cap_status' : capture'[n] = capture[n]
<1> USE DEF CaptureInv
<1>1. CASE UNCHANGED <<cap_status, capture>>
  BY <1>1
<1>2. CASE \E bytes \in SUBSET Bytes, ones \in SUBSET Captures : WriteCapStatus(bytes, ones)
  BY <1>2 DEF WriteCapStatus
<1>3. ASSUME NEW n \in Captures, capture_event(n)
      PROVE  /\ CaptureInv'
             /\ \A m \in cap_status \cap cap_status' : capture'[m] = capture[m]
  <2>1. n \notin cap_status /\ capture' = [capture EXCEPT ![n] = count]
        /\ cap_status' = cap_status \cup {n}
    BY <1>3 DEF capture_event, Latches
  <2> QED BY <2>1
<1>4. CASE HardwareReset
  BY <1>4 DEF HardwareReset, ResetRegisters
<1>5. CASE \E units \in Steps : Observe(units)
  BY <1>1, <1>5 DEF Observe, captures
<1>6. CASE WriteGlobalCfg \/ WriteIepclk \/ set_clock_mhz \/ WriteCmpCfg \/ WriteCapCfg
  BY <1>1, <1>6 DEF WriteGlobalCfg, WriteIepclk, set_clock_mhz, WriteCmpCfg, WriteCapCfg,
                    registers, captures
<1>7. CASE \E word \in Words, upper \in BOOLEAN :
             WriteCount(word, upper) \/ \E j \in Compares : WriteCompare(j, word, upper)
  BY <1>1, <1>7 DEF WriteCount, WriteCompare, captures
<1>8. CASE \E bytes \in SUBSET Bytes, ones \in SUBSET Compares : WriteCmpStatus(bytes, ones)
  BY <1>1, <1>8 DEF WriteCmpStatus, captures
<1>9. CASE UNCHANGED vars
  BY <1>1, <1>9 DEF vars, registers, captures
<1> QED BY <1>2, <1>3, <1>4, <1>5, <1>6, <1>7, <1>8, <1>9 DEF Next, StatusWrite

\* A valid capture keeps its value until software clears the valid bit.
THEOREM CapturesAreHeld == Spec => CaptureHeld
<1>1. Init => CaptureInv
  BY DEF Init, CaptureInv
<1>2. CaptureInv /\ [Next]_vars => CaptureInv'
  BY CaptureStep
<1>3. CaptureInv /\ [Next]_vars =>
        [HardwareReset \/
         \A n \in cap_status \cap cap_status' : capture'[n] = capture[n]]_vars
  BY CaptureStep
<1> QED BY <1>1, <1>2, <1>3, PTL DEF Spec, CaptureHeld

(* A batch of ticks. *)

\* The constants, and the divisor and the inverse of an increment.
LEMMA ModulusIs == Modulus \in Nat \ {0} /\ Modulus = Half * Half /\ 0 \in Counts
<1>1. PICK h \in Nat \ {0} : h = Half
  BY HalfAssumption
<1>2. h * h \in Nat \ {0}
  OBVIOUS
<1> QED BY <1>1, <1>2 DEF Modulus, Counts

\* In lowest terms: the increment, the modulus, and the inverse of the one.
Terms(inc, p, c, d) ==
  /\ p \in Nat /\ c \in Nat \ {0} /\ d \in Nat \ {0} /\ inc = p * d /\ Modulus = c * d
  /\ inc \div d = p /\ Modulus \div d = c

\* Those of every increment, by the greatest divisor and the inverse the timer keeps.
LEMMA TermsAre ==
  ASSUME NEW inc \in Increments
  PROVE  \E p, c : Terms(inc, p, c, gcd[inc]) /\ Inverts(inverses[inc], p, c)
<1>1. inc \in Nat /\ Modulus \in Nat \ {0}
  BY IncAssumption, ModulusIs
<1> DEFINE common == {d \in 1..Modulus : Divides(d, inc) /\ Divides(d, Modulus)}
           g == gcd[inc]
<1>2. \A d \in 1..Modulus : d \in common <=> Common(d, inc, Modulus)
  <2>1. ASSUME NEW d \in 1..Modulus  PROVE d \in common <=> Common(d, inc, Modulus)
    <3>1. d \in Nat \ {0}
      BY <1>1
    <3>2. Divides(d, inc) <=> Multiple(inc, d)
      BY <1>1, <3>1, MultipleMod DEF Divides
    <3>3. Divides(d, Modulus) <=> Multiple(Modulus, d)
      <4>1. PICK m \in Int : m = Modulus
        BY <1>1
      <4>2. m % d = 0 <=> Multiple(m, d)
        BY <3>1, MultipleMod
      <4> QED BY <4>1, <4>2 DEF Divides
    <3> QED BY <3>2, <3>3 DEF Common
  <2> QED BY <2>1
<1>3. PICK b \in 1..Modulus : /\ Common(b, inc, Modulus) /\ Combines(b, inc, Modulus)
                              /\ \A e \in Nat \ {0} : Common(e, inc, Modulus) => e <= b
  BY <1>1, Bezout
<1>4. b \in common /\ \A e \in common : e <= b
  <2>1. b \in common
    BY <1>2, <1>3
  <2>2. \A e \in common : e \in 1..Modulus /\ Common(e, inc, Modulus)
    BY <1>2
  <2>3. \A e \in 1..Modulus : e \in Nat \ {0}
    BY <1>1
  <2> HIDE DEF common
  <2> QED BY <1>3, <2>1, <2>2, <2>3
<1>5. g = CHOOSE d \in common : \A e \in common : e <= d
  BY DEF gcd
<1>6. g \in common /\ \A e \in common : e <= g
  <2> HIDE DEF common, g
  <2> QED BY <1>4, <1>5, Zenon
<1>7. g = b
  <2>1. g <= b /\ b <= g
    <3> HIDE DEF common, g
    <3> QED BY <1>4, <1>6
  <2>2. g \in 1..Modulus
    BY <1>6
  <2> HIDE DEF common, g
  <2> QED BY <1>1, <2>1, <2>2
<1> HIDE DEF common, g
<1>8. g \in Nat \ {0} /\ Common(g, inc, Modulus) /\ Combines(g, inc, Modulus)
  BY <1>1, <1>3, <1>7
<1>9. PICK p \in Int, c \in Int : inc = p * g /\ Modulus = c * g
  BY <1>8 DEF Common, Multiple
<1>10. p \in Nat /\ c \in Nat \ {0}
  <2>1. ASSUME p <= -1  PROVE FALSE
    <3>1. p * g <= -g
      BY <1>8, <2>1
    <3> QED BY <1>1, <1>8, <1>9, <3>1
  <2>2. ASSUME c <= 0  PROVE FALSE
    <3>1. c * g <= 0
      BY <1>8, <2>2
    <3>2. PICK m \in Nat \ {0} : m = Modulus
      BY <1>1
    <3> QED BY <1>9, <3>1, <3>2
  <2> QED BY <2>1, <2>2
<1>11. inc \div g = p /\ Modulus \div g = c
  <2>1. PICK m \in Nat, z \in 0..g-1 : m = Modulus /\ z = 0
    BY <1>1, <1>8
  <2>2. inc = p * g + z /\ m = c * g + z
    <3>1. PICK x \in Int, y \in Int : x = p * g /\ y = c * g
      BY <1>8
    <3> QED BY <1>9, <2>1, <3>1
  <2>3. inc \div g = p
    BY <1>8, <1>10, <2>2, Quotient
  <2>4. m \div g = c
    BY <1>8, <1>10, <2>2, Quotient
  <2> QED BY <2>1, <2>3, <2>4
<1>12. Terms(inc, p, c, g)
  BY <1>8, <1>9, <1>10, <1>11 DEF Terms
<1>13. \E z : Inverts(z, p, c)
  <2>1. Combines(g, p * g, c * g)
    BY <1>8, <1>9
  <2> QED BY <1>8, <1>10, <2>1, InverseExists
<1>14. inverses[inc] = CHOOSE z \in 0..c-1 : (z * p) % c = 1 % c
  BY <1>11 DEF inverses, g
<1>15. Inverts(inverses[inc], p, c)
  <2>1. \E z \in 0..c-1 : (z * p) % c = 1 % c
    BY <1>13 DEF Inverts
  <2> DEFINE Q(z) == (z * p) % c = 1 % c
             S == 0..c-1
  <2>2. \E z \in S : Q(z)
    BY <2>1
  <2>3. inverses[inc] = CHOOSE z \in S : Q(z)
    BY <1>14
  <2> HIDE DEF Q, S
  <2>4. inverses[inc] \in S /\ Q(inverses[inc])
    BY <2>2, <2>3, Zenon
  <2> QED BY <2>4 DEF Q, S, Inverts
<1> QED BY <1>12, <1>15 DEF g

\* The counter has a value after k ticks without a reset.
Reaches(start, k, value) == (start + k * default_inc) % Modulus = value

\* It has when the ticks make up the way there, modulo the counter's size.
LEMMA ReachesIs ==
  ASSUME default_inc \in Increments, NEW start \in Counts, NEW value \in Counts, NEW k \in Nat
  PROVE  /\ (value - start) % Modulus \in Counts
         /\ Reaches(start, k, value) <=> Multiple(k * default_inc - ((value - start) % Modulus), Modulus)
<1>1. PICK m \in Nat \ {0} : m = Modulus
  BY ModulusIs
<1>2. PICK i \in Nat, x \in Nat : i = default_inc /\ x = k * default_inc
  <2>1. PICK i \in Nat : i = default_inc
    BY IncAssumption
  <2>2. k * i \in Nat
    OBVIOUS
  <2> QED BY <2>1, <2>2
<1>3. start \in 0..m-1 /\ value \in 0..m-1
  BY <1>1 DEF Counts
<1>4. PICK d \in 0..m-1, q \in Int : d = (value - start) % m /\ value - start = q * m + d
  <2>1. PICK w \in Int : w = value - start
    BY <1>3
  <2>2. w \div m \in Int /\ w % m \in 0..m-1 /\ w = (w \div m) * m + (w % m)
    OBVIOUS
  <2> QED BY <2>1, <2>2
<1>5. Reaches(start, k, value) <=> Multiple((start + x) - value, m)
  <2>1. PICK u \in Int : u = start + x
    BY <1>3
  <2>2. value \in Int /\ value % m = value
    BY <1>3, SmallMod
  <2>3. u % m = value % m <=> Multiple(u - value, m)
    BY <2>2, Congruent
  <2>4. Reaches(start, k, value) <=> u % m = value
    BY <1>1, <1>2, <2>1 DEF Reaches
  <2> QED BY <2>1, <2>2, <2>3, <2>4
<1>6. q * m \in Int /\ (start + x) - value = (x - d) - q * m
  <2>1. PICK y \in Int : y = q * m
    OBVIOUS
  <2> QED BY <1>3, <1>4, <2>1
<1>7. Multiple((start + x) - value, m) <=> Multiple(x - d, m)
  <2>1. ASSUME NEW j \in Int, (start + x) - value = j * m  PROVE Multiple(x - d, m)
    <3>1. (j + q) * m = j * m + q * m /\ j + q \in Int /\ j * m \in Int
      OBVIOUS
    <3>2. x - d = (j + q) * m
      <4>1. PICK y \in Int, z \in Int : y = q * m /\ z = j * m
        BY <3>1
      <4> QED BY <1>6, <2>1, <3>1, <4>1
    <3> QED BY <3>1, <3>2 DEF Multiple
  <2>2. ASSUME NEW j \in Int, x - d = j * m  PROVE Multiple((start + x) - value, m)
    <3>1. (j - q) * m = j * m - q * m /\ j - q \in Int /\ j * m \in Int
      OBVIOUS
    <3>2. (start + x) - value = (j - q) * m
      <4>1. PICK y \in Int, z \in Int : y = q * m /\ z = j * m
        BY <3>1
      <4> QED BY <1>6, <2>2, <3>1, <4>1
    <3> QED BY <3>1, <3>2 DEF Multiple
  <2> QED BY <2>1, <2>2 DEF Multiple
<1>8. d = (value - start) % Modulus
  BY <1>1, <1>4
<1>9. d \in Counts
  BY <1>1 DEF Counts
<1>10. Reaches(start, k, value) <=> Multiple(x - d, m)
  BY <1>5, <1>7, Zenon
<1>11. x - d = k * default_inc - ((value - start) % Modulus)
  BY <1>2, <1>8, Zenon
<1>12. Multiple(x - d, m) <=> Multiple(k * default_inc - ((value - start) % Modulus), Modulus)
  BY <1>1, <1>11, Zenon
<1>13. (value - start) % Modulus \in Counts
  BY <1>8, <1>9, Zenon
<1> QED BY <1>10, <1>12, <1>13, Zenon

\* hit_distance is the first tick at which the counter has the value, if there is one.
FirstAt(start, value, d) ==
  /\ d \in Nat
  /\ d = NoHit => \A k \in Nat \ {0} : ~Reaches(start, k, value)
  /\ d # NoHit => Reaches(start, d, value) /\ \A k \in Nat \ {0} : k < d => ~Reaches(start, k, value)

\* The closed form finds that tick.
LEMMA HitIs ==
  ASSUME default_inc \in Increments, NEW start \in Counts, NEW value \in Counts
  PROVE  FirstAt(start, value, hit_distance(start, value))
<1> DEFINE delta == (value - start) % Modulus
<1>1. delta \in Counts /\ \A k \in Nat : Reaches(start, k, value) <=> Multiple(k * default_inc - delta, Modulus)
  <2>1. ASSUME NEW k \in Nat
        PROVE  delta \in Counts /\ (Reaches(start, k, value) <=> Multiple(k * default_inc - delta, Modulus))
    <3>1. /\ (value - start) % Modulus \in Counts
          /\ Reaches(start, k, value) <=> Multiple(k * default_inc - ((value - start) % Modulus), Modulus)
      BY ReachesIs
    <3> QED BY <3>1
  <2> HIDE DEF delta
  <2>2. 0 \in Nat
    OBVIOUS
  <2> QED BY <2>1, <2>2
<1>2. PICK m \in Nat \ {0}, i \in Nat : m = Modulus /\ i = default_inc
  BY ModulusIs, IncAssumption
<1> HIDE DEF delta
<1>3. delta \in 0..m-1 /\ delta \in Nat
  BY <1>1, <1>2 DEF Counts
<1>4. CASE i = 0
  <2>1. hit_distance(start, value) = IF delta = 0 THEN 1 ELSE NoHit
    BY <1>2, <1>4 DEF hit_distance, delta
  <2>2. ASSUME NEW k \in Nat  PROVE Reaches(start, k, value) <=> delta = 0
    <3>1. k * i = 0
      BY <1>4
    <3>2. Reaches(start, k, value) <=> Multiple(0 - delta, m)
      <4>1. k * default_inc - delta = 0 - delta
        BY <1>2, <3>1
      <4> QED BY <1>1, <1>2, <4>1
    <3>3. PICK o \in 0..m-1 : o = 0
      OBVIOUS
    <3>4. o % m = delta % m <=> Multiple(o - delta, m)
      <4>1. PICK e \in Int : e = delta
        BY <1>3
      <4>2. o \in Int
        OBVIOUS
      <4>3. o % m = e % m <=> Multiple(o - e, m)
        BY <4>2, Congruent
      <4> QED BY <4>1, <4>3
    <3>5. o % m = o /\ delta % m = delta
      BY <1>3, SmallMod
    <3> QED BY <3>2, <3>3, <3>4, <3>5
  <2>3. 1 \in Nat \ {0} /\ \A k \in Nat \ {0} : ~(k < 1)
    OBVIOUS
  <2>4. CASE delta = 0
    BY <2>1, <2>2, <2>3, <2>4 DEF FirstAt, NoHit
  <2>5. CASE delta # 0
    BY <2>1, <2>2, <2>5 DEF FirstAt, NoHit
  <2> QED BY <2>4, <2>5
<1>5. CASE i # 0
  <2>1. PICK p, c : Terms(i, p, c, divisor) /\ Inverts(inverses[i], p, c)
    BY <1>2, TermsAre DEF divisor
  <2>2. PICK d \in Nat \ {0} : d = divisor
    BY <2>1 DEF Terms
  <2>3. /\ p \in Nat /\ c \in Nat \ {0} /\ i = p * d /\ m = c * d /\ period = c
    BY <1>2, <2>1, <2>2 DEF Terms, period
  <2>4. /\ ~Divides(d, delta) => hit_distance(start, value) = NoHit
        /\ Divides(d, delta) =>
             hit_distance(start, value) = NextHit(((delta \div d) * inverses[i]) % c)
    BY <1>2, <1>5, <2>2, <2>3 DEF hit_distance, delta
  <2>5. Divides(d, delta) <=> Multiple(delta, d)
    BY <1>3, MultipleMod DEF Divides
  <2>6. CASE ~Divides(d, delta)
    <3>1. ASSUME NEW k \in Nat, Reaches(start, k, value)  PROVE FALSE
      <4>1. PICK w \in Int : k * i - delta = w * m
        BY <1>1, <1>2, <3>1 DEF Multiple
      <4>2. delta = (k * p - w * c) * d
        <5>1. k * i = (k * p) * d /\ w * m = (w * c) * d
          BY <2>3
        <5>2. (k * p - w * c) * d = (k * p) * d - (w * c) * d
          BY <2>3
        <5>3. PICK x \in Int, y \in Int : x = (k * p) * d /\ y = (w * c) * d
          BY <2>3
        <5> QED BY <1>3, <4>1, <5>1, <5>2, <5>3
      <4>3. k * p - w * c \in Int
        BY <2>3
      <4> QED BY <2>5, <2>6, <4>2, <4>3 DEF Multiple
    <3> QED BY <2>4, <2>6, <3>1 DEF FirstAt, NoHit
  <2>7. CASE Divides(d, delta)
    <3>1. PICK e \in Nat : delta = e * d /\ delta \div d = e
      <4>1. delta % d = 0
        BY <2>7 DEF Divides
      <4>2. delta \div d \in Nat /\ delta = (delta \div d) * d + (delta % d)
        BY <1>3, DivModParts
      <4>3. PICK e \in Nat : e = delta \div d
        BY <4>2
      <4>4. e * d \in Nat
        BY <2>2
      <4> QED BY <4>1, <4>2, <4>3, <4>4
    <3>2. PICK z \in Nat : z = inverses[i]
      BY <2>1, <2>3 DEF Inverts
    <3>3. PICK a \in 0..c-1 : a = (e * z) % c
      <4>1. e * z \in Nat
        OBVIOUS
      <4>2. (e * z) % c \in 0..c-1
        BY <2>3, <4>1, DivModParts
      <4> QED BY <4>2
    <3>4. ASSUME NEW k \in Nat  PROVE Reaches(start, k, value) <=> k % c = a
      <4>1. Multiple(k * p - e, c) <=> k % c = a
        <5>1. PICK n \in Nat, r \in Nat \ {0} : n = p /\ r = c
          BY <2>3
        <5>2. Inverts(z, n, r)
          BY <2>1, <3>2, <5>1
        <5>3. PICK s \in Int, t \in Nat : s = k * n - e /\ t = e * z
          OBVIOUS
        <5>4. Multiple(s, r) <=> k % r = t % r
          <6>1. IsRest(s, k, n, e) /\ IsProduct(t, e, z)
            BY <5>3 DEF IsRest, IsProduct
          <6> QED BY <5>2, <6>1, Solutions
        <5> QED BY <3>3, <5>1, <5>3, <5>4
      <4>2. k * i - delta = (k * p - e) * d
        <5>1. k * i = (k * p) * d
          BY <2>3
        <5>2. (k * p - e) * d = (k * p) * d - e * d
          BY <2>3
        <5> QED BY <3>1, <5>1, <5>2
      <4>3. Multiple((k * p - e) * d, c * d) <=> Multiple(k * p - e, c)
        <5>1. PICK u \in Int : u = k * p - e
          BY <2>3
        <5>2. ASSUME NEW w \in Int  PROVE u * d = w * (c * d) <=> u = w * c
          <6>1. PICK y \in Int : y = w * c
            BY <2>3
          <6>2. w * (c * d) = y * d
            BY <2>3, <6>1
          <6>3. u * d = y * d <=> u = y
            <7>1. ASSUME u + 1 <= y  PROVE u * d + d <= y * d
              <8>1. (u + 1) * d <= y * d
                BY <7>1
              <8> QED BY <8>1
            <7>2. ASSUME y + 1 <= u  PROVE y * d + d <= u * d
              <8>1. (y + 1) * d <= u * d
                BY <7>2
              <8> QED BY <8>1
            <7>3. u * d \in Int /\ y * d \in Int
              OBVIOUS
            <7> QED BY <7>1, <7>2, <7>3
          <6> QED BY <6>1, <6>2, <6>3
        <5> QED BY <5>1, <5>2 DEF Multiple
      <4>4. Reaches(start, k, value) <=> Multiple((k * p - e) * d, c * d)
        BY <1>1, <1>2, <2>3, <4>2
      <4> QED BY <4>1, <4>3, <4>4, Zenon
    <3>5. hit_distance(start, value) = IF a = 0 THEN c ELSE a
      BY <2>3, <2>4, <2>7, <3>1, <3>2, <3>3 DEF NextHit
    <3>6. PICK h \in Nat \ {0} : h = (IF a = 0 THEN c ELSE a) /\ h <= c
      BY <2>3
    <3>7. h % c = a
      <4>1. CASE a = 0
        <5>1. c = 1 * c + 0 /\ 0 \in 0..c-1
          BY <2>3
        <5>2. PICK o \in Nat, x \in 0..c-1 : o = 1 /\ x = 0
          BY <5>1
        <5>3. c = o * c + x
          BY <2>3, <5>2
        <5>4. c % c = x
          BY <2>3, <5>3, Quotient
        <5> QED BY <3>6, <4>1, <5>2, <5>4
      <4>2. CASE a # 0
        BY <2>3, <3>6, <4>2, SmallMod
      <4> QED BY <4>1, <4>2
    <3>8. ASSUME NEW k \in Nat \ {0}, k < h  PROVE k % c # a
      <4>1. k \in 0..c-1
        BY <2>3, <3>6, <3>8
      <4>2. k % c = k
        BY <2>3, <4>1, SmallMod
      <4>3. k # a
        BY <3>6, <3>8
      <4> QED BY <4>2, <4>3
    <3> QED BY <3>4, <3>5, <3>6, <3>7, <3>8 DEF FirstAt, NoHit
  <2> QED BY <2>6, <2>7
<1> QED BY <1>4, <1>5

\* What the timer counts with.
Timer ==
  /\ default_inc \in Increments /\ count \in Counts
  /\ cmp_en \subseteq Compares /\ compare \in [Compares -> Counts]

\* Where the counter is after n ticks without a reset, and the compares that it is equal to.
CountAt(start, n) == (start + n * default_inc) % Modulus
Matched(start, n) == {j \in cmp_en : compare[j] = CountAt(start, n)}

\* A count, and the next one is an increment away.
LEMMA CountAtIs ==
  ASSUME default_inc \in Increments, NEW start \in Counts, NEW n \in Nat
  PROVE  /\ CountAt(start, n) \in Counts /\ CountAt(start, 0) = start
         /\ CountAt(start, n + 1) = (CountAt(start, n) + default_inc) % Modulus
<1>1. PICK m \in Nat \ {0}, i \in Nat : m = Modulus /\ i = default_inc
  BY ModulusIs, IncAssumption
<1>2. start \in 0..m-1
  BY <1>1 DEF Counts
<1>3. PICK x \in Nat : x = start + n * i
  <2>1. n * i \in Nat
    OBVIOUS
  <2> QED BY <1>2, <2>1
<1>4. PICK q \in Nat, r \in 0..m-1 : x = q * m + r /\ r = x % m
  BY DivModParts
<1>5. CountAt(start, n) = r
  BY <1>1, <1>3, <1>4 DEF CountAt
<1>6. CountAt(start, 0) = start
  <2>1. start + 0 * i = start
    BY <1>2
  <2>2. start % m = start
    BY <1>2, SmallMod
  <2> QED BY <1>1, <2>1, <2>2 DEF CountAt
<1>7. CountAt(start, n + 1) = (r + i) % m
  <2>1. PICK u \in Int, v \in Int : u = x + i /\ v = r + i
    OBVIOUS
  <2>2. start + (n + 1) * i = u
    <3>1. (n + 1) * i = n * i + i /\ n * i \in Nat
      OBVIOUS
    <3> QED BY <1>2, <1>3, <2>1, <3>1
  <2>3. u - v = q * m
    <3>1. PICK y \in Nat : y = q * m
      OBVIOUS
    <3>2. x = y + r /\ u = x + i /\ v = r + i
      BY <1>4, <2>1, <3>1
    <3>3. u - v = y
      BY ONLY <3>2, x \in Nat, y \in Nat, i \in Nat, r \in Int, r \in 0..m-1
    <3> QED BY <3>1, <3>3
  <2>4. Multiple(u - v, m)
    BY <2>3 DEF Multiple
  <2>5. u % m = v % m <=> Multiple(u - v, m)
    BY Congruent
  <2> QED BY <1>1, <2>1, <2>2, <2>4, <2>5 DEF CountAt
<1>8. r \in Counts
  BY <1>1 DEF Counts
<1> QED BY <1>1, <1>5, <1>6, <1>7, <1>8

\* The hits of one tick more.
LEMMA HitsMore ==
  ASSUME Timer, NEW start \in Counts, NEW n \in Nat
  PROVE  /\ Hits(start, 0) = {} /\ Hits(start, n + 1) = Hits(start, n) \cup Matched(start, n + 1)
         /\ \A j \in cmp_en : FirstAt(start, compare[j], hit_distance(start, compare[j]))
<1>1. ASSUME NEW j \in cmp_en  PROVE FirstAt(start, compare[j], hit_distance(start, compare[j]))
  <2>1. compare[j] \in Counts
    BY DEF Timer
  <2> QED BY <2>1, HitIs DEF Timer
<1>2. Hits(start, 0) = {}
  <2>1. ASSUME NEW j \in Hits(start, 0)  PROVE FALSE
    BY <2>1 DEF Hits
  <2> QED BY <2>1
<1>3. ASSUME NEW j \in cmp_en
      PROVE  j \in Hits(start, n + 1) <=> j \in Hits(start, n) \/ j \in Matched(start, n + 1)
  <2>1. PICK d : d = hit_distance(start, compare[j])
    OBVIOUS
  <2>2. FirstAt(start, compare[j], d)
    BY <1>1, <2>1
  <2>3. d \in Nat
    BY <2>2 DEF FirstAt
  <2>4. j \in Matched(start, n + 1) <=> Reaches(start, n + 1, compare[j])
    BY DEF Matched, CountAt, Reaches
  <2>5. (j \in Hits(start, n) <=> d \in 1..n) /\ (j \in Hits(start, n + 1) <=> d \in 1..n+1)
    BY <2>1 DEF Hits
  <2>6. CASE d \in 1..n
    <3>1. d \in 1..n+1
      BY <2>6
    <3> QED BY <2>5, <2>6, <3>1
  <2>7. CASE d = n + 1
    <3>1. d \in 1..n+1 /\ d # 0
      BY <2>7
    <3>2. Reaches(start, d, compare[j])
      BY <2>2, <3>1 DEF FirstAt, NoHit
    <3> QED BY <2>4, <2>5, <2>7, <3>1, <3>2
  <2>8. CASE d \notin 1..n /\ d # n + 1
    <3>1. PICK k \in Nat \ {0} : k = n + 1
      OBVIOUS
    <3>2. d = 0 \/ k < d
      BY <2>3, <2>8, <3>1
    <3>3. ~Reaches(start, k, compare[j])
      BY <2>2, <3>2 DEF FirstAt, NoHit
    <3>4. d \notin 1..n+1
      BY <2>3, <2>8
    <3> QED BY <2>4, <2>5, <2>8, <3>1, <3>3, <3>4
  <2> QED BY <2>6, <2>7, <2>8
<1>4. Hits(start, n + 1) \subseteq cmp_en /\ Hits(start, n) \subseteq cmp_en /\ Matched(start, n + 1) \subseteq cmp_en
  BY DEF Hits, Matched
<1> QED BY <1>1, <1>2, <1>3, <1>4

\* What the counter and the hits are then.
StateAt(start, n, hits) == [count |-> CountAt(start, n), hits |-> hits]

\* One tick from there.
LEMMA OneTickIs ==
  ASSUME Timer, NEW start \in Counts, NEW n \in Nat, NEW h
  PROVE  TickOnce(StateAt(start, n, h)) = [count |-> IF 0 \in Matched(start, n + 1) /\ cmp0_rst_cnt_en THEN 0
                                  ELSE CountAt(start, n + 1),
                        hits |-> h \cup Matched(start, n + 1)]
<1>1. PICK new : new = CountAt(start, n + 1)
  OBVIOUS
<1> DEFINE s == StateAt(start, n, h)
<1>2. (s.count + default_inc) % Modulus = new /\ s.hits = h
  BY <1>1, CountAtIs DEF Timer, StateAt
<1> HIDE DEF s
<1>3. {j \in cmp_en : compare[j] = new} = Matched(start, n + 1)
  BY <1>1 DEF Matched
<1>4. TickOnce(s) = [count |-> IF 0 \in Matched(start, n + 1) /\ cmp0_rst_cnt_en THEN 0 ELSE new,
                     hits |-> h \cup Matched(start, n + 1)]
  BY <1>2, <1>3 DEF TickOnce
<1> QED BY <1>1, <1>4 DEF s

\* When CMP0 resets the counter, or NoHit.
ResetAt(start) == IF cmp0_rst_cnt_en /\ 0 \in cmp_en THEN hit_distance(start, compare[0]) ELSE NoHit

\* The reset comes with the tick that reaches CMP0, and not before.
LEMMA ResetIs ==
  ASSUME Timer, NEW start \in Counts, NEW n \in Nat
  PROVE  /\ ResetAt(start) \in Nat
         /\ ResetAt(start) = 0 \/ n < ResetAt(start) =>
              (0 \in Matched(start, n + 1) /\ cmp0_rst_cnt_en <=> n + 1 = ResetAt(start))
<1>1. CASE ~(cmp0_rst_cnt_en /\ 0 \in cmp_en)
  <2>1. ResetAt(start) = 0 /\ ~(0 \in Matched(start, n + 1) /\ cmp0_rst_cnt_en) /\ n + 1 # 0
    BY <1>1 DEF ResetAt, NoHit, Matched
  <2> QED BY <2>1
<1>2. CASE cmp0_rst_cnt_en /\ 0 \in cmp_en
  <2>1. PICK d : d = hit_distance(start, compare[0]) /\ d = ResetAt(start)
    BY <1>2 DEF ResetAt
  <2>2. FirstAt(start, compare[0], d)
    BY <1>2, <2>1, HitsMore
  <2>3. 0 \in Matched(start, n + 1) <=> Reaches(start, n + 1, compare[0])
    BY <1>2 DEF Matched, CountAt, Reaches
  <2>4. PICK k \in Nat \ {0} : k = n + 1
    OBVIOUS
  <2>5. d \in Nat /\ (d = 0 \/ n < d => (Reaches(start, k, compare[0]) <=> k = d))
    BY <2>2, <2>4 DEF FirstAt, NoHit
  <2> QED BY <1>2, <2>1, <2>3, <2>4, <2>5
<1> QED BY <1>1, <1>2

\* The batch in the terms of the lemmas: before the first reset, and behind it.
BeforeReset(n) == [count |-> CountAt(count, n), hits |-> Hits(count, n)]
AfterReset(first, loops, rest, loop) ==
  [count |-> CountAt(0, rest),
   hits  |-> Hits(count, first) \cup (IF loops THEN Hits(0, loop) ELSE {}) \cup Hits(0, rest)]

\* _advance_ticks is one or the other.
LEMMA BatchIs ==
  ASSUME Timer, NEW n \in Nat
  PROVE  LET first == ResetAt(count)
             loop == ResetAt(0)
             left == n - first
             loops == loop # 0 /\ left >= loop
         IN  /\ first = 0 \/ n < first => AdvanceTicks(n) = BeforeReset(n)
             /\ first # 0 /\ first <= n =>
                  AdvanceTicks(n) = AfterReset(first, loops, IF loops THEN left % loop ELSE left, loop)
<1> DEFINE first == ResetAt(count)  loop == ResetAt(0)
<1>1. first \in Nat /\ loop \in Nat /\ 0 \in Counts /\ count \in Counts /\ default_inc \in Nat
  <2>1. 0 \in Counts /\ count \in Counts
    BY ModulusIs DEF Timer
  <2>2. default_inc \in Nat
    BY IncAssumption DEF Timer
  <2>3. 0 \in Nat
    OBVIOUS
  <2> QED BY <2>1, <2>2, <2>3, ResetIs
<1>2. first = IF cmp0_rst_cnt_en /\ 0 \in cmp_en THEN hit_distance(count, compare[0]) ELSE NoHit
  BY DEF ResetAt
<1> HIDE DEF first
<1>3. CASE first = 0 \/ n < first
  <2>1. first = NoHit \/ first > n
    BY <1>1, <1>3 DEF NoHit
  <2>2. AdvanceTicks(n) = [count |-> (count + n * default_inc) % Modulus, hits |-> Hits(count, n)]
    BY <1>2, <2>1 DEF AdvanceTicks
  <2>3. ~(first # 0 /\ first <= n)
    BY <1>1, <1>3
  <2> QED BY <2>2, <2>3 DEF BeforeReset, CountAt, first
<1>4. CASE first # 0 /\ first <= n
  <2>1. ~(first = NoHit \/ first > n)
    BY <1>1, <1>4 DEF NoHit
  <2>2. cmp0_rst_cnt_en /\ 0 \in cmp_en /\ loop = hit_distance(0, compare[0])
    BY <1>2, <1>4 DEF ResetAt, NoHit
  <2>3. PICK left \in Nat : left = n - first
    BY <1>1, <1>4
  <2>4. PICK loops \in BOOLEAN : loops <=> loop # 0 /\ left >= loop
    OBVIOUS
  <2>5. PICK rest \in Nat : rest = IF loops THEN left % loop ELSE left
    <3>1. ASSUME loops  PROVE left % loop \in Nat
      <4>1. loop \in Nat \ {0}
        BY <1>1, <2>4, <3>1
      <4>2. left % loop \in 0..loop-1
        BY <4>1, DivModParts
      <4> QED BY <4>1, <4>2
    <3> QED BY <3>1
  <2> HIDE DEF loop
  <2>6. AdvanceTicks(n) = [count |-> (rest * default_inc) % Modulus,
                           hits  |-> Hits(count, first) \cup (IF loops THEN Hits(0, loop) ELSE {})
                                     \cup Hits(0, rest)]
    BY <1>2, <2>1, <2>2, <2>3, <2>4, <2>5 DEF AdvanceTicks, NoHit
  <2>7. (rest * default_inc) % Modulus = CountAt(0, rest)
    <3>1. rest * default_inc \in Nat
      BY <1>1
    <3>2. 0 + rest * default_inc = rest * default_inc
      BY <3>1
    <3> QED BY <3>2 DEF CountAt
  <2>8. AdvanceTicks(n) = AfterReset(first, loops, rest, loop)
    BY <2>6, <2>7 DEF AfterReset
  <2>9. ~(first = 0 \/ n < first)
    BY <1>1, <1>4
  <2> QED BY <2>3, <2>4, <2>5, <2>8, <2>9 DEF first, loop
<1>5. (first = 0 \/ n < first) \/ (first # 0 /\ first <= n)
  BY <1>1
<1> QED BY <1>3, <1>4, <1>5

\* One tick more behind a reset.
LEMMA AfterResetStep ==
  ASSUME Timer, NEW first \in Nat, NEW left \in Nat, NEW loop, loop = ResetAt(0),
         NEW loops \in BOOLEAN, loops <=> loop # 0 /\ left >= loop,
         NEW rest \in Nat, rest = (IF loops THEN left % loop ELSE left),
         NEW more \in BOOLEAN, more <=> loop # 0 /\ left + 1 >= loop,
         NEW then \in Nat, then = (IF more THEN (left + 1) % loop ELSE left + 1)
  PROVE  TickOnce(AfterReset(first, loops, rest, loop)) = AfterReset(first, more, then, loop)
<1>1. 0 \in Counts /\ loop \in Nat
  <2>1. 0 \in Counts /\ 0 \in Nat
    BY ModulusIs
  <2> QED BY <2>1, ResetIs
<1>2. PICK h : h = Hits(count, first) \cup (IF loops THEN Hits(0, loop) ELSE {}) \cup Hits(0, rest)
  OBVIOUS
<1>3. PICK s : s = AfterReset(first, loops, rest, loop) /\ s = StateAt(0, rest, h)
  BY <1>2 DEF AfterReset, StateAt
<1>4. TickOnce(s) = [count |-> IF 0 \in Matched(0, rest + 1) /\ cmp0_rst_cnt_en THEN 0
                               ELSE CountAt(0, rest + 1),
                     hits |-> h \cup Matched(0, rest + 1)]
  <2>1. PICK z \in Counts : z = 0
    BY <1>1
  <2>2. TickOnce(StateAt(z, rest, h)) =
          [count |-> IF 0 \in Matched(z, rest + 1) /\ cmp0_rst_cnt_en THEN 0 ELSE CountAt(z, rest + 1),
           hits |-> h \cup Matched(z, rest + 1)]
    BY OneTickIs
  <2> QED BY <1>3, <2>1, <2>2
<1>5. Hits(0, 0) = {} /\ Hits(0, rest + 1) = Hits(0, rest) \cup Matched(0, rest + 1)
  BY <1>1, HitsMore
<1>6. loop = 0 \/ rest < loop
  <2>1. CASE loop # 0 /\ left >= loop
    <3>1. loop \in Nat \ {0}
      BY <1>1, <2>1
    <3>2. left % loop \in 0..loop-1
      BY <3>1, DivModParts
    <3>3. rest = left % loop
      BY <2>1
    <3> QED BY <3>1, <3>2, <3>3
  <2>2. CASE loop = 0 \/ left < loop
    BY <1>1, <2>2
  <2> QED BY <1>1, <2>1, <2>2
<1>7. 0 \in Matched(0, rest + 1) /\ cmp0_rst_cnt_en <=> rest + 1 = loop
  BY <1>1, <1>6, ResetIs
<1>8. PICK r \in Nat : r = rest + 1
  OBVIOUS
<1>9. CASE r = loop
  <2>1. more /\ then = 0
    <3>1. loop \in Nat \ {0} /\ 0 \in 0..loop-1
      BY <1>1, <1>8, <1>9
    <3>2. PICK q \in Nat : left + 1 = q * loop /\ q >= 1
      <4>1. CASE loops
        <5>1. rest = left % loop /\ left \div loop \in Nat /\ left = (left \div loop) * loop + (left % loop)
          BY <3>1, <4>1, DivModParts
        <5>2. PICK p \in Nat : p = left \div loop
          BY <5>1
        <5>3. PICK x \in Nat : x = p * loop
          BY <3>1
        <5>4. left = x + rest
          BY <5>1, <5>2, <5>3
        <5>5. (p + 1) * loop = x + loop
          BY <3>1, <5>3
        <5>6. left + 1 = (p + 1) * loop
          BY <1>8, <1>9, <3>1, <5>4, <5>5
        <5> QED BY <5>6
      <4>2. CASE ~loops
        <5>1. left + 1 = 1 * loop
          BY <1>8, <1>9, <3>1, <4>2
        <5> QED BY <5>1
      <4> QED BY <4>1, <4>2
    <3>3. q * loop >= loop
      BY <3>1, <3>2
    <3>4. more
      BY <3>1, <3>2, <3>3
    <3>5. (left + 1) % loop = 0
      <4>1. PICK n \in Nat, z \in 0..loop-1 : n = left + 1 /\ z = 0
        BY <3>1
      <4>2. n = q * loop + z
        BY <3>1, <3>2, <4>1
      <4>3. n % loop = z
        BY <3>1, <4>2, Quotient
      <4> QED BY <4>1, <4>3
    <3> QED BY <3>4, <3>5
  <2>2. CountAt(0, 0) = 0
    BY <1>1, CountAtIs DEF Timer
  <2>3. h \cup Matched(0, r) = Hits(count, first) \cup Hits(0, loop) \cup {}
    <3>1. h = Hits(count, first) \cup (IF loops THEN Hits(0, loop) ELSE {}) \cup Hits(0, rest)
      BY <1>2
    <3>2. Hits(0, loop) = Hits(0, rest) \cup Matched(0, r)
      BY <1>5, <1>8, <1>9
    <3> QED BY <3>1, <3>2
  <2>4. TickOnce(s) = [count |-> 0, hits |-> h \cup Matched(0, r)]
    BY <1>4, <1>7, <1>8, <1>9
  <2>5. AfterReset(first, more, then, loop) = [count |-> 0, hits |-> Hits(count, first) \cup Hits(0, loop) \cup {}]
    BY <1>5, <2>1, <2>2 DEF AfterReset
  <2> QED BY <1>3, <2>3, <2>4, <2>5
<1>10. CASE r # loop
  <2>1. (more <=> loops) /\ then = r
    <3>1. CASE loops
      <4>1. loop \in Nat \ {0} /\ left >= loop /\ rest = left % loop
        BY <1>1, <3>1
      <4>2. more
        BY <4>1
      <4>3. left \div loop \in Nat /\ left = (left \div loop) * loop + (left % loop)
        BY <4>1, DivModParts
      <4>4. PICK p \in Nat : p = left \div loop
        BY <4>3
      <4>5. PICK n \in Nat, y \in 0..loop-1 : n = left + 1 /\ y = r
        <5>1. r < loop
          BY <1>1, <1>6, <1>8, <1>10, <4>1
        <5>2. r \in 0..loop-1
          BY <5>1, <4>1
        <5>3. left + 1 \in Nat
          OBVIOUS
        <5> QED BY <5>2, <5>3
      <4>6. n = p * loop + y
        <5>1. PICK x \in Nat : x = p * loop
          BY <4>1
        <5>2. left = x + rest
          BY <4>1, <4>3, <4>4, <5>1
        <5> QED BY <1>8, <4>5, <5>1, <5>2
      <4>7. n % loop = y
        BY <4>1, <4>6, Quotient, SMTT(30)
      <4> QED BY <3>1, <4>2, <4>5, <4>7
    <3>2. CASE ~loops
      <4>1. rest = left /\ (loop = 0 \/ left < loop)
        BY <1>1, <3>2
      <4>2. ~more
        BY <1>1, <1>8, <1>10, <4>1
      <4> QED BY <1>8, <3>2, <4>1, <4>2
    <3> QED BY <3>1, <3>2
  <2>2. TickOnce(s) = [count |-> CountAt(0, r), hits |-> h \cup Matched(0, r)]
    BY <1>4, <1>7, <1>8, <1>10
  <2>3. h \cup Matched(0, r) = Hits(count, first) \cup (IF more THEN Hits(0, loop) ELSE {}) \cup Hits(0, r)
    <3>1. h = Hits(count, first) \cup (IF loops THEN Hits(0, loop) ELSE {}) \cup Hits(0, rest)
      BY <1>2
    <3>2. Hits(0, r) = Hits(0, rest) \cup Matched(0, r)
      BY <1>5, <1>8
    <3> QED BY <2>1, <3>1, <3>2
  <2>4. AfterReset(first, more, then, loop) =
          [count |-> CountAt(0, r),
           hits |-> Hits(count, first) \cup (IF more THEN Hits(0, loop) ELSE {}) \cup Hits(0, r)]
    BY <2>1 DEF AfterReset
  <2> QED BY <1>3, <2>2, <2>3, <2>4
<1> QED BY <1>9, <1>10

\* A batch of one tick more is the batch and one tick.
LEMMA BatchStep ==
  ASSUME Timer, NEW n \in Nat
  PROVE  TickOnce(AdvanceTicks(n)) = AdvanceTicks(n + 1)
<1>1. PICK k \in Nat : k = n + 1
  OBVIOUS
<1>2. 0 \in Counts /\ count \in Counts
  BY ModulusIs DEF Timer
<1>3. PICK first \in Nat, loop \in Nat : first = ResetAt(count) /\ loop = ResetAt(0)
  <2>1. 0 \in Nat
    OBVIOUS
  <2> QED BY <1>2, <2>1, ResetIs
<1>4. CASE first = 0 \/ k <= first
  <2>1. first = 0 \/ n < first
    BY <1>1, <1>4
  <2>2. AdvanceTicks(n) = StateAt(count, n, Hits(count, n))
    BY <1>3, <2>1, BatchIs DEF BeforeReset, StateAt
  <2>3. TickOnce(AdvanceTicks(n)) =
          [count |-> IF 0 \in Matched(count, n + 1) /\ cmp0_rst_cnt_en THEN 0 ELSE CountAt(count, n + 1),
           hits |-> Hits(count, n) \cup Matched(count, n + 1)]
    BY <1>2, <2>2, OneTickIs
  <2>4. 0 \in Matched(count, n + 1) /\ cmp0_rst_cnt_en <=> k = first
    BY <1>1, <1>2, <1>3, <2>1, ResetIs
  <2>5. Hits(count, n) \cup Matched(count, n + 1) = Hits(count, k)
    BY <1>1, <1>2, HitsMore
  <2>6. CASE k # first
    <3>1. first = 0 \/ k < first
      BY <1>4, <2>6
    <3>2. AdvanceTicks(k) = BeforeReset(k)
      BY <1>3, <3>1, BatchIs
    <3> QED BY <1>1, <2>3, <2>4, <2>5, <2>6, <3>2 DEF BeforeReset
  <2>7. CASE k = first
    <3>1. first # 0 /\ first <= k
      BY <1>1, <2>7
    <3>2. PICK left \in Nat : left = 0 /\ left = k - first
      BY <2>7
    <3>3. PICK more \in BOOLEAN : more <=> loop # 0 /\ left >= loop
      OBVIOUS
    <3>4. ~more
      BY <3>2, <3>3
    <3>5. AdvanceTicks(k) = AfterReset(first, more, IF more THEN left % loop ELSE left, loop)
      BY <1>3, <3>1, <3>2, <3>3, BatchIs
    <3>6. AdvanceTicks(k) = AfterReset(first, FALSE, 0, loop)
      BY <3>2, <3>4, <3>5
    <3>7. CountAt(0, 0) = 0 /\ Hits(0, 0) = {}
      <4>1. PICK z \in Counts : z = 0
        BY <1>2
      <4>2. CountAt(z, 0) = z /\ Hits(z, 0) = {}
        <5>1. PICK m \in Nat : m = 0
          OBVIOUS
        <5>2. CountAt(z, 0) = z
          BY <5>1, CountAtIs DEF Timer
        <5>3. Hits(z, 0) = {}
          BY <5>1, HitsMore
        <5> QED BY <5>2, <5>3
      <4> QED BY <4>1, <4>2
    <3>8. AdvanceTicks(k) = [count |-> 0, hits |-> Hits(count, k)]
      BY <2>7, <3>6, <3>7 DEF AfterReset
    <3> QED BY <1>1, <2>3, <2>4, <2>5, <2>7, <3>8
  <2> QED BY <2>6, <2>7
<1>5. CASE first # 0 /\ first <= n
  <2>1. PICK left \in Nat : left = n - first
    BY <1>5
  <2>2. PICK after \in Nat : after = left + 1 /\ after = k - first
    BY <1>1, <2>1
  <2>3. PICK loops \in BOOLEAN, more \in BOOLEAN :
          (loops <=> loop # 0 /\ left >= loop) /\ (more <=> loop # 0 /\ after >= loop)
    OBVIOUS
  <2>4. PICK rest \in Nat, then \in Nat : rest = (IF loops THEN left % loop ELSE left)
                                         /\ then = (IF more THEN after % loop ELSE after)
    <3>1. ASSUME NEW x \in Nat, NEW b \in BOOLEAN, b => loop # 0
          PROVE (IF b THEN x % loop ELSE x) \in Nat
      <4>1. ASSUME b  PROVE x % loop \in Nat
        <5>1. loop \in Nat \ {0}
          BY <3>1, <4>1
        <5>2. x % loop \in 0..loop-1
          BY <5>1, DivModParts
        <5> QED BY <5>1, <5>2
      <4> QED BY <4>1
    <3>2. (IF loops THEN left % loop ELSE left) \in Nat
      BY <2>3, <3>1
    <3>3. (IF more THEN after % loop ELSE after) \in Nat
      BY <2>3, <3>1
    <3> QED BY <3>2, <3>3
  <2>5. AdvanceTicks(n) = AfterReset(first, loops, rest, loop)
    <3>1. AdvanceTicks(n) = AfterReset(first, loop # 0 /\ left >= loop,
                                   IF loop # 0 /\ left >= loop THEN left % loop ELSE left, loop)
      BY <1>3, <1>5, <2>1, BatchIs
    <3> QED BY <2>3, <2>4, <3>1
  <2>6. AdvanceTicks(k) = AfterReset(first, more, then, loop)
    <3>1. first <= k
      BY <1>1, <1>5
    <3>2. AdvanceTicks(k) = AfterReset(first, loop # 0 /\ after >= loop,
                                   IF loop # 0 /\ after >= loop THEN after % loop ELSE after, loop)
      BY <1>3, <1>5, <2>2, <3>1, BatchIs
    <3> QED BY <2>3, <2>4, <3>2
  <2>7. TickOnce(AfterReset(first, loops, rest, loop)) = AfterReset(first, more, then, loop)
    <3>1. loop = ResetAt(0)
      BY <1>3
    <3>2. (more <=> loop # 0 /\ left + 1 >= loop) /\ then = (IF more THEN (left + 1) % loop ELSE left + 1)
      BY <2>2, <2>3, <2>4
    <3> QED BY <2>3, <2>4, <3>1, <3>2, AfterResetStep
  <2> QED BY <1>1, <2>5, <2>6, <2>7
<1>6. (first = 0 \/ k <= first) \/ (first # 0 /\ first <= n)
  BY <1>1
<1> QED BY <1>4, <1>5, <1>6

\* No ticks.
LEMMA NoTicks == ASSUME Timer  PROVE AdvanceTicks(0) = [count |-> count, hits |-> {}]
<1>1. PICK n \in Nat : n = 0
  OBVIOUS
<1>2. count \in Counts
  BY DEF Timer
<1>3. ResetAt(count) \in Nat
  BY <1>1, <1>2, ResetIs
<1>4. ResetAt(count) = 0 \/ n < ResetAt(count)
  BY <1>1, <1>3
<1>5. AdvanceTicks(n) = BeforeReset(n)
  BY <1>4, BatchIs
<1>6. CountAt(count, 0) = count
  BY <1>1, <1>2, CountAtIs DEF Timer
<1>7. Hits(count, 0) = {}
  BY <1>1, <1>2, HitsMore
<1> QED BY <1>1, <1>5, <1>6, <1>7 DEF BeforeReset

\* The timer ticked one by one is what the batch makes of it.
LEMMA TicksAreBatch == ASSUME Timer, NEW n \in Nat  PROVE AdvanceTicks(n) = TickByTick(n)
<1> DEFINE Eq(f) == f = [k \in 0..n |-> IF k = 0 THEN [count |-> count, hits |-> {}] ELSE TickOnce(f[k-1])]
           G == [k \in 0..n |-> AdvanceTicks(k)]
<1>1. Eq(G)
  <2>1. ASSUME NEW k \in 0..n
        PROVE  AdvanceTicks(k) = IF k = 0 THEN [count |-> count, hits |-> {}] ELSE TickOnce(G[k-1])
    <3>1. CASE k = 0
      BY <3>1, NoTicks
    <3>2. CASE k # 0
      <4>1. PICK m \in Nat : m = k - 1 /\ k = m + 1 /\ m \in 0..n
        BY <3>2
      <4>2. G[m] = AdvanceTicks(m)
        BY <4>1
      <4>3. TickOnce(AdvanceTicks(m)) = AdvanceTicks(m + 1)
        BY BatchStep
      <4> QED BY <3>2, <4>1, <4>2, <4>3
    <3> QED BY <3>1, <3>2
  <2> HIDE DEF G
  <2>2. G = [k \in 0..n |-> AdvanceTicks(k)]
    BY DEF G
  <2> QED BY <2>1, <2>2
<1> DEFINE g == CHOOSE x : Eq(x)
<1>2. Eq(g)
  <2> HIDE DEF Eq
  <2> QED BY <1>1
<1>3. TickByTick(n) = g[n]
  BY Zenon DEF TickByTick
<1> HIDE DEF g
<1>4. \A k \in 0..n : g[k] = IF k = 0 THEN [count |-> count, hits |-> {}] ELSE TickOnce(g[k-1])
  BY <1>2
<1> HIDE DEF Eq
<1> DEFINE Same == {k \in Nat : k \in 0..n => g[k] = AdvanceTicks(k)}
<1>5. 0 \in Same
  <2>1. g[0] = AdvanceTicks(0)
    BY <1>4, NoTicks
  <2> QED BY <2>1
<1>6. ASSUME NEW k \in Same  PROVE k + 1 \in Same
  <2>1. k \in Nat
    OBVIOUS
  <2>2. ASSUME k + 1 \in 0..n  PROVE g[k + 1] = AdvanceTicks(k + 1)
    <3>1. k \in 0..n /\ k + 1 # 0 /\ (k + 1) - 1 = k
      BY <2>1, <2>2
    <3>2. g[k] = AdvanceTicks(k)
      BY <3>1
    <3>3. g[k + 1] = TickOnce(g[(k + 1) - 1])
      BY <1>4, <2>2, <3>1
    <3>4. TickOnce(AdvanceTicks(k)) = AdvanceTicks(k + 1)
      BY <2>1, BatchStep
    <3> QED BY <3>1, <3>2, <3>3, <3>4
  <2> QED BY <2>1, <2>2
<1>7. n \in Same
  <2>1. Same \subseteq Nat
    OBVIOUS
  <2> HIDE DEF Same
  <2> QED BY <1>5, <1>6, <2>1, SetInduction
<1> QED BY <1>3, <1>7

\* A batch leaves a count, and hits enabled compares only.
LEMMA BatchTyped ==
  ASSUME Timer, NEW n \in Nat
  PROVE  AdvanceTicks(n).count \in Counts /\ AdvanceTicks(n).hits \subseteq cmp_en
<1> DEFINE P == {k \in Nat : AdvanceTicks(k).count \in Counts /\ AdvanceTicks(k).hits \subseteq cmp_en}
<1>1. 0 \in P
  <2>1. AdvanceTicks(0).count = count /\ AdvanceTicks(0).hits = {}
    BY NoTicks
  <2> QED BY <2>1 DEF Timer
<1>2. ASSUME NEW k \in P  PROVE k + 1 \in P
  <2>1. PICK s : s = AdvanceTicks(k)
    OBVIOUS
  <2>2. k \in Nat /\ s.count \in Counts /\ s.hits \subseteq cmp_en
    BY <2>1
  <2>3. AdvanceTicks(k + 1) = TickOnce(s)
    BY <2>1, <2>2, BatchStep
  <2>4. (s.count + default_inc) % Modulus \in Counts /\ 0 \in Counts
    <3>1. PICK m \in Nat \ {0} : m = Modulus
      BY ModulusIs
    <3>2. PICK x \in Nat : x = s.count + default_inc
      <4>1. s.count \in Nat /\ default_inc \in Nat
        BY <2>2, <3>1, IncAssumption DEF Counts, Timer
      <4> QED BY <4>1
    <3>3. x % m \in 0..m-1
      OBVIOUS
    <3> QED BY <3>1, <3>2, <3>3, ModulusIs DEF Counts
  <2>5. TickOnce(s).count \in Counts /\ TickOnce(s).hits \subseteq cmp_en
    BY <2>2, <2>4 DEF TickOnce
  <2> QED BY <2>2, <2>3, <2>5
<1>3. n \in P
  <2>1. P \subseteq Nat
    OBVIOUS
  <2> HIDE DEF P
  <2> QED BY <1>1, <1>2, <2>1, SetInduction
<1> QED BY <1>3

\* A word of a count replaced is a count.
LEMMA CountWord ==
  ASSUME NEW old \in Counts, NEW word \in Words, NEW upper \in BOOLEAN
  PROVE  WithWord(old, word, upper) \in Counts
<1>1. PICK h \in Nat \ {0} : h = Half
  BY HalfAssumption
<1>2. PICK w \in 0..h-1 : w = word
  BY <1>1, WordAssumption
<1>3. PICK m \in Nat \ {0} : m = Modulus /\ m = h * h
  BY <1>1, ModulusIs
<1>4. PICK c \in Nat : c = old /\ c < m
  BY <1>3 DEF Counts
<1>5. PICK q \in Nat, r \in 0..h-1 : c = q * h + r /\ r = c % h /\ q = c \div h
  BY DivModParts
<1>6. q \in 0..h-1
  <2>1. SUFFICES ASSUME q >= h  PROVE FALSE
    OBVIOUS
  <2>2. q * h >= h * h
    BY <2>1
  <2>3. PICK x \in Nat : x = q * h
    OBVIOUS
  <2>4. x >= m /\ c = x + r
    BY <1>3, <1>5, <2>2, <2>3
  <2> QED BY <1>4, <2>4
<1>7. ASSUME NEW a \in 0..h-1, NEW b \in 0..h-1  PROVE a * h + b \in 0..m-1
  <2>1. PICK x \in Nat, y \in Nat : x = a * h /\ y = (h - 1) * h
    OBVIOUS
  <2>2. x <= y /\ y + h = m
    BY <1>3, <2>1
  <2> QED BY <2>1, <2>2
<1>8. CASE upper
  BY <1>1, <1>2, <1>3, <1>4, <1>5, <1>7, <1>8 DEF WithWord, Counts
<1>9. CASE ~upper
  BY <1>1, <1>2, <1>3, <1>4, <1>5, <1>6, <1>7, <1>9 DEF WithWord, Counts
<1> QED BY <1>8, <1>9

\* What TypeOK says of all but time.
RegistersOK ==
  /\ FlagsOK
  /\ default_inc \in Increments /\ count \in Counts
  /\ cmp_en \subseteq Compares /\ cmp_status \subseteq Compares
  /\ compare \in [Compares -> Counts]
  /\ cap_en \subseteq Captures /\ cap_status \subseteq Captures
  /\ capture \in [Captures -> Counts]

\* The registers after reset.
LEMMA RegistersInit == Init => RegistersOK
<1>1. ResetInc \in Increments /\ 0 \in Counts
  BY IncAssumption, ModulusIs
<1> QED BY <1>1 DEF Init, RegistersOK, FlagsOK

\* Every operation leaves them typed.
LEMMA RegistersStep == RegistersOK /\ PhaseInv /\ [Next]_vars => RegistersOK'
<1> SUFFICES ASSUME RegistersOK, PhaseInv, [Next]_vars  PROVE RegistersOK'
  OBVIOUS
<1>1. ASSUME NEW units \in Steps, Observe(units)  PROVE RegistersOK'
  <2>1. UNCHANGED <<cnt_enable, default_inc, cmp_en, cmp0_rst_cnt_en, compare, captures, iepclk>>
    BY <1>1 DEF Observe, cmp_config, clocks
  <2>2. CASE ~cnt_enable
    BY <1>1, <2>1, <2>2 DEF Observe, RegistersOK, FlagsOK, captures
  <2>3. CASE cnt_enable
    <3>1. PICK due : due = tick_remainder + units * numerator
      OBVIOUS
    <3>2. PICK whole : whole = due \div denominator
      OBVIOUS
    <3>3. whole \in Nat
      <4>1. active_clock[1] \in Nat \ {0} /\ active_clock[2] \in Nat \ {0}
        BY ActiveRate DEF PhaseInv
      <4>2. PICK u \in Nat, d \in Nat \ {0} : u = numerator /\ d = denominator
        BY <2>3, <4>1 DEF numerator, denominator
      <4>3. units * u \in Nat
        BY StepAssumption
      <4>4. due \in Nat
        BY <3>1, <4>2, <4>3 DEF PhaseInv
      <4> QED BY <3>2, <4>2, <4>4
    <3>4. Timer
      BY DEF RegistersOK, Timer
    <3>5. count' = AdvanceTicks(whole).count /\ cmp_status' = cmp_status \cup AdvanceTicks(whole).hits
      BY <1>1, <2>3, <3>1, <3>2 DEF Observe
    <3>6. count' \in Counts /\ cmp_status' \subseteq Compares
      BY <3>3, <3>4, <3>5, BatchTyped DEF RegistersOK
    <3> QED BY <2>1, <3>6 DEF RegistersOK, FlagsOK, captures
  <2> QED BY <2>2, <2>3
<1>2. CASE WriteGlobalCfg
  BY <1>2 DEF WriteGlobalCfg, RegistersOK, FlagsOK, clocks, cmp_config, captures
<1>3. CASE WriteIepclk
  BY <1>3 DEF WriteIepclk, RegistersOK, FlagsOK, registers, cmp_config, captures
<1>4. CASE set_clock_mhz
  BY <1>4 DEF set_clock_mhz, RegistersOK, FlagsOK, registers, cmp_config, captures
<1>5. ASSUME NEW word \in Words, NEW upper \in BOOLEAN, WriteCount(word, upper)  PROVE RegistersOK'
  <2>1. count' \in Counts
    BY <1>5, CountWord DEF WriteCount, RegistersOK
  <2> QED BY <1>5, <2>1 DEF WriteCount, RegistersOK, FlagsOK, cmp_config, captures, clocks
<1>6. ASSUME NEW word \in Words, NEW upper \in BOOLEAN, NEW j \in Compares, WriteCompare(j, word, upper)
      PROVE  RegistersOK'
  <2>1. WithWord(compare[j], word, upper) \in Counts
    BY CountWord DEF RegistersOK
  <2>2. compare' \in [Compares -> Counts]
    BY <1>6, <2>1 DEF WriteCompare, RegistersOK
  <2> QED BY <1>6, <2>2 DEF WriteCompare, RegistersOK, FlagsOK, captures, clocks
<1>7. CASE WriteCmpCfg
  BY <1>7 DEF WriteCmpCfg, RegistersOK, FlagsOK, captures, clocks
<1>8. CASE WriteCapCfg
  BY <1>8 DEF WriteCapCfg, RegistersOK, FlagsOK, cmp_config, clocks
<1>9. CASE StatusWrite
  <2>1. \/ \E bytes \in SUBSET Bytes, ones \in SUBSET Compares : WriteCmpStatus(bytes, ones)
        \/ \E bytes \in SUBSET Bytes, ones \in SUBSET Captures : WriteCapStatus(bytes, ones)
    BY <1>9 DEF StatusWrite
  <2>2. cmp_status' \subseteq cmp_status /\ cap_status' \subseteq cap_status
    BY <2>1 DEF WriteCmpStatus, WriteCapStatus, captures
  <2>3. UNCHANGED <<cnt_enable, default_inc, count, cmp_config, cap_en, capture, clocks>>
    BY <2>1 DEF WriteCmpStatus, WriteCapStatus, captures
  <2> QED BY <2>2, <2>3 DEF RegistersOK, FlagsOK, cmp_config, clocks
<1>10. ASSUME NEW n \in Captures, capture_event(n)  PROVE RegistersOK'
  <2>1. capture' = [capture EXCEPT ![n] = count] /\ cap_status' = cap_status \cup {n}
    BY <1>10 DEF capture_event
  <2>2. capture' \in [Captures -> Counts] /\ cap_status' \subseteq Captures
    BY <2>1 DEF RegistersOK
  <2> QED BY <1>10, <2>2 DEF capture_event, RegistersOK, FlagsOK, cmp_config, clocks
<1>11. CASE HardwareReset
  <2>1. ResetInc \in Increments /\ 0 \in Counts
    BY IncAssumption, ModulusIs
  <2> QED BY <1>11, <2>1 DEF HardwareReset, ResetRegisters, RegistersOK, FlagsOK
<1>12. CASE UNCHANGED vars
  BY <1>12 DEF vars, registers, cmp_config, captures, clocks, RegistersOK, FlagsOK
<1> QED BY <1>1, <1>2, <1>3, <1>4, <1>5, <1>6, <1>7, <1>8, <1>9, <1>10, <1>11, <1>12 DEF Next

\* Registers and time together.
LEMMA TypedStep ==
  /\ Init => RegistersOK /\ PhaseInv
  /\ RegistersOK /\ PhaseInv /\ [Next]_vars => (RegistersOK /\ PhaseInv)'
BY PhaseInit, PhaseStep, RegistersInit, RegistersStep

\* Types of the registers of the timer, for every increment and clock rate.
THEOREM IepTyped == Spec => []TypeOK
<1>1. RegistersOK /\ PhaseInv => TypeOK
  BY DEF RegistersOK, PhaseInv, TypeOK
<1> QED BY <1>1, TypedStep, PTL DEF Spec

\* _advance_ticks, with its modular inverses and its division by the period of the
\* resets, is the timer ticked one by one.
THEOREM BatchIsExact == Spec => []BatchMatchesTicks
<1>1. RegistersOK /\ PhaseInv => BatchMatchesTicks
  <2>1. SUFFICES ASSUME RegistersOK  PROVE BatchMatchesTicks
    OBVIOUS
  <2>2. Timer
    BY <2>1 DEF RegistersOK, Timer
  <2>3. ASSUME NEW n \in Batches  PROVE AdvanceTicks(n) = TickByTick(n)
    BY <2>2, TicksAreBatch, BatchAssumption
  <2> QED BY <2>3 DEF BatchMatchesTicks
<1> QED BY <1>1, TypedStep, PTL DEF Spec
-----------------------------------------------------------------------------
(* The device bus. *)

DriverModes == Modes \cup {Nets[d][pn] : d \in Devices, pn \in AllPins}
DriverRecords == [name : Devices \cup Ports, value : {0, 1}, mode : DriverModes]
BusRecords ==
  [attached : SUBSET Devices, gpo : PinWords, enabled : PinWords, gpi : PinWords,
   managed : PinWords, drives : [Devices -> Drives],
   inputs : [Devices -> (SUBSET AllPins) \cup {NoInput}], wires : SUBSET WireChoices,
   conflicts : UNION {[s -> SUBSET DriverRecords] : s \in SUBSET Nodes},
   noted : SUBSET Nodes, peers : [Devices -> (SUBSET AllPins) \cup {NoInput}], echoed : SUBSET Devices]

LEMMA WordTyped ==
  ASSUME NEW b, NEW p \in Ports  PROVE Word(b, p) \subseteq AllPins
BY DEF Word, AllPins

LEMMA HomeTyped == ASSUME NEW d \in Devices  PROVE Home[d] \in Ports
BY DeviceAssumption

\* What sampling devices leaves alone.
SamplingKeeps(b, x, devs) ==
  /\ x.attached = b.attached /\ x.gpo = b.gpo /\ x.enabled = b.enabled /\ x.gpi = b.gpi
  /\ x.managed = b.managed /\ x.wires = b.wires /\ x.conflicts = b.conflicts
  /\ x.noted = b.noted
  /\ \A d \in Devices \ devs : /\ x.drives[d] = b.drives[d] /\ x.inputs[d] = b.inputs[d]
                               /\ x.peers[d] = b.peers[d]

LEMMA SeenTyped ==
  ASSUME NEW b \in BusRecords, NEW d \in Devices, NEW own
  PROVE  SeenInput(b, d, own) \in (SUBSET AllPins) \cup {NoInput}
<1>1. b.inputs[d] \in (SUBSET AllPins) \cup {NoInput}
  BY DEF BusRecords
<1>2. Word(b, Home[d]) \subseteq AllPins
  BY WordTyped, HomeTyped
<1> QED BY <1>1, <1>2 DEF SeenInput

LEMMA AnswersTyped ==
  ASSUME NEW hit \in SUBSET Devices, NEW answers \in AnswersOf(hit)
  PROVE  /\ DOMAIN answers = hit
         /\ \A d \in hit : answers[d] \in Drives /\ answers[d] \in Responses[d]
<1>1. answers \in [hit -> UNION {Responses[d] : d \in hit}] /\ \A d \in hit : answers[d] \in Responses[d]
  BY DEF AnswersOf
<1>2. ASSUME NEW d \in hit  PROVE answers[d] \in Drives
  <2>1. d \in Devices /\ answers[d] \in Responses[d]
    BY <1>1
  <2>2. answers[d] \in [mask : SUBSET DOMAIN Nets[d], high : SUBSET AllPins]
    BY <2>1, DeviceAssumption
  <2>3. DOMAIN Nets[d] \subseteq AllPins
    BY <2>1, DeviceAssumption DEF AllPins
  <2> QED BY <2>2, <2>3 DEF Drives
<1> QED BY <1>1, <1>2

LEMMA SampledKeeps ==
  ASSUME NEW b \in BusRecords, NEW devs \in SUBSET Devices, NEW own,
         NEW hit \in SUBSET devs, NEW answers \in AnswersOf(hit),
         NEW y, y = Sampled(b, devs, own, answers).bus
  PROVE  /\ y \in BusRecords /\ SamplingKeeps(b, y, devs)
         /\ \A d \in devs :
              /\ d \in hit => y.drives[d] = answers[d] /\ y.inputs[d] = Word(b, Home[d])
              /\ d \notin hit => y.drives[d] = b.drives[d] /\ y.inputs[d] = SeenInput(b, d, own[d])
              /\ y.peers[d] = WithoutIt(b, d)
         /\ \A d \in y.echoed :
              d \in b.echoed \/ (d \in hit /\ b.inputs[d] # NoInput /\ WithoutIt(b, d) = b.peers[d])
<1> DEFINE drives == Answered(b, answers)
           inputs == [d \in Devices |-> IF d \in hit THEN Word(b, Home[d])
                                    ELSE IF d \in devs THEN SeenInput(b, d, own[d])
                                    ELSE b.inputs[d]]
           peers == [d \in Devices |-> IF d \in devs THEN WithoutIt(b, d) ELSE b.peers[d]]
           echoed == b.echoed \cup
              {d \in hit : b.inputs[d] # NoInput /\ WithoutIt(b, d) = b.peers[d]}
           x == [b EXCEPT !.drives = drives, !.inputs = inputs, !.peers = peers, !.echoed = echoed]
<1>1. Sampled(b, devs, own, answers).bus = x
  BY AnswersTyped DEF Sampled
<1>2. drives \in [Devices -> Drives]
      /\ \A d \in Devices : drives[d] = IF d \in hit THEN answers[d] ELSE b.drives[d]
  BY AnswersTyped DEF BusRecords, Answered
<1>3. inputs \in [Devices -> (SUBSET AllPins) \cup {NoInput}]
  <2>1. ASSUME NEW d \in Devices PROVE inputs[d] \in (SUBSET AllPins) \cup {NoInput}
    <3>1. Word(b, Home[d]) \subseteq AllPins
      BY WordTyped, HomeTyped
    <3>2. b.inputs[d] \in (SUBSET AllPins) \cup {NoInput}
      BY DEF BusRecords
    <3> QED BY <3>1, <3>2, SeenTyped
  <2> QED BY <2>1
<1>4. peers \in [Devices -> (SUBSET AllPins) \cup {NoInput}]
  <2>1. ASSUME NEW d \in Devices PROVE peers[d] \in (SUBSET AllPins) \cup {NoInput}
    <3>1. WithoutIt(b, d) \subseteq AllPins
      BY WordTyped, HomeTyped DEF WithoutIt
    <3>2. b.peers[d] \in (SUBSET AllPins) \cup {NoInput}
      BY DEF BusRecords
    <3> QED BY <3>1, <3>2
  <2> QED BY <2>1
<1>5. echoed \in SUBSET Devices
  BY DEF BusRecords
<1>6. /\ \A d \in Devices : inputs[d] = IF d \in hit THEN Word(b, Home[d])
                                    ELSE IF d \in devs THEN SeenInput(b, d, own[d])
                                    ELSE b.inputs[d]
      /\ \A d \in Devices : peers[d] = IF d \in devs THEN WithoutIt(b, d) ELSE b.peers[d]
  OBVIOUS
<1> HIDE DEF drives, inputs, peers
<1>7. x \in BusRecords /\ x.drives = drives /\ x.inputs = inputs /\ x.peers = peers /\ x.echoed = echoed
  <2> HIDE DEF echoed
  <2> QED BY <1>2, <1>3, <1>4, <1>5 DEF BusRecords
<1>8. SamplingKeeps(b, x, devs)
  BY <1>2, <1>6, <1>7 DEF SamplingKeeps, BusRecords
<1> HIDE DEF x
<1>9. \A d \in devs :
         /\ d \in hit => x.drives[d] = answers[d] /\ x.inputs[d] = Word(b, Home[d])
         /\ d \notin hit => x.drives[d] = b.drives[d] /\ x.inputs[d] = SeenInput(b, d, own[d])
         /\ x.peers[d] = WithoutIt(b, d)
  BY <1>2, <1>6, <1>7
<1>10. y = x
  BY <1>1
<1> QED BY <1>7, <1>8, <1>9, <1>10 DEF echoed
-----------------------------------------------------------------------------
\* A phase is one sampling of the devices it hits.
LEMMA PhaseIsSampling ==
  ASSUME NEW b, NEW devs \in SUBSET Devices, NEW own, NEW one \in Phase(b, devs, own)
  PROVE  \E answers \in AnswersOf(Hit(b, devs, own)) : one = Sampled(b, devs, own, answers)
BY DEF Phase

LEMMA HitTyped ==
  ASSUME NEW b, NEW devs \in SUBSET Devices, NEW own  PROVE Hit(b, devs, own) \in SUBSET devs
BY DEF Hit

NoOwn == [d \in Devices |-> {}]

LEMMA SettledIsTwoPhases ==
  ASSUME NEW b, NEW devs \in SUBSET Devices, NEW x \in Settled(b, devs)
  PROVE  \E one \in Phase(b, devs, NoOwn) : \E two \in Phase(one.bus, devs, one.own) :
           x = AtRest(two.bus, devs, two.own)
<1> DEFINE twos == UNION {Phase(one.bus, devs, one.own) : one \in Phase(b, devs, NoOwn)}
<1>1. PICK two \in twos : x = AtRest(two.bus, devs, two.own)
  BY DEF Settled, NoOwn
<1>2. PICK one \in Phase(b, devs, NoOwn) : two \in Phase(one.bus, devs, one.own)
  OBVIOUS
<1> QED BY <1>1, <1>2

LEMMA AtRestKeeps ==
  ASSUME NEW b \in BusRecords, NEW devs \in SUBSET Devices, NEW own, NEW y, y = AtRest(b, devs, own)
  PROVE  /\ y \in BusRecords /\ SamplingKeeps(b, y, devs)
         /\ y.drives = b.drives /\ y.echoed = b.echoed
         /\ \A d \in devs :
              /\ y.inputs[d] = SeenInput(b, d, own[d])
              /\ WithoutIt(b, d) # b.peers[d] => y.peers[d] = NoInput
              /\ WithoutIt(b, d) = b.peers[d] => y.peers[d] = b.peers[d]
<1> DEFINE inputs == [d \in Devices |-> IF d \in devs THEN SeenInput(b, d, own[d]) ELSE b.inputs[d]]
           peers == [d \in Devices |-> IF d \in devs /\ WithoutIt(b, d) # b.peers[d] THEN NoInput
                                       ELSE b.peers[d]]
           x == [b EXCEPT !.inputs = inputs, !.peers = peers]
<1>1. AtRest(b, devs, own) = x
  BY DEF AtRest
<1>2. inputs \in [Devices -> (SUBSET AllPins) \cup {NoInput}]
  <2>1. ASSUME NEW d \in Devices  PROVE inputs[d] \in (SUBSET AllPins) \cup {NoInput}
    <3>1. b.inputs[d] \in (SUBSET AllPins) \cup {NoInput}
      BY DEF BusRecords
    <3> QED BY <3>1, SeenTyped
  <2> QED BY <2>1
<1>3. peers \in [Devices -> (SUBSET AllPins) \cup {NoInput}]
  <2>1. ASSUME NEW d \in Devices  PROVE peers[d] \in (SUBSET AllPins) \cup {NoInput}
    <3>1. b.peers[d] \in (SUBSET AllPins) \cup {NoInput}
      BY DEF BusRecords
    <3> QED BY <3>1
  <2> QED BY <2>1
<1>4. /\ \A d \in Devices : inputs[d] = IF d \in devs THEN SeenInput(b, d, own[d]) ELSE b.inputs[d]
      /\ \A d \in Devices : peers[d] = IF d \in devs /\ WithoutIt(b, d) # b.peers[d] THEN NoInput
                                       ELSE b.peers[d]
  OBVIOUS
<1> HIDE DEF inputs, peers
<1>5. /\ x \in BusRecords /\ x.inputs = inputs /\ x.peers = peers
      /\ x.drives = b.drives /\ x.echoed = b.echoed
  BY <1>2, <1>3 DEF BusRecords
<1>6. SamplingKeeps(b, x, devs)
  BY <1>4, <1>5 DEF SamplingKeeps, BusRecords
<1> HIDE DEF x
<1>7. y = x
  BY <1>1
<1> QED BY <1>4, <1>5, <1>6, <1>7

LEMMA PhaseKeeps ==
  ASSUME NEW b \in BusRecords, NEW devs \in SUBSET Devices, NEW own,
         NEW one \in Phase(b, devs, own)
  PROVE  one.bus \in BusRecords /\ SamplingKeeps(b, one.bus, devs)
<1>1. PICK answers \in AnswersOf(Hit(b, devs, own)) : one = Sampled(b, devs, own, answers)
  BY PhaseIsSampling
<1> DEFINE hit == Hit(b, devs, own)
<1>2. hit \in SUBSET devs
  BY HitTyped
<1> HIDE DEF hit
<1>3. answers \in AnswersOf(hit)
  BY DEF hit
<1> DEFINE y == one.bus
<1>4. y = Sampled(b, devs, own, answers).bus
  BY <1>1
<1> HIDE DEF y
<1>5. y \in BusRecords /\ SamplingKeeps(b, y, devs)
  BY <1>2, <1>3, <1>4, SampledKeeps
<1> QED BY <1>5 DEF y

LEMMA SettledKeeps ==
  ASSUME NEW b \in BusRecords, NEW devs \in SUBSET Devices, NEW x \in Settled(b, devs)
  PROVE  x \in BusRecords /\ SamplingKeeps(b, x, devs)
<1>1. PICK one \in Phase(b, devs, NoOwn) : \E two \in Phase(one.bus, devs, one.own) :
           x = AtRest(two.bus, devs, two.own)
  BY SettledIsTwoPhases
<1>2. PICK two \in Phase(one.bus, devs, one.own) : x = AtRest(two.bus, devs, two.own)
  BY <1>1
<1>3. one.bus \in BusRecords /\ SamplingKeeps(b, one.bus, devs)
  BY PhaseKeeps
<1>4. two.bus \in BusRecords /\ SamplingKeeps(one.bus, two.bus, devs)
  BY <1>3, PhaseKeeps
<1>5. x \in BusRecords /\ SamplingKeeps(two.bus, x, devs)
  BY <1>2, <1>4, AtRestKeeps
<1> QED BY <1>3, <1>4, <1>5 DEF SamplingKeeps
-----------------------------------------------------------------------------
LEMMA NodeTyped ==
  /\ \A p \in Ports : \A pn \in PinsOf[p] : <<p, pn>> \in Nodes
  /\ \A n \in Nodes : n[1] \in Ports /\ n[2] \in PinsOf[n[1]] /\ n = <<n[1], n[2]>>
                      /\ n[2] \in AllPins
BY DEF Nodes, AllPins

LEMMA NetTyped ==
  ASSUME NEW b \in BusRecords, NEW n \in Nodes
  PROVE  NetOf(b, n) \subseteq Nodes /\ n \in NetOf(b, n) /\ Root(b, n) \in Nodes
<1>1. \A w \in b.wires : w \in WireChoices /\ w \subseteq Nodes /\ RootOf[w] \in Nodes
  BY WireAssumption DEF BusRecords
<1>2. NetOf(b, n) \subseteq Nodes /\ n \in NetOf(b, n)
  BY <1>1 DEF NetOf
<1>3. CASE \E w \in b.wires : n \in w
  <2>1. Root(b, n) = RootOf[CHOOSE w \in b.wires : n \in w]
    BY <1>3 DEF Root
  <2>2. (CHOOSE w \in b.wires : n \in w) \in b.wires
    BY <1>3
  <2> QED BY <1>1, <1>2, <2>1, <2>2
<1>4. CASE ~\E w \in b.wires : n \in w
  BY <1>2, <1>4 DEF Root
<1> QED BY <1>3, <1>4

LEMMA DriversTyped ==
  ASSUME NEW b \in BusRecords, NEW net \in SUBSET Nodes
  PROVE  Drivers(b, net) \subseteq DriverRecords
<1> DEFINE cores == {[name |-> n[1], value |-> IF n[2] \in b.gpo[n[1]] THEN 1 ELSE 0,
                      mode |-> IF Declared(b, net) = {"open drain"} THEN "open drain"
                               ELSE "push pull"]
                       : n \in {m \in net : m[2] \in b.enabled[m[1]]}}
           devices == {[name |-> x[1], value |-> IF x[2][2] \in b.drives[x[1]].high THEN 1 ELSE 0,
                        mode |-> Nets[x[1]][x[2][2]]]
                         : x \in {y \in b.attached \X net :
                                    y[2][1] = Home[y[1]] /\ y[2][2] \in b.drives[y[1]].mask}}
<1>1. Drivers(b, net) = cores \cup devices
  BY DEF Drivers
<1>2. cores \subseteq DriverRecords
  <2> DEFINE mode == IF Declared(b, net) = {"open drain"} THEN "open drain" ELSE "push pull"
  <2>1. mode \in DriverModes
    BY DEF DriverModes, Modes
  <2> SUFFICES ASSUME NEW n \in net
               PROVE  [name |-> n[1], value |-> IF n[2] \in b.gpo[n[1]] THEN 1 ELSE 0,
                       mode |-> mode] \in DriverRecords
    OBVIOUS
  <2> HIDE DEF mode
  <2>2. n[1] \in Ports
    BY NodeTyped
  <2> QED BY <2>1, <2>2 DEF DriverRecords
<1>3. devices \subseteq DriverRecords
  <2> SUFFICES ASSUME NEW y \in b.attached \X net
               PROVE  [name |-> y[1], value |-> IF y[2][2] \in b.drives[y[1]].high THEN 1 ELSE 0,
                        mode |-> Nets[y[1]][y[2][2]]] \in DriverRecords
    OBVIOUS
  <2>1. y[1] \in Devices /\ y[2] \in Nodes
    BY DEF BusRecords
  <2>2. y[2][2] \in AllPins
    BY <2>1, NodeTyped
  <2>3. Nets[y[1]][y[2][2]] \in DriverModes
    BY <2>1, <2>2 DEF DriverModes
  <2> QED BY <2>1, <2>3 DEF DriverRecords
<1> QED BY <1>1, <1>2, <1>3

\* What recording conflicts does.
VisitedRoots(b, ports) == {Root(b, n) : n \in {m \in Nodes : m[1] \in Reached(b, ports)}}
InConflict(b, n) == Conflict(Drivers(b, NetOf(b, n)))

LEMMA RecordedIs ==
  ASSUME NEW b \in BusRecords, NEW ports \in SUBSET Ports
  PROVE  LET x == Recorded(b, ports)
             now == {n \in VisitedRoots(b, ports) : InConflict(b, n)}
         IN  /\ x \in BusRecords
             /\ x = [b EXCEPT !.conflicts = x.conflicts, !.noted = x.noted]
             /\ DOMAIN x.conflicts = now \cup (DOMAIN b.conflicts \ VisitedRoots(b, ports))
             /\ \A n \in DOMAIN x.conflicts :
                  x.conflicts[n] = IF n \in now THEN Drivers(b, NetOf(b, n)) ELSE b.conflicts[n]
             /\ \A n \in Nodes :
                  n \in x.noted <=>
                    \/ n \in b.noted
                    \/ n \in now /\ ~(n \in DOMAIN b.conflicts
                                      /\ b.conflicts[n] = Drivers(b, NetOf(b, n)))
<1> DEFINE visited == VisitedRoots(b, ports)
           now == {n \in visited : InConflict(b, n)}
           kept == DOMAIN b.conflicts \ visited
           known(n) == n \in DOMAIN b.conflicts /\ b.conflicts[n] = Drivers(b, NetOf(b, n))
           conflicts == [n \in now \cup kept |-> IF n \in now THEN Drivers(b, NetOf(b, n))
                                                 ELSE b.conflicts[n]]
           noted == b.noted \cup {n \in now : ~known(n)}
           x == [b EXCEPT !.conflicts = conflicts, !.noted = noted]
<1>1. Recorded(b, ports) = x
  BY DEF Recorded, VisitedRoots, InConflict
<1>2. visited \subseteq Nodes
  BY NetTyped DEF VisitedRoots
<1>3. PICK s \in SUBSET Nodes : b.conflicts \in [s -> SUBSET DriverRecords]
  BY DEF BusRecords
<1>4. now \cup kept \in SUBSET Nodes
  <2>1. kept \subseteq Nodes
    BY <1>3
  <2>2. now \subseteq Nodes
    BY <1>2
  <2> QED BY <2>1, <2>2
<1>5. conflicts \in [now \cup kept -> SUBSET DriverRecords]
  <2>1. ASSUME NEW n \in now \cup kept  PROVE conflicts[n] \in SUBSET DriverRecords
    <3>1. CASE n \in now
      <4>1. NetOf(b, n) \subseteq Nodes
        BY <1>2, <3>1, NetTyped
      <4>2. conflicts[n] = Drivers(b, NetOf(b, n))
        BY <3>1
      <4> QED BY <4>1, <4>2, DriversTyped
    <3>2. CASE n \notin now
      BY <1>3, <3>2
    <3> QED BY <3>1, <3>2
  <2> QED BY <2>1
<1>6. conflicts \in UNION {[t -> SUBSET DriverRecords] : t \in SUBSET Nodes}
  BY <1>4, <1>5
<1>7. noted \in SUBSET Nodes
  BY <1>2 DEF BusRecords
<1>8. /\ DOMAIN conflicts = now \cup kept
      /\ \A n \in now \cup kept : conflicts[n] = IF n \in now THEN Drivers(b, NetOf(b, n))
                                                 ELSE b.conflicts[n]
  OBVIOUS
<1>9. \A n \in Nodes : n \in noted <=> n \in b.noted \/ (n \in now /\ ~known(n))
  OBVIOUS
<1> HIDE DEF conflicts, noted, now, known
<1>10. /\ x \in BusRecords /\ x.conflicts = conflicts /\ x.noted = noted
       /\ x = [b EXCEPT !.conflicts = x.conflicts, !.noted = x.noted]
  BY <1>6, <1>7 DEF BusRecords
<1> HIDE DEF x
<1> QED BY <1>1, <1>8, <1>9, <1>10 DEF now, known

\* What writing the levels back does: for the ports reached, the inputs the
\* bus manages show the levels, and it manages what is driven.
LEMMA DrivenTyped ==
  ASSUME NEW b \in BusRecords, NEW p \in Ports  PROVE Driven(b, p) \in SUBSET AllPins
<1>1. \A d \in Devices : Home[d] = p => DOMAIN Nets[d] \subseteq AllPins
  BY DeviceAssumption DEF AllPins
<1>2. \A pn \in PinsOf[p] : pn \in AllPins
  BY DEF AllPins
<1>3. b.attached \subseteq Devices
  BY DEF BusRecords
<1> QED BY <1>1, <1>2, <1>3 DEF Driven

Current(b, p) == \A pn \in b.managed[p] : pn \in b.gpi[p] <=> pn \in Word(b, p)

SameNets(b, x) ==
  /\ x.attached = b.attached /\ x.gpo = b.gpo /\ x.enabled = b.enabled
  /\ x.drives = b.drives /\ x.wires = b.wires

\* The levels depend on no other field.
LEMMA SameWord ==
  ASSUME NEW b, NEW x, SameNets(b, x)
  PROVE  /\ \A p : Word(x, p) = Word(b, p) /\ Driven(x, p) = Driven(b, p)
         /\ \A n : Root(x, n) = Root(b, n) /\ NetOf(x, n) = NetOf(b, n)
         /\ \A net : Drivers(x, net) = Drivers(b, net)
         /\ \A ports : Reached(x, ports) = Reached(b, ports)
<1>1. \A n : Root(x, n) = Root(b, n) /\ NetOf(x, n) = NetOf(b, n)
  BY DEF Root, NetOf, SameNets
<1>2. \A net : Declared(x, net) = Declared(b, net)
  BY DEF Declared, SameNets
<1>3. \A net : Drivers(x, net) = Drivers(b, net)
  <2> SUFFICES ASSUME NEW net  PROVE Drivers(x, net) = Drivers(b, net)
    OBVIOUS
  <2>1. /\ x.attached = b.attached /\ x.gpo = b.gpo /\ x.enabled = b.enabled
        /\ x.drives = b.drives /\ Declared(x, net) = Declared(b, net)
    BY <1>2 DEF SameNets
  <2> QED BY ONLY <2>1, Zenon DEF Drivers
<1>4. \A p : Word(x, p) = Word(b, p)
  BY <1>1, <1>3 DEF Word
<1>5. \A p : Driven(x, p) = Driven(b, p)
  BY DEF Driven, SameNets
<1>6. \A ports : Reached(x, ports) = Reached(b, ports)
  BY DEF Reached, SameNets
<1> QED BY <1>1, <1>3, <1>4, <1>5, <1>6

LEMMA WrittenBackIs ==
  ASSUME NEW b \in BusRecords, NEW ports \in SUBSET Ports
  PROVE  LET x == WrittenBack(b, ports)
         IN  /\ x \in BusRecords
             /\ x = [b EXCEPT !.gpi = x.gpi, !.managed = x.managed]
             /\ \A p \in Reached(b, ports) : x.managed[p] = Driven(x, p) /\ Current(x, p)
             /\ \A p \in Ports \ Reached(b, ports) :
                  x.managed[p] = b.managed[p] /\ x.gpi[p] = b.gpi[p]
<1> DEFINE changed(p) == b.managed[p] \cup Driven(b, p)
           released(p) == (b.managed[p] \ Driven(b, p)) \cap LoopPins[p]
           input(p) == (Word(b, p) \ released(p)) \cup (b.gpo[p] \cap released(p))
           here == Reached(b, ports)
           gpi == [p \in Ports |-> IF p \in here
                     THEN (b.gpi[p] \ changed(p)) \cup (input(p) \cap changed(p))
                     ELSE b.gpi[p]]
           managed == [p \in Ports |-> IF p \in here THEN Driven(b, p) ELSE b.managed[p]]
           x == [b EXCEPT !.gpi = gpi, !.managed = managed]
<1>1. WrittenBack(b, ports) = x
  BY DEF WrittenBack
<1>2. here \subseteq Ports
  BY DEF Reached
<1>3. gpi \in PinWords
  <2>1. ASSUME NEW p \in Ports  PROVE gpi[p] \subseteq AllPins
    <3>1. b.gpi[p] \subseteq AllPins /\ b.gpo[p] \subseteq AllPins
      BY DEF BusRecords, PinWords
    <3>2. Word(b, p) \subseteq AllPins
      BY WordTyped
    <3> QED BY <3>1, <3>2
  <2> QED BY <2>1 DEF PinWords
<1>4. managed \in PinWords
  <2>1. ASSUME NEW p \in Ports  PROVE managed[p] \in SUBSET AllPins
    <3>1. b.managed[p] \in SUBSET AllPins
      BY DEF BusRecords, PinWords
    <3> QED BY <3>1, DrivenTyped
  <2> QED BY <2>1 DEF PinWords
<1>5. /\ \A p \in here : managed[p] = Driven(b, p)
      /\ \A p \in here : \A pn \in Driven(b, p) : pn \in gpi[p] <=> pn \in Word(b, p)
      /\ \A p \in Ports \ here : managed[p] = b.managed[p] /\ gpi[p] = b.gpi[p]
  BY <1>2
<1> HIDE DEF gpi, managed
<1>6. /\ x \in BusRecords /\ x.gpi = gpi /\ x.managed = managed
      /\ x = [b EXCEPT !.gpi = x.gpi, !.managed = x.managed]
  BY <1>3, <1>4 DEF BusRecords
<1>7. SameNets(b, x)
  BY DEF SameNets, BusRecords
<1> HIDE DEF x
<1>8. \A p : Word(x, p) = Word(b, p) /\ Driven(x, p) = Driven(b, p)
  BY <1>7, SameWord
<1> QED BY <1>1, <1>5, <1>6, <1>8 DEF Current

LEMMA RecordedSameNets ==
  ASSUME NEW b \in BusRecords, NEW x,
         x = [b EXCEPT !.conflicts = x.conflicts, !.noted = x.noted]
  PROVE  /\ SameNets(b, x) /\ x.gpi = b.gpi /\ x.managed = b.managed
         /\ x.inputs = b.inputs /\ x.peers = b.peers /\ x.echoed = b.echoed
BY DEF SameNets, BusRecords

LEMMA WrittenSameNets ==
  ASSUME NEW b \in BusRecords, NEW x,
         x = [b EXCEPT !.gpi = x.gpi, !.managed = x.managed]
  PROVE  /\ SameNets(b, x) /\ x.conflicts = b.conflicts /\ x.noted = b.noted
         /\ x.inputs = b.inputs /\ x.peers = b.peers /\ x.echoed = b.echoed
BY DEF SameNets, BusRecords

LEMMA FinishedIs ==
  ASSUME NEW b \in BusRecords, NEW ports \in SUBSET Ports
  PROVE  LET x == Finished(b, ports)
             now == {n \in VisitedRoots(b, ports) : InConflict(b, n)}
         IN  /\ x \in BusRecords /\ SameNets(b, x)
             /\ x.inputs = b.inputs /\ x.peers = b.peers /\ x.echoed = b.echoed
             /\ DOMAIN x.conflicts = now \cup (DOMAIN b.conflicts \ VisitedRoots(b, ports))
             /\ \A n \in DOMAIN x.conflicts :
                  x.conflicts[n] = IF n \in now THEN Drivers(b, NetOf(b, n)) ELSE b.conflicts[n]
             /\ \A n \in Nodes :
                  n \in x.noted <=>
                    \/ n \in b.noted
                    \/ n \in now /\ ~(n \in DOMAIN b.conflicts
                                      /\ b.conflicts[n] = Drivers(b, NetOf(b, n)))
             /\ \A p \in Reached(b, ports) : x.managed[p] = Driven(x, p) /\ Current(x, p)
             /\ \A p \in Ports \ Reached(b, ports) :
                  x.managed[p] = b.managed[p] /\ x.gpi[p] = b.gpi[p]
<1> DEFINE y == Recorded(b, ports)
           x == Finished(b, ports)
           now == {n \in VisitedRoots(b, ports) : InConflict(b, n)}
<1>1. /\ y \in BusRecords
      /\ y = [b EXCEPT !.conflicts = y.conflicts, !.noted = y.noted]
      /\ DOMAIN y.conflicts = now \cup (DOMAIN b.conflicts \ VisitedRoots(b, ports))
      /\ \A n \in DOMAIN y.conflicts :
           y.conflicts[n] = IF n \in now THEN Drivers(b, NetOf(b, n)) ELSE b.conflicts[n]
      /\ \A n \in Nodes :
           n \in y.noted <=>
             \/ n \in b.noted
             \/ n \in now /\ ~(n \in DOMAIN b.conflicts
                               /\ b.conflicts[n] = Drivers(b, NetOf(b, n)))
  BY RecordedIs
<1>2. x = WrittenBack(y, ports)
  BY DEF Finished
<1> HIDE DEF x, y, now
<1>a. y \in BusRecords
  BY <1>1
<1>b. y = [b EXCEPT !.conflicts = y.conflicts, !.noted = y.noted]
  BY <1>1
<1>3. /\ SameNets(b, y) /\ y.gpi = b.gpi /\ y.managed = b.managed
      /\ y.inputs = b.inputs /\ y.peers = b.peers /\ y.echoed = b.echoed
  BY <1>b, RecordedSameNets
<1>4. /\ x \in BusRecords
      /\ x = [y EXCEPT !.gpi = x.gpi, !.managed = x.managed]
      /\ \A p \in Reached(y, ports) : x.managed[p] = Driven(x, p) /\ Current(x, p)
      /\ \A p \in Ports \ Reached(y, ports) :
           x.managed[p] = y.managed[p] /\ x.gpi[p] = y.gpi[p]
  BY <1>a, <1>2, WrittenBackIs
<1>5. /\ SameNets(y, x) /\ x.conflicts = y.conflicts /\ x.noted = y.noted
      /\ x.inputs = y.inputs /\ x.peers = y.peers /\ x.echoed = y.echoed
  <2>1. x = [y EXCEPT !.gpi = x.gpi, !.managed = x.managed]
    BY <1>4
  <2> QED BY <1>a, <2>1, WrittenSameNets
<1>6. SameNets(b, x)
  BY <1>3, <1>5 DEF SameNets
<1>7. Reached(y, ports) = Reached(b, ports)
  BY <1>3, SameWord
<1> QED BY <1>1, <1>3, <1>4, <1>5, <1>6, <1>7 DEF x, now

-----------------------------------------------------------------------------
(* What is true of the bus behind every operation.                          *)

Written(b) == \A p \in Ports : b.managed[p] = Driven(b, p) /\ Current(b, p)
KnownConflicts(b) ==
  \A n \in DOMAIN b.conflicts :
    Root(b, n) = n => InConflict(b, n) /\ b.conflicts[n] = Drivers(b, NetOf(b, n))

\* b differs from a at the given ports only, and has forgotten conflicts at most.
Beyond(a, b, here) ==
  /\ \A p \in Ports \ here : /\ b.gpo[p] = a.gpo[p] /\ b.enabled[p] = a.enabled[p]
                             /\ b.gpi[p] = a.gpi[p] /\ b.managed[p] = a.managed[p]
  /\ \A d \in Devices : Home[d] \notin here =>
       (d \in b.attached <=> d \in a.attached) /\ b.drives[d] = a.drives[d]
  /\ \A w \in WireChoices : (w \in a.wires <=> w \in b.wires) \/ (\A n \in w : n[1] \in here)
  /\ DOMAIN b.conflicts \subseteq DOMAIN a.conflicts
  /\ \A n \in DOMAIN b.conflicts : b.conflicts[n] = a.conflicts[n]

\* While nothing is wired, what happens at other ports is not seen at a port.
LEMMA Apart ==
  ASSUME NEW a \in BusRecords, NEW b \in BusRecords, NEW here, Beyond(a, b, here),
         b.wires = {}, NEW n \in Nodes, n[1] \notin here
  PROVE  /\ NetOf(a, n) = {n} /\ NetOf(b, n) = {n} /\ Root(a, n) = n /\ Root(b, n) = n
         /\ Drivers(a, {n}) = Drivers(b, {n})
<1>1. ASSUME NEW w \in a.wires, n \in w  PROVE FALSE
  <2>1. w \in WireChoices
    BY DEF BusRecords
  <2> QED BY <1>1, <2>1 DEF Beyond
<1>2. NetOf(a, n) = {n} /\ Root(a, n) = n
  BY <1>1 DEF NetOf, Root
<1>3. NetOf(b, n) = {n} /\ Root(b, n) = n
  BY DEF NetOf, Root
<1>4. n[1] \in Ports /\ b.gpo[n[1]] = a.gpo[n[1]] /\ b.enabled[n[1]] = a.enabled[n[1]]
  BY NodeTyped DEF Beyond
<1>5. \A d \in Devices : Home[d] = n[1] =>
         (d \in b.attached <=> d \in a.attached) /\ b.drives[d] = a.drives[d]
  BY DEF Beyond
<1>6. a.attached \subseteq Devices /\ b.attached \subseteq Devices
  BY DEF BusRecords
<1>7. {y \in a.attached \X {n} : y[2][1] = Home[y[1]] /\ y[2][2] \in DOMAIN Nets[y[1]]}
      = {y \in b.attached \X {n} : y[2][1] = Home[y[1]] /\ y[2][2] \in DOMAIN Nets[y[1]]}
  BY <1>5, <1>6
<1>8. Declared(a, {n}) = Declared(b, {n})
  BY <1>7 DEF Declared
<1>9. {m \in {n} : m[2] \in a.enabled[m[1]]} = {m \in {n} : m[2] \in b.enabled[m[1]]}
  BY <1>4
<1> DEFINE coresA == {[name |-> m[1], value |-> IF m[2] \in a.gpo[m[1]] THEN 1 ELSE 0,
                      mode |-> IF Declared(a, {n}) = {"open drain"} THEN "open drain"
                               ELSE "push pull"]
                       : m \in {m \in {n} : m[2] \in a.enabled[m[1]]}}
           coresB == {[name |-> m[1], value |-> IF m[2] \in b.gpo[m[1]] THEN 1 ELSE 0,
                      mode |-> IF Declared(b, {n}) = {"open drain"} THEN "open drain"
                               ELSE "push pull"]
                       : m \in {m \in {n} : m[2] \in b.enabled[m[1]]}}
           devicesA == {[name |-> x[1], value |-> IF x[2][2] \in a.drives[x[1]].high THEN 1 ELSE 0,
                        mode |-> Nets[x[1]][x[2][2]]]
                         : x \in {y \in a.attached \X {n} :
                                    y[2][1] = Home[y[1]] /\ y[2][2] \in a.drives[y[1]].mask}}
           devicesB == {[name |-> x[1], value |-> IF x[2][2] \in b.drives[x[1]].high THEN 1 ELSE 0,
                        mode |-> Nets[x[1]][x[2][2]]]
                         : x \in {y \in b.attached \X {n} :
                                    y[2][1] = Home[y[1]] /\ y[2][2] \in b.drives[y[1]].mask}}
<1>10. coresA = coresB
  BY <1>4, <1>8, <1>9
<1>11. devicesA = devicesB
  <2>1. {y \in a.attached \X {n} : y[2][1] = Home[y[1]] /\ y[2][2] \in a.drives[y[1]].mask}
        = {y \in b.attached \X {n} : y[2][1] = Home[y[1]] /\ y[2][2] \in b.drives[y[1]].mask}
    BY <1>5, <1>6
  <2>2. \A y \in a.attached \X {n} : y[2][1] = Home[y[1]] => a.drives[y[1]] = b.drives[y[1]]
    BY <1>5, <1>6
  <2> QED BY <2>1, <2>2
<1>12. Drivers(a, {n}) = coresA \cup devicesA /\ Drivers(b, {n}) = coresB \cup devicesB
  BY DEF Drivers
<1> HIDE DEF coresA, coresB, devicesA, devicesB
<1> QED BY <1>2, <1>3, <1>10, <1>11, <1>12

LEMMA ApartWord ==
  ASSUME NEW a \in BusRecords, NEW b \in BusRecords, NEW here, Beyond(a, b, here),
         b.wires = {}, NEW p \in Ports \ here
  PROVE  Word(a, p) = Word(b, p) /\ Driven(a, p) = Driven(b, p)
<1>1. ASSUME NEW pn \in PinsOf[p]
      PROVE  Drivers(a, NetOf(a, <<p, pn>>)) = Drivers(b, NetOf(b, <<p, pn>>))
             /\ ~\E w \in a.wires : <<p, pn>> \in w
  <2>1. <<p, pn>> \in Nodes
    BY NodeTyped
  <2>2. ASSUME NEW w \in a.wires, <<p, pn>> \in w  PROVE FALSE
    <3>1. w \in WireChoices
      BY DEF BusRecords
    <3> QED BY <2>2, <3>1 DEF Beyond
  <2> DEFINE n == <<p, pn>>
  <2>3. n[1] \notin here
    OBVIOUS
  <2> HIDE DEF n
  <2>4. /\ NetOf(a, n) = {n} /\ NetOf(b, n) = {n} /\ Drivers(a, {n}) = Drivers(b, {n})
    BY <2>1, <2>3, Apart DEF n
  <2> QED BY <2>2, <2>4 DEF n
<1>2. Word(a, p) = Word(b, p)
  BY <1>1 DEF Word
<1>3. {d \in a.attached : Home[d] = p} = {d \in b.attached : Home[d] = p}
  BY DEF Beyond, BusRecords
<1>4. {pn \in PinsOf[p] : \E w \in a.wires : <<p, pn>> \in w}
      = {pn \in PinsOf[p] : \E w \in b.wires : <<p, pn>> \in w}
  BY <1>1
<1>5. Driven(a, p) = Driven(b, p)
  BY <1>3, <1>4, Zenon DEF Driven
<1> QED BY <1>2, <1>5

LEMMA ReachedIs ==
  ASSUME NEW b, NEW ports \in SUBSET Ports
  PROVE  /\ Reached(b, ports) \in SUBSET Ports /\ ports \subseteq Reached(b, ports)
         /\ b.wires # {} => Reached(b, ports) = Ports
BY DEF Reached

LEMMA FinishedIsWritten ==
  ASSUME NEW a \in BusRecords, NEW b \in BusRecords, NEW ports \in SUBSET Ports,
         Beyond(a, b, Reached(b, ports)), Written(a)
  PROVE  Written(Finished(b, ports))
<1> DEFINE x == Finished(b, ports)
           here == Reached(b, ports)
<1>1. /\ x \in BusRecords /\ SameNets(b, x)
      /\ \A p \in here : x.managed[p] = Driven(x, p) /\ Current(x, p)
      /\ \A p \in Ports \ here : x.managed[p] = b.managed[p] /\ x.gpi[p] = b.gpi[p]
  BY FinishedIs
<1>2. here \in SUBSET Ports /\ (b.wires # {} => here = Ports) /\ Beyond(a, b, here)
  BY ReachedIs
<1> HIDE DEF x, here
<1>3. ASSUME NEW p \in Ports \ here
      PROVE  x.managed[p] = Driven(x, p) /\ Current(x, p)
  <2>1. b.wires = {}
    BY <1>2
  <2>2. Word(a, p) = Word(b, p) /\ Driven(a, p) = Driven(b, p)
    BY <1>2, <2>1, ApartWord
  <2>3. Word(x, p) = Word(b, p) /\ Driven(x, p) = Driven(b, p)
    BY <1>1, SameWord
  <2>4. x.managed[p] = a.managed[p] /\ x.gpi[p] = a.gpi[p]
    BY <1>1, <1>2 DEF Beyond
  <2>5. a.managed[p] = Driven(a, p) /\ Current(a, p)
    BY DEF Written
  <2> QED BY <2>2, <2>3, <2>4, <2>5 DEF Current
<1>4. Written(x)
  BY <1>1, <1>3 DEF Written
<1> QED BY <1>4 DEF x

LEMMA FinishedKnowsConflicts ==
  ASSUME NEW a \in BusRecords, NEW b \in BusRecords, NEW ports \in SUBSET Ports,
         Beyond(a, b, Reached(b, ports)), KnownConflicts(a)
  PROVE  KnownConflicts(Finished(b, ports))
<1> DEFINE x == Finished(b, ports)
           here == Reached(b, ports)
           visited == VisitedRoots(b, ports)
           now == {n \in visited : InConflict(b, n)}
<1>1. /\ x \in BusRecords /\ SameNets(b, x)
      /\ DOMAIN x.conflicts = now \cup (DOMAIN b.conflicts \ visited)
      /\ \A n \in DOMAIN x.conflicts :
           x.conflicts[n] = IF n \in now THEN Drivers(b, NetOf(b, n)) ELSE b.conflicts[n]
  BY FinishedIs
<1>2. here \in SUBSET Ports /\ (b.wires # {} => here = Ports) /\ Beyond(a, b, here)
  BY ReachedIs
<1>3. \A n \in Nodes : n[1] \in here => Root(b, n) \in visited
  BY DEF VisitedRoots
<1>4. DOMAIN b.conflicts \subseteq Nodes
  BY DEF BusRecords
<1>5. \A n \in now : InConflict(b, n)
  OBVIOUS
<1>x. /\ \A n : Root(x, n) = Root(b, n) /\ NetOf(x, n) = NetOf(b, n)
      /\ \A net : Drivers(x, net) = Drivers(b, net)
  BY <1>1, SameWord
<1> HIDE DEF x, here, visited, now
<1>6. ASSUME NEW n \in DOMAIN x.conflicts, Root(x, n) = n
      PROVE  InConflict(x, n) /\ x.conflicts[n] = Drivers(x, NetOf(x, n))
  <2>1. NetOf(x, n) = NetOf(b, n) /\ Drivers(x, NetOf(x, n)) = Drivers(b, NetOf(b, n))
    BY <1>x
  <2>2. CASE n \in now
    BY <1>1, <1>5, <2>1, <2>2 DEF InConflict
  <2>3. CASE n \notin now
    <3>1. n \in DOMAIN b.conflicts /\ n \notin visited /\ x.conflicts[n] = b.conflicts[n]
      BY <1>1, <2>3
    <3>2. n \in Nodes /\ Root(b, n) = n
      BY <1>4, <1>6, <1>x, <3>1
    <3>3. n[1] \notin here
      BY <1>3, <3>1, <3>2
    <3>4. b.wires = {}
      BY <1>2, <3>2, <3>3, NodeTyped
    <3>5. /\ NetOf(a, n) = {n} /\ NetOf(b, n) = {n} /\ Root(a, n) = n
          /\ Drivers(a, {n}) = Drivers(b, {n})
      BY <1>2, <3>2, <3>3, <3>4, Apart
    <3>6. n \in DOMAIN a.conflicts /\ a.conflicts[n] = b.conflicts[n]
      BY <1>2, <3>1 DEF Beyond
    <3>7. InConflict(a, n) /\ a.conflicts[n] = Drivers(a, NetOf(a, n))
      BY <3>5, <3>6 DEF KnownConflicts
    <3> QED BY <2>1, <3>1, <3>5, <3>6, <3>7 DEF InConflict
  <2> QED BY <2>2, <2>3
<1>7. KnownConflicts(x)
  BY <1>6 DEF KnownConflicts
<1> QED BY <1>7 DEF x

\* A net of the new bus that was in conflict nowhere in the old one.
Newly(a, x, n) == InConflict(x, n) /\ \A m \in NetOf(x, n) : ~InConflict(a, m)

LEMMA SharedNet ==
  ASSUME NEW b \in BusRecords, NEW n \in Nodes
  PROVE  Root(b, n) \in NetOf(b, n) /\ NetOf(b, Root(b, n)) = NetOf(b, n)
         /\ Root(b, Root(b, n)) = Root(b, n)
<1>1. CASE \E w \in b.wires : n \in w
  <2>1. PICK w \in b.wires : n \in w
    BY <1>1
  <2>2. \A v \in b.wires : v \in WireChoices
    BY DEF BusRecords
  <2>3. \A m \in w : \A v \in b.wires : m \in v => v = w
    BY <2>1, <2>2, WireAssumption
  <2>4. \A m \in w : (CHOOSE v \in b.wires : m \in v) = w
    BY <2>1, <2>3
  <2>5. \A m \in w : NetOf(b, m) = w /\ Root(b, m) = RootOf[w]
    <3>1. ASSUME NEW m \in w  PROVE NetOf(b, m) = w
      <4>1. {v \in b.wires : m \in v} = {w}
        BY <2>1, <2>3
      <4> QED BY <4>1 DEF NetOf
    <3>2. ASSUME NEW m \in w  PROVE Root(b, m) = RootOf[w]
      BY <2>1, <2>4 DEF Root
    <3> QED BY <3>1, <3>2
  <2>6. RootOf[w] \in w
    BY <2>1, <2>2, WireAssumption
  <2> QED BY <2>1, <2>5, <2>6
<1>2. CASE ~\E w \in b.wires : n \in w
  BY <1>2 DEF Root, NetOf
<1> QED BY <1>1, <1>2

LEMMA FinishedNotes ==
  ASSUME NEW a \in BusRecords, NEW b \in BusRecords, NEW ports \in SUBSET Ports,
         Beyond(a, b, Reached(b, ports)), KnownConflicts(a), a.wires \subseteq b.wires,
         NEW n \in Nodes, Newly(a, Finished(b, ports), n)
  PROVE  LET x == Finished(b, ports) IN Root(x, n) \in x.noted
<1> DEFINE x == Finished(b, ports)
           here == Reached(b, ports)
           visited == VisitedRoots(b, ports)
           now == {m \in visited : InConflict(b, m)}
           r == Root(b, n)
<1>1. /\ x \in BusRecords /\ SameNets(b, x)
      /\ \A m \in Nodes :
           m \in x.noted <=>
             \/ m \in b.noted
             \/ m \in now /\ ~(m \in DOMAIN b.conflicts
                               /\ b.conflicts[m] = Drivers(b, NetOf(b, m)))
  BY FinishedIs
<1>2. here \in SUBSET Ports /\ (b.wires # {} => here = Ports) /\ Beyond(a, b, here)
  BY ReachedIs
<1>3. \A m \in Nodes : m[1] \in here => Root(b, m) \in visited
  BY DEF VisitedRoots
<1>4. \A m \in visited : InConflict(b, m) => m \in now
  OBVIOUS
<1>5. /\ \A m : Root(x, m) = Root(b, m) /\ NetOf(x, m) = NetOf(b, m)
      /\ \A net : Drivers(x, net) = Drivers(b, net)
  BY <1>1, SameWord
<1>6. r \in NetOf(b, n) /\ NetOf(b, r) = NetOf(b, n) /\ Root(b, r) = r /\ r \in Nodes
  BY SharedNet, NetTyped
<1>7. Newly(a, x, n)
  OBVIOUS
<1> HIDE DEF x, here, visited, now, r
<1>8. InConflict(b, n) /\ InConflict(b, r) /\ ~InConflict(a, n) /\ ~InConflict(a, r)
  <2>1. InConflict(b, n) /\ \A m \in NetOf(b, n) : ~InConflict(a, m)
    BY <1>5, <1>7 DEF Newly, InConflict
  <2>2. InConflict(b, r)
    BY <1>6, <2>1 DEF InConflict
  <2> QED BY <1>6, <2>1, <2>2, NetTyped
<1>9. n[1] \in here
  <2> SUFFICES ASSUME n[1] \notin here  PROVE FALSE
    OBVIOUS
  <2>1. b.wires = {}
    BY <1>2, NodeTyped
  <2>2. NetOf(a, n) = {n} /\ NetOf(b, n) = {n} /\ Drivers(a, {n}) = Drivers(b, {n})
    BY <1>2, <2>1, Apart
  <2> QED BY <1>8, <2>2 DEF InConflict
<1>10. r \in now
  BY <1>3, <1>4, <1>8, <1>9 DEF r
<1>11. r \notin DOMAIN b.conflicts
  <2> SUFFICES ASSUME r \in DOMAIN b.conflicts  PROVE FALSE
    OBVIOUS
  <2>1. r \in DOMAIN a.conflicts
    BY <1>2 DEF Beyond
  <2>2. Root(a, r) = r
    <3>1. CASE \E w \in a.wires : r \in w
      <4>1. PICK w \in a.wires : r \in w
        BY <3>1
      <4>2. \A v \in b.wires : v \in WireChoices
        BY DEF BusRecords
      <4>3. w \in b.wires /\ \A v \in b.wires : r \in v => v = w
        BY <4>1, <4>2, WireAssumption
      <4>4. \A v \in a.wires : r \in v => v = w
        BY <4>3
      <4>5. (CHOOSE v \in b.wires : r \in v) = w /\ (CHOOSE v \in a.wires : r \in v) = w
        BY <4>1, <4>3, <4>4
      <4>6. Root(b, r) = RootOf[w]
        BY <4>1, <4>3, <4>5 DEF Root
      <4>7. Root(a, r) = RootOf[w]
        BY <4>1, <4>5 DEF Root
      <4> QED BY <1>6, <4>6, <4>7
    <3>2. CASE ~\E w \in a.wires : r \in w
      BY <3>2 DEF Root
    <3> QED BY <3>1, <3>2
  <2> QED BY <1>8, <2>1, <2>2 DEF KnownConflicts
<1>12. r \in x.noted
  BY <1>1, <1>6, <1>10, <1>11
<1>13. Root(x, n) = r
  BY <1>5 DEF r
<1> QED BY <1>12, <1>13 DEF x
-----------------------------------------------------------------------------
(* A device is not sampled for its own drive.                               *)

\* No wire joins two pins of one port: such a wire puts what a device drives
\* at the one on the other, where it has not seen it.
NoLoops == \A w \in WireChoices : \A m, n \in w : m # n => m[1] # n[1]

Pulled(drive) == drive.mask \ drive.high

\* Who pulls a net low.
LowByCore(b, net) == \E m \in net : m[2] \in b.enabled[m[1]] /\ m[2] \notin b.gpo[m[1]]
LowBy(b, e, net) == \E m \in net : m[1] = Home[e] /\ m[2] \in Pulled(b.drives[e])

LEMMA LowIs ==
  ASSUME NEW b, NEW net
  PROVE  PulledLow(Drivers(b, net)) <=> LowByCore(b, net) \/ \E e \in b.attached : LowBy(b, e, net)
<1> DEFINE core(n) == [name |-> n[1], value |-> IF n[2] \in b.gpo[n[1]] THEN 1 ELSE 0,
                      mode |-> IF Declared(b, net) = {"open drain"} THEN "open drain"
                               ELSE "push pull"]
           driving == {m \in net : m[2] \in b.enabled[m[1]]}
           device(x) == [name |-> x[1], value |-> IF x[2][2] \in b.drives[x[1]].high THEN 1 ELSE 0,
                        mode |-> Nets[x[1]][x[2][2]]]
           answering == {y \in b.attached \X net :
                           y[2][1] = Home[y[1]] /\ y[2][2] \in b.drives[y[1]].mask}
<1>1. Drivers(b, net) = {core(n) : n \in driving} \cup {device(x) : x \in answering}
  BY DEF Drivers
<1>2. /\ \A n : core(n).value = 0 <=> n[2] \notin b.gpo[n[1]]
      /\ \A x : device(x).value = 0 <=> x[2][2] \notin b.drives[x[1]].high
  OBVIOUS
<1>3. /\ \A n : n \in driving <=> n \in net /\ n[2] \in b.enabled[n[1]]
      /\ \A e, n : <<e, n>> \in answering <=>
           e \in b.attached /\ n \in net /\ n[1] = Home[e] /\ n[2] \in b.drives[e].mask
      /\ \A x \in answering : x = <<x[1], x[2]>> /\ x[1] \in b.attached /\ x[2] \in net
  OBVIOUS
<1> HIDE DEF core, device, driving, answering
<1>4. PulledLow(Drivers(b, net)) <=> \/ \E n \in driving : core(n).value = 0
                                   \/ \E x \in answering : device(x).value = 0
  BY <1>1 DEF PulledLow
<1>5. (\E n \in driving : core(n).value = 0) <=> LowByCore(b, net)
  BY <1>2, <1>3 DEF LowByCore
<1>6. (\E x \in answering : device(x).value = 0) <=> \E e \in b.attached : LowBy(b, e, net)
  <2>1. ASSUME NEW x \in answering, device(x).value = 0
        PROVE  \E e \in b.attached : LowBy(b, e, net)
    <3>1. /\ x[1] \in b.attached /\ x[2] \in net /\ x[2][1] = Home[x[1]]
          /\ x[2][2] \in b.drives[x[1]].mask /\ x[2][2] \notin b.drives[x[1]].high
      BY <1>2, <1>3, <2>1
    <3>2. LowBy(b, x[1], net)
      BY <3>1 DEF LowBy, Pulled
    <3> QED BY <3>1, <3>2
  <2>2. ASSUME NEW e \in b.attached, LowBy(b, e, net)
        PROVE  \E x \in answering : device(x).value = 0
    <3>1. PICK m \in net : m[1] = Home[e] /\ m[2] \in Pulled(b.drives[e])
      BY <2>2 DEF LowBy
    <3>2. <<e, m>> \in answering
      BY <1>3, <3>1 DEF Pulled
    <3>3. <<e, m>>[1] = e /\ <<e, m>>[2] = m
      OBVIOUS
    <3>4. device(<<e, m>>).value = 0
      BY <1>2, <3>1, <3>3 DEF Pulled
    <3> QED BY <3>2, <3>4
  <2> QED BY <2>1, <2>2
<1> QED BY <1>4, <1>5, <1>6

\* The word at a device's port, and the word without what it drives.
LEMMA WordWithout ==
  ASSUME NoLoops, NEW b \in BusRecords, NEW d \in b.attached, NEW drive \in Drives,
         NEW x, x = [b EXCEPT !.drives[d] = drive]
  PROVE  /\ Word(x, Home[d]) = WithoutIt(b, d) \ Pulled(drive)
         /\ WithoutIt(x, d) = WithoutIt(b, d)
<1> DEFINE y == [b EXCEPT !.drives[d] = Silent]
           p == Home[d]
<1>1. d \in Devices /\ p \in Ports
  BY HomeTyped DEF BusRecords
<1>2. /\ x.attached = b.attached /\ x.gpo = b.gpo /\ x.enabled = b.enabled /\ x.wires = b.wires
      /\ x.drives[d] = drive /\ \A e \in b.attached \ {d} : x.drives[e] = b.drives[e]
  BY <1>1 DEF BusRecords
<1>3. /\ y.attached = b.attached /\ y.gpo = b.gpo /\ y.enabled = b.enabled /\ y.wires = b.wires
      /\ y.drives[d] = Silent /\ \A e \in b.attached \ {d} : y.drives[e] = b.drives[e]
  BY <1>1 DEF BusRecords
<1>4. WithoutIt(b, d) = Word(y, p)
  BY DEF WithoutIt
<1>5. WithoutIt(x, d) = Word(y, p)
  <2>1. [x EXCEPT !.drives[d] = Silent] = y
    BY <1>1 DEF BusRecords
  <2> QED BY <2>1 DEF WithoutIt
<1> HIDE DEF y, p
<1>6. \A n : NetOf(x, n) = NetOf(b, n) /\ NetOf(y, n) = NetOf(b, n)
  BY <1>2, <1>3 DEF NetOf
<1>7. ASSUME NEW pn \in PinsOf[p]
      PROVE  PulledLow(Drivers(x, NetOf(x, <<p, pn>>))) <=>
               PulledLow(Drivers(y, NetOf(y, <<p, pn>>))) \/ pn \in Pulled(drive)
  <2> DEFINE n == <<p, pn>>
             net == NetOf(b, n)
  <2>1. n \in Nodes /\ n[1] = p /\ n[2] = pn
    BY <1>1, NodeTyped
  <2>2. NetOf(x, <<p, pn>>) = net /\ NetOf(y, <<p, pn>>) = net
    BY <1>6
  <2>3. n \in net /\ net \subseteq Nodes
    BY <2>1, NetTyped
  <2>4. \A m \in net : m[1] = p => m = n
    <3>1. ASSUME NEW m \in net, m # n  PROVE m[1] # n[1]
      <4>1. PICK w \in b.wires : n \in w /\ m \in w
        BY <3>1 DEF NetOf
      <4>2. w \in WireChoices
        BY DEF BusRecords
      <4> QED BY <3>1, <4>1, <4>2 DEF NoLoops
    <3> QED BY <2>1, <3>1
  <2> HIDE DEF n, net
  <2>5. LowByCore(x, net) <=> LowByCore(y, net)
    BY <1>2, <1>3 DEF LowByCore
  <2>6. \A e \in b.attached \ {d} : LowBy(x, e, net) <=> LowBy(y, e, net)
    BY <1>2, <1>3 DEF LowBy
  <2>7. ~LowBy(y, d, net)
    BY <1>3 DEF LowBy, Pulled, Silent
  <2>8. LowBy(x, d, net) <=> pn \in Pulled(drive)
    BY <1>2, <2>1, <2>3, <2>4 DEF LowBy, p
  <2>9. PulledLow(Drivers(x, net)) <=> LowByCore(x, net) \/ \E e \in b.attached : LowBy(x, e, net)
    BY <1>2, LowIs
  <2>10. PulledLow(Drivers(y, net)) <=> LowByCore(y, net) \/ \E e \in b.attached : LowBy(y, e, net)
    BY <1>3, LowIs
  <2>11. PulledLow(Drivers(x, net)) <=> PulledLow(Drivers(y, net)) \/ pn \in Pulled(drive)
    BY <2>5, <2>6, <2>7, <2>8, <2>9, <2>10
  <2> QED BY <2>2, <2>11
<1>8. Word(x, p) = Word(y, p) \ Pulled(drive)
  BY <1>7 DEF Word
<1> QED BY <1>4, <1>5, <1>8 DEF p

\* The same for what it drives now.
LEMMA WordIs ==
  ASSUME NoLoops, NEW b \in BusRecords, NEW d \in b.attached
  PROVE  Word(b, Home[d]) = WithoutIt(b, d) \ Pulled(b.drives[d])
<1>1. d \in Devices /\ b.drives[d] \in Drives
  BY DEF BusRecords
<1>2. b = [b EXCEPT !.drives[d] = b.drives[d]]
  BY <1>1 DEF BusRecords
<1> QED BY <1>1, <1>2, WordWithout

\* A device that was sampled has seen what the others put there and what it
\* drove, unless the others have moved.
Rested(b, d) ==
  b.inputs[d] # NoInput /\ b.peers[d] # NoInput => b.inputs[d] = b.peers[d] \ Pulled(b.drives[d])
Unmoved(b, d, own) ==
  b.inputs[d] # NoInput /\ WithoutIt(b, d) = b.peers[d] =>
    SeenInput(b, d, own) = Word(b, Home[d])
Compared(b, x, edges, d) ==
  /\ x.inputs[d] = Word(b, Home[d]) /\ x.peers[d] = WithoutIt(b, d)
  /\ LET after == WithoutIt(b, d) \ Pulled(x.drives[d])
     IN  edges = (Word(b, Home[d]) \ after) \cup (after \ Word(b, Home[d]))

LEMMA LevelsAreLevels ==
  ASSUME NEW b, NEW d \in Devices
  PROVE  /\ Word(b, Home[d]) \subseteq AllPins /\ Word(b, Home[d]) # NoInput
         /\ WithoutIt(b, d) \subseteq AllPins /\ WithoutIt(b, d) # NoInput
<1>1. NoInput \notin SUBSET AllPins
  <2>1. AllPins \subseteq Nat
    BY DeviceAssumption
  <2>2. -1 \in NoInput /\ -1 \notin Nat
    BY DEF NoInput
  <2> QED BY <2>1, <2>2
<1>2. Word(b, Home[d]) \subseteq AllPins /\ WithoutIt(b, d) \subseteq AllPins
  BY HomeTyped, WordTyped DEF WithoutIt
<1> QED BY <1>1, <1>2

LEMMA PhaseCompares ==
  ASSUME NoLoops, NEW b \in BusRecords, NEW devs \in SUBSET b.attached, NEW own,
         b.echoed = {}, \A d \in devs : Unmoved(b, d, own[d]), NEW one \in Phase(b, devs, own)
  PROVE  /\ one.bus \in BusRecords /\ SamplingKeeps(b, one.bus, devs) /\ one.bus.echoed = {}
         /\ \A d \in devs : Compared(b, one.bus, one.own[d], d)
<1> DEFINE hit == Hit(b, devs, own)
<1>0. devs \in SUBSET Devices
  BY DEF BusRecords
<1>1. PICK answers \in AnswersOf(hit) : one = Sampled(b, devs, own, answers)
  BY <1>0, PhaseIsSampling
<1>2. hit \in SUBSET devs /\ \A d \in devs : d \in hit <=> SeenInput(b, d, own[d]) # Word(b, Home[d])
  BY DEF Hit
<1> HIDE DEF hit
<1>3. DOMAIN answers = hit /\ \A d \in hit : answers[d] \in Drives
  BY <1>0, <1>2, AnswersTyped
<1>4. \A d \in Devices : one.own[d] = IF d \in hit THEN OwnEdges(b, d, answers[d]) ELSE {}
  BY <1>1, <1>3 DEF Sampled
<1> DEFINE x == one.bus
<1>5. /\ x \in BusRecords /\ SamplingKeeps(b, x, devs)
      /\ \A d \in devs :
              /\ d \in hit => x.drives[d] = answers[d] /\ x.inputs[d] = Word(b, Home[d])
              /\ d \notin hit => x.drives[d] = b.drives[d] /\ x.inputs[d] = SeenInput(b, d, own[d])
              /\ x.peers[d] = WithoutIt(b, d)
      /\ \A d \in x.echoed :
              d \in b.echoed \/ (d \in hit /\ b.inputs[d] # NoInput /\ WithoutIt(b, d) = b.peers[d])
  <2>1. x = Sampled(b, devs, own, answers).bus
    BY <1>1
  <2>2. answers \in AnswersOf(hit)
    OBVIOUS
  <2> HIDE DEF x
  <2>3. hit \in SUBSET devs
    BY <1>2
  <2> QED BY <1>0, <2>1, <2>2, <2>3, SampledKeeps
<1> HIDE DEF x
<1>6. x.echoed = {}
  <2>1. ASSUME NEW d \in hit, b.inputs[d] # NoInput, WithoutIt(b, d) = b.peers[d]  PROVE FALSE
    BY <1>2, <2>1 DEF Unmoved
  <2> QED BY <1>5, <2>1
<1>7. ASSUME NEW d \in devs  PROVE Compared(b, x, one.own[d], d)
  <2>1. d \in b.attached /\ d \in Devices
    BY <1>0
  <2>2. x.inputs[d] = Word(b, Home[d]) /\ x.peers[d] = WithoutIt(b, d)
    BY <1>2, <1>5
  <2> DEFINE before == Word(b, Home[d])
             after == WithoutIt(b, d) \ Pulled(x.drives[d])
  <2>3. CASE d \in hit
    <3>1. answers[d] \in Drives /\ x.drives[d] = answers[d]
      BY <1>3, <1>5, <2>3
    <3>2. Word([b EXCEPT !.drives[d] = answers[d]], Home[d]) = after
      BY <2>1, <3>1, WordWithout
    <3>3. one.own[d] = OwnEdges(b, d, answers[d])
      BY <1>4, <2>1, <2>3
    <3>4. one.own[d] = (before \ after) \cup (after \ before)
      BY <3>2, <3>3 DEF OwnEdges
    <3> QED BY <2>2, <3>4 DEF Compared
  <2>4. CASE d \notin hit
    <3>1. x.drives[d] = b.drives[d] /\ one.own[d] = {}
      BY <1>4, <1>5, <2>1, <2>4
    <3>2. after = before
      BY <2>1, <3>1, WordIs
    <3>3. one.own[d] = (before \ after) \cup (after \ before)
      BY <3>1, <3>2
    <3> QED BY <2>2, <3>3 DEF Compared
  <2> QED BY <2>3, <2>4
<1> QED BY <1>5, <1>6, <1>7 DEF x

\* While the others stay, what a device saw and its own edges make up the word.
LEMMA ComparedSees ==
  ASSUME NoLoops, NEW b, NEW x \in BusRecords, NEW edges, NEW d \in x.attached,
         Compared(b, x, edges, d), WithoutIt(x, d) = x.peers[d]
  PROVE  /\ SeenInput(x, d, edges) = x.peers[d] \ Pulled(x.drives[d])
         /\ Word(x, Home[d]) = x.peers[d] \ Pulled(x.drives[d])
<1>1. d \in Devices
  BY DEF BusRecords
<1> DEFINE before == Word(b, Home[d])
           after == WithoutIt(b, d) \ Pulled(x.drives[d])
<1>2. x.inputs[d] = before /\ x.peers[d] = WithoutIt(b, d)
      /\ edges = (before \ after) \cup (after \ before)
  BY DEF Compared
<1>3. before # NoInput
  BY <1>1, LevelsAreLevels
<1>4. Word(x, Home[d]) = after
  BY <1>2, WordIs
<1>5. SeenInput(x, d, edges) = (before \ edges) \cup (after \cap edges)
  BY <1>2, <1>3, <1>4 DEF SeenInput
<1>6. after = x.peers[d] \ Pulled(x.drives[d])
  BY <1>2
<1> HIDE DEF before, after
<1>7. (before \ edges) \cup (after \cap edges) = after
  BY <1>2
<1> QED BY <1>4, <1>5, <1>6, <1>7

LEMMA RestedUnmoved ==
  ASSUME NoLoops, NEW b \in BusRecords, NEW d \in b.attached, Rested(b, d)
  PROVE  Unmoved(b, d, {})
<1> SUFFICES ASSUME b.inputs[d] # NoInput, WithoutIt(b, d) = b.peers[d]
             PROVE  SeenInput(b, d, {}) = Word(b, Home[d])
  BY DEF Unmoved
<1>1. d \in Devices
  BY DEF BusRecords
<1>2. b.peers[d] # NoInput
  BY <1>1, LevelsAreLevels
<1>3. b.inputs[d] = Word(b, Home[d])
  BY <1>2, WordIs DEF Rested
<1>4. SeenInput(b, d, {}) = (b.inputs[d] \ {}) \cup (Word(b, Home[d]) \cap {})
  BY DEF SeenInput
<1> QED BY <1>3, <1>4

LEMMA SettledRests ==
  ASSUME NoLoops, NEW b \in BusRecords, NEW devs \in SUBSET b.attached, b.echoed = {},
         \A d \in devs : Rested(b, d), NEW x \in Settled(b, devs)
  PROVE  x.echoed = {} /\ \A d \in devs : Rested(x, d)
<1>0. devs \in SUBSET Devices
  BY DEF BusRecords
<1>1. PICK one \in Phase(b, devs, NoOwn) : \E two \in Phase(one.bus, devs, one.own) :
           x = AtRest(two.bus, devs, two.own)
  BY <1>0, SettledIsTwoPhases
<1>2. PICK two \in Phase(one.bus, devs, one.own) : x = AtRest(two.bus, devs, two.own)
  BY <1>1
<1>3. \A d \in devs : Unmoved(b, d, NoOwn[d])
  <2>1. \A d \in devs : NoOwn[d] = {}
    BY <1>0 DEF NoOwn
  <2> QED BY <2>1, RestedUnmoved
<1>4. /\ one.bus \in BusRecords /\ SamplingKeeps(b, one.bus, devs) /\ one.bus.echoed = {}
      /\ \A d \in devs : Compared(b, one.bus, one.own[d], d)
  BY <1>3, PhaseCompares
<1>5. devs \in SUBSET one.bus.attached
  BY <1>4 DEF SamplingKeeps
<1> DEFINE first == one.bus
           firstOwn == one.own
<1>a. /\ first \in BusRecords /\ devs \in SUBSET first.attached /\ first.echoed = {}
      /\ \A d \in devs : Compared(b, first, firstOwn[d], d)
  BY <1>4, <1>5
<1>b. two \in Phase(first, devs, firstOwn)
  OBVIOUS
<1> HIDE DEF first, firstOwn
<1>6. ASSUME NEW d \in devs  PROVE Unmoved(first, d, firstOwn[d])
  <2> SUFFICES ASSUME WithoutIt(first, d) = first.peers[d]
               PROVE  SeenInput(first, d, firstOwn[d]) = Word(first, Home[d])
    BY DEF Unmoved
  <2>1. d \in first.attached /\ Compared(b, first, firstOwn[d], d)
    BY <1>a
  <2>2. /\ SeenInput(first, d, firstOwn[d]) = first.peers[d] \ Pulled(first.drives[d])
        /\ Word(first, Home[d]) = first.peers[d] \ Pulled(first.drives[d])
    BY <1>a, <2>1, ComparedSees
  <2> QED BY <2>2
<1> DEFINE second == two.bus
           secondOwn == two.own
<1>7. /\ second \in BusRecords /\ SamplingKeeps(first, second, devs) /\ second.echoed = {}
      /\ \A d \in devs : Compared(first, second, secondOwn[d], d)
  BY <1>a, <1>b, <1>6, PhaseCompares
<1>c. x = AtRest(second, devs, secondOwn)
  BY <1>2
<1> HIDE DEF second, secondOwn
<1>8. devs \in SUBSET second.attached /\ second \in BusRecords
  BY <1>a, <1>7 DEF SamplingKeeps
<1>9. /\ x.drives = second.drives /\ x.echoed = {}
      /\ \A d \in devs :
              /\ x.inputs[d] = SeenInput(second, d, secondOwn[d])
              /\ WithoutIt(second, d) # second.peers[d] => x.peers[d] = NoInput
              /\ WithoutIt(second, d) = second.peers[d] => x.peers[d] = second.peers[d]
  <2>1. second \in BusRecords /\ second.echoed = {}
    BY <1>7
  <2>2. /\ x.drives = second.drives /\ x.echoed = second.echoed
        /\ \A d \in devs :
              /\ x.inputs[d] = SeenInput(second, d, secondOwn[d])
              /\ WithoutIt(second, d) # second.peers[d] => x.peers[d] = NoInput
              /\ WithoutIt(second, d) = second.peers[d] => x.peers[d] = second.peers[d]
    <3>1. x.drives = second.drives /\ x.echoed = second.echoed
      BY <1>0, <2>1, <1>c, AtRestKeeps
    <3>2. ASSUME NEW d \in devs  PROVE x.inputs[d] = SeenInput(second, d, secondOwn[d])
      BY <1>0, <2>1, <1>c, AtRestKeeps
    <3>3. ASSUME NEW d \in devs, WithoutIt(second, d) # second.peers[d]  PROVE x.peers[d] = NoInput
      BY <1>0, <2>1, <1>c, <3>3, AtRestKeeps
    <3>4. ASSUME NEW d \in devs, WithoutIt(second, d) = second.peers[d]
          PROVE  x.peers[d] = second.peers[d]
      BY <1>0, <2>1, <1>c, <3>4, AtRestKeeps
    <3> QED BY <3>1, <3>2, <3>3, <3>4
  <2> QED BY <2>1, <2>2
<1>10. ASSUME NEW d \in devs  PROVE Rested(x, d)
  <2> SUFFICES ASSUME x.peers[d] # NoInput
               PROVE  x.inputs[d] = x.peers[d] \ Pulled(x.drives[d])
    BY DEF Rested
  <2>1. WithoutIt(second, d) = second.peers[d] /\ x.peers[d] = second.peers[d]
    BY <1>9
  <2>2. d \in second.attached /\ Compared(first, second, secondOwn[d], d)
    BY <1>7, <1>8
  <2>3. SeenInput(second, d, secondOwn[d]) = second.peers[d] \ Pulled(second.drives[d])
    BY <1>8, <2>1, <2>2, ComparedSees
  <2> QED BY <1>9, <2>1, <2>3
<1> QED BY <1>9, <1>10

\* Behind every operation nobody was sampled for its own drive, and the devices
\* are such that nobody will be.
Quiet(b) ==
  /\ b.echoed = {}
  /\ \A d \in Devices \ b.attached : b.inputs[d] = NoInput
  /\ \A d \in b.attached \ TimeDriven : Rested(b, d)

LEMMA RefreshQuiet ==
  ASSUME NoLoops, NEW b \in BusRecords, Quiet(b), NEW ports \in SUBSET Ports,
         NEW x \in Refreshed(b, ports)
  PROVE  Quiet(x)
<1> DEFINE devs == Reactive(b, ports)
<1>1. PICK y \in Settled(b, devs) : x = Finished(y, ports)
  BY DEF Refreshed
<1>2. devs \in SUBSET b.attached /\ devs \in SUBSET Devices /\ \A d \in devs : d \notin TimeDriven
  BY DEF Reactive, BusRecords
<1> HIDE DEF devs
<1>3. y \in BusRecords /\ SamplingKeeps(b, y, devs)
  BY <1>2, SettledKeeps
<1>4. y.echoed = {} /\ \A d \in devs : Rested(y, d)
  BY <1>2, SettledRests DEF Quiet
<1>5. Quiet(y)
  <2>1. y.attached = b.attached /\ b.attached \subseteq Devices
    BY <1>3 DEF SamplingKeeps, BusRecords
  <2>2. \A d \in Devices \ devs : /\ y.drives[d] = b.drives[d] /\ y.inputs[d] = b.inputs[d]
                                  /\ y.peers[d] = b.peers[d]
    BY <1>3 DEF SamplingKeeps
  <2>3. \A d \in b.attached \ TimeDriven : Rested(y, d)
    BY <1>4, <2>1, <2>2 DEF Quiet, Rested
  <2>4. \A d \in Devices \ y.attached : y.inputs[d] = NoInput
    BY <1>2, <2>1, <2>2 DEF Quiet
  <2> QED BY <1>4, <2>1, <2>3, <2>4 DEF Quiet
<1>6. SameNets(y, x) /\ x.inputs = y.inputs /\ x.peers = y.peers /\ x.echoed = y.echoed
  BY <1>1, <1>3, FinishedIs
<1> QED BY <1>5, <1>6 DEF Quiet, Rested, SameNets

LEMMA SameQuiet ==
  ASSUME NEW a, Quiet(a), NEW b, b.echoed = {}, b.attached = a.attached,
         b.inputs = a.inputs, b.peers = a.peers, b.drives = a.drives
  PROVE  Quiet(b)
BY DEF Quiet, Rested

\* Of the devices, some may be new or reset and wait for their first sample.
LEMMA AnewQuiet ==
  ASSUME NEW a, Quiet(a), NEW b, b.echoed = {},
         \A d \in Devices \ b.attached : b.inputs[d] = NoInput,
         \A d \in b.attached \ TimeDriven :
           \/ b.inputs[d] = NoInput
           \/ /\ d \in a.attached /\ b.inputs[d] = a.inputs[d]
              /\ b.peers[d] = a.peers[d] /\ b.drives[d] = a.drives[d]
  PROVE  Quiet(b)
BY DEF Quiet, Rested
-----------------------------------------------------------------------------
(* Every operation.                                                         *)

Sound(b) == b \in BusRecords /\ Written(b) /\ KnownConflicts(b)
Notes(a, x) ==
  a.wires \subseteq x.wires => \A n \in Nodes : Newly(a, x, n) => Root(x, n) \in x.noted

LEMMA BeyondReached ==
  ASSUME NEW a, NEW b, NEW ports \in SUBSET Ports, Beyond(a, b, ports)
  PROVE  Beyond(a, b, Reached(b, ports))
<1>1. ports \subseteq Reached(b, ports)
  BY ReachedIs
<1> HIDE DEF Reached
<1> DEFINE here == Reached(b, ports)
<1>2. ports \subseteq here
  BY <1>1
<1> HIDE DEF here
<1>3. Beyond(a, b, here)
  BY <1>2 DEF Beyond
<1> QED BY <1>3 DEF here

LEMMA RefreshKeeps ==
  ASSUME NEW a, Sound(a), NEW b \in BusRecords, NEW ports \in SUBSET Ports,
         Beyond(a, b, ports), NEW x \in Refreshed(b, ports)
  PROVE  /\ Sound(x) /\ Notes(a, x) /\ b.noted \subseteq x.noted
         /\ x.attached = b.attached /\ x.gpo = b.gpo /\ x.enabled = b.enabled
         /\ x.wires = b.wires
<1> DEFINE devs == Reactive(b, ports)
<1>1. PICK y \in Settled(b, devs) : x = Finished(y, ports)
  BY DEF Refreshed
<1>2. devs \in SUBSET Devices /\ \A d \in devs : Home[d] \in Reached(b, ports)
  BY DEF Reactive, BusRecords
<1> HIDE DEF devs
<1>3. y \in BusRecords /\ SamplingKeeps(b, y, devs)
  BY <1>2, SettledKeeps
<1>4. Reached(y, ports) = Reached(b, ports)
  BY <1>3 DEF Reached, SamplingKeeps
<1> DEFINE here == Reached(b, ports)
<1>5. Beyond(a, b, here)
  BY BeyondReached
<1>6. \A d \in devs : Home[d] \in here
  BY <1>2
<1> HIDE DEF here
<1>7. Beyond(a, y, here)
  <2>1. y.gpo = b.gpo /\ y.enabled = b.enabled /\ y.gpi = b.gpi /\ y.managed = b.managed
        /\ y.attached = b.attached /\ y.wires = b.wires /\ y.conflicts = b.conflicts
    BY <1>3 DEF SamplingKeeps
  <2>2. \A d \in Devices : Home[d] \notin here => y.drives[d] = b.drives[d]
    BY <1>3, <1>6 DEF SamplingKeeps
  <2> QED BY <1>5, <2>1, <2>2 DEF Beyond
<1>8. Beyond(a, y, Reached(y, ports))
  BY <1>4, <1>7 DEF here
<1>9. a \in BusRecords /\ Written(a) /\ KnownConflicts(a)
  BY DEF Sound
<1>10. /\ x \in BusRecords /\ SameNets(y, x)
       /\ \A n \in Nodes : n \in y.noted => n \in x.noted
  BY <1>1, <1>3, FinishedIs
<1>11. Written(x) /\ KnownConflicts(x)
  BY <1>1, <1>3, <1>8, <1>9, FinishedIsWritten, FinishedKnowsConflicts
<1>12. Notes(a, x)
  <2> SUFFICES ASSUME a.wires \subseteq x.wires, NEW n \in Nodes, Newly(a, x, n)
               PROVE  Root(x, n) \in x.noted
    BY DEF Notes
  <2>1. a.wires \subseteq y.wires
    BY <1>10 DEF SameNets
  <2> QED BY <1>1, <1>3, <1>8, <1>9, <2>1, FinishedNotes
<1>13. /\ x.attached = b.attached /\ x.gpo = b.gpo /\ x.enabled = b.enabled
       /\ x.wires = b.wires
  BY <1>3, <1>10 DEF SamplingKeeps, SameNets
<1>14. b.noted \subseteq x.noted
  <2>1. b.noted \subseteq Nodes /\ y.noted = b.noted
    BY <1>3 DEF BusRecords, SamplingKeeps
  <2> QED BY <1>10, <2>1
<1> QED BY <1>10, <1>11, <1>12, <1>13, <1>14 DEF Sound

LEMMA BegunIs ==
  ASSUME NEW a \in BusRecords
  PROVE  /\ Begun(a) \in BusRecords /\ SameNets(a, Begun(a))
         /\ Begun(a).gpi = a.gpi /\ Begun(a).managed = a.managed
         /\ Begun(a).inputs = a.inputs /\ Begun(a).peers = a.peers
         /\ Begun(a).conflicts = a.conflicts /\ Begun(a).echoed = {}
BY DEF Begun, BusRecords, SameNets

DirectionOf(n) ==
  IF IsLeased(n) THEN leases[n].was <=> n[2] \in chosen[n[1]]
                 ELSE n[2] \in bus.enabled[n[1]] <=> n[2] \in chosen[n[1]]
LeaseTables == [Nodes -> [owners : SUBSET Owners, was : BOOLEAN, drive : BOOLEAN]]

\* The inductive invariant: levels and conflicts are known behind every
\* operation, and a leased pin remembers the direction it is to get back.
DeviceBusInv ==
  /\ Sound(bus)
  /\ leases \in LeaseTables
  /\ chosen \in PinWords
  /\ \A n \in Nodes : DirectionOf(n)

\* What every operation keeps.
Kept == DeviceBusInv' /\ Notes(bus, bus') /\ (NoLoops /\ Quiet(bus) => Quiet(bus'))

LEMMA InitSound == ASSUME DeviceBusInit  PROVE DeviceBusInv
<1>1. bus \in BusRecords
  <2>1. bus.conflicts \in [{} -> SUBSET DriverRecords]
    BY DEF DeviceBusInit
  <2>2. bus.conflicts \in UNION {[s -> SUBSET DriverRecords] : s \in SUBSET Nodes}
    BY <2>1
  <2>3. Silent \in Drives /\ NoPins \in PinWords
    BY DEF Silent, Drives, NoPins, PinWords
  <2> QED BY <2>2, <2>3 DEF DeviceBusInit, BusRecords
<1>2. ASSUME NEW p \in Ports  PROVE bus.managed[p] = Driven(bus, p) /\ Current(bus, p)
  <2>1. bus.attached = {} /\ bus.wires = {} /\ bus.managed[p] = {}
    BY DEF DeviceBusInit, NoPins
  <2>2. {d \in bus.attached : Home[d] = p} = {} 
    BY <2>1
  <2>3. {pn \in PinsOf[p] : \E w \in bus.wires : <<p, pn>> \in w} = {}
    BY <2>1
  <2>4. Driven(bus, p) = {}
    BY <2>2, <2>3 DEF Driven
  <2> QED BY <2>1, <2>4 DEF Current
<1>3. KnownConflicts(bus)
  BY DEF DeviceBusInit, KnownConflicts
<1>4. leases \in LeaseTables
  BY DEF DeviceBusInit, LeaseTables, NotLeased
<1>5. chosen \in PinWords
  BY DEF DeviceBusInit, NoPins, PinWords
<1>6. ASSUME NEW n \in Nodes  PROVE DirectionOf(n)
  <2>1. leases[n].owners = {} /\ chosen[n[1]] = {} /\ bus.enabled[n[1]] = {}
    BY NodeTyped DEF DeviceBusInit, NotLeased, NoPins
  <2> QED BY <2>1 DEF DirectionOf, IsLeased
<1> QED BY <1>1, <1>2, <1>3, <1>4, <1>5, <1>6 DEF DeviceBusInv, Sound, Written

\* The operations that leave the leases and directions alone.
LEMMA SameDirections ==
  ASSUME DeviceBusInv, UNCHANGED <<leases, chosen>>, bus'.enabled = bus.enabled, Sound(bus')
  PROVE  DeviceBusInv'
<1>1. \A n \in Nodes : DirectionOf(n)'
  BY DEF DirectionOf, DeviceBusInv, IsLeased
<1>2. leases' \in LeaseTables /\ chosen' \in PinWords
  BY DEF DeviceBusInv
<1> QED BY <1>1, <1>2 DEF DeviceBusInv, Sound, Written, Current, KnownConflicts, InConflict

LEMMA AttachKeeps ==
  ASSUME DeviceBusInv, NEW d \in Devices, Attach(d)
  PROVE  Kept
<1> DEFINE b == [Begun(bus) EXCEPT !.attached = @ \cup {d}, !.drives[d] = Silent]
<1>1. /\ bus' \in Refreshed(b, {Home[d]}) /\ UNCHANGED <<leases, chosen>>
  BY DEF Attach
<1>2. bus \in BusRecords /\ Sound(bus)
  BY DEF DeviceBusInv, Sound
<1>3. Silent \in Drives
  BY DEF Silent, Drives
<1>4. b \in BusRecords
  BY <1>2, <1>3, BegunIs DEF BusRecords
<1>5. Beyond(bus, b, {Home[d]}) /\ b.enabled = bus.enabled
  <2>1. /\ b.gpo = bus.gpo /\ b.enabled = bus.enabled /\ b.gpi = bus.gpi
        /\ b.managed = bus.managed /\ b.wires = bus.wires /\ b.conflicts = bus.conflicts
        /\ b.attached = bus.attached \cup {d}
        /\ \A e \in Devices : e # d => b.drives[e] = bus.drives[e]
    BY <1>2 DEF BusRecords, Begun
  <2> HIDE DEF b
  <2> QED BY <2>1 DEF Beyond
<1>8. /\ b.attached = bus.attached \cup {d} /\ b.inputs = bus.inputs /\ b.peers = bus.peers
      /\ b.echoed = {} /\ \A e \in Devices : e # d => b.drives[e] = bus.drives[e]
  BY <1>2 DEF BusRecords, Begun
<1>6. {Home[d]} \in SUBSET Ports
  BY HomeTyped
<1> HIDE DEF b
<1>7. Sound(bus') /\ Notes(bus, bus') /\ bus'.enabled = b.enabled
  BY <1>1, <1>2, <1>4, <1>5, <1>6, RefreshKeeps
<1>9. ASSUME NoLoops, Quiet(bus)  PROVE Quiet(bus')
  <2>1. d \notin bus.attached /\ bus.inputs[d] = NoInput
    BY <1>9 DEF Attach, Quiet
  <2>2. bus.attached \subseteq Devices
    BY <1>2 DEF BusRecords
  <2>3. Quiet(b)
    BY <1>8, <1>9, <2>1, <2>2, AnewQuiet DEF Quiet
  <2> QED BY <1>1, <1>4, <1>6, <1>9, <2>3, RefreshQuiet
<1> QED BY <1>1, <1>5, <1>7, <1>9, SameDirections DEF Kept

\* The effect of an operation that resolves the bus b again.
LEMMA OperationKeeps ==
  ASSUME DeviceBusInv, NEW b \in BusRecords, NEW ports \in SUBSET Ports,
         Beyond(bus, b, ports), b.enabled = bus.enabled, Quiet(bus) => Quiet(b),
         bus' \in Refreshed(b, ports), UNCHANGED <<leases, chosen>>
  PROVE  Kept
<1>1. Sound(bus)
  BY DEF DeviceBusInv
<1>2. Sound(bus') /\ Notes(bus, bus') /\ bus'.enabled = b.enabled
  BY <1>1, RefreshKeeps
<1> QED BY <1>2, SameDirections, RefreshQuiet DEF Kept

LEMMA WiresKeep ==
  ASSUME DeviceBusInv, NEW w \in WireChoices, AddWire(w) \/ RemoveWire(w)
  PROVE  Kept
<1>1. bus \in BusRecords
  BY DEF DeviceBusInv, Sound
<1> DEFINE ports == {n[1] : n \in w}
<1>2. ports \in SUBSET Ports
  BY WireAssumption, NodeTyped
<1>3. ASSUME NEW wires, wires \in SUBSET WireChoices,
             \A v \in WireChoices : v # w => (v \in wires <=> v \in bus.wires),
             bus' \in Refreshed([Begun(bus) EXCEPT !.wires = wires], ports),
             UNCHANGED <<leases, chosen>>
      PROVE  Kept
  <2> DEFINE b == [Begun(bus) EXCEPT !.wires = wires]
  <2>1. b \in BusRecords
    BY <1>1, <1>3, BegunIs DEF BusRecords
  <2>2. /\ b.gpo = bus.gpo /\ b.enabled = bus.enabled /\ b.gpi = bus.gpi
        /\ b.managed = bus.managed /\ b.conflicts = bus.conflicts
        /\ b.attached = bus.attached /\ b.drives = bus.drives /\ b.wires = wires
    BY <1>1 DEF BusRecords, Begun
  <2>6. b.inputs = bus.inputs /\ b.peers = bus.peers /\ b.echoed = {}
    BY <1>1 DEF BusRecords, Begun
  <2>3. \A n \in w : n[1] \in ports
    OBVIOUS
  <2>4. bus' \in Refreshed(b, ports)
    BY <1>3
  <2> HIDE DEF b, ports
  <2>5. Beyond(bus, b, ports)
    BY <1>3, <2>2, <2>3 DEF Beyond
  <2>7. Quiet(bus) => Quiet(b)
    BY <2>2, <2>6, SameQuiet
  <2> QED BY <1>2, <1>3, <2>1, <2>2, <2>4, <2>5, <2>7, OperationKeeps
<1>4. bus.wires \in SUBSET WireChoices
  BY <1>1 DEF BusRecords
<1>5. CASE AddWire(w)
  <2> DEFINE wires == bus.wires \cup {w}
  <2>1. bus' \in Refreshed([Begun(bus) EXCEPT !.wires = wires], ports)
    BY <1>5, <1>1 DEF AddWire, BusRecords, Begun
  <2>2. wires \in SUBSET WireChoices
        /\ \A v \in WireChoices : v # w => (v \in wires <=> v \in bus.wires)
    BY <1>4
  <2>3. UNCHANGED <<leases, chosen>>
    BY <1>5 DEF AddWire
  <2> HIDE DEF wires, ports
  <2> QED BY <1>3, <2>1, <2>2, <2>3
<1>6. CASE RemoveWire(w)
  <2> DEFINE wires == bus.wires \ {w}
  <2>1. bus' \in Refreshed([Begun(bus) EXCEPT !.wires = wires], ports)
    BY <1>6, <1>1 DEF RemoveWire, BusRecords, Begun
  <2>2. wires \in SUBSET WireChoices
        /\ \A v \in WireChoices : v # w => (v \in wires <=> v \in bus.wires)
    BY <1>4
  <2>3. UNCHANGED <<leases, chosen>>
    BY <1>6 DEF RemoveWire
  <2> HIDE DEF wires, ports
  <2> QED BY <1>3, <2>1, <2>2, <2>3
<1> QED BY <1>5, <1>6

LEMMA AdvanceKeeps ==
  ASSUME DeviceBusInv, NEW p \in Ports, AdvanceTime(p)
  PROVE  Kept
<1> DEFINE timed == {d \in bus.attached \cap TimeDriven : Home[d] = p}
<1>1. bus \in BusRecords
  BY DEF DeviceBusInv, Sound
<1>2. PICK answers \in AnswersOf(timed) :
        bus' \in Refreshed([Begun(bus) EXCEPT
              !.drives = Answered(bus, answers),
              !.inputs = [d \in Devices |-> IF d \in timed THEN Word(bus, p) ELSE @[d]]], {p})
  BY Zenon DEF AdvanceTime
<1>3. timed \in SUBSET Devices /\ \A d \in timed : Home[d] = p
  BY <1>1 DEF BusRecords
<1> HIDE DEF timed
<1> DEFINE drives == Answered(bus, answers)
           inputs == [d \in Devices |-> IF d \in timed THEN Word(bus, p) ELSE bus.inputs[d]]
           b == [Begun(bus) EXCEPT !.drives = drives, !.inputs = inputs]
<1>4. drives \in [Devices -> Drives] /\ \A d \in Devices \ timed : drives[d] = bus.drives[d]
  BY <1>1, <1>3, AnswersTyped DEF BusRecords, Answered
<1>5. inputs \in [Devices -> (SUBSET AllPins) \cup {NoInput}]
  <2>1. ASSUME NEW d \in Devices  PROVE inputs[d] \in (SUBSET AllPins) \cup {NoInput}
    <3>1. bus.inputs[d] \in (SUBSET AllPins) \cup {NoInput}
      BY <1>1 DEF BusRecords
    <3> QED BY <3>1, WordTyped
  <2> QED BY <2>1
<1>6. bus' \in Refreshed(b, {p})
  <2>1. Begun(bus).inputs = bus.inputs
    BY <1>1, BegunIs
  <2> QED BY <1>2, <2>1
<1> HIDE DEF drives, inputs
<1>7. b \in BusRecords
  BY <1>1, <1>4, <1>5, BegunIs DEF BusRecords
<1>8. /\ b.gpo = bus.gpo /\ b.enabled = bus.enabled /\ b.gpi = bus.gpi
      /\ b.managed = bus.managed /\ b.conflicts = bus.conflicts
      /\ b.attached = bus.attached /\ b.drives = drives /\ b.wires = bus.wires
  BY <1>1 DEF BusRecords, Begun
<1>12. b.inputs = inputs /\ b.peers = bus.peers /\ b.echoed = {}
  BY <1>1 DEF BusRecords, Begun
<1>13. /\ \A d \in Devices \ timed : inputs[d] = bus.inputs[d]
       /\ \A d \in timed : d \in bus.attached /\ d \in TimeDriven
  BY DEF inputs, timed
<1> HIDE DEF b
<1>14. Quiet(bus) => Quiet(b)
  <2>1. bus.attached \subseteq Devices
    BY <1>1 DEF BusRecords
  <2> SUFFICES ASSUME Quiet(bus)  PROVE Quiet(b)
    OBVIOUS
  <2>2. \A d \in Devices \ b.attached : b.inputs[d] = NoInput
    BY <1>8, <1>12, <1>13 DEF Quiet
  <2>3. \A d \in b.attached \ TimeDriven :
           d \in bus.attached /\ b.inputs[d] = bus.inputs[d]
              /\ b.peers[d] = bus.peers[d] /\ b.drives[d] = bus.drives[d]
    BY <1>4, <1>8, <1>12, <1>13, <2>1
  <2> QED BY <1>12, <2>2, <2>3, AnewQuiet
<1>9. Beyond(bus, b, {p})
  BY <1>3, <1>4, <1>8 DEF Beyond
<1>10. UNCHANGED <<leases, chosen>>
  BY DEF AdvanceTime
<1>11. {p} \in SUBSET Ports
  OBVIOUS
<1> QED BY <1>6, <1>7, <1>8, <1>9, <1>10, <1>11, <1>14, OperationKeeps

LEMMA ResetKeeps ==
  ASSUME DeviceBusInv, NEW p \in Ports, ResetPort(p)
  PROVE  Kept
<1> DEFINE here == {d \in bus.attached : Home[d] = p}
           apart == {n \in DOMAIN bus.conflicts :
                       \A x \in bus.conflicts[n] : x.name \notin here \cup {p}}
           gpo == [bus.gpo EXCEPT ![p] = {}]
           conflicts == [n \in apart |-> bus.conflicts[n]]
           drives == [d \in Devices |-> IF d \in here THEN Silent ELSE bus.drives[d]]
           inputs == [d \in Devices |-> IF d \in here THEN NoInput ELSE bus.inputs[d]]
           peers == [d \in Devices |-> IF d \in here THEN {} ELSE bus.peers[d]]
           b == [Begun(bus) EXCEPT !.gpo = gpo, !.conflicts = conflicts, !.drives = drives,
                                   !.inputs = inputs, !.peers = peers]
<1>1. bus \in BusRecords
  BY DEF DeviceBusInv, Sound
<1>2. bus' = Finished(b, {p}) /\ UNCHANGED <<leases, chosen>>
  <2>1. Begun(bus).gpo = bus.gpo
    BY <1>1 DEF Begun, BusRecords
  <2> QED BY <2>1 DEF ResetPort
<1>3. PICK s \in SUBSET Nodes : bus.conflicts \in [s -> SUBSET DriverRecords]
  BY <1>1 DEF BusRecords
<1>4. apart \in SUBSET Nodes /\ apart \subseteq DOMAIN bus.conflicts
  BY <1>3
<1>5. conflicts \in [apart -> SUBSET DriverRecords]
  BY <1>3, <1>4
<1>6. conflicts \in UNION {[t -> SUBSET DriverRecords] : t \in SUBSET Nodes}
  BY <1>4, <1>5
<1>7. gpo \in PinWords /\ \A q \in Ports \ {p} : gpo[q] = bus.gpo[q]
  BY <1>1 DEF BusRecords, PinWords
<1>8. drives \in [Devices -> Drives] /\ \A d \in Devices : Home[d] # p => drives[d] = bus.drives[d]
  BY <1>1 DEF BusRecords, Silent, Drives
<1>9. inputs \in [Devices -> (SUBSET AllPins) \cup {NoInput}] /\ peers \in [Devices -> (SUBSET AllPins) \cup {NoInput}]
  BY <1>1 DEF BusRecords
<1>a. /\ \A d \in Devices : d \in here => inputs[d] = NoInput
      /\ \A d \in Devices \ here : inputs[d] = bus.inputs[d] /\ peers[d] = bus.peers[d]
                                /\ drives[d] = bus.drives[d]
      /\ here \subseteq bus.attached
  OBVIOUS
<1>10. DOMAIN conflicts = apart /\ \A n \in apart : conflicts[n] = bus.conflicts[n]
  OBVIOUS
<1> HIDE DEF here, gpo, conflicts, drives, inputs, peers, apart
<1>11. b \in BusRecords
  BY <1>1, <1>6, <1>7, <1>8, <1>9, BegunIs, ZenonT(40) DEF BusRecords
<1>12. /\ b.gpo = gpo /\ b.enabled = bus.enabled /\ b.gpi = bus.gpi
       /\ b.managed = bus.managed /\ b.conflicts = conflicts
       /\ b.attached = bus.attached /\ b.drives = drives /\ b.wires = bus.wires
  BY <1>1 DEF BusRecords, Begun
<1>b. b.inputs = inputs /\ b.peers = peers /\ b.echoed = {}
  BY <1>1 DEF BusRecords, Begun
<1> HIDE DEF b
<1>13. Beyond(bus, b, {p})
  BY <1>4, <1>7, <1>8, <1>10, <1>12 DEF Beyond
<1>14. Beyond(bus, b, Reached(b, {p}))
  BY <1>13, BeyondReached
<1>15. Written(bus) /\ KnownConflicts(bus)
  BY DEF DeviceBusInv, Sound
<1>16. bus' \in BusRecords /\ SameNets(b, bus')
  BY <1>2, <1>11, FinishedIs
<1>17. Written(bus') /\ KnownConflicts(bus')
  BY <1>1, <1>2, <1>11, <1>14, <1>15, FinishedIsWritten, FinishedKnowsConflicts
<1>18. ASSUME NEW n \in Nodes, Newly(bus, bus', n)  PROVE Root(bus', n) \in bus'.noted
  <2>1. bus.wires \subseteq b.wires
    BY <1>12
  <2> QED BY <1>1, <1>2, <1>11, <1>14, <1>15, <1>18, <2>1, FinishedNotes
<1>19. Sound(bus') /\ Notes(bus, bus') /\ bus'.enabled = bus.enabled
  BY <1>12, <1>16, <1>17, <1>18 DEF Sound, Notes, SameNets
<1>20. ASSUME Quiet(bus)  PROVE Quiet(bus')
  <2>1. bus.attached \subseteq Devices
    BY <1>1 DEF BusRecords
  <2>2. \A d \in Devices \ b.attached : b.inputs[d] = NoInput
    BY <1>20, <1>a, <1>b, <1>12 DEF Quiet
  <2>3. \A d \in b.attached \ TimeDriven :
           \/ b.inputs[d] = NoInput
           \/ d \in bus.attached /\ b.inputs[d] = bus.inputs[d]
              /\ b.peers[d] = bus.peers[d] /\ b.drives[d] = bus.drives[d]
    BY <1>12, <1>a, <1>b, <2>1
  <2>4. Quiet(b)
    BY <1>20, <1>b, <2>2, <2>3, AnewQuiet
  <2>5. bus'.inputs = b.inputs /\ bus'.peers = b.peers /\ bus'.echoed = b.echoed
    BY <1>2, <1>11, FinishedIs
  <2>6. bus'.attached = b.attached /\ bus'.drives = b.drives
    BY <1>16 DEF SameNets
  <2> QED BY <1>b, <2>4, <2>5, <2>6, SameQuiet
<1> QED BY <1>2, <1>19, <1>20, SameDirections DEF Kept

\* Nothing on the bus: no input is managed and no net in conflict.
LEMMA EmptyBus ==
  ASSUME NEW a \in BusRecords, a.attached = {}, a.wires = {}
  PROVE  /\ \A p \in Ports : Driven(a, p) = {}
         /\ \A n \in Nodes : ~InConflict(a, n) /\ Root(a, n) = n
<1>1. ASSUME NEW p \in Ports  PROVE Driven(a, p) = {}
  <2>1. {d \in a.attached : Home[d] = p} = {}
    OBVIOUS
  <2>2. {pn \in PinsOf[p] : \E w \in a.wires : <<p, pn>> \in w} = {}
    OBVIOUS
  <2> QED BY <2>1, <2>2 DEF Driven
<1>2. ASSUME NEW n \in Nodes  PROVE ~InConflict(a, n) /\ Root(a, n) = n
  <2>1. NetOf(a, n) = {n} /\ Root(a, n) = n
    BY DEF NetOf, Root
  <2> DEFINE mode == IF Declared(a, {n}) = {"open drain"} THEN "open drain" ELSE "push pull"
             core == [name |-> n[1], value |-> IF n[2] \in a.gpo[n[1]] THEN 1 ELSE 0,
                      mode |-> mode]
  <2>2. {y \in a.attached \X {n} : y[2][1] = Home[y[1]] /\ y[2][2] \in a.drives[y[1]].mask} = {}
    OBVIOUS
  <2> DEFINE cores == {[name |-> m[1], value |-> IF m[2] \in a.gpo[m[1]] THEN 1 ELSE 0,
                        mode |-> IF Declared(a, {n}) = {"open drain"} THEN "open drain"
                                 ELSE "push pull"]
                       : m \in {m \in {n} : m[2] \in a.enabled[m[1]]}}
             devices == {[name |-> x[1], value |-> IF x[2][2] \in a.drives[x[1]].high THEN 1 ELSE 0,
                        mode |-> Nets[x[1]][x[2][2]]]
                         : x \in {y \in a.attached \X {n} :
                                    y[2][1] = Home[y[1]] /\ y[2][2] \in a.drives[y[1]].mask}}
  <2>3. Drivers(a, {n}) = cores \cup devices
    BY DEF Drivers
  <2>9. devices = {}
    BY <2>2
  <2>5. cores \subseteq {core}
    <3> SUFFICES ASSUME NEW m \in {n}
                 PROVE  [name |-> m[1], value |-> IF m[2] \in a.gpo[m[1]] THEN 1 ELSE 0,
                         mode |-> mode] = core
      BY Zenon
    <3> QED OBVIOUS
  <2> HIDE DEF core, cores, devices
  <2>6. \A x, y \in Drivers(a, {n}) : x = y
    BY <2>3, <2>5, <2>9
  <2> DEFINE drivers == Drivers(a, {n})
  <2>7. \A x, y \in drivers : x = y
    BY <2>6
  <2> HIDE DEF drivers
  <2>8. ~Conflict(drivers)
    <3> SUFFICES ASSUME NEW x \in drivers, x.value = 0, NEW y \in drivers, y.value = 1
                 PROVE  FALSE
      BY Zenon DEF Conflict, PulledLow, PushedHigh
    <3>1. x = y
      BY <2>7
    <3> QED BY <3>1
  <2>4. ~Conflict(Drivers(a, {n}))
    BY <2>8 DEF drivers
  <2> QED BY <2>1, <2>4 DEF InConflict
<1> QED BY <1>1, <1>2

LEMMA WriteKeeps ==
  ASSUME DeviceBusInv, NEW p \in Ports, WriteR30(p)
  PROVE  Kept
<1> DEFINE loop == LoopPins[p] \ bus.managed[p]
<1>1. PICK word \in SUBSET OutputsOf(p) :
        IF word # bus.gpo[p] /\ (bus.attached # {} \/ bus.wires # {})
        THEN bus' \in Refreshed([Begun(bus) EXCEPT !.gpo[p] = word,
                                !.gpi[p] = (@ \ loop) \cup (word \cap loop)], {p})
        ELSE bus' = [Begun(bus) EXCEPT !.gpo[p] = word,
                                !.gpi[p] = (@ \ loop) \cup (word \cap loop)]
  BY Zenon DEF WriteR30
<1>2. bus \in BusRecords
  BY DEF DeviceBusInv, Sound
<1> DEFINE gpo == [bus.gpo EXCEPT ![p] = word]
           gpi == [bus.gpi EXCEPT ![p] = (@ \ loop) \cup (word \cap loop)]
           b == [Begun(bus) EXCEPT !.gpo = gpo, !.gpi = gpi]
<1>3. word \subseteq AllPins
  BY DEF OutputsOf, AllPins
<1>4. gpo \in PinWords /\ gpo[p] = word /\ \A q \in Ports \ {p} : gpo[q] = bus.gpo[q]
  BY <1>2, <1>3 DEF BusRecords, PinWords
<1>5. gpi \in PinWords /\ \A q \in Ports \ {p} : gpi[q] = bus.gpi[q]
  BY <1>2, <1>3 DEF BusRecords, PinWords
<1>6. \A q \in Ports : \A pn \in bus.managed[q] : pn \in gpi[q] <=> pn \in bus.gpi[q]
  BY <1>2 DEF BusRecords, PinWords
<1>7. IF word # bus.gpo[p] /\ (bus.attached # {} \/ bus.wires # {})
      THEN bus' \in Refreshed(b, {p}) ELSE bus' = b
  <2>1. Begun(bus).gpo = bus.gpo /\ Begun(bus).gpi = bus.gpi
    BY <1>2 DEF Begun, BusRecords
  <2> QED BY <1>1, <2>1
<1> HIDE DEF gpo, gpi
<1>8. b \in BusRecords
  BY <1>2, <1>4, <1>5, BegunIs, ZenonT(40) DEF BusRecords
<1>9. /\ b.gpo = gpo /\ b.enabled = bus.enabled /\ b.gpi = gpi
      /\ b.managed = bus.managed /\ b.conflicts = bus.conflicts
      /\ b.attached = bus.attached /\ b.drives = bus.drives /\ b.wires = bus.wires
  BY <1>2 DEF BusRecords, Begun
<1>a. b.inputs = bus.inputs /\ b.peers = bus.peers /\ b.echoed = {}
  BY <1>2 DEF BusRecords, Begun
<1> HIDE DEF b
<1>b. Quiet(bus) => Quiet(b)
  BY <1>9, <1>a, SameQuiet
<1>10. UNCHANGED <<leases, chosen>>
  BY DEF WriteR30
<1>11. CASE word # bus.gpo[p] /\ (bus.attached # {} \/ bus.wires # {})
  <2>1. Beyond(bus, b, {p})
    BY <1>4, <1>5, <1>9 DEF Beyond
  <2>2. bus' \in Refreshed(b, {p}) /\ {p} \in SUBSET Ports
    BY <1>7, <1>11
  <2> QED BY <1>8, <1>9, <1>10, <1>b, <2>1, <2>2, OperationKeeps
<1>12. CASE word = bus.gpo[p]
  <2>1. bus' = b
    BY <1>7, <1>12
  <2>2. gpo = bus.gpo
    <3>1. \A q \in Ports : gpo[q] = bus.gpo[q]
      BY <1>4, <1>12
    <3> QED BY <1>2, <1>4, <3>1 DEF BusRecords, PinWords
  <2>3. SameNets(bus, b)
    BY <1>9, <2>2 DEF SameNets
  <2>4. Written(b)
    BY <1>6, <1>9, <2>3, SameWord DEF DeviceBusInv, Sound, Written, Current
  <2>5. KnownConflicts(b)
    BY <1>9, <2>3, SameWord DEF DeviceBusInv, Sound, KnownConflicts, InConflict
  <2>6. Notes(bus, b)
    <3>1. \A n \in Nodes : NetOf(b, n) = NetOf(bus, n) /\ (InConflict(b, n) <=> InConflict(bus, n))
      BY <2>3, SameWord DEF InConflict
    <3> QED BY <1>2, <3>1, NetTyped DEF Notes, Newly
  <2> QED BY <1>8, <1>9, <1>10, <1>b, <2>1, <2>4, <2>5, <2>6, SameDirections DEF Sound, Kept
<1>13. CASE bus.attached = {} /\ bus.wires = {}
  <2>1. bus' = b
    BY <1>7, <1>13
  <2>2. /\ \A q \in Ports : Driven(bus, q) = {} /\ Driven(b, q) = {}
        /\ \A n \in Nodes : ~InConflict(bus, n) /\ Root(bus, n) = n /\ ~InConflict(b, n)
    BY <1>2, <1>8, <1>9, <1>13, EmptyBus
  <2>3. Written(b)
    BY <1>9, <2>2 DEF DeviceBusInv, Sound, Written, Current
  <2>4. DOMAIN bus.conflicts \subseteq Nodes
    BY <1>2 DEF BusRecords
  <2>5. DOMAIN bus.conflicts = {}
    BY <2>2, <2>4 DEF DeviceBusInv, Sound, KnownConflicts
  <2>6. KnownConflicts(b)
    BY <1>9, <2>5 DEF KnownConflicts
  <2>7. Notes(bus, b)
    BY <2>2 DEF Notes, Newly
  <2> QED BY <1>8, <1>9, <1>10, <1>b, <2>1, <2>3, <2>6, <2>7, SameDirections DEF Sound, Kept
<1> QED BY <1>11, <1>12, <1>13

\* The effect of an operation that sets directions.
LEMMA EnableKeeps ==
  ASSUME NEW a, Sound(a), NEW enabled \in PinWords, NEW ports \in SUBSET Ports,
         \A p \in Ports \ ports : enabled[p] = a.enabled[p],
         NEW b, b = [a EXCEPT !.enabled = enabled] \/ b = [Begun(a) EXCEPT !.enabled = enabled],
         NEW x \in Refreshed(b, ports)
  PROVE  /\ Sound(x) /\ Notes(a, x) /\ x.enabled = enabled /\ x.wires = a.wires
         /\ b = [a EXCEPT !.enabled = enabled] => a.noted \subseteq x.noted
         /\ NoLoops /\ Quiet(a) => Quiet(x)
<1>1. a \in BusRecords
  BY DEF Sound
<1>2. b \in BusRecords
  BY <1>1, BegunIs DEF BusRecords
<1>3. /\ b.gpo = a.gpo /\ b.enabled = enabled /\ b.gpi = a.gpi
      /\ b.managed = a.managed /\ b.conflicts = a.conflicts
      /\ b.attached = a.attached /\ b.drives = a.drives /\ b.wires = a.wires
  BY <1>1 DEF BusRecords, Begun
<1>4. Beyond(a, b, ports)
  BY <1>3 DEF Beyond
<1>5. b = [a EXCEPT !.enabled = enabled] => b.noted = a.noted
  BY <1>1 DEF BusRecords
<1>6. Quiet(a) => Quiet(b)
  <2>1. b.inputs = a.inputs /\ b.peers = a.peers /\ (b.echoed = a.echoed \/ b.echoed = {})
    BY <1>1 DEF BusRecords, Begun
  <2>2. Quiet(a) => a.echoed = {}
    BY DEF Quiet
  <2> QED BY <1>3, <2>1, <2>2, SameQuiet
<1>7. NoLoops /\ Quiet(a) => Quiet(x)
  BY <1>2, <1>6, RefreshQuiet
<1> QED BY <1>2, <1>3, <1>4, <1>5, <1>7, RefreshKeeps

LEMMA DirectionsKept ==
  ASSUME Sound(bus'), leases' \in LeaseTables, chosen' \in PinWords,
         \A n \in Nodes : DirectionOf(n)'
  PROVE  DeviceBusInv'
BY DEF DeviceBusInv, Sound, Written, Current, KnownConflicts, InConflict

LEMMA SetMaskKeeps ==
  ASSUME DeviceBusInv, NEW p \in Ports, SetDriveMask(p)
  PROVE  Kept
<1>1. bus \in BusRecords /\ Sound(bus) /\ chosen \in PinWords /\ leases \in LeaseTables
  BY DEF DeviceBusInv, Sound
<1>2. PICK mask \in SUBSET OutputsOf(p) :
        /\ bus' \in Refreshed([Begun(bus) EXCEPT !.enabled[p] = mask], {p})
        /\ chosen' = [chosen EXCEPT ![p] =
                    {pn \in PinsOf[p] : IF IsLeased(<<p, pn>>) THEN pn \in @ ELSE pn \in mask}]
        /\ UNCHANGED leases
  BY Zenon DEF SetDriveMask
<1> DEFINE enabled == [bus.enabled EXCEPT ![p] = mask]
           picked == {pn \in PinsOf[p] : IF IsLeased(<<p, pn>>) THEN pn \in chosen[p]
                                          ELSE pn \in mask}
           b == [Begun(bus) EXCEPT !.enabled = enabled]
<1>3. bus' \in Refreshed(b, {p})
  <2>1. Begun(bus).enabled = bus.enabled
    BY <1>1 DEF Begun, BusRecords
  <2> QED BY <1>2, <2>1
<1>4. mask \subseteq AllPins
  BY DEF OutputsOf, AllPins
<1>5. enabled \in PinWords /\ enabled[p] = mask /\ \A q \in Ports \ {p} : enabled[q] = bus.enabled[q]
  BY <1>1, <1>4 DEF BusRecords, PinWords
<1>6. chosen' = [chosen EXCEPT ![p] = picked]
  BY <1>2
<1>7. picked \subseteq AllPins
  BY DEF AllPins
<1>8. \A pn \in PinsOf[p] : pn \in picked <=>
         IF IsLeased(<<p, pn>>) THEN pn \in chosen[p] ELSE pn \in mask
  OBVIOUS
<1> HIDE DEF picked, enabled
<1>9. chosen' \in PinWords /\ chosen'[p] = picked /\ \A q \in Ports \ {p} : chosen'[q] = chosen[q]
  BY <1>1, <1>6, <1>7 DEF PinWords
<1>10. /\ Sound(bus') /\ Notes(bus, bus') /\ bus'.enabled = enabled
      /\ (NoLoops /\ Quiet(bus) => Quiet(bus'))
  <2>1. {p} \in SUBSET Ports
    OBVIOUS
  <2>2. b = [Begun(bus) EXCEPT !.enabled = enabled]
    OBVIOUS
  <2> HIDE DEF b
  <2> QED BY <1>1, <1>3, <1>5, <2>1, <2>2, EnableKeeps
<1>11. ASSUME NEW n \in Nodes  PROVE DirectionOf(n)'
  <2>1. n = <<n[1], n[2]>> /\ n[1] \in Ports /\ n[2] \in PinsOf[n[1]] /\ DirectionOf(n)
    BY NodeTyped DEF DeviceBusInv
  <2>2. leases' = leases
    BY <1>2
  <2>3. CASE n[1] # p
    BY <1>5, <1>9, <1>10, <2>1, <2>2, <2>3 DEF DirectionOf, IsLeased
  <2>4. CASE n[1] = p
    <3>1. n[2] \in picked <=> IF IsLeased(n) THEN n[2] \in chosen[p] ELSE n[2] \in mask
      BY <1>8, <2>1, <2>4
    <3> QED BY <1>5, <1>9, <1>10, <2>1, <2>2, <2>4, <3>1 DEF DirectionOf, IsLeased
  <2> QED BY <2>3, <2>4
<1>12. leases' \in LeaseTables
  BY <1>1, <1>2
<1> QED BY <1>9, <1>10, <1>11, <1>12, DirectionsKept DEF Kept

LEMMA LeaseKeeps ==
  ASSUME DeviceBusInv, NEW o \in Owners, NEW p \in Ports, Lease(o, p)
  PROVE  Kept
<1>1. bus \in BusRecords /\ Sound(bus) /\ chosen \in PinWords /\ leases \in LeaseTables
  BY DEF DeviceBusInv, Sound
<1>a. PICK mask \in (SUBSET {n[2] : n \in {m \in Asked : m[1] = p}}) \ {{}} :
        \E drive \in SUBSET mask :
        /\ leases' = [n \in Nodes |-> IF n[1] = p /\ n[2] \in mask /\ o \notin leases[n].owners
                                  THEN LeasedBy(n, o, n[2] \in drive) ELSE leases[n]]
        /\ bus' \in Refreshed([Begun(bus) EXCEPT !.enabled[p] = (@ \ mask) \cup drive], {p})
        /\ UNCHANGED chosen
  BY Zenon DEF Lease
<1>2. PICK drive \in SUBSET mask :
        /\ leases' = [n \in Nodes |-> IF n[1] = p /\ n[2] \in mask /\ o \notin leases[n].owners
                                  THEN LeasedBy(n, o, n[2] \in drive) ELSE leases[n]]
        /\ bus' \in Refreshed([Begun(bus) EXCEPT !.enabled[p] = (@ \ mask) \cup drive], {p})
        /\ UNCHANGED chosen
  BY <1>a
<1> DEFINE enabled == [bus.enabled EXCEPT ![p] = (@ \ mask) \cup drive]
           b == [Begun(bus) EXCEPT !.enabled = enabled]
<1>3. bus' \in Refreshed(b, {p})
  <2>1. Begun(bus).enabled = bus.enabled
    BY <1>1 DEF Begun, BusRecords
  <2> QED BY <1>2, <2>1
<1>4. mask \subseteq AllPins
  <2>1. Asked \subseteq Nodes
    BY DeviceAssumption
  <2> QED BY <2>1, NodeTyped
<1>5. enabled \in PinWords /\ enabled[p] = (bus.enabled[p] \ mask) \cup drive
      /\ \A q \in Ports \ {p} : enabled[q] = bus.enabled[q]
  BY <1>1, <1>4 DEF BusRecords, PinWords
<1> HIDE DEF enabled
<1>6. /\ Sound(bus') /\ Notes(bus, bus') /\ bus'.enabled = enabled
      /\ (NoLoops /\ Quiet(bus) => Quiet(bus'))
  <2>1. {p} \in SUBSET Ports
    OBVIOUS
  <2>2. b = [Begun(bus) EXCEPT !.enabled = enabled]
    OBVIOUS
  <2> HIDE DEF b
  <2> QED BY <1>1, <1>3, <1>5, <2>1, <2>2, EnableKeeps
<1>7. ASSUME NEW n \in Nodes
      PROVE  leases'[n] \in [owners : SUBSET Owners, was : BOOLEAN, drive : BOOLEAN] /\ DirectionOf(n)'
  <2>1. n[1] \in Ports /\ n[2] \in PinsOf[n[1]] /\ DirectionOf(n)
    BY NodeTyped DEF DeviceBusInv
  <2>2. leases[n] \in [owners : SUBSET Owners, was : BOOLEAN, drive : BOOLEAN]
    BY <1>1 DEF LeaseTables
  <2>3. chosen' = chosen
    BY <1>2
  <2>4. CASE n[1] = p /\ n[2] \in mask /\ o \notin leases[n].owners
    <3>1. leases'[n] = LeasedBy(n, o, n[2] \in drive)
      BY <1>2, <2>4
    <3>2. CASE IsLeased(n)
      <4>1. leases'[n] = [leases[n] EXCEPT !.owners = @ \cup {o}]
        BY <3>1, <3>2 DEF LeasedBy
      <4>2. /\ leases'[n] \in [owners : SUBSET Owners, was : BOOLEAN, drive : BOOLEAN]
            /\ leases'[n].was = leases[n].was /\ leases'[n].owners # {}
        BY <2>2, <4>1
      <4> QED BY <2>1, <2>3, <3>2, <4>2 DEF DirectionOf, IsLeased
    <3>3. CASE ~IsLeased(n)
      <4>1. leases'[n] = [owners |-> {o}, was |-> n[2] \in bus.enabled[n[1]], drive |-> n[2] \in drive]
        BY <3>1, <3>3 DEF LeasedBy
      <4>2. leases'[n].owners = {o} /\ (leases'[n].was <=> n[2] \in bus.enabled[n[1]])
        <5> DEFINE was == n[2] \in bus.enabled[n[1]]
                   way == n[2] \in drive
        <5>1. leases'[n] = [owners |-> {o}, was |-> was, drive |-> way]
          BY <4>1
        <5> HIDE DEF was, way
        <5>2. leases'[n].owners = {o} /\ leases'[n].was = was
          BY <5>1
        <5> QED BY <5>2 DEF was
      <4>4. leases'[n] \in [owners : SUBSET Owners, was : BOOLEAN, drive : BOOLEAN]
        BY <4>1
      <4>3. n[2] \in bus.enabled[n[1]] <=> n[2] \in chosen[n[1]]
        BY <2>1, <3>3 DEF DirectionOf
      <4>5. DirectionOf(n)'
        BY <2>3, <4>2, <4>3 DEF DirectionOf, IsLeased
      <4> QED BY <4>4, <4>5
    <3> QED BY <3>2, <3>3
  <2>5. CASE ~(n[1] = p /\ n[2] \in mask /\ o \notin leases[n].owners)
    <3>1. leases'[n] = leases[n]
      BY <1>2, <2>5
    <3>2. IsLeased(n) \/ (n[2] \in enabled[n[1]] <=> n[2] \in bus.enabled[n[1]])
      BY <1>5, <2>1, <2>5 DEF IsLeased
    <3> QED BY <1>6, <2>1, <2>2, <2>3, <3>1, <3>2 DEF DirectionOf, IsLeased
  <2> QED BY <2>4, <2>5
<1>8. leases' \in LeaseTables
  <2>1. leases' = [n \in Nodes |-> leases'[n]]
    BY <1>2
  <2> QED BY <1>7, <2>1 DEF LeaseTables
<1>9. chosen' \in PinWords /\ \A n \in Nodes : DirectionOf(n)'
  BY <1>1, <1>2, <1>7
<1> QED BY <1>6, <1>8, <1>9, DirectionsKept DEF Kept

\* An owner that goes gives back exactly the pins nobody else holds.
LEMMA ReleaseDirections ==
  ASSUME DeviceBusInv, NEW o, leases' = LeasesWithout(o), chosen' = chosen,
         \A p \in Ports : bus'.enabled[p] = (bus.enabled[p] \ GivenBack(o, p)) \cup DirectionsBack(o, p)
  PROVE  leases' \in LeaseTables /\ chosen' \in PinWords /\ \A n \in Nodes : DirectionOf(n)'
<1>1. chosen \in PinWords /\ leases \in LeaseTables
  BY DEF DeviceBusInv
<1>2. ASSUME NEW n \in Nodes
      PROVE  leases'[n] \in [owners : SUBSET Owners, was : BOOLEAN, drive : BOOLEAN] /\ DirectionOf(n)'
  <2>1. n = <<n[1], n[2]>> /\ n[1] \in Ports /\ n[2] \in PinsOf[n[1]] /\ DirectionOf(n)
    BY NodeTyped DEF DeviceBusInv
  <2>2. leases[n] \in [owners : SUBSET Owners, was : BOOLEAN, drive : BOOLEAN]
    BY <1>1 DEF LeaseTables
  <2>3. leases'[n] = IF leases[n].owners = {o} THEN NotLeased
                     ELSE [leases[n] EXCEPT !.owners = @ \ {o}]
    BY DEF LeasesWithout
  <2>4. /\ n[2] \in GivenBack(o, n[1]) <=> leases[n].owners = {o}
        /\ n[2] \in DirectionsBack(o, n[1]) <=> leases[n].owners = {o} /\ leases[n].was
    BY <2>1, Zenon DEF GivenBack, DirectionsBack
  <2>5. bus'.enabled[n[1]] = (bus.enabled[n[1]] \ GivenBack(o, n[1])) \cup DirectionsBack(o, n[1])
    BY <2>1
  <2>6. CASE leases[n].owners = {o}
    <3>1. leases'[n] = NotLeased /\ IsLeased(n) /\ ~IsLeased(n)'
      BY <2>3, <2>6 DEF IsLeased, NotLeased
    <3>2. n[2] \in bus'.enabled[n[1]] <=> leases[n].was
      BY <2>4, <2>5, <2>6
    <3>3. NotLeased \in [owners : SUBSET Owners, was : BOOLEAN, drive : BOOLEAN]
      BY DEF NotLeased
    <3> QED BY <2>1, <3>1, <3>2, <3>3 DEF DirectionOf
  <2>7. CASE leases[n].owners # {o}
    <3>1. leases'[n] = [leases[n] EXCEPT !.owners = @ \ {o}]
      BY <2>3, <2>7
    <3>2. /\ leases'[n] \in [owners : SUBSET Owners, was : BOOLEAN, drive : BOOLEAN]
          /\ leases'[n].was = leases[n].was /\ leases'[n].owners = leases[n].owners \ {o}
      BY <2>2, <3>1
    <3>3. IsLeased(n)' <=> IsLeased(n)
      BY <2>7, <3>2 DEF IsLeased
    <3>4. n[2] \in bus'.enabled[n[1]] <=> n[2] \in bus.enabled[n[1]]
      BY <2>4, <2>5, <2>7
    <3> QED BY <2>1, <3>2, <3>3, <3>4 DEF DirectionOf
  <2> QED BY <2>6, <2>7
<1>3. leases' \in LeaseTables
  <2>1. leases' = [n \in Nodes |-> leases'[n]]
    BY DEF LeasesWithout
  <2> QED BY <1>2, <2>1 DEF LeaseTables
<1> QED BY <1>1, <1>2, <1>3

\* The directions that a release computes.
LEMMA ReleasedIs ==
  ASSUME NEW a \in BusRecords, NEW o
  PROVE  \E enabled \in PinWords :
           /\ Released(a, o) = [a EXCEPT !.enabled = enabled]
           /\ Released(Begun(a), o) = [Begun(a) EXCEPT !.enabled = enabled]
           /\ \A p \in Ports : enabled[p] = (a.enabled[p] \ GivenBack(o, p)) \cup DirectionsBack(o, p)
           /\ \A p \in Ports \ Restoring(o) : enabled[p] = a.enabled[p]
<1> DEFINE enabled == [p \in Ports |-> (a.enabled[p] \ GivenBack(o, p)) \cup DirectionsBack(o, p)]
<1>1. enabled \in PinWords
  <2>1. ASSUME NEW p \in Ports  PROVE enabled[p] \in SUBSET AllPins
    <3>1. a.enabled[p] \in SUBSET AllPins
      BY DEF BusRecords, PinWords
    <3>2. DirectionsBack(o, p) \subseteq AllPins
      BY DEF DirectionsBack, GivenBack, AllPins
    <3> QED BY <3>1, <3>2
  <2> QED BY <2>1 DEF PinWords
<1>2. Begun(a).enabled = a.enabled
  BY DEF Begun, BusRecords
<1>3. /\ Released(a, o) = [a EXCEPT !.enabled = enabled]
      /\ Released(Begun(a), o) = [Begun(a) EXCEPT !.enabled = enabled]
  BY <1>2 DEF Released
<1>4. \A p \in Ports \ Restoring(o) : GivenBack(o, p) = {} /\ DirectionsBack(o, p) = {}
  BY DEF Restoring, DirectionsBack
<1>5. \A p \in Ports : enabled[p] = (a.enabled[p] \ GivenBack(o, p)) \cup DirectionsBack(o, p)
  OBVIOUS
<1>6. \A p \in Ports \ Restoring(o) : enabled[p] = a.enabled[p]
  BY <1>4, <1>5
<1> HIDE DEF enabled
<1> WITNESS enabled \in PinWords
<1> QED BY <1>3, <1>5, <1>6

LEMMA SameNetsKeeps ==
  ASSUME NEW a, Sound(a), NEW x \in BusRecords, SameNets(a, x), x.gpi = a.gpi,
         x.managed = a.managed, x.conflicts = a.conflicts
  PROVE  Sound(x) /\ Notes(a, x)
<1>1. Written(x)
  BY SameWord DEF Sound, Written, Current
<1>2. KnownConflicts(x)
  BY SameWord DEF Sound, KnownConflicts, InConflict
<1>3. \A n \in Nodes : NetOf(x, n) = NetOf(a, n) /\ (InConflict(x, n) <=> InConflict(a, n))
  BY SameWord DEF InConflict
<1>4. Notes(a, x)
  BY <1>3, NetTyped DEF Notes, Newly, Sound
<1> QED BY <1>1, <1>2, <1>4 DEF Sound

LEMMA ReleaseKeeps ==
  ASSUME DeviceBusInv, NEW o \in Owners, Release(o)
  PROVE  Kept
<1>1. bus \in BusRecords /\ Sound(bus)
  BY DEF DeviceBusInv, Sound
<1>2. /\ leases' = LeasesWithout(o) /\ chosen' = chosen
      /\ IF Restoring(o) = {} THEN bus' = Begun(bus)
         ELSE bus' \in Refreshed(Released(Begun(bus), o), Restoring(o))
  BY DEF Release
<1>3. PICK enabled \in PinWords :
           /\ Released(Begun(bus), o) = [Begun(bus) EXCEPT !.enabled = enabled]
           /\ \A p \in Ports : enabled[p] = (bus.enabled[p] \ GivenBack(o, p)) \cup DirectionsBack(o, p)
           /\ \A p \in Ports \ Restoring(o) : enabled[p] = bus.enabled[p]
  BY <1>1, ReleasedIs
<1>4. /\ Sound(bus') /\ Notes(bus, bus') /\ \A p \in Ports : bus'.enabled[p] = enabled[p]
      /\ (NoLoops /\ Quiet(bus) => Quiet(bus'))
  <2>1. CASE Restoring(o) = {}
    <3>1. bus' = Begun(bus) /\ bus'.enabled = bus.enabled
      BY <1>1, <1>2, <2>1, BegunIs DEF SameNets
    <3>2. Sound(bus') /\ Notes(bus, bus')
      BY <1>1, <3>1, BegunIs, SameNetsKeeps
    <3>3. Quiet(bus) => Quiet(bus')
      BY <1>1, <3>1, BegunIs, SameQuiet DEF SameNets
    <3> QED BY <1>3, <2>1, <3>1, <3>2, <3>3
  <2>2. CASE Restoring(o) # {}
    <3>1. bus' \in Refreshed([Begun(bus) EXCEPT !.enabled = enabled], Restoring(o))
      BY <1>2, <1>3, <2>2
    <3>2. Restoring(o) \in SUBSET Ports
      BY DEF Restoring
    <3> DEFINE b == [Begun(bus) EXCEPT !.enabled = enabled]
    <3>3. b = [Begun(bus) EXCEPT !.enabled = enabled] /\ bus' \in Refreshed(b, Restoring(o))
      BY <3>1
    <3> HIDE DEF b
    <3> QED BY <1>1, <1>3, <3>2, <3>3, EnableKeeps
  <2> QED BY <2>1, <2>2
<1>5. leases' \in LeaseTables /\ chosen' \in PinWords /\ \A n \in Nodes : DirectionOf(n)'
  BY <1>2, <1>3, <1>4, ReleaseDirections
<1> QED BY <1>4, <1>5, DirectionsKept DEF Kept

\* A record that is made in the first of two steps is kept by the second.
LEMMA NotedTwice ==
  ASSUME NEW a \in BusRecords, NEW y \in BusRecords, NEW x \in BusRecords,
         Notes(a, y), Notes(y, x), y.noted \subseteq x.noted,
         y.wires = a.wires, x.wires = a.wires
  PROVE  Notes(a, x)
<1> SUFFICES ASSUME NEW n \in Nodes, Newly(a, x, n)  PROVE Root(x, n) \in x.noted
  BY DEF Notes
<1>1. \A m \in Nodes : /\ NetOf(x, m) = NetOf(a, m) /\ NetOf(y, m) = NetOf(a, m)
                       /\ Root(x, m) = Root(a, m) /\ Root(y, m) = Root(a, m)
  BY DEF NetOf, Root
<1>2. CASE \E m \in NetOf(x, n) : InConflict(y, m)
  <2>1. PICK m \in NetOf(x, n) : InConflict(y, m)
    BY <1>2
  <2>2. m \in Nodes
    BY NetTyped
  <2>3. NetOf(a, m) = NetOf(a, n) /\ Root(a, m) = Root(a, n)
    <3>1. CASE \E w \in a.wires : m \in w /\ n \in w
      <4>1. PICK w \in a.wires : m \in w /\ n \in w
        BY <3>1
      <4>2. \A v \in a.wires : v \in WireChoices
        BY DEF BusRecords
      <4>3. \A v \in a.wires : (m \in v <=> v = w) /\ (n \in v <=> v = w)
        BY <4>1, <4>2, WireAssumption
      <4>4. {v \in a.wires : m \in v} = {w} /\ {v \in a.wires : n \in v} = {w}
        BY <4>1, <4>3
      <4>5. (CHOOSE v \in a.wires : m \in v) = w /\ (CHOOSE v \in a.wires : n \in v) = w
        BY <4>1, <4>3
      <4>6. NetOf(a, m) = {m} \cup w /\ NetOf(a, n) = {n} \cup w
        BY <4>4 DEF NetOf
      <4> QED BY <4>1, <4>5, <4>6 DEF Root
    <3>2. CASE ~\E w \in a.wires : m \in w /\ n \in w
      <4>1. m \in NetOf(a, n)
        BY <1>1, <2>1
      <4>2. m = n
        BY <3>2, <4>1 DEF NetOf
      <4> QED BY <4>2
    <3> QED BY <3>1, <3>2
  <2>4. Newly(a, y, m)
    <3>1. NetOf(y, m) = NetOf(x, n)
      BY <1>1, <2>2, <2>3
    <3> QED BY <2>1, <3>1 DEF Newly
  <2>5. Root(y, m) \in y.noted
    BY <2>2, <2>4 DEF Notes
  <2> QED BY <1>1, <2>2, <2>3, <2>5
<1>3. CASE ~\E m \in NetOf(x, n) : InConflict(y, m)
  <2>1. Newly(y, x, n)
    BY <1>3 DEF Newly
  <2> QED BY <2>1 DEF Notes
<1> QED BY <1>2, <1>3

LEMMA DetachKeeps ==
  ASSUME DeviceBusInv, NEW d \in Devices, Detach(d)
  PROVE  Kept
<1>1. bus \in BusRecords /\ Sound(bus) /\ leases \in LeaseTables
  BY DEF DeviceBusInv, Sound
<1> DEFINE gone == [Begun(bus) EXCEPT !.attached = @ \ {d}, !.drives[d] = Silent,
                                    !.inputs[d] = NoInput, !.peers[d] = {}]
<1>2. PICK left \in Refreshed(gone, {Home[d]}) :
        IF Restoring(d) = {} THEN bus' = left
        ELSE bus' \in Refreshed(Released(left, d), Restoring(d))
  BY DEF Detach
<1>3. leases' = (IF d \in Owners THEN LeasesWithout(d) ELSE leases) /\ chosen' = chosen
  BY DEF Detach
<1>4. Silent \in Drives
  BY DEF Silent, Drives
<1>5. gone \in BusRecords
  BY <1>1, <1>4, BegunIs DEF BusRecords
<1>6. /\ gone.gpo = bus.gpo /\ gone.enabled = bus.enabled /\ gone.gpi = bus.gpi
      /\ gone.managed = bus.managed /\ gone.wires = bus.wires /\ gone.conflicts = bus.conflicts
      /\ gone.attached = bus.attached \ {d}
      /\ \A e \in Devices : e # d => gone.drives[e] = bus.drives[e]
  BY <1>1 DEF BusRecords, Begun
<1>a. /\ gone.echoed = {} /\ gone.inputs[d] = NoInput
      /\ \A e \in Devices : e # d => gone.inputs[e] = bus.inputs[e] /\ gone.peers[e] = bus.peers[e]
  BY <1>1 DEF BusRecords, Begun
<1> HIDE DEF gone
<1>7. Beyond(bus, gone, {Home[d]})
  BY <1>6 DEF Beyond
<1>8. {Home[d]} \in SUBSET Ports
  BY HomeTyped
<1>9. /\ Sound(left) /\ Notes(bus, left) /\ left.enabled = bus.enabled /\ left.wires = bus.wires
  BY <1>1, <1>2, <1>5, <1>6, <1>7, <1>8, RefreshKeeps
<1>10. left \in BusRecords
  BY <1>9 DEF Sound
<1>b. ASSUME NoLoops, Quiet(bus)  PROVE Quiet(left)
  <2>1. bus.attached \subseteq Devices
    BY <1>1 DEF BusRecords
  <2>2. Quiet(gone)
    BY <1>6, <1>a, <1>b, <2>1, AnewQuiet DEF Quiet
  <2> QED BY <1>2, <1>5, <1>8, <1>b, <2>2, RefreshQuiet
<1>11. PICK enabled \in PinWords :
           /\ Released(left, d) = [left EXCEPT !.enabled = enabled]
           /\ \A p \in Ports : enabled[p] = (bus.enabled[p] \ GivenBack(d, p)) \cup DirectionsBack(d, p)
           /\ \A p \in Ports \ Restoring(d) : enabled[p] = bus.enabled[p]
  BY <1>9, <1>10, ReleasedIs
<1>12. /\ Sound(bus') /\ Notes(bus, bus') /\ \A p \in Ports : bus'.enabled[p] = enabled[p]
       /\ (NoLoops /\ Quiet(bus) => Quiet(bus'))
  <2>1. CASE Restoring(d) = {}
    BY <1>2, <1>9, <1>11, <1>b, <2>1
  <2>2. CASE Restoring(d) # {}
    <3>1. Restoring(d) \in SUBSET Ports
      BY DEF Restoring
    <3> DEFINE b == [left EXCEPT !.enabled = enabled]
    <3>2. b = [left EXCEPT !.enabled = enabled] /\ bus' \in Refreshed(b, Restoring(d))
      BY <1>2, <1>11, <2>2
    <3> HIDE DEF b
    <3>3. /\ Sound(bus') /\ Notes(left, bus') /\ bus'.enabled = enabled
          /\ bus'.wires = left.wires /\ left.noted \subseteq bus'.noted
          /\ (NoLoops /\ Quiet(left) => Quiet(bus'))
      BY <1>9, <1>11, <3>1, <3>2, EnableKeeps
    <3>4. bus' \in BusRecords
      BY <3>3 DEF Sound
    <3>5. Notes(bus, bus')
      BY <1>1, <1>9, <1>10, <3>3, <3>4, NotedTwice
    <3> QED BY <1>b, <3>3, <3>5
  <2> QED BY <2>1, <2>2
<1>13. leases' \in LeaseTables /\ chosen' \in PinWords /\ \A n \in Nodes : DirectionOf(n)'
  <2>1. leases' = LeasesWithout(d)
    <3>1. CASE d \in Owners
      BY <1>3, <3>1
    <3>2. CASE d \notin Owners
      <4>1. ASSUME NEW n \in Nodes
            PROVE  (IF leases[n].owners = {d} THEN NotLeased
                    ELSE [leases[n] EXCEPT !.owners = @ \ {d}]) = leases[n]
        <5>1. leases[n] \in [owners : SUBSET Owners, was : BOOLEAN, drive : BOOLEAN]
          BY <1>1 DEF LeaseTables
        <5>2. leases[n].owners # {d} /\ leases[n].owners \ {d} = leases[n].owners
          BY <3>2, <5>1
        <5> QED BY <5>1, <5>2
      <4>2. leases = [n \in Nodes |-> leases[n]]
        BY <1>1 DEF LeaseTables
      <4>3. LeasesWithout(d) = leases
        BY <4>1, <4>2 DEF LeasesWithout
      <4> QED BY <1>3, <3>2, <4>3
    <3> QED BY <3>1, <3>2
  <2> QED BY <1>3, <1>11, <1>12, <2>1, ReleaseDirections
<1> QED BY <1>12, <1>13, DirectionsKept DEF Kept

LEMMA PinsKeep ==
  ASSUME DeviceBusInv, Pins  PROVE Kept
<1>1. CASE \E p \in Ports : WriteR30(p) \/ SetDriveMask(p) \/ AdvanceTime(p) \/ ResetPort(p)
  BY <1>1, WriteKeeps, SetMaskKeeps, AdvanceKeeps, ResetKeeps
<1>2. CASE \E d \in Devices : Attach(d) \/ Detach(d)
  BY <1>2, AttachKeeps, DetachKeeps
<1>3. CASE \E o \in Owners : Release(o) \/ \E p \in Ports : Lease(o, p)
  BY <1>3, ReleaseKeeps, LeaseKeeps
<1>4. CASE \E w \in WireChoices : AddWire(w) \/ RemoveWire(w)
  BY <1>4, WiresKeep
<1> QED BY <1>1, <1>2, <1>3, <1>4 DEF Pins

\* The invariant holds whatever is attached, wired, leased, written and reset.
THEOREM BusInductive == DeviceBusSpec => []DeviceBusInv
<1>1. ASSUME DeviceBusInv, UNCHANGED busVars  PROVE DeviceBusInv'
  BY <1>1 DEF busVars, DeviceBusInv, Sound, Written, Current, KnownConflicts, InConflict,
              DirectionOf, IsLeased
<1>2. DeviceBusInv /\ [Pins]_busVars => DeviceBusInv'
  BY <1>1, PinsKeep DEF Kept
<1> QED BY InitSound, <1>2, PTL DEF DeviceBusSpec

\* Every field of the bus, the leases and the chosen directions have the
\* values the type invariant gives them.
THEOREM BusTyped == DeviceBusSpec => []DeviceBusTypeOK
<1>1. ASSUME DeviceBusInv  PROVE DeviceBusTypeOK
  <2>1. bus \in BusRecords /\ leases \in LeaseTables /\ chosen \in PinWords
    BY <1>1 DEF DeviceBusInv, Sound
  <2>2. [f \in DOMAIN bus \ Unmodelled |-> bus[f]] \in BusState
    <3>1. [f \in DOMAIN bus \ Unmodelled |-> bus[f]] =
           [attached |-> bus.attached, gpo |-> bus.gpo, enabled |-> bus.enabled, gpi |-> bus.gpi,
            managed |-> bus.managed, drives |-> bus.drives, wires |-> bus.wires,
            noted |-> bus.noted, echoed |-> bus.echoed]
      <4>1. DOMAIN bus = {"attached", "gpo", "enabled", "gpi", "managed", "drives", "inputs",
                          "wires", "conflicts", "noted", "peers", "echoed"}
        BY <2>1 DEF BusRecords
      <4>2. DOMAIN bus \ Unmodelled = {"attached", "gpo", "enabled", "gpi", "managed",
                                       "drives", "wires", "noted", "echoed"}
        BY <4>1 DEF Unmodelled
      <4> QED BY <4>2
    <3>2. /\ bus.attached \in SUBSET Devices /\ bus.gpo \in PinWords /\ bus.enabled \in PinWords
          /\ bus.gpi \in PinWords /\ bus.managed \in PinWords /\ bus.drives \in [Devices -> Drives]
          /\ bus.wires \in SUBSET WireChoices /\ bus.noted \in SUBSET Nodes
          /\ bus.echoed \in SUBSET Devices
      BY <2>1 DEF BusRecords
    <3> QED BY <3>1, <3>2 DEF BusState
  <2>3. DOMAIN bus.conflicts \subseteq Nodes
    BY <2>1 DEF BusRecords
  <2>4. bus.inputs \in [Devices -> (SUBSET AllPins) \cup {NoInput}]
        /\ bus.peers \in [Devices -> (SUBSET AllPins) \cup {NoInput}]
    BY <2>1 DEF BusRecords
  <2> QED BY <2>1, <2>2, <2>3, <2>4 DEF DeviceBusTypeOK, LeaseTables
<1> QED BY BusInductive, <1>1, PTL

\* Behind every operation each input the bus manages shows the level of its
\* net, for any number of cores, devices, wires and owners.
THEOREM InputsAlwaysCurrent == DeviceBusSpec => []InputsAreCurrent
<1>1. ASSUME DeviceBusInv  PROVE InputsAreCurrent
  BY <1>1, NodeTyped DEF DeviceBusInv, Sound, Written, Current, InputsAreCurrent
<1> QED BY BusInductive, <1>1, PTL

\* A pin nobody leases has the direction the host chose, in whatever order
\* its owners came and went.
THEOREM DirectionsAlwaysReturn == DeviceBusSpec => []DirectionsReturn
<1>1. ASSUME DeviceBusInv  PROVE DirectionsReturn
  BY <1>1 DEF DeviceBusInv, DirectionOf, DirectionsReturn
<1> QED BY BusInductive, <1>1, PTL

\* A net that comes into conflict is recorded by the operation that brought it
\* there, unless that operation removes a wire.
THEOREM ConflictsAlwaysNoted == DeviceBusSpec => ConflictsNoted
<1>1. ASSUME DeviceBusInv, [Pins]_busVars
      PROVE  [\A n \in Nodes : ComesIntoConflict(n) /\ bus.wires \subseteq bus'.wires
                         => Root(bus', n) \in bus'.noted]_busVars
  <2>1. CASE Pins
    <3>1. Notes(bus, bus')
      BY <1>1, <2>1, PinsKeep DEF Kept
    <3>2. \A n : ComesIntoConflict(n) => Newly(bus, bus', n)
      BY DEF ComesIntoConflict, Newly, InConflict
    <3> QED BY <3>1, <3>2 DEF Notes
  <2> QED BY <1>1, <2>1
<1> QED BY BusInductive, <1>1, PTL DEF DeviceBusSpec, ConflictsNoted

\* While no wire joins two pins of one port, a device is never sampled for what
\* it drives itself, by the operation that made it or by any later one.
THEOREM NeverAnEcho == NoLoops /\ DeviceBusSpec => []NoEcho
<1>1. ASSUME DeviceBusInit  PROVE Quiet(bus)
  BY <1>1 DEF DeviceBusInit, Quiet
<1>2. ASSUME NoLoops, DeviceBusInv, Quiet(bus), [Pins]_busVars  PROVE Quiet(bus)'
  BY <1>2, PinsKeep DEF Kept, busVars, Quiet, Rested
<1>3. Quiet(bus) => NoEcho
  BY DEF Quiet, NoEcho
<1> SUFFICES ASSUME NoLoops  PROVE DeviceBusSpec => []NoEcho
  OBVIOUS
<1> QED BY BusInductive, <1>1, <1>2, <1>3, PTL DEF DeviceBusSpec
-----------------------------------------------------------------------------
(* The sigma-delta filter. *)

Bits == {0, 1}

LEMMA WeightTyped == ASSUME NEW s \in Stages, NEW k \in Nat  PROVE Weight(s, k) \in Nat
<1>1. CASE s = 1
  BY <1>1 DEF Weight
<1>2. CASE s = 2
  BY <1>2 DEF Weight
<1>3. CASE s = 3
  <2> DEFINE p == k * (k + 1)
  <2>1. p \in Nat
    OBVIOUS
  <2>2. Weight(s, k) = p \div 2
    BY <1>3 DEF Weight
  <2> HIDE DEF p
  <2> QED BY <2>1, <2>2, DivModParts
<1> QED BY <1>1, <1>2, <1>3 DEF Stages

\* Each stage's weights are the sums of those of the stage before.
LEMMA WeightStep ==
  ASSUME NEW k \in Nat
  PROVE  /\ Weight(1, k + 1) = 1 /\ Weight(1, k) = 1
         /\ Weight(2, k + 1) = Weight(2, k) + Weight(1, k)
         /\ Weight(3, k + 1) = Weight(3, k) + Weight(2, k + 1)
         /\ Weight(2, 1) = 1 /\ Weight(3, 1) = 1
<1>1. Weight(3, k + 1) = Weight(3, k) + Weight(2, k + 1)
  <2> DEFINE p == k * (k + 1)  q == (k + 1) * (k + 2)
  <2>1. p \in Nat /\ q = p + 2 * (k + 1)
    OBVIOUS
  <2>2. (k + 1) + 1 = k + 2
    OBVIOUS
  <2>3. Weight(3, k) = p \div 2 /\ Weight(3, k + 1) = q \div 2 /\ Weight(2, k + 1) = k + 1
    BY <2>2 DEF Weight
  <2> HIDE DEF p, q
  <2>4. q \div 2 = (p \div 2) + (k + 1)
    BY <2>1
  <2> QED BY <2>3, <2>4
<1>2. Weight(3, 1) = 1
  <2>1. (1 * (1 + 1)) \div 2 = 1
    OBVIOUS
  <2> QED BY <2>1 DEF Weight
<1> QED BY <1>1, <1>2 DEF Weight

\* The sum of Weighted, run along the bits.
Sum(s, bits, run) ==
  /\ run \in [0..Len(bits) -> Nat] /\ run[0] = 0
  /\ run[Len(bits)] = Weighted(s, bits)
  /\ \A k \in 1..Len(bits) : run[k] = run[k-1] + bits[k] * Weight(s, Len(bits) - k + 1)

LEMMA Sums ==
  ASSUME NEW s \in Stages, NEW bits \in Seq(Bits)
  PROVE  \E run : Sum(s, bits, run)
<1> DEFINE n == Len(bits)
           terms == [i \in DOMAIN bits |-> bits[i] * Weight(s, Len(bits) - i + 1)]
           f(i, x) == x + terms[i]
           g == [i \in 1..n |-> [x \in Nat |-> f(i, x)]]
<1>0. n \in Nat /\ DOMAIN bits = 1..n
  BY LenProperties
<1>t. \A i \in 1..n : terms[i] \in Nat /\ terms[i] = bits[i] * Weight(s, n - i + 1)
  <2> SUFFICES ASSUME NEW i \in 1..n  PROVE bits[i] * Weight(s, n - i + 1) \in Nat
    BY <1>0
  <2>1. n - i + 1 \in Nat
    BY <1>0
  <2>2. Weight(s, n - i + 1) \in Nat
    BY <2>1, WeightTyped
  <2>3. bits[i] \in {0, 1}
    BY <1>0, ElementOfSeq DEF Bits
  <2> QED BY <2>2, <2>3
<1>1. \A i \in 1..n, x \in Nat : g[i][x] = f(i, x) /\ f(i, x) \in Nat
  <2> HIDE DEF terms, n
  <2> QED BY <1>t
<1> HIDE DEF g
<1>2. Folding(n, Nat, g, 0)
  <2> HIDE DEF f
  <2> QED BY <1>0, <1>1 DEF Folding
<1>3. PICK run : FoldRun(n, Nat, g, 0, run)
  <2> HIDE DEF n
  <2> QED BY <1>2, FoldRuns
<1> DEFINE dom == DOMAIN terms
           Eq(h) == h = [s2 \in SUBSET (1..n) |->
                          IF s2 = {} THEN 0 ELSE f(Max(s2), h[s2 \ {Max(s2)}])]
           h == CHOOSE x : Eq(x)
<1>4. Weighted(s, bits) = h[1..n]
  <2>1. dom = 1..n
    BY <1>0
  <2>2. Weighted(s, bits) =
          LET it == CHOOSE x : x = [s2 \in SUBSET dom |->
                 IF s2 = {} THEN 0 ELSE f(Max(s2), x[s2 \ {Max(s2)}])]
          IN  it[dom]
    BY Zenon DEF Weighted, FoldLeft, MapThenFoldSet
  <2> HIDE DEF dom, f
  <2> QED BY <2>1, <2>2, Zenon
<1>5. \E x : Eq(x)
  <2>1. PICK x \in [SUBSET (1..n) -> Nat] : Table(n, g, 0, x)
    <3> HIDE DEF n
    <3> QED BY <1>2, FoldTable
  <2>2. ASSUME NEW s2 \in SUBSET (1..n)
        PROVE  x[s2] = IF s2 = {} THEN 0 ELSE f(Max(s2), x[s2 \ {Max(s2)}])
    <3>1. CASE s2 = {}
      BY <2>1, <3>1 DEF Table
    <3>2. CASE s2 # {}
      <4>1. Max(s2) \in 1..n
        BY <1>0, <3>2, LastOne
      <4>2. x[s2 \ {Max(s2)}] \in Nat
        BY <2>1
      <4>3. x[s2] = g[Max(s2)][x[s2 \ {Max(s2)}]]
        BY <2>1, <3>2 DEF Table
      <4> HIDE DEF f
      <4> QED BY <1>1, <3>2, <4>1, <4>2, <4>3
    <3> QED BY <3>1, <3>2
  <2> DEFINE H == [s2 \in SUBSET (1..n) |-> IF s2 = {} THEN 0 ELSE f(Max(s2), x[s2 \ {Max(s2)}])]
  <2>3. \A s2 \in SUBSET (1..n) : x[s2] = H[s2]
    <3> HIDE DEF f
    <3> QED BY <2>2
  <2>4. x = H
    <3>1. H = [s2 \in SUBSET (1..n) |-> H[s2]] /\ x = [s2 \in SUBSET (1..n) |-> x[s2]]
      <4> HIDE DEF f
      <4> QED OBVIOUS
    <3> HIDE DEF H
    <3> QED BY <2>3, <3>1
  <2> QED BY <2>4
<1>6. Eq(h)
  <2> HIDE DEF Eq
  <2> QED BY <1>5
<1> HIDE DEF h
<1>7. h[{}] = 0
  BY <1>6
<1>8. ASSUME NEW k \in 1..n, h[1..k-1] \in Nat  PROVE h[1..k] = g[k][h[1..k-1]]
  <2>1. Max(1..k) = k /\ (1..k) \ {k} = 1..k-1 /\ 1..k # {} /\ 1..k \in SUBSET (1..n)
    BY <1>0, LastOfFirst, SMTT(30)
  <2>2. h[1..k] = f(k, h[1..k-1])
    <3> HIDE DEF f
    <3> QED BY <1>6, <2>1
  <2> HIDE DEF f
  <2> QED BY <1>1, <1>8, <2>2
<1>9. h[1..n] = run[n]
  <2> HIDE DEF n, f
  <2> QED BY <1>0, <1>3, <1>7, <1>8, FoldEnds
<1>10. /\ run \in [0..n -> Nat] /\ run[0] = 0
       /\ \A k \in 1..n : run[k] = g[k][run[k-1]]
  BY <1>3 DEF FoldRun
<1>11. ASSUME NEW k \in 1..n  PROVE run[k] = f(k, run[k-1])
  <2>1. k - 1 \in 0..n
    BY <1>0
  <2> HIDE DEF f
  <2> QED BY <1>1, <1>10, <2>1
<1>12. \A k \in 1..n : run[k] = run[k-1] + bits[k] * Weight(s, n - k + 1)
  <2> HIDE DEF terms
  <2> QED BY <1>11, <1>t
<1>13. Sum(s, bits, run)
  BY <1>4, <1>9, <1>10, <1>12, Zenon DEF Sum
<1> QED BY <1>13

LEMMA WeightedTyped ==
  ASSUME NEW s \in Stages, NEW bits \in Seq(Bits)
  PROVE  Weighted(s, bits) \in Nat
<1>1. PICK run : Sum(s, bits, run)
  BY Sums
<1>2. Len(bits) \in 0..Len(bits)
  BY LenProperties
<1> QED BY <1>1, <1>2 DEF Sum

LEMMA WeightedNone == ASSUME NEW s \in Stages  PROVE Weighted(s, << >>) = 0
<1>1. << >> \in Seq(Bits) /\ Len(<< >>) = 0
  BY EmptySeq
<1>2. PICK run : Sum(s, << >>, run)
  BY <1>1, Sums
<1> QED BY <1>1, <1>2 DEF Sum

LEMMA BitTimes ==
  ASSUME NEW b \in Bits, NEW u \in Nat, NEW v \in Nat
  PROVE  b * (u + v) = b * u + b * v /\ b * u \in Nat /\ b * v \in Nat /\ b * 1 = b
  BY DEF Bits

\* One term of each sum, when a bit is added behind.
LEMMA TermsMore ==
  ASSUME NEW b \in Bits, NEW n \in Nat, NEW k \in 1..n
  PROVE  LET j == n - k + 1  i == (n + 1) - k + 1 IN
         /\ b * Weight(1, i) = b * Weight(1, j)
         /\ b * Weight(2, i) = b * Weight(2, j) + b * Weight(1, j)
         /\ b * Weight(3, i) = b * Weight(3, j) + b * Weight(2, i)
         /\ \A s \in Stages : b * Weight(s, i) \in Nat /\ b * Weight(s, j) \in Nat
<1> DEFINE j == n - k + 1  i == (n + 1) - k + 1
<1>1. j \in Nat /\ i = j + 1 /\ i \in Nat
  OBVIOUS
<1> HIDE DEF j, i
<1>2. \A s \in Stages : Weight(s, i) \in Nat /\ Weight(s, j) \in Nat
  BY <1>1, WeightTyped
<1>3. /\ Weight(1, i) = Weight(1, j)
      /\ Weight(2, i) = Weight(2, j) + Weight(1, j)
      /\ Weight(3, i) = Weight(3, j) + Weight(2, i)
  BY <1>1, WeightStep
<1>4. 1 \in Stages /\ 2 \in Stages /\ 3 \in Stages
  BY DEF Stages
<1>5. \A s \in Stages : b * Weight(s, i) \in Nat /\ b * Weight(s, j) \in Nat
  BY <1>2, BitTimes
<1> DEFINE w1 == Weight(1, j)  w2 == Weight(2, j)  w3 == Weight(3, j)  v2 == Weight(2, i)
<1>6. w1 \in Nat /\ w2 \in Nat /\ w3 \in Nat /\ v2 \in Nat
  BY <1>2, <1>4
<1>7. Weight(1, i) = w1 /\ Weight(2, i) = w2 + w1 /\ Weight(3, i) = w3 + v2
  BY <1>3
<1>8. b * (w2 + w1) = b * w2 + b * w1 /\ b * (w3 + v2) = b * w3 + b * v2
  <2> HIDE DEF w1, w2, w3, v2
  <2> QED BY <1>6, BitTimes
<1>9. /\ b * Weight(1, i) = b * Weight(1, j)
      /\ b * Weight(2, i) = b * Weight(2, j) + b * Weight(1, j)
      /\ b * Weight(3, i) = b * Weight(3, j) + b * Weight(2, i)
  <2>1. b * Weight(2, i) = b * w2 + b * w1
    BY <1>7, <1>8, Zenon
  <2>2. b * Weight(3, i) = b * w3 + b * v2
    BY <1>7, <1>8, Zenon
  <2> QED BY <1>3, <2>1, <2>2, Zenon
<1> QED BY <1>5, <1>9 DEF i, j

\* What each stage has summed grows by what the stage before has now.
LEMMA WeightedMore ==
  ASSUME NEW bits \in Seq(Bits), NEW x \in Bits, NEW more, more = Append(bits, x)
  PROVE  /\ Weighted(1, more) = Weighted(1, bits) + x
         /\ Weighted(2, more) = Weighted(2, bits) + Weighted(1, more)
         /\ Weighted(3, more) = Weighted(3, bits) + Weighted(2, more)
<1> DEFINE n == Len(bits)
<1>1. n \in Nat /\ \A k \in 1..n : bits[k] \in Bits
  BY LenProperties, ElementOfSeq
<1>2. more \in Seq(Bits) /\ Len(more) = n + 1 /\ more[n + 1] = x /\ \A k \in 1..n : more[k] = bits[k]
  BY AppendProperties
<1>3. 1 \in Stages /\ 2 \in Stages /\ 3 \in Stages
  BY DEF Stages
<1>4. PICK r1 : Sum(1, bits, r1)
  BY <1>3, Sums
<1>5. PICK r2 : Sum(2, bits, r2)
  BY <1>3, Sums
<1>6. PICK r3 : Sum(3, bits, r3)
  BY <1>3, Sums
<1>7. PICK q1 : Sum(1, more, q1)
  BY <1>2, <1>3, Sums
<1>8. PICK q2 : Sum(2, more, q2)
  BY <1>2, <1>3, Sums
<1>9. PICK q3 : Sum(3, more, q3)
  BY <1>2, <1>3, Sums
<1> HIDE DEF n
<1>10. /\ r1 \in [0..n -> Nat] /\ r2 \in [0..n -> Nat] /\ r3 \in [0..n -> Nat]
       /\ r1[0] = 0 /\ r2[0] = 0 /\ r3[0] = 0
       /\ r1[n] = Weighted(1, bits) /\ r2[n] = Weighted(2, bits) /\ r3[n] = Weighted(3, bits)
  BY <1>4, <1>5, <1>6 DEF Sum, n
<1>11. /\ q1 \in [0..n+1 -> Nat] /\ q2 \in [0..n+1 -> Nat] /\ q3 \in [0..n+1 -> Nat]
       /\ q1[0] = 0 /\ q2[0] = 0 /\ q3[0] = 0
       /\ q1[n+1] = Weighted(1, more) /\ q2[n+1] = Weighted(2, more)
       /\ q3[n+1] = Weighted(3, more)
  BY <1>2, <1>7, <1>8, <1>9 DEF Sum
<1>12. \A k \in 1..n :
         /\ r1[k] = r1[k-1] + bits[k] * Weight(1, n - k + 1)
         /\ r2[k] = r2[k-1] + bits[k] * Weight(2, n - k + 1)
         /\ r3[k] = r3[k-1] + bits[k] * Weight(3, n - k + 1)
  BY <1>4, <1>5, <1>6 DEF Sum, n
<1>13. \A k \in 1..n+1 :
         /\ q1[k] = q1[k-1] + more[k] * Weight(1, (n + 1) - k + 1)
         /\ q2[k] = q2[k-1] + more[k] * Weight(2, (n + 1) - k + 1)
         /\ q3[k] = q3[k-1] + more[k] * Weight(3, (n + 1) - k + 1)
  BY <1>2, <1>7, <1>8, <1>9 DEF Sum
<1> DEFINE Here(k) == q1[k] = r1[k] /\ q2[k] = r2[k] + r1[k] /\ q3[k] = r3[k] + q2[k]
           P == {k \in Nat : k <= n => Here(k)}
<1>14. 0 \in P
  BY <1>10, <1>11
<1>15. ASSUME NEW k \in P  PROVE k + 1 \in P
  <2> DEFINE i == k + 1
  <2> SUFFICES ASSUME i <= n  PROVE Here(i)
    <3> HIDE DEF Here
    <3> QED OBVIOUS
  <2>1. i \in 1..n /\ i \in 1..n+1 /\ i - 1 = k /\ k \in 0..n /\ k \in 0..n+1
    BY <1>1
  <2>2. Here(k)
    BY <2>1
  <2> HIDE DEF i
  <2> DEFINE b == bits[i]
             a1 == b * Weight(1, n - i + 1)
             a2 == b * Weight(2, n - i + 1)
             a3 == b * Weight(3, n - i + 1)
             c1 == b * Weight(1, (n + 1) - i + 1)
             c2 == b * Weight(2, (n + 1) - i + 1)
             c3 == b * Weight(3, (n + 1) - i + 1)
  <2>3. b \in Bits
    BY <1>1, <2>1
  <2>4. /\ c1 = a1 /\ c2 = a2 + a1 /\ c3 = a3 + c2
        /\ \A s \in Stages : b * Weight(s, (n + 1) - i + 1) \in Nat
                             /\ b * Weight(s, n - i + 1) \in Nat
    <3> HIDE DEF b
    <3> QED BY <1>1, <2>1, <2>3, TermsMore
  <2>5. a1 \in Nat /\ a2 \in Nat /\ a3 \in Nat /\ c1 \in Nat /\ c2 \in Nat /\ c3 \in Nat
    BY <1>3, <2>4
  <2>6. r1[i] = r1[k] + a1 /\ r2[i] = r2[k] + a2 /\ r3[i] = r3[k] + a3
    BY <1>12, <2>1
  <2>7. q1[i] = q1[k] + c1 /\ q2[i] = q2[k] + c2 /\ q3[i] = q3[k] + c3
    <3>1. more[i] = b
      BY <1>2, <2>1
    <3> QED BY <1>13, <2>1, <3>1
  <2>8. r1[k] \in Nat /\ r2[k] \in Nat /\ r3[k] \in Nat /\ q2[k] \in Nat
    BY <1>10, <1>11, <2>1
  <2>9. c1 = a1 /\ c2 = a2 + a1 /\ c3 = a3 + c2
    BY <2>4
  <2> DEFINE u1 == r1[k]  u2 == r2[k]  u3 == r3[k]  w2 == q2[k]  w1 == q1[k]  w3 == q3[k]
  <2>10. /\ u1 \in Nat /\ u2 \in Nat /\ u3 \in Nat /\ w2 \in Nat
         /\ w1 = u1 /\ w2 = u2 + u1 /\ w3 = u3 + w2
    BY <2>2, <2>8
  <2> HIDE DEF a1, a2, a3, c1, c2, c3, u1, u2, u3, w1, w2, w3
  <2>11. w1 + c1 = u1 + a1 /\ w2 + c2 = (u2 + a2) + (u1 + a1) /\ w3 + c3 = (u3 + a3) + (w2 + c2)
    <3>1. w1 + c1 = u1 + a1
      BY <2>9, <2>10
    <3>2. w2 + c2 = (u2 + a2) + (u1 + a1)
      BY <2>5, <2>9, <2>10
    <3>3. w3 + c3 = (u3 + a3) + (w2 + c2)
      BY <2>5, <2>9, <2>10
    <3> QED BY <3>1, <3>2, <3>3
  <2>12. /\ r1[i] = u1 + a1 /\ r2[i] = u2 + a2 /\ r3[i] = u3 + a3
         /\ q1[i] = w1 + c1 /\ q2[i] = w2 + c2 /\ q3[i] = w3 + c3
    BY <2>6, <2>7 DEF u1, u2, u3, w1, w2, w3
  <2> QED BY <2>11, <2>12, Zenon
<1>16. P = Nat
  <2> HIDE DEF P
  <2>1. P \in SUBSET Nat
    BY DEF P
  <2> QED BY <1>14, <1>15, <2>1, SetInduction
<1>17. Here(n)
  <2>1. n \in P
    <3> HIDE DEF P
    <3> QED BY <1>1, <1>16
  <2> QED BY <1>1, <2>1
<1>18. q1[n+1] = q1[n] + x /\ q2[n+1] = q2[n] + x /\ q3[n+1] = q3[n] + x
  <2> DEFINE i == n + 1
  <2>1. i \in 1..n+1 /\ i - 1 = n /\ (n + 1) - i + 1 = 1
    BY <1>1
  <2>2. x * 1 = x /\ x * Weight(1, 1) = x /\ x * Weight(2, 1) = x /\ x * Weight(3, 1) = x
    <3>1. Weight(1, 0 + 1) = 1 /\ Weight(2, 1) = 1 /\ Weight(3, 1) = 1
      BY WeightStep
    <3> QED BY <3>1, BitTimes
  <2>3. more[i] = x
    BY <1>2
  <2> HIDE DEF i
  <2>4. /\ q1[i] = q1[n] + x * Weight(1, 1) /\ q2[i] = q2[n] + x * Weight(2, 1)
        /\ q3[i] = q3[n] + x * Weight(3, 1)
    BY <1>13, <2>1, <2>3
  <2> QED BY <2>2, <2>4 DEF i
<1>19. /\ x \in Nat /\ q1[n] \in Nat /\ q2[n] \in Nat /\ q3[n] \in Nat
       /\ r1[n] \in Nat /\ r2[n] \in Nat /\ r3[n] \in Nat
  BY <1>1, <1>10, <1>11 DEF Bits
<1>20. q1[n] = r1[n] /\ q2[n] = r2[n] + r1[n] /\ q3[n] = r3[n] + q2[n]
  BY <1>17
<1> DEFINE a1 == r1[n]  a2 == r2[n]  a3 == r3[n]  b1 == q1[n]  b2 == q2[n]  b3 == q3[n]
<1>21. a1 + x = b1 + x /\ b2 + x = a2 + (b1 + x) /\ b3 + x = a3 + (b2 + x)
  <2>1. /\ x \in Nat /\ a1 \in Nat /\ a2 \in Nat /\ a3 \in Nat
        /\ b1 = a1 /\ b2 = a2 + a1 /\ b3 = a3 + b2 /\ b2 \in Nat
    BY <1>19, <1>20
  <2> HIDE DEF a1, a2, a3, b1, b2, b3
  <2> QED BY <2>1
<1> QED BY <1>10, <1>11, <1>18, <1>21, Zenon

LEMMA AccumulatedTyped ==
  ASSUME NEW acc \in [Stages -> Nat], NEW bit \in Bits
  PROVE  /\ Accumulated(acc, bit) \in [Stages -> Nat]
         /\ Accumulated(acc, bit)[1] = acc[1] + bit
         /\ Accumulated(acc, bit)[2] = acc[2] + (acc[1] + bit)
         /\ Accumulated(acc, bit)[3] = acc[3] + (acc[2] + (acc[1] + bit))
  BY DEF Accumulated, Stages, Bits

LEMMA SampledRecord ==
  ASSUME NEW a, NEW s, NEW v, NEW o, NEW c, NEW r, NEW g, NEW a1, NEW o1, NEW c1, NEW v1,
         NEW ch, ch = [acc |-> a, shadow |-> s, valid |-> v, ovf |-> o,
                       count |-> c, osr |-> r, stage |-> g],
         NEW next, next = [ch EXCEPT !.acc = a1, !.ovf = o1, !.count = c1]
  PROVE  /\ next = [acc |-> a1, shadow |-> s, valid |-> v, ovf |-> o1,
                    count |-> c1, osr |-> r, stage |-> g]
         /\ [next EXCEPT !.shadow = a1, !.valid = v1, !.count = 0]
              = [acc |-> a1, shadow |-> a1, valid |-> v1, ovf |-> o1,
                 count |-> 0, osr |-> r, stage |-> g]
<1> DEFINE x1 == [ch EXCEPT !.acc = a1]
           x2 == [x1 EXCEPT !.ovf = o1]
           x3 == [x2 EXCEPT !.count = c1]
           y1 == [x3 EXCEPT !.shadow = a1]
           y2 == [y1 EXCEPT !.valid = v1]
           y3 == [y2 EXCEPT !.count = 0]
<1>0. next = x3
  BY Zenon
<1>1. x1 = [acc |-> a1, shadow |-> s, valid |-> v, ovf |-> o, count |-> c, osr |-> r, stage |-> g]
  OBVIOUS
<1> HIDE DEF x1
<1>2. x2 = [acc |-> a1, shadow |-> s, valid |-> v, ovf |-> o1, count |-> c, osr |-> r, stage |-> g]
  BY <1>1
<1> HIDE DEF x2
<1>3. x3 = [acc |-> a1, shadow |-> s, valid |-> v, ovf |-> o1, count |-> c1, osr |-> r, stage |-> g]
  BY <1>2
<1> HIDE DEF x3
<1>4. y1 = [acc |-> a1, shadow |-> a1, valid |-> v, ovf |-> o1, count |-> c1, osr |-> r, stage |-> g]
  BY <1>3
<1> HIDE DEF y1
<1>5. y2 = [acc |-> a1, shadow |-> a1, valid |-> v1, ovf |-> o1, count |-> c1, osr |-> r, stage |-> g]
  BY <1>4
<1> HIDE DEF y2
<1>6. y3 = [acc |-> a1, shadow |-> a1, valid |-> v1, ovf |-> o1, count |-> 0, osr |-> r, stage |-> g]
  BY <1>5
<1>7. next = [acc |-> a1, shadow |-> s, valid |-> v, ovf |-> o1,
              count |-> c1, osr |-> r, stage |-> g]
  BY <1>0, <1>3
<1>8. [next EXCEPT !.shadow = a1, !.valid = v1, !.count = 0] = y3
  BY <1>0, Zenon DEF y2, y1
<1> QED BY <1>6, <1>7, <1>8, Zenon

\* One sample: the fields afterwards.
LEMMA TickFields ==
  ASSUME NEW ch \in SdChannel, NEW bit \in Bits, NEW x, x = TickChannel(ch, bit)
  PROVE  /\ x \in SdChannel
         /\ x.acc = Accumulated(ch.acc, bit) /\ x.osr = ch.osr
         /\ ch.count + 1 >= ch.osr => x.shadow = x.acc /\ x.count = 0
         /\ ~(ch.count + 1 >= ch.osr) => x.shadow = ch.shadow /\ x.count = ch.count + 1
<1> DEFINE acc == Accumulated(ch.acc, bit)
           over == ch.ovf \/ acc[3] >= 2^DataBits
           next == [ch EXCEPT !.acc = acc, !.ovf = over, !.count = @ + 1]
           yes == TRUE
           latch == [next EXCEPT !.shadow = acc, !.valid = yes, !.count = 0]
           more == ch.count + 1
<1>1. ch = [acc |-> ch.acc, shadow |-> ch.shadow, valid |-> ch.valid, ovf |-> ch.ovf,
            count |-> ch.count, osr |-> ch.osr, stage |-> ch.stage]
      /\ ch.acc \in [Stages -> Nat] /\ ch.shadow \in [Stages -> Nat] /\ ch.valid \in BOOLEAN
      /\ ch.count \in Nat /\ ch.osr \in OsrValues /\ ch.stage \in Stages
  BY DEF SdChannel
<1>2. acc \in [Stages -> Nat]
  BY <1>1, AccumulatedTyped
<1>3. over \in BOOLEAN /\ yes \in BOOLEAN
  OBVIOUS
<1>4. x = IF ch.count + 1 >= ch.osr THEN latch ELSE next
  BY Zenon DEF TickChannel
<1> HIDE DEF acc, over, yes
<1>5. /\ next = [acc |-> acc, shadow |-> ch.shadow, valid |-> ch.valid, ovf |-> over,
                 count |-> more, osr |-> ch.osr, stage |-> ch.stage]
      /\ latch = [acc |-> acc, shadow |-> acc, valid |-> yes, ovf |-> over,
                  count |-> 0, osr |-> ch.osr, stage |-> ch.stage]
  <2> DEFINE a0 == ch.acc  s0 == ch.shadow  v0 == ch.valid  o0 == ch.ovf
             c0 == ch.count  r0 == ch.osr  g0 == ch.stage
  <2>1. ch = [acc |-> a0, shadow |-> s0, valid |-> v0, ovf |-> o0,
              count |-> c0, osr |-> r0, stage |-> g0]
    BY <1>1
  <2>2. next = [ch EXCEPT !.acc = acc, !.ovf = over, !.count = more]
    BY Zenon
  <2>3. latch = [next EXCEPT !.shadow = acc, !.valid = yes, !.count = 0]
    BY Zenon
  <2> HIDE DEF next, latch, more, a0, s0, v0, o0, c0, r0, g0
  <2>4. /\ next = [acc |-> acc, shadow |-> s0, valid |-> v0, ovf |-> over,
                   count |-> more, osr |-> r0, stage |-> g0]
        /\ latch = [acc |-> acc, shadow |-> acc, valid |-> yes, ovf |-> over,
                    count |-> 0, osr |-> r0, stage |-> g0]
    BY <2>1, <2>2, <2>3, SampledRecord, Zenon
  <2> QED BY <2>4 DEF s0, v0, r0, g0
<1> HIDE DEF next, latch
<1>7. more \in Nat /\ more = ch.count + 1
  BY <1>1
<1> HIDE DEF more
<1>8. next \in SdChannel /\ next.acc = acc /\ next.osr = ch.osr
      /\ next.shadow = ch.shadow /\ next.count = more
  BY <1>1, <1>2, <1>3, <1>5, <1>7 DEF SdChannel
<1>9. latch \in SdChannel /\ latch.acc = acc /\ latch.osr = ch.osr
      /\ latch.shadow = acc /\ latch.count = 0
  BY <1>1, <1>2, <1>3, <1>5 DEF SdChannel
<1>10. CASE ch.count + 1 >= ch.osr
  BY <1>4, <1>9, <1>10 DEF acc
<1>11. CASE ~(ch.count + 1 >= ch.osr)
  BY <1>4, <1>7, <1>8, <1>11 DEF acc
<1> QED BY <1>10, <1>11

LEMMA TickTyped ==
  ASSUME NEW ch \in SdChannel, NEW bit \in Bits
  PROVE  TickChannel(ch, bit) \in SdChannel
  BY TickFields

\* A channel takes its samples one by one.
SampleRun(ch, bits, run) ==
  /\ run \in [0..Len(bits) -> SdChannel] /\ run[0] = ch
  /\ run[Len(bits)] = Taken(ch, bits)
  /\ \A k \in 1..Len(bits) : run[k] = TickChannel(run[k-1], bits[k])

LEMMA SampleRuns ==
  ASSUME NEW ch \in SdChannel, NEW bits \in Seq(Bits)
  PROVE  \E run : SampleRun(ch, bits, run)
<1> DEFINE n == Len(bits)
           S == SdChannel
           f(i, x) == TickChannel(x, bits[i])
           g == [i \in 1..n |-> [x \in S |-> f(i, x)]]
<1>0. n \in Nat /\ DOMAIN bits = 1..n
  BY LenProperties
<1>1. \A i \in 1..n, x \in S : g[i][x] = f(i, x) /\ f(i, x) \in S
  <2> SUFFICES ASSUME NEW i \in 1..n, NEW x \in S  PROVE f(i, x) \in S
    <3> HIDE DEF f
    <3> QED OBVIOUS
  <2>1. bits[i] \in Bits
    BY <1>0, ElementOfSeq
  <2> QED BY <2>1, TickTyped
<1> HIDE DEF g
<1>2. Folding(n, S, g, ch)
  <2> HIDE DEF f, S
  <2>1. ch \in S
    BY DEF S
  <2> QED BY <1>0, <1>1, <2>1 DEF Folding
<1>3. PICK run : FoldRun(n, S, g, ch, run)
  <2> HIDE DEF n, S
  <2> QED BY <1>2, FoldRuns
<1> DEFINE dom == DOMAIN bits
           Eq(h) == h = [s2 \in SUBSET (1..n) |->
                          IF s2 = {} THEN ch ELSE f(Max(s2), h[s2 \ {Max(s2)}])]
           h == CHOOSE x : Eq(x)
<1>4. Taken(ch, bits) = h[1..n]
  <2>1. dom = 1..n
    BY <1>0
  <2>2. Taken(ch, bits) =
          LET it == CHOOSE x : x = [s2 \in SUBSET dom |->
                 IF s2 = {} THEN ch ELSE f(Max(s2), x[s2 \ {Max(s2)}])]
          IN  it[dom]
    BY Zenon DEF Taken, FoldLeft, MapThenFoldSet
  <2> HIDE DEF dom, f
  <2> QED BY <2>1, <2>2, Zenon
<1>5. \E x : Eq(x)
  <2>1. PICK x \in [SUBSET (1..n) -> S] : Table(n, g, ch, x)
    <3> HIDE DEF n, S
    <3> QED BY <1>2, FoldTable
  <2>2. ASSUME NEW s2 \in SUBSET (1..n)
        PROVE  x[s2] = IF s2 = {} THEN ch ELSE f(Max(s2), x[s2 \ {Max(s2)}])
    <3>1. CASE s2 = {}
      BY <2>1, <3>1 DEF Table
    <3>2. CASE s2 # {}
      <4>1. Max(s2) \in 1..n
        BY <1>0, <3>2, LastOne
      <4>2. x[s2 \ {Max(s2)}] \in S
        BY <2>1
      <4>3. x[s2] = g[Max(s2)][x[s2 \ {Max(s2)}]]
        BY <2>1, <3>2 DEF Table
      <4> HIDE DEF f
      <4> QED BY <1>1, <3>2, <4>1, <4>2, <4>3
    <3> QED BY <3>1, <3>2
  <2> DEFINE H == [s2 \in SUBSET (1..n) |-> IF s2 = {} THEN ch ELSE f(Max(s2), x[s2 \ {Max(s2)}])]
  <2>3. \A s2 \in SUBSET (1..n) : x[s2] = H[s2]
    <3> HIDE DEF f
    <3> QED BY <2>2
  <2>4. x = H
    <3>1. H = [s2 \in SUBSET (1..n) |-> H[s2]] /\ x = [s2 \in SUBSET (1..n) |-> x[s2]]
      <4> HIDE DEF f
      <4> QED OBVIOUS
    <3> HIDE DEF H
    <3> QED BY <2>3, <3>1
  <2> QED BY <2>4
<1>6. Eq(h)
  <2> HIDE DEF Eq
  <2> QED BY <1>5
<1> HIDE DEF h
<1>7. h[{}] = ch
  BY <1>6
<1>8. ASSUME NEW k \in 1..n, h[1..k-1] \in S  PROVE h[1..k] = g[k][h[1..k-1]]
  <2>1. Max(1..k) = k /\ (1..k) \ {k} = 1..k-1 /\ 1..k # {} /\ 1..k \in SUBSET (1..n)
    BY <1>0, LastOfFirst, SMTT(30)
  <2>2. h[1..k] = f(k, h[1..k-1])
    <3> HIDE DEF f
    <3> QED BY <1>6, <2>1
  <2> HIDE DEF f
  <2> QED BY <1>1, <1>8, <2>2
<1>9. h[1..n] = run[n]
  <2> HIDE DEF n, f, S
  <2> QED BY <1>0, <1>3, <1>7, <1>8, FoldEnds
<1>10. /\ run \in [0..n -> S] /\ run[0] = ch
       /\ \A k \in 1..n : run[k] = g[k][run[k-1]]
  BY <1>3 DEF FoldRun
<1>11. ASSUME NEW k \in 1..n  PROVE run[k] = f(k, run[k-1])
  <2>1. k - 1 \in 0..n
    BY <1>0
  <2> HIDE DEF f
  <2> QED BY <1>1, <1>10, <2>1
<1>13. SampleRun(ch, bits, run)
  BY <1>4, <1>9, <1>10, <1>11, Zenon DEF SampleRun
<1> QED BY <1>13

\* The channel has filtered the samples all, and latched with those in with.
Filters(ch, all, with) ==
  /\ ch \in SdChannel /\ all \in Seq(Bits) /\ with \in Seq(Bits)
  /\ \A s \in Stages : ch.acc[s] = Weighted(s, all) /\ ch.shadow[s] = Weighted(s, with)

\* What one bit more adds to each sum.
SumsGrow(all, bit) ==
  LET more == Append(all, bit)
  IN  /\ Weighted(1, more) = Weighted(1, all) + bit
      /\ Weighted(2, more) = Weighted(2, all) + Weighted(1, more)
      /\ Weighted(3, more) = Weighted(3, all) + Weighted(2, more)

LEMMA WeightedGrown ==
  ASSUME NEW all \in Seq(Bits), NEW bit \in Bits  PROVE SumsGrow(all, bit)
<1> DEFINE more == Append(all, bit)
<1>1. more = Append(all, bit)
  OBVIOUS
<1> HIDE DEF more
<1>2. /\ Weighted(1, more) = Weighted(1, all) + bit
      /\ Weighted(2, more) = Weighted(2, all) + Weighted(1, more)
      /\ Weighted(3, more) = Weighted(3, all) + Weighted(2, more)
  BY <1>1, WeightedMore, ZenonT(40)
<1> QED BY <1>1, <1>2, Zenon DEF SumsGrow

\* The accumulators are the sums over the samples all.
Summed(ch, all) == \A s \in Stages : ch.acc[s] = Weighted(s, all)

\* A sample adds to every stage what the sum says.
LEMMA SampleAdds ==
  ASSUME NEW ch \in SdChannel, NEW bit \in Bits, NEW all \in Seq(Bits), Summed(ch, all)
  PROVE  Summed(TickChannel(ch, bit), Append(all, bit))
<1> DEFINE acc == Accumulated(ch.acc, bit)
           more == Append(all, bit)
<1>1. ch.acc \in [Stages -> Nat]
  BY DEF SdChannel
<1>2. 1 \in Stages /\ 2 \in Stages /\ 3 \in Stages /\ \A s \in Stages : s = 1 \/ s = 2 \/ s = 3
  BY DEF Stages
<1>3. acc[1] = ch.acc[1] + bit /\ acc[2] = ch.acc[2] + acc[1] /\ acc[3] = ch.acc[3] + acc[2]
  BY <1>1, AccumulatedTyped
<1>4. SumsGrow(all, bit)
  BY WeightedGrown, Zenon
<1>5. /\ Weighted(1, more) = Weighted(1, all) + bit
      /\ Weighted(2, more) = Weighted(2, all) + Weighted(1, more)
      /\ Weighted(3, more) = Weighted(3, all) + Weighted(2, more)
  BY <1>4, Zenon DEF SumsGrow
<1>6. TickChannel(ch, bit).acc = acc
  BY TickFields
<1>7. ch.acc[1] = Weighted(1, all) /\ ch.acc[2] = Weighted(2, all) /\ ch.acc[3] = Weighted(3, all)
  BY <1>2 DEF Summed
<1> HIDE DEF acc, more
<1>8. acc[1] = Weighted(1, more)
  BY <1>3, <1>5, <1>7
<1>9. acc[2] = Weighted(2, more)
  BY <1>3, <1>5, <1>7, <1>8
<1>10. acc[3] = Weighted(3, more)
  BY <1>3, <1>5, <1>7, <1>9
<1>11. \A s \in Stages : acc[s] = Weighted(s, more)
  BY <1>2, <1>8, <1>9, <1>10
<1> QED BY <1>6, <1>11 DEF Summed, more

\* Where the last latch of k samples was, the first being after first of them.
LatchAt(k, first, osr, l) ==
  \E q \in Nat : l = first + q * osr /\ l <= k /\ k - l < osr

LEMMA LatchPlace ==
  ASSUME NEW osr \in Nat \ {0}, NEW first \in Nat, NEW k \in Nat, NEW l, LatchAt(k, first, osr, l)
  PROVE  l = first + ((k - first) \div osr) * osr /\ l \in first..k
<1>1. PICK q \in Nat : l = first + q * osr /\ l <= k /\ k - l < osr
  BY DEF LatchAt
<1> DEFINE p == q * osr  r == k - l  n == k - first
<1>2. p \in Nat
  OBVIOUS
<1>3. r \in 0..osr-1 /\ n = p + r /\ l \in first..k
  <2> HIDE DEF p
  <2> QED BY <1>1, <1>2 DEF p
<1>4. n \div osr = q
  <2> HIDE DEF n, r
  <2> QED BY <1>3, Quotient
<1> QED BY <1>1, <1>3, <1>4

LEMMA LatchNext ==
  ASSUME NEW osr \in Nat \ {0}, NEW first \in Nat, NEW k \in Nat, NEW l, LatchAt(k, first, osr, l)
  PROVE  /\ l \in Nat /\ l <= k /\ k - l < osr
         /\ (k - l) + 1 >= osr => LatchAt(k + 1, first, osr, k + 1)
         /\ ~((k - l) + 1 >= osr) => LatchAt(k + 1, first, osr, l)
<1>1. PICK q \in Nat : l = first + q * osr /\ l <= k /\ k - l < osr
  BY DEF LatchAt
<1> DEFINE p == q * osr
<1>2. p \in Nat /\ (q + 1) * osr = p + osr /\ q + 1 \in Nat
  OBVIOUS
<1>3. l = first + p
  BY <1>1
<1>4. l \in Nat
  <2> HIDE DEF p
  <2> QED BY <1>2, <1>3
<1>5. ASSUME (k - l) + 1 >= osr  PROVE LatchAt(k + 1, first, osr, k + 1)
  <2>1. k + 1 = l + osr
    BY <1>1, <1>4, <1>5
  <2>2. k + 1 = first + (p + osr)
    <3> HIDE DEF p
    <3> QED BY <1>2, <1>3, <2>1
  <2>3. k + 1 = first + (q + 1) * osr
    BY <1>2, <2>2, Zenon
  <2>4. k + 1 <= k + 1 /\ (k + 1) - (k + 1) < osr
    OBVIOUS
  <2> QED BY <1>2, <2>3, <2>4 DEF LatchAt
<1>6. ASSUME ~((k - l) + 1 >= osr)  PROVE LatchAt(k + 1, first, osr, l)
  <2>1. l <= k + 1 /\ (k + 1) - l < osr
    BY <1>1, <1>4, <1>6
  <2> QED BY <1>1, <2>1 DEF LatchAt
<1> QED BY <1>1, <1>4, <1>5, <1>6

LEMMA AppendJoined ==
  ASSUME NEW s \in Seq(Bits), NEW t \in Seq(Bits), NEW bit \in Bits
  PROVE  s \o (t \o << bit >>) = Append(s \o t, bit)
<1>1. << bit >> \in Seq(Bits)
  OBVIOUS
<1>2. (s \o t) \o << bit >> = s \o (t \o << bit >>)
  BY <1>1, ConcatAssociative
<1>3. s \o t \in Seq(Bits)
  BY ConcatProperties
<1>4. Append(s \o t, bit) = (s \o t) \o << bit >>
  <2> DEFINE cat == s \o t
  <2> HIDE DEF cat
  <2> QED BY <1>3, AppendIsConcat DEF cat
<1> QED BY <1>2, <1>4, Zenon

LEMMA TakenFilters ==
  ASSUME NEW ch, NEW all, NEW with, Filters(ch, all, with), NEW bits \in Seq(Bits),
         NEW new, new = LatchedWith(ch, all, bits)
  PROVE  Filters(Taken(ch, bits), all \o bits, IF new = << >> THEN with ELSE new)
<1> DEFINE n == Len(bits)
           osr == ch.osr
           first == IF osr - ch.count < 1 THEN 1 ELSE osr - ch.count
           at(k) == all \o SubSeq(bits, 1, k)
<1>0. n \in Nat /\ \A k \in 1..n : bits[k] \in Bits
  BY LenProperties, ElementOfSeq
<1>1. /\ ch \in SdChannel /\ all \in Seq(Bits) /\ with \in Seq(Bits)
      /\ \A s \in Stages : ch.acc[s] = Weighted(s, all) /\ ch.shadow[s] = Weighted(s, with)
  BY DEF Filters
<1>2. osr \in Nat \ {0} /\ ch.count \in Nat
  BY <1>1, SdAssumption DEF SdChannel
<1>3. first \in Nat \ {0}
  BY <1>2
<1>4. PICK run : SampleRun(ch, bits, run)
  BY <1>1, SampleRuns
<1>5. /\ run \in [0..n -> SdChannel] /\ run[0] = ch /\ run[n] = Taken(ch, bits)
      /\ \A k \in 1..n : run[k] = TickChannel(run[k-1], bits[k])
  BY <1>4 DEF SampleRun
<1>6. /\ at(0) = all
      /\ \A k \in 0..n : at(k) \in Seq(Bits)
      /\ \A k \in 1..n : at(k) = Append(at(k-1), bits[k])
  <2>1. at(0) = all
    <3>1. SubSeq(bits, 1, 0) = << >>
      BY SubSeqEmpty
    <3> QED BY <1>1, <3>1, ConcatEmptySeq
  <2>2. \A k \in 0..n : SubSeq(bits, 1, k) \in Seq(Bits)
    BY <1>0, SubSeqProperties
  <2>3. \A k \in 0..n : at(k) \in Seq(Bits)
    BY <1>1, <2>2, ConcatProperties
  <2>4. ASSUME NEW k \in 1..n  PROVE at(k) = Append(at(k-1), bits[k])
    <3> DEFINE sub == SubSeq(bits, 1, k-1)
    <3>1. k - 1 \in 0..n /\ sub \in Seq(Bits) /\ bits[k] \in Bits
      BY <1>0, <2>2
    <3>2. SubSeq(bits, 1, k) = sub \o << bits[k] >>
      BY <1>0, SubSeqRecursiveSecond
    <3> HIDE DEF sub
    <3>3. all \in Seq(Bits)
      BY <1>1
    <3>4. all \o (sub \o << bits[k] >>) = Append(all \o sub, bits[k])
      BY <3>1, <3>3, AppendJoined
    <3> QED BY <3>2, <3>4 DEF sub
  <2> QED BY <2>1, <2>3, <2>4
<1> HIDE DEF at
<1> DEFINE Before(k) == /\ run[k].count = ch.count + k
                        /\ \A s \in Stages : run[k].shadow[s] = Weighted(s, with)
           Behind(k) == \E l : /\ LatchAt(k, first, osr, l) /\ run[k].count = k - l
                               /\ \A s \in Stages : run[k].shadow[s] = Weighted(s, at(l))
           Here(k) == /\ run[k].osr = osr /\ Summed(run[k], at(k))
                      /\ k < first => Before(k)
                      /\ ~(k < first) => Behind(k)
           P == {k \in Nat : k <= n => Here(k)}
<1>7. Here(0)
  <2>1. 0 < first /\ ch.count + 0 = ch.count
    BY <1>2, <1>3
  <2>2. Summed(run[0], at(0)) /\ Before(0)
    BY <1>1, <1>5, <1>6, <2>1 DEF Summed
  <2>3. run[0].osr = osr
    BY <1>5
  <2> HIDE DEF Before, Behind
  <2> QED BY <2>1, <2>2, <2>3
<1>8. ASSUME NEW k \in Nat, k + 1 <= n, Here(k)  PROVE Here(k + 1)
  <2> DEFINE i == k + 1  x == run[k]  y == run[i]  bit == bits[i]
  <2>1. i \in 1..n /\ i - 1 = k /\ k \in 0..n /\ i \in 0..n
    BY <1>0, <1>8
  <2>2. x \in SdChannel /\ y = TickChannel(x, bit) /\ bit \in Bits
    BY <1>0, <1>5, <2>1
  <2>3. at(i) = Append(at(k), bit) /\ at(k) \in Seq(Bits)
    BY <1>6, <2>1
  <2>4. x.osr = osr /\ Summed(x, at(k))
    BY <1>8
  <2>5. /\ y.acc = Accumulated(x.acc, bit) /\ y.osr = osr
        /\ x.count + 1 >= osr => y.shadow = y.acc /\ y.count = 0
        /\ ~(x.count + 1 >= osr) => y.shadow = x.shadow /\ y.count = x.count + 1
    <3> HIDE DEF x, y, bit, osr
    <3> QED BY <2>2, <2>4, TickFields
  <2>6. run[i].osr = osr /\ Summed(run[i], at(i))
    <3>1. Summed(TickChannel(x, bit), Append(at(k), bit))
      <4> HIDE DEF x, bit
      <4> QED BY <2>2, <2>3, <2>4, SampleAdds, Zenon
    <3>2. Summed(y, at(i))
      <4> HIDE DEF x, y, bit, i
      <4> QED BY <2>2, <2>3, <3>1, Zenon
    <3> QED BY <2>5, <3>2
  <2>7. x.count \in Nat
    BY <2>2 DEF SdChannel
  <2>8. ASSUME x.count + 1 >= osr, LatchAt(i, first, osr, i)  PROVE Behind(i)
    <3>1. y.count = i - i
      BY <2>5, <2>8
    <3>2. \A s \in Stages : y.shadow[s] = Weighted(s, at(i))
      BY <2>5, <2>6, <2>8 DEF Summed
    <3> HIDE DEF i
    <3> QED BY <2>8, <3>1, <3>2 DEF y
  <2>9. CASE i < first
    <3>1. k < first
      <4> HIDE DEF first
      <4> QED BY <1>3, <2>9
    <3>2. Before(k)
      BY <1>8, <3>1
    <3>3. ~(x.count + 1 >= osr)
      BY <1>2, <2>9, <3>2
    <3>4. Before(i)
      <4>1. y.count = ch.count + i
        BY <1>2, <2>5, <3>2, <3>3
      <4>2. \A s \in Stages : y.shadow[s] = Weighted(s, with)
        BY <2>5, <3>2, <3>3
      <4> QED BY <4>1, <4>2
    <3> HIDE DEF Before, Behind, first, osr
    <3> QED BY <2>6, <2>9, <3>4, Zenon
  <2>10. CASE i = first
    <3>1. k < first
      BY <2>10
    <3>2. Before(k)
      BY <1>8, <3>1
    <3>3. x.count + 1 >= osr
      BY <1>2, <2>10, <3>2
    <3>4. LatchAt(i, first, osr, i)
      <4>1. i = first + 0 * osr /\ i <= i /\ i - i < osr
        BY <1>2, <1>3, <2>10
      <4> QED BY <4>1 DEF LatchAt
    <3>5. Behind(i) /\ ~(i < first)
      BY <2>8, <2>10, <3>3, <3>4
    <3> HIDE DEF Before, Behind, first, osr
    <3> QED BY <2>6, <3>5, Zenon
  <2>11. CASE i > first
    <3>1. ~(k < first)
      BY <1>3, <2>11
    <3>2. PICK l : /\ LatchAt(k, first, osr, l) /\ x.count = k - l
                   /\ \A s \in Stages : x.shadow[s] = Weighted(s, at(l))
      BY <1>8, <3>1
    <3>3. /\ l \in Nat /\ l <= k
          /\ (k - l) + 1 >= osr => LatchAt(i, first, osr, i)
          /\ ~((k - l) + 1 >= osr) => LatchAt(i, first, osr, l)
      <4> HIDE DEF osr, first
      <4> QED BY <1>2, <1>3, <3>2, LatchNext
    <3>4. Behind(i)
      <4>1. CASE x.count + 1 >= osr
        BY <2>8, <3>2, <3>3, <4>1
      <4>2. CASE ~(x.count + 1 >= osr)
        <5>1. LatchAt(i, first, osr, l)
          BY <3>2, <3>3, <4>2
        <5>2. y.count = i - l
          BY <2>5, <3>2, <3>3, <4>2
        <5>3. \A s \in Stages : y.shadow[s] = Weighted(s, at(l))
          BY <2>5, <3>2, <4>2
        <5> HIDE DEF i
        <5> QED BY <5>1, <5>2, <5>3 DEF y
      <4> QED BY <4>1, <4>2
    <3>5. ~(i < first)
      BY <1>3, <2>11
    <3> HIDE DEF Before, Behind, first, osr
    <3> QED BY <2>6, <3>4, <3>5, Zenon
  <2> QED BY <1>3, <2>9, <2>10, <2>11
<1>9. Here(n)
  <2> HIDE DEF Here
  <2>1. 0 \in P
    BY <1>7
  <2>2. ASSUME NEW k \in P  PROVE k + 1 \in P
    <3> SUFFICES ASSUME k + 1 <= n  PROVE Here(k + 1)
      OBVIOUS
    <3>1. k \in Nat /\ k <= n
      BY <1>0
    <3> QED BY <1>8, <3>1
  <2>3. P \in SUBSET Nat
    OBVIOUS
  <2>4. P = Nat
    <3> HIDE DEF P
    <3> QED BY <2>1, <2>2, <2>3, SetInduction
  <2>5. n \in P
    <3> HIDE DEF P
    <3> QED BY <1>0, <2>4
  <2> QED BY <1>0, <2>5
<1>10. at(n) = all \o bits
  <2>1. SubSeq(bits, 1, n) = bits
    BY SubSeqFull
  <2> QED BY <2>1 DEF at
<1> DEFINE z == Taken(ch, bits)
<1>11. z \in SdChannel /\ all \o bits \in Seq(Bits)
       /\ \A s \in Stages : z.acc[s] = Weighted(s, all \o bits)
  <2>1. n \in 0..n
    BY <1>0
  <2> QED BY <1>5, <1>6, <1>9, <1>10, <2>1 DEF Summed
<1>12. CASE n < first
  <2>1. new = << >>
    BY <1>12, Zenon DEF LatchedWith
  <2>2. \A s \in Stages : z.shadow[s] = Weighted(s, with)
    BY <1>5, <1>9, <1>12
  <2> QED BY <1>1, <1>11, <2>1, <2>2 DEF Filters
<1>13. CASE ~(n < first)
  <2> DEFINE last == first + ((n - first) \div osr) * osr
  <2>1. new = at(last)
    BY <1>13, Zenon DEF LatchedWith, at
  <2>2. PICK l : LatchAt(n, first, osr, l) /\ \A s \in Stages : z.shadow[s] = Weighted(s, at(l))
    BY <1>5, <1>9, <1>13
  <2>3. l = last /\ l \in first..n
    <3> HIDE DEF first, osr, n
    <3> QED BY <1>0, <1>2, <1>3, <2>2, LatchPlace
  <2>4. l \in 1..n /\ l - 1 \in 0..n /\ l \in 0..n
    BY <1>0, <1>3, <2>3
  <2>5. new # << >>
    <3>1. at(l) = Append(at(l-1), bits[l]) /\ at(l-1) \in Seq(Bits) /\ bits[l] \in Bits
      BY <1>0, <1>6, <2>4
    <3>2. Append(at(l-1), bits[l]) # << >>
      BY <3>1, AppendProperties
    <3> QED BY <2>1, <2>3, <3>1, <3>2
  <2>6. new \in Seq(Bits) /\ \A s \in Stages : z.shadow[s] = Weighted(s, new)
    BY <1>6, <2>1, <2>2, <2>3, <2>4
  <2> HIDE DEF z
  <2> QED BY <1>11, <2>5, <2>6 DEF Filters, z
<1> QED BY <1>12, <1>13

\* The channels have filtered samples, and latched with last.
Filtering(chan, samples, last) ==
  /\ chan \in [SdChannels -> SdChannel]
  /\ samples \in [SdChannels -> Seq(Bits)] /\ last \in [SdChannels -> Seq(Bits)]
  /\ \A c \in SdChannels : Filters(chan[c], samples[c], last[c])

SdInv == SdTypeOK /\ Filtering(sdChan, stream, latched)

LEMMA ReinitFilters ==
  ASSUME NEW ch, NEW all, NEW with, Filters(ch, all, with)
  PROVE  Filters(Reinit(ch), << >>, with)
<1>1. ch \in SdChannel /\ with \in Seq(Bits)
      /\ \A s \in Stages : ch.shadow[s] = Weighted(s, with)
  BY DEF Filters
<1> DEFINE x1 == [ch EXCEPT !.acc = Zero]  x2 == [x1 EXCEPT !.count = 0]
<1>2. x1 \in SdChannel /\ x1.acc = Zero /\ x1.shadow = ch.shadow
  BY <1>1 DEF SdChannel, Zero
<1> HIDE DEF x1
<1>3. x2 \in SdChannel /\ x2.acc = Zero /\ x2.shadow = ch.shadow
  BY <1>2 DEF SdChannel
<1>4. Reinit(ch) = x2
  BY Zenon DEF Reinit, x1
<1>5. << >> \in Seq(Bits) /\ \A s \in Stages : Zero[s] = Weighted(s, << >>)
  <2>1. << >> \in Seq(Bits)
    BY EmptySeq
  <2> QED BY <2>1, WeightedNone DEF Zero
<1> HIDE DEF x2
<1> QED BY <1>1, <1>3, <1>4, <1>5 DEF Filters

LEMMA ClearFilters ==
  ASSUME NEW ch, NEW all, NEW with, Filters(ch, all, with)
  PROVE  Filters(ClearFlags(ch), all, with)
<1> DEFINE no == FALSE
           x1 == [ch EXCEPT !.valid = no]  x2 == [x1 EXCEPT !.ovf = no]
<1>1. ch \in SdChannel
  BY DEF Filters
<1>2. no \in BOOLEAN
  OBVIOUS
<1>3. ClearFlags(ch) = x2
  BY Zenon DEF ClearFlags
<1> HIDE DEF no
<1>4. x1 \in SdChannel /\ x1.acc = ch.acc /\ x1.shadow = ch.shadow
  BY <1>1, <1>2 DEF SdChannel
<1> HIDE DEF x1
<1>5. x2 \in SdChannel /\ x2.acc = ch.acc /\ x2.shadow = ch.shadow
  BY <1>2, <1>4 DEF SdChannel
<1> HIDE DEF x2
<1> QED BY <1>3, <1>5 DEF Filters

\* What a register write changes is no part of the filter.
LEMMA WriteFilters ==
  ASSUME NEW ch, NEW all, NEW with, Filters(ch, all, with),
         NEW osr \in OsrValues, NEW s \in Stages
  PROVE  Filters([ch EXCEPT !.osr = osr], all, with) /\ Filters([ch EXCEPT !.stage = s], all, with)
<1>1. ch \in SdChannel
  BY DEF Filters
<1> DEFINE x == [ch EXCEPT !.osr = osr]  y == [ch EXCEPT !.stage = s]
<1>2. x \in SdChannel /\ x.acc = ch.acc /\ x.shadow = ch.shadow
  BY <1>1 DEF SdChannel
<1>3. y \in SdChannel /\ y.acc = ch.acc /\ y.shadow = ch.shadow
  BY <1>1 DEF SdChannel
<1> HIDE DEF x, y
<1>4. Filters(x, all, with) /\ Filters(y, all, with)
  BY <1>2, <1>3 DEF Filters
<1> QED BY <1>4 DEF x, y

\* One channel exchanged for another.
LEMMA ExchangeFilters ==
  ASSUME NEW chan, NEW samples, NEW last, Filtering(chan, samples, last), NEW c \in SdChannels,
         NEW ch, NEW all, Filters(ch, all, last[c])
  PROVE  Filtering([chan EXCEPT ![c] = ch], [samples EXCEPT ![c] = all], last)
<1>1. ch \in SdChannel /\ all \in Seq(Bits)
  BY DEF Filters
<1>2. /\ chan \in [SdChannels -> SdChannel] /\ samples \in [SdChannels -> Seq(Bits)]
      /\ last \in [SdChannels -> Seq(Bits)] /\ \A d \in SdChannels : Filters(chan[d], samples[d], last[d])
  BY DEF Filtering
<1> DEFINE x == [chan EXCEPT ![c] = ch]  y == [samples EXCEPT ![c] = all]
<1>3. x \in [SdChannels -> SdChannel] /\ y \in [SdChannels -> Seq(Bits)]
  BY <1>1, <1>2
<1>4. ASSUME NEW d \in SdChannels  PROVE Filters(x[d], y[d], last[d])
  <2>1. CASE d = c
    <3>1. x[d] = ch /\ y[d] = all
      BY <1>2, <2>1
    <3> QED BY <2>1, <3>1, Zenon
  <2>2. CASE d # c
    <3>1. x[d] = chan[d] /\ y[d] = samples[d]
      BY <1>2, <2>2
    <3> HIDE DEF x, y
    <3> QED BY <1>2, <3>1
  <2> QED BY <2>1, <2>2
<1> HIDE DEF x, y
<1>5. Filtering(x, y, last)
  BY <1>2, <1>3, <1>4 DEF Filtering
<1> QED BY <1>5 DEF x, y

LEMMA CommandFilters ==
  ASSUME NEW ch, NEW all, NEW with, Filters(ch, all, with),
         NEW status, NEW bit \in {ReinitBit, ClearBit},
         NEW some, some = IF bit = ReinitBit /\ ClearBit \notin status THEN << >> ELSE all
  PROVE  Filters(Commanded(ch, status \cup {bit}), some, with)
<1> DEFINE word == status \cup {bit}
<1>0. ReinitBit # ClearBit
  BY SdAssumption
<1>1. CASE ClearBit \in word
  <2>1. Commanded(ch, word) = ClearFlags(ch)
    BY <1>1, Zenon DEF Commanded
  <2>2. some = all
    BY <1>0, <1>1
  <2> QED BY <2>1, <2>2, ClearFilters
<1>2. CASE ClearBit \notin word
  <2>1. bit = ReinitBit /\ ReinitBit \in word /\ ClearBit \notin status
    BY <1>2
  <2>2. Commanded(ch, word) = Reinit(ch)
    <3> HIDE DEF word
    <3> QED BY <1>2, <2>1 DEF Commanded
  <2>3. some = << >>
    BY <2>1
  <2> QED BY <2>2, <2>3, ReinitFilters
<1> QED BY <1>1, <1>2

LEMMA DueTyped ==
  ASSUME sdClock \in [SdChannels -> 0..SdCycle-1], NEW c \in SdChannels
  PROVE  Due(c) \in Nat /\ (sdClock[c] + Rate[c]) % SdCycle \in 0..SdCycle-1
<1> DEFINE n == sdClock[c] + Rate[c]
<1>1. n \in Nat /\ SdCycle \in Nat \ {0}
  BY SdAssumption
<1>2. Due(c) = n \div SdCycle
  BY DEF Due
<1> HIDE DEF n
<1>3. n \div SdCycle \in Nat /\ n % SdCycle \in 0..SdCycle-1
  BY <1>1, DivModParts
<1> QED BY <1>2, <1>3 DEF n

\* The samples that are due behind an instruction.
LEMMA AdvanceFilters ==
  ASSUME SdTypeOK, NEW chan, NEW samples, Filtering(chan, samples, latched), Advance(chan, samples),
         control' \in [sel : Selections, en : BOOLEAN]
  PROVE  SdInv'
<1>1. /\ chan \in [SdChannels -> SdChannel] /\ samples \in [SdChannels -> Seq(Bits)]
      /\ latched \in [SdChannels -> Seq(Bits)] /\ sdClock \in [SdChannels -> 0..SdCycle-1]
      /\ \A d \in SdChannels : Filters(chan[d], samples[d], latched[d])
  BY DEF Filtering, SdTypeOK
<1>2. PICK bits \in [SdChannels -> UNION {[1..n -> {0, 1}] : n \in {Due(c) : c \in SdChannels}}] :
        /\ sdChan' = [c \in SdChannels |-> Taken(chan[c], bits[c])]
        /\ sdClock' = [c \in SdChannels |-> (sdClock[c] + Rate[c]) % SdCycle]
        /\ stream' = [c \in SdChannels |-> samples[c] \o bits[c]]
        /\ latched' = [c \in SdChannels |->
             LET with == LatchedWith(chan[c], samples[c], bits[c])
             IN  IF with = << >> THEN latched[c] ELSE with]
  BY DEF Advance
<1>3. ASSUME NEW c \in SdChannels  PROVE bits[c] \in Seq(Bits)
  <2>1. PICK d \in SdChannels : bits[c] \in [1..Due(d) -> {0, 1}]
    BY <1>2
  <2>2. Due(d) \in Nat
    BY <1>1, DueTyped
  <2> DEFINE n == Due(d)
  <2>3. n \in Nat /\ bits[c] \in [1..n -> Bits]
    BY <2>1, <2>2 DEF Bits
  <2> HIDE DEF n
  <2> QED BY <2>3
<1>4. ASSUME NEW c \in SdChannels  PROVE Filters(sdChan'[c], stream'[c], latched'[c])
  <2> DEFINE new == LatchedWith(chan[c], samples[c], bits[c])
             next == IF new = << >> THEN latched[c] ELSE new
  <2>1. sdChan'[c] = Taken(chan[c], bits[c]) /\ stream'[c] = samples[c] \o bits[c]
    BY <1>2
  <2>2. latched'[c] = next
    BY <1>2, Zenon
  <2>3. Filters(Taken(chan[c], bits[c]), samples[c] \o bits[c], next)
    <3>1. Filters(chan[c], samples[c], latched[c]) /\ bits[c] \in Seq(Bits)
      BY <1>1, <1>3
    <3> QED BY <3>1, TakenFilters, Zenon
  <2> HIDE DEF new, next
  <2> QED BY <2>1, <2>2, <2>3, Zenon
<1>5. \A c \in SdChannels : /\ sdChan'[c] \in SdChannel /\ stream'[c] \in Seq(Bits)
                            /\ latched'[c] \in Seq(Bits)
  BY <1>4 DEF Filters
<1>6. sdChan' \in [SdChannels -> SdChannel]
  BY <1>2, <1>5
<1>7. stream' \in [SdChannels -> Seq(Bits)]
  BY <1>2, <1>5
<1>8. latched' \in [SdChannels -> Seq(Bits)]
  <2>1. latched' = [c \in SdChannels |-> latched'[c]]
    <3> DEFINE L(c) == LET with == LatchedWith(chan[c], samples[c], bits[c])
                       IN  IF with = << >> THEN latched[c] ELSE with
    <3>1. latched' = [c \in SdChannels |-> L(c)]
      BY <1>2, Zenon
    <3> HIDE DEF L
    <3> QED BY <3>1
  <2> QED BY <1>5, <2>1
<1>9. sdClock' \in [SdChannels -> 0..SdCycle-1]
  <2>1. \A c \in SdChannels : (sdClock[c] + Rate[c]) % SdCycle \in 0..SdCycle-1
    BY <1>1, DueTyped
  <2> QED BY <1>2, <2>1
<1>10. Filtering(sdChan, stream, latched)'
  BY <1>4, <1>6, <1>7, <1>8 DEF Filtering
<1> QED BY <1>6, <1>7, <1>8, <1>9, <1>10 DEF SdInv, SdTypeOK, Bits

LEMMA SdStarts == SdInit => SdInv
<1> SUFFICES ASSUME SdInit  PROVE SdInv
  OBVIOUS
<1>1. PICK osr \in OsrValues : sdChan =
        [c \in SdChannels |-> [acc |-> Zero, shadow |-> Zero, valid |-> FALSE, ovf |-> FALSE,
                               count |-> 0, osr |-> osr, stage |-> 3]]
  BY DEF SdInit
<1> DEFINE none == [acc |-> Zero, shadow |-> Zero, valid |-> FALSE, ovf |-> FALSE,
                    count |-> 0, osr |-> osr, stage |-> 3]
<1>2. none \in SdChannel /\ none.acc = Zero /\ none.shadow = Zero
  BY DEF SdChannel, Zero, Stages
<1>3. << >> \in Seq(Bits)
  BY EmptySeq
<1>4. \A s \in Stages : Zero[s] = Weighted(s, << >>)
  BY WeightedNone DEF Zero
<1> HIDE DEF none
<1>5. Filters(none, << >>, << >>)
  BY <1>2, <1>3, <1>4 DEF Filters
<1>6. sdChan = [c \in SdChannels |-> none]
  BY <1>1, Zenon DEF none
<1>7. stream = [c \in SdChannels |-> << >>] /\ latched = [c \in SdChannels |-> << >>]
      /\ sdClock = [c \in SdChannels |-> 0] /\ control = [sel |-> 0, en |-> FALSE]
  BY DEF SdInit
<1>8. Filtering(sdChan, stream, latched)
  BY <1>2, <1>3, <1>5, <1>6, <1>7 DEF Filtering
<1>9. sdClock \in [SdChannels -> 0..SdCycle-1]
  BY <1>7, SdAssumption
<1>10. control \in [sel : Selections, en : BOOLEAN]
  BY <1>7, SdAssumption
<1>11. /\ sdChan \in [SdChannels -> SdChannel] /\ latched \in [SdChannels -> Seq(Bits)]
       /\ stream \in [SdChannels -> Seq(Bits)]
  BY <1>8 DEF Filtering
<1> QED BY <1>8, <1>9, <1>10, <1>11 DEF SdInv, SdTypeOK, Bits

LEMMA SdKept == SdInv /\ [Sd]_sdVars => SdInv'
<1> SUFFICES ASSUME SdInv, [Sd]_sdVars  PROVE SdInv'
  OBVIOUS
<1>1. SdTypeOK /\ Filtering(sdChan, stream, latched) /\ control \in [sel : Selections, en : BOOLEAN]
  BY DEF SdInv, SdTypeOK
<1>2. /\ sdChan \in [SdChannels -> SdChannel] /\ stream \in [SdChannels -> Seq(Bits)]
      /\ \A d \in SdChannels : Filters(sdChan[d], stream[d], latched[d])
  BY <1>1 DEF Filtering
<1>3. CASE OtherInstruction
  <2>1. Advance(sdChan, stream) /\ control' \in [sel : Selections, en : BOOLEAN]
    BY <1>1, <1>3 DEF OtherInstruction
  <2> QED BY <1>1, <2>1, AdvanceFilters, Zenon
<1>4. CASE WriteControl
  <2>1. Advance(sdChan, stream) /\ control' \in [sel : Selections, en : BOOLEAN]
    BY <1>4 DEF WriteControl
  <2> QED BY <1>1, <2>1, AdvanceFilters, Zenon
<1>5. ASSUME NEW bit \in {ReinitBit, ClearBit}, SetCommand(bit)  PROVE SdInv'
  <2> DEFINE c == Selected
             status == Status
             obeyed == bit = ReinitBit /\ ClearBit \notin status
             some == IF obeyed THEN << >> ELSE stream[c]
             ch == Commanded(sdChan[c], status \cup {bit})
             chan == [sdChan EXCEPT ![c] = ch]
             samples == [stream EXCEPT ![c] = some]
  <2>1. c \in SdChannels
    BY SdAssumption DEF Selected
  <2>2. Advance(chan, samples) /\ control' = control
    BY <1>5, Zenon DEF SetCommand
  <2>3. Filters(ch, some, latched[c])
    <3>1. Filters(sdChan[c], stream[c], latched[c])
      BY <1>2, <2>1
    <3> HIDE DEF c, status
    <3> QED BY <3>1, CommandFilters, Zenon
  <2> HIDE DEF c, some, ch
  <2>4. Filtering(chan, samples, latched)
    BY <1>1, <2>1, <2>3, ExchangeFilters, Zenon
  <2>5. control' \in [sel : Selections, en : BOOLEAN]
    BY <1>1, <2>2
  <2> HIDE DEF chan, samples
  <2> QED BY <1>1, <2>2, <2>4, <2>5, AdvanceFilters, Zenon
<1>6. ASSUME NEW c \in SdChannels, NEW ch, Filters(ch, stream[c], latched[c]),
             Advance([sdChan EXCEPT ![c] = ch], stream), UNCHANGED control
      PROVE  SdInv'
  <2> DEFINE chan == [sdChan EXCEPT ![c] = ch]  same == [stream EXCEPT ![c] = stream[c]]
  <2>1. same = stream
    BY <1>2
  <2>2. Filtering(chan, same, latched)
    BY <1>1, <1>6, ExchangeFilters, Zenon
  <2>3. control' \in [sel : Selections, en : BOOLEAN]
    BY <1>1, <1>6
  <2>4. Advance(chan, stream)
    BY <1>6
  <2> HIDE DEF chan, same
  <2> QED BY <1>1, <2>1, <2>2, <2>3, <2>4, AdvanceFilters, Zenon
<1>7. CASE WriteSampleSize
  <2>1. PICK c \in SdChannels, osr \in OsrValues :
          Advance([sdChan EXCEPT ![c].osr = osr], stream) /\ UNCHANGED control
    BY <1>7, Zenon DEF WriteSampleSize
  <2> DEFINE ch == [sdChan[c] EXCEPT !.osr = osr]
  <2>2. Advance([sdChan EXCEPT ![c] = ch], stream)
    BY <2>1, Zenon
  <2>3. Filters(ch, stream[c], latched[c])
    <3>1. Filters(sdChan[c], stream[c], latched[c]) /\ 1 \in Stages
      BY <1>2 DEF Stages
    <3> QED BY <3>1, WriteFilters, Zenon
  <2> HIDE DEF ch
  <2> QED BY <1>6, <2>1, <2>2, <2>3, Zenon
<1>8. CASE SelectStage
  <2>1. PICK c \in SdChannels, s \in Stages :
          Advance([sdChan EXCEPT ![c].stage = s], stream) /\ UNCHANGED control
    BY <1>8, Zenon DEF SelectStage
  <2> DEFINE ch == [sdChan[c] EXCEPT !.stage = s]
  <2>2. Advance([sdChan EXCEPT ![c] = ch], stream)
    BY <2>1, Zenon
  <2>3. Filters(ch, stream[c], latched[c])
    <3>1. Filters(sdChan[c], stream[c], latched[c])
      BY <1>2
    <3>2. sdChan[c].osr \in OsrValues
      BY <1>2 DEF SdChannel
    <3> QED BY <3>1, <3>2, WriteFilters, Zenon
  <2> HIDE DEF ch
  <2> QED BY <1>6, <2>1, <2>2, <2>3, Zenon
<1>9. CASE UNCHANGED sdVars
  BY <1>9 DEF sdVars, SdInv, SdTypeOK, Filtering
<1> QED BY <1>3, <1>4, <1>5, <1>7, <1>8, <1>9 DEF Sd

LEMMA SdInductive == SdSpec => []SdInv
  BY SdStarts, SdKept, PTL DEF SdSpec

\* The filter's state is well typed.
THEOREM SdTyped == SdSpec => []SdTypeOK
<1>1. SdInv => SdTypeOK
  BY DEF SdInv
<1> QED BY <1>1, SdInductive, PTL

\* Every stage of every channel holds the weighted sum of exactly the samples
\* since it was initialised.
THEOREM FiltersAreExact == SdSpec => []ShadowIsFilter
<1>1. SdInv => ShadowIsFilter
  BY DEF SdInv, Filtering, Filters, ShadowIsFilter
<1> QED BY <1>1, SdInductive, PTL

-----------------------------------------------------------------------------
(* The I/O expander. *)

ChipFields ==
  {"state", "reg", "shift", "match", "pointer", "prevScl", "prevMaster", "driving", "seen"}
Whole(c) == DOMAIN c = ChipFields

\* What the chip has made of the traffic is the same in both.
Alike(n, c) ==
  /\ Whole(n) /\ n.state = c.state /\ n.reg = c.reg /\ n.shift = c.shift
  /\ n.match = c.match /\ n.pointer = c.pointer

\* What it has last seen of the lines and does to them.
Wired(n, k, d, seen) ==
  n.prevScl = k /\ n.prevMaster = d /\ ~n.driving /\ n.seen = seen

LEMMA LevelTyped == \A l \in Level : l = 0 \/ l = 1
  BY DEF Level

LEMMA StartFields ==
  ASSUME NEW c, Whole(c), NEW n, n = OnStart(c)
  PROVE  /\ Whole(n) /\ n.state = "ADDR" /\ n.shift = << >> /\ n.reg = c.reg
         /\ n.pointer = c.pointer
  BY DEF OnStart, Whole, ChipFields

LEMMA StopFields ==
  ASSUME NEW c, Whole(c), NEW n, n = OnStop(c)
  PROVE  Whole(n) /\ n.state = "IDLE" /\ n.reg = c.reg
  BY DEF OnStop, Whole, ChipFields

Receiving == {"ADDR", "REGPTR", "DATA"}
Answering == {"ACK_ADDR", "ACK_REG", "ACK_DATA"}

\* The clock's rise makes the chip n, and the byte under way more.
Rises(c, bit, n, more) == n = OnRising(c, bit) /\ more = Append(c.shift, bit)
Short(bits) == Len(bits) < ByteLen

\* A bit that is not the last of its byte.
LEMMA BitFields ==
  ASSUME NEW c, Whole(c), NEW bit, NEW n, c.state \in Receiving,
         NEW more, Rises(c, bit, n, more), Short(more)
  PROVE  /\ Whole(n) /\ n.state = c.state /\ n.shift = more /\ n.reg = c.reg
         /\ n.match = c.match /\ n.pointer = c.pointer
<1>1. n = [c EXCEPT !.shift = more]
  BY DEF OnRising, Receiving, Rises, Short
<1> QED BY <1>1 DEF Whole, ChipFields

\* The last bit of a byte.
ByteTaken(c, n, byte) ==
  /\ Whole(n) /\ n.shift = << >>
  /\ c.state = "ADDR" => /\ n.state = "ACK_ADDR" /\ n.reg = c.reg
                         /\ n.match <=> byte = Append(OwnAddress, 0)
  /\ c.state = "REGPTR" => n.state = "ACK_REG" /\ n.reg = c.reg /\ n.pointer = byte
  /\ c.state = "DATA" =>
       n.state = "ACK_DATA" /\ n.reg = Stored(c, byte) /\ n.pointer = c.pointer

LEMMA ByteFields ==
  ASSUME NEW c, Whole(c), NEW bit, NEW n, c.state \in Receiving,
         NEW byte, Rises(c, bit, n, byte), ~Short(byte)
  PROVE  ByteTaken(c, n, byte)
<1> DEFINE x == CompleteByte(c, byte)
<1>1. n = [x EXCEPT !.shift = << >>]
  BY DEF OnRising, Receiving, Rises, Short
<1>2. Whole(x) => /\ Whole(n) /\ n.shift = << >> /\ n.state = x.state /\ n.reg = x.reg
                  /\ n.match = x.match /\ n.pointer = x.pointer
  <2> HIDE DEF x
  <2> QED BY <1>1 DEF Whole, ChipFields
<1>3. CASE c.state = "ADDR"
  <2> DEFINE hit == byte = Append(OwnAddress, 0)
  <2>1. x = [c EXCEPT !.state = "ACK_ADDR", !.match = hit]
    BY <1>3, Zenon DEF CompleteByte
  <2> HIDE DEF x, hit
  <2>2. Whole(x) /\ x.state = "ACK_ADDR" /\ x.reg = c.reg /\ x.match = hit
    BY <2>1 DEF Whole, ChipFields
  <2>3. Whole(n) /\ n.shift = << >> /\ n.state = "ACK_ADDR" /\ n.reg = c.reg /\ n.match = hit
    BY <1>2, <2>2, Zenon
  <2>4. n.match <=> byte = Append(OwnAddress, 0)
    BY <2>3, Zenon DEF hit
  <2> QED BY <1>3, <2>3, <2>4 DEF ByteTaken
<1>4. CASE c.state = "REGPTR"
  <2>1. x = [c EXCEPT !.state = "ACK_REG", !.pointer = byte]
    BY <1>4 DEF CompleteByte
  <2> HIDE DEF x
  <2>2. Whole(x) /\ x.state = "ACK_REG" /\ x.reg = c.reg /\ x.pointer = byte
    BY <2>1 DEF Whole, ChipFields
  <2> QED BY <1>2, <1>4, <2>2 DEF ByteTaken
<1>5. CASE c.state = "DATA"
  <2> DEFINE all == Stored(c, byte)
  <2>1. x = [c EXCEPT !.state = "ACK_DATA", !.reg = all]
    BY <1>5 DEF CompleteByte
  <2> HIDE DEF x, all
  <2>2. Whole(x) /\ x.state = "ACK_DATA" /\ x.reg = all /\ x.pointer = c.pointer
    BY <2>1 DEF Whole, ChipFields
  <2> QED BY <1>2, <1>5, <2>2 DEF all, ByteTaken
<1> QED BY <1>3, <1>4, <1>5 DEF Receiving

\* The clock of an acknowledgement, and of what is not for the chip.
LEMMA AckFields ==
  ASSUME NEW c, Whole(c), NEW bit, NEW n, n = OnRising(c, bit), c.state \notin Receiving
  PROVE  /\ Whole(n) /\ n.shift = c.shift /\ n.reg = c.reg /\ n.pointer = c.pointer
         /\ c.state = "ACK_ADDR" /\ c.match => n.state = "REGPTR"
         /\ c.state = "ACK_ADDR" /\ ~c.match => n.state = "IDLE"
         /\ c.state = "ACK_REG" => n.state = "DATA"
         /\ c.state = "ACK_DATA" => n.state = "DONE"
         /\ c.state \notin Answering => n.state = "IDLE"
<1> DEFINE go(s) == [c EXCEPT !.state = s]
<1>1. ASSUME NEW s, n = go(s)
      PROVE  Whole(n) /\ n.shift = c.shift /\ n.reg = c.reg /\ n.pointer = c.pointer /\ n.state = s
  BY <1>1 DEF Whole, ChipFields
<1>2. CASE c.state = "ACK_ADDR"
  <2>1. n = go(IF c.match THEN "REGPTR" ELSE "IDLE")
    BY <1>2, Zenon DEF OnRising, Receiving
  <2> HIDE DEF go
  <2>2. CASE c.match
    <3>1. n = go("REGPTR")
      BY <2>1, <2>2, Zenon
    <3> QED BY <1>1, <1>2, <2>2, <3>1 DEF Answering
  <2>3. CASE ~c.match
    <3>1. n = go("IDLE")
      BY <2>1, <2>3, Zenon
    <3> QED BY <1>1, <1>2, <2>3, <3>1 DEF Answering
  <2> QED BY <2>2, <2>3
<1>3. CASE c.state = "ACK_REG"
  <2>1. n = go("DATA")
    BY <1>3 DEF OnRising, Receiving
  <2> HIDE DEF go
  <2> QED BY <1>1, <1>3, <2>1 DEF Answering
<1>4. CASE c.state = "ACK_DATA"
  <2>1. n = go("DONE")
    BY <1>4 DEF OnRising, Receiving
  <2> HIDE DEF go
  <2> QED BY <1>1, <1>4, <2>1 DEF Answering
<1>5. CASE c.state \notin Answering
  <2>1. n = go("IDLE")
    BY <1>5 DEF OnRising, Receiving, Answering
  <2> HIDE DEF go
  <2> QED BY <1>1, <1>5, <2>1 DEF Answering
<1> QED BY <1>2, <1>3, <1>4, <1>5 DEF Answering

\* TCA9538Device.step, as the case it comes to.
Moved(c, k, d) ==
  IF c.prevScl = 1 /\ k = 1 /\ c.prevMaster = 1 /\ d = 0 THEN OnStart(c)
  ELSE IF k = 1 /\ c.prevMaster = 0 /\ d = 1 THEN OnStop(c)
  ELSE IF c.prevScl = 0 /\ k = 1 THEN OnRising(c, IF PullsLow(c) THEN 0 ELSE d)
  ELSE c

LEMMA StepFields ==
  ASSUME NEW c, NEW k, NEW d, NEW n, n = Stepped(c, k, d), Whole(Moved(c, k, d))
  PROVE  /\ Alike(n, Moved(c, k, d)) /\ n.prevScl = k /\ n.prevMaster = d
         /\ n.driving <=> PullsLow(c) /\ d = 1
<1> DEFINE level == IF PullsLow(c) THEN 0 ELSE d
           pull == level = 0 /\ d = 1
           x == Moved(c, k, d)
<1>1. n = [x EXCEPT !.prevScl = k, !.prevMaster = d, !.driving = pull]
  BY Zenon DEF Stepped, Moved
<1>2. Whole(x)
  OBVIOUS
<1> HIDE DEF x, pull
<1>3. Alike(n, x) /\ n.prevScl = k /\ n.prevMaster = d /\ n.driving = pull
  BY <1>1, <1>2 DEF Whole, ChipFields, Alike
<1>4. pull <=> PullsLow(c) /\ d = 1
  BY DEF pull
<1>5. n.driving <=> PullsLow(c) /\ d = 1
  BY <1>3, <1>4, Zenon
<1> QED BY <1>3, <1>5 DEF x

LEMMA AlikeThrough ==
  ASSUME NEW a, NEW b, NEW c, Alike(a, b), Alike(b, c)  PROVE Alike(a, c)
  BY Zenon DEF Alike

LEMMA AlikePulls ==
  ASSUME NEW a, NEW b, Alike(a, b)  PROVE PullsLow(a) <=> PullsLow(b)
<1>1. a.state = b.state /\ a.match = b.match
  BY DEF Alike
<1> QED BY <1>1, Zenon DEF PullsLow

\* The pins are shown to the chip while it drives nothing, and have changed.
LEMMA PinsShown ==
  ASSUME NEW c, NEW k, NEW d \in Level, NEW n, n = OnPins(c, k, d), ~c.driving,
         c.seen # <<k, d>>, Whole(Moved(c, k, d))
  PROVE  /\ Alike(n, Moved(c, k, d)) /\ n.prevScl = k /\ n.prevMaster = d
         /\ n.seen = <<k, Line(n, d)>>
         /\ n.driving <=> PullsLow(c) /\ d = 1
<1> DEFINE x == Stepped(c, k, d)  m == Moved(c, k, d)  last == <<k, Line(x, d)>>
<1>1. Line(c, d) = d
  BY Zenon DEF Line
<1>2. ChipTick(c, k, d) = x
  BY Zenon DEF ChipTick
<1>3. n = [x EXCEPT !.seen = last]
  <2>1. n = [(IF <<k, Line(c, d)>> = c.seen THEN c ELSE ChipTick(c, k, <<k, Line(c, d)>>[2]))
               EXCEPT !.seen = <<k, Line((IF <<k, Line(c, d)>> = c.seen THEN c
                                        ELSE ChipTick(c, k, <<k, Line(c, d)>>[2])), d)>>]
    BY Zenon DEF OnPins
  <2>2. <<k, Line(c, d)>>[2] = d /\ ~(<<k, Line(c, d)>> = c.seen)
    BY <1>1
  <2>3. (IF <<k, Line(c, d)>> = c.seen THEN c ELSE ChipTick(c, k, <<k, Line(c, d)>>[2])) = x
    <3> HIDE DEF x
    <3> QED BY <1>2, <2>2
  <2> HIDE DEF x
  <2> QED BY <2>1, <2>3, Zenon
<1>4. Alike(x, m) /\ x.prevScl = k /\ x.prevMaster = d /\ (x.driving <=> PullsLow(c) /\ d = 1)
  <2>1. Whole(m)
    OBVIOUS
  <2> QED BY <2>1, StepFields, Zenon
<1> HIDE DEF x, m, last
<1>5. Alike(n, x) /\ n.prevScl = x.prevScl /\ n.prevMaster = x.prevMaster /\ n.seen = last
      /\ n.driving = x.driving
  BY <1>3, <1>4 DEF Whole, ChipFields, Alike
<1>6. Alike(n, m)
  BY <1>4, <1>5, AlikeThrough
<1>7. n.driving <=> PullsLow(c) /\ d = 1
  BY <1>4, <1>5, Zenon
<1>8. Line(n, d) = Line(x, d)
  BY <1>5, Zenon DEF Line
<1> QED BY <1>4, <1>5, <1>6, <1>7, <1>8, Zenon DEF m, last

\* They have not changed.
LEMMA PinsSeen ==
  ASSUME NEW c, Whole(c), NEW k, NEW d, NEW n, n = OnPins(c, k, d), c.seen = <<k, Line(c, d)>>
  PROVE  /\ Alike(n, c) /\ n.prevScl = c.prevScl /\ n.prevMaster = c.prevMaster
         /\ n.driving = c.driving /\ n.seen = <<k, Line(n, d)>>
<1> DEFINE last == <<k, Line(c, d)>>
<1>1. n = [c EXCEPT !.seen = last]
  BY Zenon DEF OnPins
<1> HIDE DEF last
<1>2. Alike(n, c) /\ n.prevScl = c.prevScl /\ n.prevMaster = c.prevMaster
      /\ n.driving = c.driving /\ n.seen = last
  BY <1>1 DEF Whole, ChipFields, Alike
<1>3. Line(n, d) = Line(c, d)
  BY <1>2, Zenon DEF Line
<1> QED BY <1>2, <1>3, Zenon DEF last

\* They change while the chip holds the data line low: to the chip the firmware
\* has let it go.
LEMMA PinsHeld ==
  ASSUME NEW c, NEW k, NEW d, NEW n, n = OnPins(c, k, d), c.driving,
         c.seen # <<k, 0>>, Whole(Moved(c, k, 1))
  PROVE  /\ Alike(n, Moved(c, k, 1)) /\ n.prevScl = k /\ n.prevMaster = 1
         /\ n.seen = <<k, Line(n, d)>>
         /\ n.driving <=> PullsLow(c)
<1> DEFINE x == Stepped(c, k, 1)  m == Moved(c, k, 1)  last == <<k, Line(x, d)>>
<1>1. Line(c, d) = 0
  BY Zenon DEF Line
<1>2. ChipTick(c, k, 0) = x
  BY Zenon DEF ChipTick
<1>3. n = [x EXCEPT !.seen = last]
  <2>1. n = [(IF <<k, Line(c, d)>> = c.seen THEN c ELSE ChipTick(c, k, <<k, Line(c, d)>>[2]))
               EXCEPT !.seen = <<k, Line((IF <<k, Line(c, d)>> = c.seen THEN c
                                        ELSE ChipTick(c, k, <<k, Line(c, d)>>[2])), d)>>]
    BY Zenon DEF OnPins
  <2>2. <<k, Line(c, d)>>[2] = 0 /\ ~(<<k, Line(c, d)>> = c.seen)
    BY <1>1
  <2>3. (IF <<k, Line(c, d)>> = c.seen THEN c ELSE ChipTick(c, k, <<k, Line(c, d)>>[2])) = x
    <3> HIDE DEF x
    <3> QED BY <1>2, <2>2
  <2> HIDE DEF x
  <2> QED BY <2>1, <2>3, Zenon
<1>4. Alike(x, m) /\ x.prevScl = k /\ x.prevMaster = 1 /\ (x.driving <=> PullsLow(c))
  <2>1. Whole(m)
    OBVIOUS
  <2>2. Alike(x, m) /\ x.prevScl = k /\ x.prevMaster = 1 /\ (x.driving <=> PullsLow(c) /\ 1 = 1)
    BY <2>1, StepFields, Zenon
  <2> QED BY <2>2, Zenon
<1> HIDE DEF x, m, last
<1>5. Alike(n, x) /\ n.prevScl = x.prevScl /\ n.prevMaster = x.prevMaster /\ n.seen = last
      /\ n.driving = x.driving
  BY <1>3, <1>4 DEF Whole, ChipFields, Alike
<1>6. Alike(n, m)
  BY <1>4, <1>5, AlikeThrough
<1>7. n.driving <=> PullsLow(c)
  BY <1>4, <1>5, Zenon
<1>8. Line(n, d) = Line(x, d)
  BY <1>5, Zenon DEF Line
<1> QED BY <1>4, <1>5, <1>6, <1>7, <1>8, Zenon DEF m, last

\* The chip lets the line alone, and has seen the pins as k and d.
Loose(c, k, d) == ~c.driving /\ c.prevScl = k /\ c.seen = <<k, d>>

LEMMA WholeMoves ==
  ASSUME NEW c, Whole(c), NEW k, NEW d  PROVE Whole(Moved(c, k, d))
<1> DEFINE bit == IF PullsLow(c) THEN 0 ELSE d
<1>1. Whole(OnStart(c)) /\ Whole(OnStop(c))
  BY StartFields, StopFields
<1>2. Whole(OnRising(c, bit))
  <2>1. CASE c.state \notin Receiving
    BY <2>1, AckFields
  <2>2. CASE c.state \in Receiving
    <3> HIDE DEF bit
    <3> DEFINE n == OnRising(c, bit)  more == Append(c.shift, bit)
    <3>0. Rises(c, bit, n, more)
      BY DEF Rises
    <3> HIDE DEF n, more
    <3>1. Whole(n)
      BY <2>2, <3>0, BitFields, ByteFields, Zenon DEF ByteTaken
    <3> QED BY <3>1 DEF n
  <2> QED BY <2>1, <2>2
<1> HIDE DEF bit
<1>3. Moved(c, k, d) \in {OnStart(c), OnStop(c), OnRising(c, bit), c}
  BY Zenon DEF Moved, bit
<1> QED BY <1>1, <1>2, <1>3

\* With the clock low nothing happens but that the data line may change.
LEMMA LowPins ==
  ASSUME NEW c, Whole(c), NEW k \in Level, NEW d \in Level, Loose(c, k, d), ~PullsLow(c),
         k = 0 => c.prevMaster \in {d, 1},
         NEW e \in Level, NEW n, n = OnPins(c, 0, e)
  PROVE  Alike(n, c) /\ Loose(n, 0, e) /\ n.prevMaster \in {e, 1}
<1>1. CASE k = 0 /\ d = e
  <2>1. Line(c, e) = e
    BY Zenon DEF Line, Loose
  <2>2. c.seen = <<0, Line(c, e)>>
    BY <1>1, <2>1 DEF Loose
  <2>3. /\ Alike(n, c) /\ n.prevScl = c.prevScl /\ n.prevMaster = c.prevMaster
        /\ n.driving = c.driving /\ n.seen = <<0, Line(n, e)>>
    BY <2>2, PinsSeen
  <2>4. ~n.driving
    BY <2>3, Zenon DEF Loose
  <2>5. Line(n, e) = e
    BY <2>4, Zenon DEF Line
  <2>6. c.prevScl = 0
    BY <1>1 DEF Loose
  <2> QED BY <1>1, <2>3, <2>4, <2>5, <2>6 DEF Loose
<1>2. CASE ~(k = 0 /\ d = e)
  <2>1. c.seen # <<0, e>> /\ ~c.driving
    BY <1>2 DEF Loose
  <2>2. Moved(c, 0, e) = c
    BY DEF Moved
  <2>3. Whole(Moved(c, 0, e))
    BY <2>2
  <2>4. /\ Alike(n, Moved(c, 0, e)) /\ n.prevScl = 0 /\ n.prevMaster = e
        /\ n.seen = <<0, Line(n, e)>> /\ (n.driving <=> PullsLow(c) /\ e = 1)
    BY <2>1, <2>3, PinsShown
  <2>5. ~n.driving
    BY <2>4, Zenon
  <2>6. Line(n, e) = e
    BY <2>5, Zenon DEF Line
  <2> QED BY <2>2, <2>4, <2>5, <2>6 DEF Loose
<1> QED BY <1>1, <1>2

\* The clock rises, the data line stays.
LEMMA RisePins ==
  ASSUME NEW c, Whole(c), NEW d \in Level, Loose(c, 0, d), ~PullsLow(c),
         c.prevMaster \in {d, 1}, NEW n, n = OnPins(c, 1, d)
  PROVE  Alike(n, OnRising(c, d)) /\ Loose(n, 1, d) /\ n.prevMaster = d
<1>1. c.seen # <<1, d>> /\ ~c.driving
  BY DEF Loose
<1>2. Moved(c, 1, d) = OnRising(c, d)
  <2>1. c.prevScl = 0 /\ ~(c.prevMaster = 0 /\ d = 1)
    BY DEF Loose, Level
  <2>2. (IF PullsLow(c) THEN 0 ELSE d) = d
    OBVIOUS
  <2>3. Moved(c, 1, d) = OnRising(c, IF PullsLow(c) THEN 0 ELSE d)
    BY <2>1 DEF Moved
  <2> QED BY <2>2, <2>3
<1>3. Whole(Moved(c, 1, d))
  BY WholeMoves
<1>4. /\ Alike(n, Moved(c, 1, d)) /\ n.prevScl = 1 /\ n.prevMaster = d
      /\ n.seen = <<1, Line(n, d)>> /\ (n.driving <=> PullsLow(c) /\ d = 1)
  BY <1>1, <1>3, PinsShown
<1>5. ~n.driving
  BY <1>4, Zenon
<1>6. Line(n, d) = d
  BY <1>5, Zenon DEF Line
<1> QED BY <1>2, <1>4, <1>5, <1>6 DEF Loose

\* The chip answers when the clock falls behind the last bit.
LEMMA AnswerPins ==
  ASSUME NEW c, Whole(c), NEW d \in Level, Loose(c, 1, d), NEW e \in Level,
         NEW n, n = OnPins(c, 0, e)
  PROVE  /\ Alike(n, c) /\ n.prevScl = 0 /\ n.prevMaster = e /\ n.seen = <<0, Line(n, e)>>
         /\ n.driving <=> PullsLow(c) /\ e = 1
<1>1. c.seen # <<0, e>> /\ ~c.driving
  BY DEF Loose
<1>2. Moved(c, 0, e) = c
  BY DEF Moved
<1>3. Whole(Moved(c, 0, e))
  BY <1>2
<1>4. /\ Alike(n, Moved(c, 0, e)) /\ n.prevScl = 0 /\ n.prevMaster = e
      /\ n.seen = <<0, Line(n, e)>> /\ (n.driving <=> PullsLow(c) /\ e = 1)
  BY <1>1, <1>3, PinsShown
<1> QED BY <1>2, <1>4, Zenon

\* The firmware lets the line go.
LEMMA ReleasePins ==
  ASSUME NEW c, Whole(c), NEW d \in Level, c.prevScl = 0, c.prevMaster = d,
         c.seen = <<0, Line(c, d)>>, c.driving <=> PullsLow(c) /\ d = 1,
         NEW n, n = OnPins(c, 0, 1)
  PROVE  /\ Alike(n, c) /\ n.prevScl = 0 /\ n.prevMaster = 1 /\ n.seen = <<0, Line(n, 1)>>
         /\ n.driving <=> PullsLow(c)
<1>1. CASE d = 1
  <2>1. c.seen = <<0, Line(c, 1)>>
    BY <1>1
  <2>2. /\ Alike(n, c) /\ n.prevScl = c.prevScl /\ n.prevMaster = c.prevMaster
        /\ n.driving = c.driving /\ n.seen = <<0, Line(n, 1)>>
    BY <2>1, PinsSeen
  <2>3. n.driving <=> PullsLow(c)
    BY <1>1, <2>2, Zenon
  <2> QED BY <1>1, <2>2, <2>3
<1>2. CASE d # 1
  <2>1. ~c.driving /\ d = 0
    BY <1>2, LevelTyped
  <2>2. c.seen # <<0, 1>>
    <3>1. Line(c, d) = d
      BY <2>1, Zenon DEF Line
    <3> QED BY <2>1, <3>1
  <2>3. Moved(c, 0, 1) = c
    BY <2>1 DEF Moved
  <2>4. Whole(Moved(c, 0, 1)) /\ 1 \in Level
    BY <2>3 DEF Level
  <2>5. /\ Alike(n, Moved(c, 0, 1)) /\ n.prevScl = 0 /\ n.prevMaster = 1
        /\ n.seen = <<0, Line(n, 1)>> /\ (n.driving <=> PullsLow(c) /\ 1 = 1)
    BY <2>1, <2>2, <2>4, PinsShown
  <2> QED BY <2>3, <2>5, Zenon
<1> QED BY <1>1, <1>2

\* The clock of the acknowledgement rises.
LEMMA AckPins ==
  ASSUME NEW c, Whole(c), c.prevScl = 0, c.prevMaster = 1, c.seen = <<0, Line(c, 1)>>,
         c.driving <=> PullsLow(c), NEW n, n = OnPins(c, 1, 1)
  PROVE  \E bit \in Level :
           /\ Alike(n, OnRising(c, bit)) /\ n.prevScl = 1 /\ n.prevMaster = 1
           /\ n.seen = <<1, Line(n, 1)>>
           /\ n.driving <=> PullsLow(c)
<1> DEFINE bit == IF PullsLow(c) THEN 0 ELSE 1
<1>0. bit \in Level /\ 1 \in Level
  BY DEF Level
<1>1. Moved(c, 1, 1) = OnRising(c, bit)
  <2> HIDE DEF bit
  <2>1. Moved(c, 1, 1) = OnRising(c, IF PullsLow(c) THEN 0 ELSE 1)
    BY DEF Moved
  <2> QED BY <2>1 DEF bit
<1>2. Whole(Moved(c, 1, 1))
  BY WholeMoves
<1>3. CASE c.driving
  <2>1. c.seen # <<1, 0>>
    OBVIOUS
  <2>2. /\ Alike(n, Moved(c, 1, 1)) /\ n.prevScl = 1 /\ n.prevMaster = 1
        /\ n.seen = <<1, Line(n, 1)>> /\ (n.driving <=> PullsLow(c))
    BY <1>2, <1>3, <2>1, PinsHeld
  <2> HIDE DEF bit
  <2> QED BY <1>0, <1>1, <2>2, Zenon
<1>4. CASE ~c.driving
  <2>1. c.seen # <<1, 1>>
    OBVIOUS
  <2>2. /\ Alike(n, Moved(c, 1, 1)) /\ n.prevScl = 1 /\ n.prevMaster = 1
        /\ n.seen = <<1, Line(n, 1)>> /\ (n.driving <=> PullsLow(c) /\ 1 = 1)
    BY <1>0, <1>2, <1>4, <2>1, PinsShown
  <2> HIDE DEF bit
  <2> QED BY <1>0, <1>1, <2>2, Zenon
<1> QED BY <1>3, <1>4

\* It falls, and the chip lets the line go.
LEMMA AckLowPins ==
  ASSUME NEW c, Whole(c), c.prevScl = 1, c.prevMaster = 1, c.seen = <<1, Line(c, 1)>>,
         ~PullsLow(c), NEW d \in Level, NEW n, n = OnPins(c, 0, d)
  PROVE  Alike(n, c) /\ Loose(n, 0, d) /\ n.prevMaster \in {d, 1}
<1>1. Moved(c, 0, 1) = c /\ Moved(c, 0, d) = c
  BY DEF Moved
<1>2. Whole(Moved(c, 0, 1)) /\ Whole(Moved(c, 0, d))
  BY <1>1
<1>3. CASE c.driving
  <2>1. c.seen # <<0, 0>>
    OBVIOUS
  <2>2. /\ Alike(n, Moved(c, 0, 1)) /\ n.prevScl = 0 /\ n.prevMaster = 1
        /\ n.seen = <<0, Line(n, d)>> /\ (n.driving <=> PullsLow(c))
    BY <1>2, <1>3, <2>1, PinsHeld
  <2>3. ~n.driving
    BY <2>2, Zenon
  <2>4. Line(n, d) = d
    BY <2>3, Zenon DEF Line
  <2> QED BY <1>1, <2>2, <2>3, <2>4 DEF Loose
<1>4. CASE ~c.driving
  <2>1. c.seen # <<0, d>>
    OBVIOUS
  <2>2. /\ Alike(n, Moved(c, 0, d)) /\ n.prevScl = 0 /\ n.prevMaster = d
        /\ n.seen = <<0, Line(n, d)>> /\ (n.driving <=> PullsLow(c) /\ d = 1)
    BY <1>2, <1>4, <2>1, PinsShown
  <2>3. ~n.driving
    BY <2>2, Zenon
  <2>4. Line(n, d) = d
    BY <2>3, Zenon DEF Line
  <2> QED BY <1>1, <2>2, <2>3, <2>4 DEF Loose
<1> QED BY <1>3, <1>4

\* The conditions, and the first time the lines are up.
LEMMA ConditionPins ==
  ASSUME NEW c, Whole(c), c.prevScl = 1, ~c.driving, ~PullsLow(c)
  PROVE  /\ c.seen = <<1, 1>> /\ c.prevMaster = 1 =>
              LET n == OnPins(c, 1, 0)
              IN  Alike(n, OnStart(c)) /\ Loose(n, 1, 0) /\ n.prevMaster = 0
         /\ c.seen = <<1, 0>> /\ c.prevMaster = 0 =>
              LET n == OnPins(c, 1, 1)
              IN  Alike(n, OnStop(c)) /\ Loose(n, 1, 1) /\ n.prevMaster = 1
         /\ c.seen = << >> /\ c.prevMaster = 1 =>
              LET n == OnPins(c, 1, 1)
              IN  Alike(n, c) /\ Loose(n, 1, 1) /\ n.prevMaster = 1
<1>0. 0 \in Level /\ 1 \in Level
  BY DEF Level
<1>1. ASSUME NEW d \in Level, c.seen # <<1, d>>, NEW m, Moved(c, 1, d) = m
      PROVE  LET n == OnPins(c, 1, d)
             IN  Alike(n, m) /\ Loose(n, 1, d) /\ n.prevMaster = d
  <2> DEFINE n == OnPins(c, 1, d)
  <2>1. n = OnPins(c, 1, d) /\ Whole(Moved(c, 1, d))
    BY WholeMoves
  <2> HIDE DEF n
  <2>2. /\ Alike(n, Moved(c, 1, d)) /\ n.prevScl = 1 /\ n.prevMaster = d
        /\ n.seen = <<1, Line(n, d)>> /\ (n.driving <=> PullsLow(c) /\ d = 1)
    BY <1>1, <2>1, PinsShown
  <2>3. ~n.driving
    BY <2>2, Zenon
  <2>4. Line(n, d) = d
    BY <2>3, Zenon DEF Line
  <2>5. Alike(n, m) /\ Loose(n, 1, d) /\ n.prevMaster = d
    BY <1>1, <2>2, <2>3, <2>4 DEF Loose
  <2> QED BY <2>5 DEF n
<1>2. ASSUME c.seen = <<1, 1>>, c.prevMaster = 1
      PROVE  c.seen # <<1, 0>> /\ Moved(c, 1, 0) = OnStart(c)
  BY <1>2 DEF Moved
<1>3. ASSUME c.seen = <<1, 0>>, c.prevMaster = 0
      PROVE  c.seen # <<1, 1>> /\ Moved(c, 1, 1) = OnStop(c)
  BY <1>3 DEF Moved
<1>4. ASSUME c.seen = << >>, c.prevMaster = 1
      PROVE  c.seen # <<1, 1>> /\ Moved(c, 1, 1) = c
  BY <1>4 DEF Moved
<1> QED BY <1>0, <1>1, <1>2, <1>3, <1>4, Zenon

Count(t) == Len(t.acks)

\* Between two bits: what the chip has made of the transfer t, and of the bits
\* of the next byte.
Listens(c, t, bits, w) ==
  /\ c.reg = w /\ c.state \notin Answering
  /\ Count(t) = 0 => c.state = "ADDR" /\ c.shift = bits
  /\ Count(t) > 0 /\ ~t.toChip => c.state = "IDLE"
  /\ Count(t) = 1 /\ t.toChip => c.state = "REGPTR" /\ c.shift = bits
  /\ Count(t) = 2 /\ t.toChip => c.state = "DATA" /\ c.shift = bits /\ c.pointer = t.pointer
  /\ Count(t) > 2 /\ t.toChip => c.state \in {"DONE", "IDLE"}

\* Behind the last bit of a byte, to the clock of its acknowledgement.
Answers(c, t, byte, w) ==
  /\ Count(t) = 0 => /\ c.state = "ACK_ADDR" /\ c.shift = << >> /\ c.reg = w
                     /\ c.match <=> byte = Append(OwnAddress, 0)
  /\ Count(t) > 0 /\ ~t.toChip => c.state = "IDLE" /\ c.reg = w
  /\ Count(t) = 1 /\ t.toChip =>
       c.state = "ACK_REG" /\ c.shift = << >> /\ c.pointer = byte /\ c.reg = w
  /\ Count(t) = 2 /\ t.toChip =>
       /\ c.state = "ACK_DATA"
       /\ c.reg = [r \in Registers |-> IF t.pointer = PointerOf[r] THEN byte ELSE w[r]]
  /\ Count(t) > 2 /\ t.toChip => c.state = "IDLE" /\ c.reg = w

\* The bytes of t that were acknowledged are the first three of a write.
Acked(t) == \A i \in DOMAIN t.acks : t.acks[i] <=> t.toChip /\ i <= 3

Transfers == [acks : Seq(BOOLEAN), toChip : BOOLEAN, pointer : Seq(Level)]

LEMMA AlikeListens ==
  ASSUME NEW n, NEW c, Alike(n, c), NEW t, NEW bits, NEW w
  PROVE  /\ Listens(c, t, bits, w) => Listens(n, t, bits, w)
         /\ Answers(c, t, bits, w) => Answers(n, t, bits, w)
<1>1. n.state = c.state /\ n.reg = c.reg /\ n.shift = c.shift /\ n.pointer = c.pointer
  BY DEF Alike
<1>2. n.match <=> c.match
  BY Zenon DEF Alike
<1>3. Listens(c, t, bits, w) => Listens(n, t, bits, w)
  BY <1>1 DEF Listens
<1>4. Answers(c, t, bits, w) => Answers(n, t, bits, w)
  BY <1>1, <1>2 DEF Answers
<1> QED BY <1>3, <1>4

LEMMA ListensQuietly ==
  ASSUME NEW c, NEW t, NEW bits, NEW w, Listens(c, t, bits, w)  PROVE ~PullsLow(c)
<1>1. c.state \notin {"ACK_ADDR", "ACK_REG", "ACK_DATA"}
  BY DEF Listens, Answering
<1> QED BY <1>1 DEF PullsLow

\* A bit that does not complete its byte.
LEMMA BitHeard ==
  ASSUME NEW c, Whole(c), NEW t \in Transfers, NEW bits \in Seq(Level), NEW w, Listens(c, t, bits, w),
         NEW bit \in Level, Len(bits) + 1 < ByteLen
  PROVE  Listens(OnRising(c, bit), t, Append(bits, bit), w)
<1> DEFINE n == OnRising(c, bit)  more == Append(bits, bit)
<1>0. Count(t) \in Nat /\ Len(more) < ByteLen
  BY LenProperties DEF Transfers, Count
<1>n. n = OnRising(c, bit) /\ more = Append(bits, bit)
  OBVIOUS
<1> SUFFICES Listens(n, t, more, w)
  OBVIOUS
<1> HIDE DEF n, more
<1>1. CASE c.state \in Receiving
  <2>1. c.shift = bits
    BY <1>0, <1>1 DEF Listens, Receiving
  <2>2. /\ n.state = c.state /\ n.shift = more /\ n.reg = c.reg
        /\ n.pointer = c.pointer
    <3>1. Rises(c, bit, n, more) /\ Short(more)
      BY <1>0, <1>n, <2>1 DEF Rises, Short
    <3> QED BY <1>1, <3>1, BitFields, SMTT(30)
  <2> QED BY <1>0, <1>1, <2>2 DEF Listens, Receiving
<1>2. CASE c.state \notin Receiving
  <2>1. n.state = "IDLE" /\ n.reg = c.reg
    <3>1. c.state \notin Answering
      BY DEF Listens
    <3> QED BY <1>2, <1>n, <3>1, AckFields
  <2> QED BY <1>0, <1>2, <2>1 DEF Listens, Receiving, Answering
<1> QED BY <1>1, <1>2

\* The last bit of a byte.
LEMMA ByteHeard ==
  ASSUME NEW c, Whole(c), NEW t \in Transfers, NEW bits \in Seq(Level),
         NEW w, w = [r \in Registers |-> w[r]], Listens(c, t, bits, w),
         NEW bit \in Level, NEW byte, byte = Append(bits, bit), Len(byte) >= ByteLen
  PROVE  Answers(OnRising(c, bit), t, byte, w)
<1> DEFINE n == OnRising(c, bit)
<1>0. Count(t) \in Nat /\ ~(Len(byte) < ByteLen)
  BY AppendProperties, LenProperties, I2cAssumption DEF Transfers, Count
<1>n. n = OnRising(c, bit)
  OBVIOUS
<1> SUFFICES Answers(n, t, byte, w)
  OBVIOUS
<1> HIDE DEF n
<1>1. CASE c.state \in Receiving
  <2>1. byte = Append(c.shift, bit)
    BY <1>0, <1>1 DEF Listens, Receiving
  <2>2. ByteTaken(c, n, byte)
    <3>1. Rises(c, bit, n, byte) /\ ~Short(byte)
      BY <1>0, <1>n, <2>1 DEF Rises, Short
    <3> QED BY <1>1, <3>1, ByteFields, Zenon
  <2>3. /\ c.reg = w
        /\ c.state = "ADDR" => Count(t) = 0
        /\ c.state = "REGPTR" => Count(t) = 1 /\ t.toChip
        /\ c.state = "DATA" => Count(t) = 2 /\ t.toChip /\ c.pointer = t.pointer
    BY <1>0 DEF Listens
  <2>4. Stored(c, byte) = [r \in Registers |-> IF c.pointer = PointerOf[r] THEN byte ELSE w[r]]
    BY <2>3, Zenon DEF Stored
  <2>5. CASE c.state = "ADDR"
    BY <2>2, <2>3, <2>5 DEF Answers, ByteTaken
  <2>6. CASE c.state = "REGPTR"
    BY <2>2, <2>3, <2>6 DEF Answers, ByteTaken
  <2>7. CASE c.state = "DATA"
    <3>1. n.reg = [r \in Registers |-> IF t.pointer = PointerOf[r] THEN byte ELSE w[r]]
      <4>1. n.reg = Stored(c, byte) /\ c.pointer = t.pointer
        BY <2>2, <2>3, <2>7 DEF ByteTaken
      <4> QED BY <2>4, <4>1, SMTT(30)
    <3> QED BY <2>2, <2>3, <2>7, <3>1 DEF Answers, ByteTaken
  <2> QED BY <1>1, <2>5, <2>6, <2>7 DEF Receiving
<1>2. CASE c.state \notin Receiving
  <2>1. n.state = "IDLE" /\ n.reg = c.reg
    <3>1. c.state \notin Answering
      BY DEF Listens
    <3> QED BY <1>2, <1>n, <3>1, AckFields
  <2>2. Count(t) > 2 \/ (Count(t) > 0 /\ ~t.toChip)
    BY <1>0, <1>2 DEF Listens, Receiving
  <2>3. c.reg = w
    BY DEF Listens
  <2> QED BY <1>0, <2>1, <2>2, <2>3 DEF Answers
<1> QED BY <1>1, <1>2

\* Its acknowledgement.
LEMMA AckHeard ==
  ASSUME NEW c, Whole(c), NEW t \in Transfers, NEW byte \in Seq(Level),
         NEW w, w = [r \in Registers |-> w[r]], Answers(c, t, byte, w), Acked(t),
         NEW ack \in BOOLEAN, ack <=> PullsLow(c), NEW bit \in Level,
         NEW u, u = Grown(t, byte, ack)
  PROVE  /\ u \in Transfers /\ Acked(u) /\ Count(u) = Count(t) + 1
         /\ Listens(OnRising(c, bit), u, << >>,
              [r \in Registers |-> IF Count(u) = 3 /\ u.toChip /\ u.pointer = PointerOf[r]
                                   THEN byte ELSE w[r]])
<1> DEFINE n == OnRising(c, bit)
           hit == byte = Append(OwnAddress, 0)
           none == t.acks = << >>
           toChip == IF none THEN hit ELSE t.toChip
           pointer == IF Count(t) = 1 THEN byte ELSE t.pointer
           acks == Append(t.acks, ack)
           v == [r \in Registers |-> IF Count(u) = 3 /\ u.toChip /\ u.pointer = PointerOf[r]
                                     THEN byte ELSE w[r]]
<1>0. /\ Count(t) \in Nat /\ t.acks \in Seq(BOOLEAN) /\ t.pointer \in Seq(Level)
      /\ (none <=> Count(t) = 0)
  BY LenProperties, EmptySeq DEF Transfers, Count
<1>1. u = [acks |-> acks, toChip |-> toChip, pointer |-> pointer]
  BY Zenon DEF Grown, Count
<1>2. acks \in Seq(BOOLEAN) /\ Len(acks) = Count(t) + 1
      /\ \A i \in 1..Count(t) : acks[i] = t.acks[i]
  BY <1>0, AppendProperties DEF Count
<1>3. acks[Count(t) + 1] = ack
  BY <1>0, AppendProperties DEF Count
<1>4. toChip \in BOOLEAN /\ pointer \in Seq(Level)
  BY <1>0 DEF Transfers
<1>5. u.acks = acks /\ u.toChip = toChip /\ u.pointer = pointer /\ u \in Transfers
  <2> HIDE DEF acks, toChip, pointer
  <2> QED BY <1>1, <1>2, <1>4 DEF Transfers
<1>6. Count(u) = Count(t) + 1
  BY <1>2, <1>5 DEF Count
<1>7. u.toChip <=> IF Count(t) = 0 THEN hit ELSE t.toChip
  BY <1>0, <1>5, Zenon DEF toChip
<1>8. PullsLow(c) <=> u.toChip /\ Count(t) < 3
  <2>1. CASE Count(t) = 0
    <3>1. c.state = "ACK_ADDR" /\ (c.match <=> hit)
      BY <2>1 DEF Answers
    <3>2. PullsLow(c) <=> c.match
      BY <3>1, Zenon DEF PullsLow
    <3>3. Count(t) < 3
      BY <2>1
    <3> QED BY <1>7, <2>1, <3>1, <3>2, <3>3, Zenon
  <2>2. CASE Count(t) > 0 /\ ~t.toChip
    <3>1. c.state = "IDLE" /\ Count(t) # 0
      BY <2>2 DEF Answers
    <3>2. ~PullsLow(c)
      BY <3>1 DEF PullsLow
    <3> QED BY <1>7, <2>2, <3>1, <3>2, Zenon
  <2>3. CASE Count(t) \in {1, 2} /\ t.toChip
    <3>1. c.state \in {"ACK_REG", "ACK_DATA"} /\ Count(t) # 0 /\ Count(t) < 3
      BY <2>3 DEF Answers
    <3>2. PullsLow(c)
      BY <3>1 DEF PullsLow
    <3> QED BY <1>7, <2>3, <3>1, <3>2, Zenon
  <2>4. CASE Count(t) > 2 /\ t.toChip
    <3>1. c.state = "IDLE" /\ ~(Count(t) < 3)
      BY <1>0, <2>4 DEF Answers
    <3>2. ~PullsLow(c)
      BY <3>1 DEF PullsLow
    <3> QED BY <3>1, <3>2, Zenon
  <2> QED BY <1>0, <2>1, <2>2, <2>3, <2>4
<1>9. Acked(u)
  <2> SUFFICES ASSUME NEW i \in DOMAIN u.acks  PROVE u.acks[i] <=> u.toChip /\ i <= 3
    BY DEF Acked
  <2>1. i \in 1..Count(t) + 1
    BY <1>2, <1>5, LenProperties
  <2>2. CASE i = Count(t) + 1
    <3>1. u.acks[i] = ack
      BY <1>3, <1>5, <2>2, Zenon
    <3>2. Count(t) < 3 <=> i <= 3
      BY <1>0, <2>2
    <3> QED BY <1>8, <3>1, <3>2, Zenon
  <2>3. CASE i # Count(t) + 1
    <3>1. i \in 1..Count(t) /\ Count(t) # 0 /\ DOMAIN t.acks = 1..Count(t)
      BY <1>0, <2>1, <2>3, LenProperties DEF Count
    <3>2. u.acks[i] = t.acks[i]
      BY <1>2, <1>5, <3>1
    <3>3. t.acks[i] <=> t.toChip /\ i <= 3
      BY <3>1, Zenon DEF Acked
    <3> QED BY <1>7, <3>1, <3>2, <3>3, Zenon
  <2> QED BY <2>2, <2>3
<1>10. c.state \notin Receiving
  BY <1>0 DEF Answers, Receiving
<1>11. /\ n.shift = c.shift /\ n.reg = c.reg /\ n.pointer = c.pointer
       /\ c.state = "ACK_ADDR" /\ c.match => n.state = "REGPTR"
       /\ c.state = "ACK_ADDR" /\ ~c.match => n.state = "IDLE"
       /\ c.state = "ACK_REG" => n.state = "DATA"
       /\ c.state = "ACK_DATA" => n.state = "DONE"
       /\ c.state \notin Answering => n.state = "IDLE"
  BY <1>10, AckFields
<1> HIDE DEF n
<1>12. ~(Count(u) = 3 /\ u.toChip) => v = w
  BY Zenon
<1> HIDE DEF v, hit
<1>13. Listens(n, u, << >>, v)
  <2>1. CASE Count(t) = 0
    <3>1. c.state = "ACK_ADDR" /\ c.shift = << >> /\ c.reg = w /\ (c.match <=> hit)
      BY <2>1 DEF Answers, hit
    <3>2. Count(u) = 1 /\ (u.toChip <=> c.match) /\ v = w
      BY <1>6, <1>7, <1>12, <2>1, <3>1
    <3>3. CASE c.match
      BY <1>11, <3>1, <3>2, <3>3 DEF Listens, Answering
    <3>4. CASE ~c.match
      BY <1>11, <3>1, <3>2, <3>4 DEF Listens, Answering
    <3> QED BY <3>3, <3>4
  <2>2. CASE Count(t) > 0 /\ ~t.toChip
    <3>1. c.state = "IDLE" /\ c.reg = w
      BY <2>2 DEF Answers
    <3>2. Count(u) > 1 /\ ~u.toChip /\ v = w
      BY <1>0, <1>6, <1>7, <1>12, <2>2
    <3> QED BY <1>6, <1>11, <3>1, <3>2 DEF Listens, Answering
  <2>3. CASE Count(t) = 1 /\ t.toChip
    <3>1. c.state = "ACK_REG" /\ c.shift = << >> /\ c.reg = w /\ c.pointer = byte
      BY <2>3 DEF Answers
    <3>2. Count(u) = 2 /\ u.toChip /\ v = w /\ u.pointer = byte
      BY <1>5, <1>6, <1>7, <1>12, <2>3
    <3> QED BY <1>11, <3>1, <3>2 DEF Listens, Answering
  <2>4. CASE Count(t) = 2 /\ t.toChip
    <3>1. c.state = "ACK_DATA"
          /\ c.reg = [r \in Registers |-> IF t.pointer = PointerOf[r] THEN byte ELSE w[r]]
      BY <2>4 DEF Answers
    <3>2. Count(u) = 3 /\ u.toChip /\ u.pointer = t.pointer
      BY <1>5, <1>6, <1>7, <2>4
    <3>3. v = [r \in Registers |-> IF t.pointer = PointerOf[r] THEN byte ELSE w[r]]
      BY <3>2, Zenon DEF v
    <3> QED BY <1>11, <3>1, <3>2, <3>3 DEF Listens, Answering
  <2>5. CASE Count(t) > 2 /\ t.toChip
    <3>1. c.state = "IDLE" /\ c.reg = w
      BY <2>5 DEF Answers
    <3>2. Count(u) > 3 /\ u.toChip /\ v = w
      BY <1>0, <1>6, <1>7, <1>12, <2>5
    <3> QED BY <1>6, <1>11, <3>1, <3>2 DEF Listens, Answering
  <2> QED BY <1>0, <2>1, <2>2, <2>3, <2>4, <2>5
<1> QED BY <1>5, <1>6, <1>9, <1>13 DEF n, v

\* What holds in each step of the firmware.
Resting(c, d, w) ==
  /\ Loose(c, 1, d) /\ c.prevMaster = d /\ c.reg = w /\ c.state \notin Answering
Between(c, d, t, bits, w) ==
  Loose(c, 0, d) /\ c.prevMaster \in {d, 1} /\ Listens(c, t, bits, w)
AckShown(c, d, t, byte, w) ==
  /\ c.prevScl = 0 /\ c.prevMaster = d /\ c.seen = <<0, Line(c, d)>>
  /\ c.driving <=> PullsLow(c) /\ d = 1
  /\ Answers(c, t, byte, w)

Off(c, w) ==
  /\ c.seen = << >> /\ c.prevScl = 1 /\ c.prevMaster = 1 /\ ~c.driving
  /\ c.state = "IDLE" /\ c.reg = w
Setting(c, d, t, byte, w) ==
  \E bits \in Seq(Level) : byte = Append(bits, d) /\ Between(c, d, t, bits, w)
ClockHigh(c, d, t, byte, w) ==
  /\ Loose(c, 1, d)
  /\ Len(byte) < ByteLen => Listens(c, t, byte, w)
  /\ Len(byte) >= ByteLen => Answers(c, t, byte, w)
Acknowledging(c, t, w) ==
  /\ c.prevScl = 1 /\ c.prevMaster = 1 /\ c.seen = <<1, Line(c, 1)>>
  /\ Listens(c, t, << >>, w)

Moment(step, d, c, t, byte, w) ==
  \/ step = "off" /\ Off(c, w)
  \/ step = "idle" /\ d = 1 /\ Resting(c, 1, w)
  \/ step = "started" /\ d = 0 /\ Loose(c, 1, 0) /\ byte = << >> /\ Listens(c, t, << >>, w)
  \/ step = "low" /\ Len(byte) < ByteLen /\ Between(c, d, t, byte, w)
  \/ step = "set" /\ Setting(c, d, t, byte, w)
  \/ step = "high" /\ ClockHigh(c, d, t, byte, w)
  \/ step = "release" /\ AckShown(c, d, t, byte, w)
  \/ step = "released" /\ d = 1 /\ AckShown(c, 1, t, byte, w)
  \/ step = "acknowledged" /\ byte = << >> /\ Acknowledging(c, t, w)
  \/ step = "stop low" /\ d = 0 /\ Len(byte) < ByteLen - 1 /\ Between(c, 0, t, byte, w)
  \/ step = "stop high" /\ d = 0 /\ Resting(c, 0, w)
  \/ step = "restart low" /\ d = 1 /\ Len(byte) < ByteLen - 1 /\ Between(c, 1, t, byte, w)

SenderSteps == {"off", "idle", "started", "low", "set", "high", "release", "released",
                "acknowledged", "stop low", "stop high", "restart low"}
Senders == [step : SenderSteps, byte : Seq(Level), sent : Nat]

I2cInv ==
  /\ Whole(chip) /\ sda \in Level
  /\ sender \in Senders /\ Len(sender.byte) <= ByteLen
  /\ heard \in Transfers /\ Acked(heard)
  /\ written = [r \in Registers |-> written[r]]
  /\ Moment(sender.step, sda, chip, heard, sender.byte, written)

LEMMA RestQuietly == ASSUME NEW c, c.state \notin Answering  PROVE ~PullsLow(c)
  BY DEF PullsLow, Answering

LEMMA AlikeBetween ==
  ASSUME NEW n, NEW c, Alike(n, c), NEW d, Loose(n, 0, d), n.prevMaster \in {d, 1},
         NEW t, NEW bits, NEW w, Listens(c, t, bits, w)
  PROVE  Between(n, d, t, bits, w) /\ Whole(n)
<1>1. Listens(n, t, bits, w)
  BY AlikeListens, Zenon
<1>2. Whole(n)
  BY DEF Alike
<1> QED BY <1>1, <1>2 DEF Between

\* The data line changes while the clock is low.
LEMMA BetweenMoves ==
  ASSUME NEW c, Whole(c), NEW d \in Level, NEW e \in Level, NEW t, NEW bits, NEW w,
         Between(c, d, t, bits, w), NEW n, n = OnPins(c, 0, e)
  PROVE  Between(n, e, t, bits, w) /\ Whole(n)
<1>1. Loose(c, 0, d) /\ c.prevMaster \in {d, 1} /\ Listens(c, t, bits, w)
  BY DEF Between
<1>2. ~PullsLow(c)
  BY <1>1, ListensQuietly
<1>3. 0 \in Level
  BY DEF Level
<1>4. Alike(n, c) /\ Loose(n, 0, e) /\ n.prevMaster \in {e, 1}
  BY <1>1, <1>2, <1>3, LowPins
<1> QED BY <1>1, <1>4, AlikeBetween, Zenon

LEMMA BetweenRises ==
  ASSUME NEW c, Whole(c), NEW d \in Level, NEW t, NEW bits, NEW w,
         Between(c, d, t, bits, w), NEW n, n = OnPins(c, 1, d)
  PROVE  /\ Alike(n, OnRising(c, d)) /\ Loose(n, 1, d) /\ n.prevMaster = d /\ Whole(n)
         /\ Listens(c, t, bits, w)
<1>1. Loose(c, 0, d) /\ c.prevMaster \in {d, 1} /\ Listens(c, t, bits, w)
  BY DEF Between
<1>2. ~PullsLow(c)
  BY <1>1, ListensQuietly
<1>3. Alike(n, OnRising(c, d)) /\ Loose(n, 1, d) /\ n.prevMaster = d
  BY <1>1, <1>2, RisePins
<1> QED BY <1>1, <1>3 DEF Alike

LEMMA NothingHeard == Nothing \in Transfers /\ Acked(Nothing)
<1> DEFINE no == FALSE
<1>1. Nothing = [acks |-> << >>, toChip |-> no, pointer |-> << >>] /\ no \in BOOLEAN
  BY Zenon DEF Nothing
<1> HIDE DEF no
<1>2. << >> \in Seq(BOOLEAN) /\ << >> \in Seq(Level) /\ Len(<< >>) = 0
  BY EmptySeq
<1>3. Nothing \in Transfers /\ Nothing.acks = << >>
  BY <1>1, <1>2 DEF Transfers
<1>4. DOMAIN Nothing.acks = {}
  BY <1>3
<1> QED BY <1>3, <1>4 DEF Acked

LEMMA SenderClears ==
  ASSUME NEW s \in SenderSteps, NEW k \in Nat, NEW r, r = [step |-> s, byte |-> << >>, sent |-> k]
  PROVE  /\ r \in Senders /\ r.step = s /\ r.byte = << >>
         /\ Len(r.byte) <= ByteLen
<1>1. << >> \in Seq(Level) /\ Len(<< >>) = 0
  BY EmptySeq
<1>2. 0 <= ByteLen
  BY I2cAssumption
<1>3. r.step = s /\ r.byte = << >> /\ r.sent = k
  OBVIOUS
<1>4. r \in Senders
  BY <1>1 DEF Senders
<1> QED BY <1>1, <1>2, <1>3, <1>4

LEMMA I2cStarts == I2cInit => I2cInv
<1> SUFFICES ASSUME I2cInit  PROVE I2cInv
  OBVIOUS
<1>1. Whole(ChipReset) /\ Off(ChipReset, PowerOn)
  BY DEF ChipReset, Whole, ChipFields, Off
<1>2. sda = 0 /\ chip = ChipReset /\ sender = [step |-> "off", byte |-> << >>, sent |-> 0]
      /\ heard = Nothing /\ written = PowerOn
  BY DEF I2cInit
<1>3. sender \in Senders /\ Len(sender.byte) <= ByteLen /\ sender.step = "off"
  BY <1>2, I2cAssumption, EmptySeq DEF Senders, SenderSteps
<1>4. heard \in Transfers /\ Acked(heard)
  BY <1>2, NothingHeard
<1>5. written = [r \in Registers |-> written[r]]
  BY <1>2, I2cAssumption
<1>6. sda \in Level
  BY <1>2 DEF Level
<1>7. Moment(sender.step, sda, chip, heard, sender.byte, written)
  BY <1>1, <1>2, <1>3 DEF Moment
<1> QED BY <1>1, <1>2, <1>3, <1>4, <1>5, <1>6, <1>7 DEF I2cInv

LEMMA I2cResets == I2cInv /\ ResetI2c => I2cInv'
<1> SUFFICES ASSUME ResetI2c  PROVE I2cInv'
  OBVIOUS
<1>1. Whole(ChipReset) /\ Off(ChipReset, PowerOn)
  BY DEF ChipReset, Whole, ChipFields, Off
<1>2. sda' = 0 /\ chip' = ChipReset /\ sender' = [step |-> "off", byte |-> << >>, sent |-> 0]
      /\ heard' = Nothing /\ written' = PowerOn
  BY DEF ResetI2c
<1>3. sender' \in Senders /\ Len(sender'.byte) <= ByteLen /\ sender'.step = "off"
  BY <1>2, I2cAssumption, EmptySeq DEF Senders, SenderSteps
<1>4. Nothing \in Transfers /\ Acked(Nothing)
  BY NothingHeard
<1>5. written' = [r \in Registers |-> written'[r]]
  BY <1>2, I2cAssumption
<1>6. sda' \in Level
  BY <1>2 DEF Level
<1>7. Moment(sender'.step, sda', chip', heard', sender'.byte, written')
  BY <1>1, <1>2, <1>3 DEF Moment
<1> QED BY <1>1, <1>2, <1>3, <1>4, <1>5, <1>6, <1>7 DEF I2cInv

\* A step of the firmware that leaves the transfer as it is.
LEMMA PutKeeps ==
  ASSUME I2cInv, NEW k, NEW d \in Level, NEW step \in SenderSteps, Put(k, d, step),
         UNCHANGED <<heard, written>>, Whole(chip'),
         Moment(step, d, chip', heard, sender.byte, written)
  PROVE  I2cInv'
<1>1. sender' = [sender EXCEPT !.step = step] /\ sda' = d /\ heard' = heard /\ written' = written
  BY DEF Put
<1>2. sender' \in Senders /\ sender'.step = step /\ sender'.byte = sender.byte
  BY <1>1 DEF I2cInv, Senders
<1> QED BY <1>1, <1>2 DEF I2cInv

LEMMA I2cKept == I2cInv /\ [I2c]_i2cVars => I2cInv'
<1> SUFFICES ASSUME I2cInv, [I2c]_i2cVars  PROVE I2cInv'
  OBVIOUS
<1> DEFINE byte == sender.byte  c == chip  n == chip'  d == sda  t == heard  w == written
<1>0. /\ Whole(c) /\ d \in Level /\ byte \in Seq(Level) /\ Len(byte) <= ByteLen /\ Len(byte) \in Nat
      /\ t \in Transfers /\ Acked(t) /\ w = [r \in Registers |-> w[r]]
      /\ ByteLen \in Nat \ {0, 1} /\ 0 \in Level /\ 1 \in Level
      /\ sender \in Senders /\ sender.step \in SenderSteps
  BY I2cAssumption, LenProperties DEF I2cInv, Senders, Level
<1>m. Moment(sender.step, d, c, t, byte, w)
  BY DEF I2cInv
<1>1. CASE Idle
  <2>1. Off(c, w)
    BY <1>1, <1>m DEF Moment, Idle, In
  <2>2. Put(1, 1, "idle") /\ UNCHANGED <<heard, written>> /\ n = OnPins(c, 1, 1)
    BY <1>1 DEF Idle, Put
  <2>3. c.state \notin Answering /\ c.seen = << >> /\ c.prevScl = 1 /\ c.prevMaster = 1
        /\ ~c.driving /\ c.reg = w
    BY <2>1 DEF Off, Answering
  <2>4. Alike(n, c) /\ Loose(n, 1, 1) /\ n.prevMaster = 1
    <3>1. ~PullsLow(c)
      BY <2>3, RestQuietly
    <3> QED BY <1>0, <2>2, <2>3, <3>1, ConditionPins
  <2>5. Resting(n, 1, w) /\ Whole(n)
    BY <2>3, <2>4 DEF Resting, Alike
  <2>6. Moment("idle", 1, n, t, byte, w) /\ "idle" \in SenderSteps
    BY <2>5 DEF Moment, SenderSteps
  <2> QED BY <1>0, <2>2, <2>5, <2>6, PutKeeps
<1>2. CASE StartCondition
  <2>1. d = 1 /\ Resting(c, 1, w)
    BY <1>2, <1>m DEF Moment, StartCondition, In
  <2>2. /\ sda' = 0 /\ n = OnPins(c, 1, 0) /\ heard' = Nothing /\ written' = w
        /\ sender' = [step |-> "started", byte |-> << >>, sent |-> 0]
    BY <1>2 DEF StartCondition
  <2>3. Alike(n, OnStart(c)) /\ Loose(n, 1, 0) /\ c.reg = w
    <3>1. /\ c.seen = <<1, 1>> /\ c.prevScl = 1 /\ c.prevMaster = 1 /\ ~c.driving
          /\ c.state \notin Answering /\ c.reg = w
      BY <2>1 DEF Resting, Loose
    <3>2. ~PullsLow(c)
      BY <3>1, RestQuietly
    <3> QED BY <1>0, <2>2, <3>1, <3>2, ConditionPins
  <2>4. Listens(n, Nothing, << >>, w)
    <3>1. OnStart(c).state = "ADDR" /\ OnStart(c).shift = << >> /\ OnStart(c).reg = w
      BY <1>0, <2>3, StartFields
    <3>2. n.state = "ADDR" /\ n.shift = << >> /\ n.reg = w
      BY <2>3, <3>1 DEF Alike
    <3>3. Count(Nothing) = 0
      <4>1. Nothing.acks = << >>
        BY Zenon DEF Nothing
      <4> QED BY <4>1, EmptySeq DEF Count
    <3> QED BY <3>2, <3>3 DEF Listens, Answering
  <2>5. sender' \in Senders /\ sender'.step = "started" /\ sender'.byte = << >>
        /\ Len(sender'.byte) <= ByteLen
    <3>1. "started" \in SenderSteps /\ 0 \in Nat
      BY DEF SenderSteps
    <3> QED BY <2>2, <3>1, SenderClears
  <2>6. Moment("started", 0, n, Nothing, << >>, w)
    BY <2>3, <2>4 DEF Moment
  <2>7. Whole(n)
    BY <2>3 DEF Alike
  <2> QED BY <1>0, <2>2, <2>5, <2>6, <2>7, NothingHeard DEF I2cInv
<1>3. CASE ClockLow
  <2>1. d = 0 /\ Loose(c, 1, 0) /\ byte = << >> /\ Listens(c, t, << >>, w)
    BY <1>3, <1>m DEF Moment, ClockLow, In
  <2>2. Put(0, 0, "low") /\ UNCHANGED <<heard, written>> /\ n = OnPins(c, 0, 0)
    BY <1>3 DEF ClockLow, Put
  <2>3. Alike(n, c) /\ Loose(n, 0, 0) /\ n.prevMaster \in {0, 1}
    <3>1. ~PullsLow(c)
      BY <2>1, ListensQuietly
    <3> QED BY <1>0, <2>1, <2>2, <3>1, LowPins
  <2>4. Between(n, 0, t, << >>, w) /\ Whole(n)
    BY <2>1, <2>3, AlikeBetween, Zenon
  <2>5. Moment("low", 0, n, t, byte, w) /\ "low" \in SenderSteps
    <3>1. Len(byte) < ByteLen
      BY <1>0, <2>1, EmptySeq
    <3> QED BY <2>1, <2>4, <3>1 DEF Moment, SenderSteps
  <2> QED BY <1>0, <2>2, <2>4, <2>5, PutKeeps
<1>4. CASE DataBit
  <2>1. Len(byte) < ByteLen /\ Between(c, d, t, byte, w)
    BY <1>4, <1>m DEF Moment, DataBit, In
  <2>2. PICK bit \in Level :
          /\ sda' = bit /\ n = OnPins(c, 0, bit)
          /\ sender' = [sender EXCEPT !.step = "set", !.byte = Append(@, bit)]
          /\ heard' = t /\ written' = w
    BY <1>4 DEF DataBit
  <2> DEFINE more == Append(byte, bit)
  <2>3. Between(n, bit, t, byte, w) /\ Whole(n)
    BY <1>0, <2>1, <2>2, BetweenMoves
  <2>4. more \in Seq(Level) /\ Len(more) <= ByteLen
    BY <1>0, <2>1, AppendProperties
  <2>5. sender' \in Senders /\ sender'.step = "set" /\ sender'.byte = more
    BY <1>0, <2>2, <2>4 DEF Senders, SenderSteps
  <2>6. Setting(n, bit, t, more, w)
    BY <1>0, <2>3 DEF Setting
  <2>7. Moment("set", bit, n, t, more, w)
    BY <2>6 DEF Moment
  <2> HIDE DEF more
  <2> QED BY <1>0, <2>2, <2>3, <2>4, <2>5, <2>7 DEF I2cInv
<1>5. CASE DataClock
  <2>1. Setting(c, d, t, byte, w)
    BY <1>5, <1>m DEF Moment, DataClock, In
  <2>2. Put(1, d, "high") /\ UNCHANGED <<heard, written>> /\ n = OnPins(c, 1, d)
    BY <1>5 DEF DataClock, Put
  <2>3. PICK bits \in Seq(Level) : byte = Append(bits, d) /\ Between(c, d, t, bits, w)
    BY <2>1 DEF Setting
  <2>4. /\ Alike(n, OnRising(c, d)) /\ Loose(n, 1, d) /\ Whole(n)
        /\ Listens(c, t, bits, w)
    BY <1>0, <2>2, <2>3, BetweenRises
  <2>5. Len(byte) = Len(bits) + 1
    BY <1>0, <2>3, AppendProperties
  <2>6. Len(byte) < ByteLen => Listens(n, t, byte, w)
    <3> SUFFICES ASSUME Len(byte) < ByteLen  PROVE Listens(n, t, byte, w)
      OBVIOUS
    <3>1. Listens(OnRising(c, d), t, Append(bits, d), w)
      <4>1. Len(bits) + 1 < ByteLen
        BY <2>5
      <4> QED BY <1>0, <2>4, <4>1, BitHeard
    <3>2. Listens(OnRising(c, d), t, byte, w)
      BY <2>3, <3>1
    <3> QED BY <2>4, <3>2, AlikeListens, Zenon
  <2>7. Len(byte) >= ByteLen => Answers(n, t, byte, w)
    <3> SUFFICES ASSUME Len(byte) >= ByteLen  PROVE Answers(n, t, byte, w)
      OBVIOUS
    <3>1. Answers(OnRising(c, d), t, byte, w)
      BY <1>0, <2>3, <2>4, ByteHeard
    <3> QED BY <2>4, <3>1, AlikeListens, Zenon
  <2>8. ClockHigh(n, d, t, byte, w)
    BY <2>4, <2>6, <2>7 DEF ClockHigh
  <2>9. Moment("high", d, n, t, byte, w) /\ "high" \in SenderSteps
    BY <2>8 DEF Moment, SenderSteps
  <2> QED BY <1>0, <2>2, <2>4, <2>9, PutKeeps
<1>6. CASE DataClockLow
  <2>1. ClockHigh(c, d, t, byte, w)
    BY <1>6, <1>m DEF Moment, DataClockLow, In
  <2>2. CASE Len(byte) < ByteLen
    <3>1. Put(0, d, "low") /\ UNCHANGED <<heard, written>> /\ n = OnPins(c, 0, d)
      BY <1>6, <2>2 DEF DataClockLow, Put
    <3>2. Loose(c, 1, d) /\ Listens(c, t, byte, w)
      BY <2>1, <2>2 DEF ClockHigh
    <3>3. Alike(n, c) /\ Loose(n, 0, d) /\ n.prevMaster \in {d, 1}
      <4>1. ~PullsLow(c)
        BY <3>2, ListensQuietly
      <4> QED BY <1>0, <3>1, <3>2, <4>1, LowPins
    <3>4. Between(n, d, t, byte, w) /\ Whole(n)
      BY <3>2, <3>3, AlikeBetween, Zenon
    <3>5. Moment("low", d, n, t, byte, w) /\ "low" \in SenderSteps
      BY <2>2, <3>4 DEF Moment, SenderSteps
    <3> QED BY <1>0, <3>1, <3>4, <3>5, PutKeeps
  <2>3. CASE ~(Len(byte) < ByteLen)
    <3>1. PICK e \in {d, 1} : Put(0, e, "release")
      BY <1>6, <2>3 DEF DataClockLow
    <3>2. UNCHANGED <<heard, written>> /\ n = OnPins(c, 0, e)
      BY <1>6, <3>1 DEF DataClockLow, Put
    <3>3. Loose(c, 1, d) /\ Answers(c, t, byte, w) /\ e \in Level
      BY <1>0, <2>1, <2>3 DEF ClockHigh
    <3>4. /\ Alike(n, c) /\ n.prevScl = 0 /\ n.prevMaster = e /\ n.seen = <<0, Line(n, e)>>
          /\ n.driving <=> PullsLow(c) /\ e = 1
      BY <1>0, <3>2, <3>3, AnswerPins
    <3>5. AckShown(n, e, t, byte, w)
      <4>1. Answers(n, t, byte, w) /\ (PullsLow(n) <=> PullsLow(c))
        BY <3>3, <3>4, AlikeListens, AlikePulls, Zenon
      <4> QED BY <3>4, <4>1 DEF AckShown
    <3>6. Whole(n)
      BY <3>4 DEF Alike
    <3>7. Moment("release", e, n, t, byte, w) /\ "release" \in SenderSteps
      BY <3>5 DEF Moment, SenderSteps
    <3> QED BY <3>1, <3>2, <3>3, <3>6, <3>7, PutKeeps
  <2> QED BY <2>2, <2>3
<1>7. CASE ReleaseLine
  <2>1. AckShown(c, d, t, byte, w)
    BY <1>7, <1>m DEF Moment, ReleaseLine, In
  <2>2. Put(0, 1, "released") /\ UNCHANGED <<heard, written>> /\ n = OnPins(c, 0, 1)
    BY <1>7 DEF ReleaseLine, Put
  <2>3. /\ Alike(n, c) /\ n.prevScl = 0 /\ n.prevMaster = 1 /\ n.seen = <<0, Line(n, 1)>>
        /\ n.driving <=> PullsLow(c)
    BY <1>0, <2>1, <2>2, ReleasePins DEF AckShown
  <2>4. AckShown(n, 1, t, byte, w)
    <3>1. Answers(c, t, byte, w)
      BY <2>1 DEF AckShown
    <3>2. Answers(n, t, byte, w) /\ (PullsLow(n) <=> PullsLow(c))
      BY <2>3, <3>1, AlikeListens, AlikePulls, Zenon
    <3> QED BY <2>3, <3>2 DEF AckShown
  <2>5. Whole(n)
    BY <2>3 DEF Alike
  <2>6. Moment("released", 1, n, t, byte, w) /\ "released" \in SenderSteps
    BY <2>4 DEF Moment, SenderSteps
  <2> QED BY <1>0, <2>2, <2>5, <2>6, PutKeeps
<1>8. CASE AckClock
  <2> DEFINE ack == Line(n, 1) = 0
             u == heard'
  <2>1. AckShown(c, 1, t, byte, w)
    BY <1>8, <1>m DEF Moment, AckClock, In
  <2>2. /\ sda' = 1 /\ n = OnPins(c, 1, 1) /\ u = Grown(t, byte, ack)
        /\ written' = [r \in Registers |->
             IF Count(u) = 3 /\ u.toChip /\ u.pointer = PointerOf[r] THEN byte ELSE w[r]]
        /\ sender' = [step |-> "acknowledged", byte |-> << >>, sent |-> sender.sent + 1]
    BY <1>8, Zenon DEF AckClock, Count
  <2>3. /\ c.prevScl = 0 /\ c.prevMaster = 1 /\ c.seen = <<0, Line(c, 1)>>
        /\ (c.driving <=> PullsLow(c)) /\ Answers(c, t, byte, w)
    BY <2>1 DEF AckShown
  <2>4. PICK bit \in Level :
          /\ Alike(n, OnRising(c, bit)) /\ n.prevScl = 1 /\ n.prevMaster = 1
          /\ n.seen = <<1, Line(n, 1)>>
          /\ n.driving <=> PullsLow(c)
    BY <1>0, <2>2, <2>3, AckPins
  <2>5. ack \in BOOLEAN /\ (ack <=> PullsLow(c))
    <3>1. ack <=> n.driving
      <4>1. CASE n.driving
        <5>1. Line(n, 1) = 0
          BY <4>1, Zenon DEF Line
        <5> QED BY <4>1, <5>1
      <4>2. CASE ~n.driving
        <5>1. Line(n, 1) = 1
          BY <4>2, Zenon DEF Line
        <5> QED BY <4>2, <5>1
      <4> QED BY <4>1, <4>2
    <3> QED BY <2>4, <3>1, Zenon
  <2> HIDE DEF ack, u
  <2>6. /\ u \in Transfers /\ Acked(u)
        /\ Listens(OnRising(c, bit), u, << >>, written')
    BY <1>0, <2>2, <2>3, <2>5, AckHeard, SMTT(30)
  <2>7. Listens(n, u, << >>, written') /\ Whole(n)
    <3>1. Whole(n)
      BY <2>4 DEF Alike
    <3> QED BY <2>4, <2>6, <3>1, AlikeListens, Zenon
  <2>8. Moment("acknowledged", 1, n, u, << >>, written')
    BY <2>4, <2>7 DEF Moment, Acknowledging
  <2>9. sender' \in Senders /\ sender'.step = "acknowledged" /\ sender'.byte = << >>
        /\ Len(sender'.byte) <= ByteLen
    <3>1. "acknowledged" \in SenderSteps
      BY DEF SenderSteps
    <3>2. sender.sent + 1 \in Nat
      <4>1. sender.sent \in Nat
        BY <1>0 DEF Senders
      <4> QED BY <4>1
    <3> QED BY <2>2, <3>1, <3>2, SenderClears
  <2>10. written' = [r \in Registers |-> written'[r]]
    BY <2>2
  <2>11. heard' \in Transfers /\ Acked(heard')
         /\ Moment("acknowledged", 1, n, heard', << >>, written')
    BY <2>6, <2>8 DEF u
  <2> QED BY <1>0, <2>2, <2>7, <2>9, <2>10, <2>11 DEF I2cInv
<1>9. CASE AckClockLow
  <2>1. byte = << >> /\ Acknowledging(c, t, w)
    BY <1>9, <1>m DEF Moment, AckClockLow, In
  <2>2. PICK e \in Level : Put(0, e, "low")
    BY <1>9 DEF AckClockLow
  <2>3. UNCHANGED <<heard, written>> /\ n = OnPins(c, 0, e)
    BY <1>9, <2>2 DEF AckClockLow, Put
  <2>4. /\ c.prevScl = 1 /\ c.prevMaster = 1 /\ c.seen = <<1, Line(c, 1)>>
        /\ Listens(c, t, << >>, w)
    BY <2>1 DEF Acknowledging
  <2>5. Alike(n, c) /\ Loose(n, 0, e) /\ n.prevMaster \in {e, 1}
    <3>1. ~PullsLow(c)
      BY <2>4, ListensQuietly
    <3> QED BY <1>0, <2>3, <2>4, <3>1, AckLowPins
  <2>6. Between(n, e, t, << >>, w) /\ Whole(n)
    BY <2>4, <2>5, AlikeBetween, Zenon
  <2>7. Moment("low", e, n, t, byte, w) /\ "low" \in SenderSteps
    <3>1. Len(byte) < ByteLen
      BY <1>0, <2>1, EmptySeq
    <3> QED BY <2>1, <2>6, <3>1 DEF Moment, SenderSteps
  <2> QED BY <2>2, <2>3, <2>6, <2>7, PutKeeps
<1>10. ASSUME In("low"), Breakable, NEW e \in Level, NEW step \in {"stop low", "restart low"},
              step = "stop low" <=> e = 0,
              Put(0, e, step), UNCHANGED <<heard, written>>
       PROVE  I2cInv'
  <2>1. Between(c, d, t, byte, w) /\ Len(byte) < ByteLen - 1
    BY <1>10, <1>m DEF Moment, In, Breakable
  <2>2. n = OnPins(c, 0, e)
    BY <1>10 DEF Put
  <2>3. Between(n, e, t, byte, w) /\ Whole(n)
    BY <1>0, <2>1, <2>2, BetweenMoves
  <2>4. Moment(step, e, n, t, byte, w) /\ step \in SenderSteps
    BY <1>10, <2>1, <2>3 DEF Moment, SenderSteps, Level
  <2> QED BY <1>10, <2>3, <2>4, PutKeeps
<1>11. CASE PrepareStop
  BY <1>0, <1>10, <1>11 DEF PrepareStop, Breakable
<1>12. CASE PrepareRestart
  <2>1. In("low") /\ Breakable /\ Put(0, 1, "restart low") /\ UNCHANGED <<heard, written>>
    BY <1>12 DEF PrepareRestart, Breakable
  <2>2. 1 \in Level /\ "restart low" \in {"stop low", "restart low"}
        /\ ("restart low" = "stop low" <=> 1 = 0)
    BY DEF Level
  <2> QED BY <1>10, <2>1, <2>2
<1>13. ASSUME Between(c, d, t, byte, w), Len(byte) < ByteLen - 1, n = OnPins(c, 1, d)
       PROVE  Resting(n, d, w) /\ Whole(n)
  <2>1. /\ Alike(n, OnRising(c, d)) /\ Loose(n, 1, d) /\ n.prevMaster = d /\ Whole(n)
        /\ Listens(c, t, byte, w)
    BY <1>0, <1>13, BetweenRises
  <2>2. Listens(OnRising(c, d), t, Append(byte, d), w)
    <3>1. Len(byte) + 1 < ByteLen
      BY <1>0, <1>13
    <3> QED BY <1>0, <2>1, <3>1, BitHeard
  <2>3. OnRising(c, d).reg = w /\ OnRising(c, d).state \notin Answering
    BY <2>2 DEF Listens
  <2> QED BY <2>1, <2>3 DEF Resting, Alike
<1>14. CASE StopClock
  <2>1. d = 0 /\ Len(byte) < ByteLen - 1 /\ Between(c, 0, t, byte, w)
    BY <1>14, <1>m DEF Moment, StopClock, In
  <2>2. Put(1, 0, "stop high") /\ UNCHANGED <<heard, written>> /\ n = OnPins(c, 1, 0)
    BY <1>14 DEF StopClock, Put
  <2>3. Resting(n, 0, w) /\ Whole(n)
    BY <1>13, <2>1, <2>2
  <2>4. Moment("stop high", 0, n, t, byte, w) /\ "stop high" \in SenderSteps
    BY <2>3 DEF Moment, SenderSteps
  <2> QED BY <1>0, <2>2, <2>3, <2>4, PutKeeps
<1>15. CASE RestartClock
  <2>1. d = 1 /\ Len(byte) < ByteLen - 1 /\ Between(c, 1, t, byte, w)
    BY <1>15, <1>m DEF Moment, RestartClock, In
  <2>2. Put(1, 1, "idle") /\ UNCHANGED <<heard, written>> /\ n = OnPins(c, 1, 1)
    BY <1>15 DEF RestartClock, Put
  <2>3. Resting(n, 1, w) /\ Whole(n)
    BY <1>13, <2>1, <2>2
  <2>4. Moment("idle", 1, n, t, byte, w) /\ "idle" \in SenderSteps
    BY <2>3 DEF Moment, SenderSteps
  <2> QED BY <1>0, <2>2, <2>3, <2>4, PutKeeps
<1>16. CASE StopCondition
  <2>1. d = 0 /\ Resting(c, 0, w)
    BY <1>16, <1>m DEF Moment, StopCondition, In
  <2>2. Put(1, 1, "idle") /\ UNCHANGED <<heard, written>> /\ n = OnPins(c, 1, 1)
    BY <1>16 DEF StopCondition, Put
  <2>3. /\ c.seen = <<1, 0>> /\ c.prevScl = 1 /\ c.prevMaster = 0 /\ ~c.driving
        /\ c.state \notin Answering /\ c.reg = w
    BY <2>1 DEF Resting, Loose
  <2>4. Alike(n, OnStop(c)) /\ Loose(n, 1, 1) /\ n.prevMaster = 1
    <3>1. ~PullsLow(c)
      BY <2>3, RestQuietly
    <3> QED BY <1>0, <2>2, <2>3, <3>1, ConditionPins
  <2>5. OnStop(c).state = "IDLE" /\ OnStop(c).reg = w
    BY <1>0, <2>3, StopFields
  <2>6. Resting(n, 1, w) /\ Whole(n)
    BY <2>4, <2>5 DEF Resting, Alike, Answering
  <2>7. Moment("idle", 1, n, t, byte, w) /\ "idle" \in SenderSteps
    BY <2>6 DEF Moment, SenderSteps
  <2> QED BY <1>0, <2>2, <2>6, <2>7, PutKeeps
<1>17. CASE ResetI2c
  BY <1>17, I2cResets
<1>18. CASE UNCHANGED i2cVars
  BY <1>18 DEF i2cVars, I2cInv
<1> QED BY <1>1, <1>2, <1>3, <1>4, <1>5, <1>6, <1>7, <1>8, <1>9, <1>11, <1>12, <1>14, <1>15,
           <1>16, <1>17, <1>18 DEF I2c

LEMMA I2cInductive == I2cSpec => []I2cInv
  BY I2cStarts, I2cKept, PTL DEF I2cSpec

\* A register of the expander holds the last byte a write brought for it, and
\* the bytes acknowledged are the first three of a write to the chip.
THEOREM WritesAlwaysStored == I2cSpec => []WritesAreStored
<1>1. I2cInv => WritesAreStored
  <2> SUFFICES ASSUME I2cInv  PROVE WritesAreStored
    OBVIOUS
  <2>1. \A i \in DOMAIN heard.acks : heard.acks[i] <=> heard.toChip /\ i <= 3
    BY Zenon DEF I2cInv, Acked
  <2>2. ASSUME sender.step \notin {"high", "release", "released"}  PROVE chip.reg = written
    <3>1. Moment(sender.step, sda, chip, heard, sender.byte, written)
      BY DEF I2cInv
    <3>2. CASE sender.step \in {"off", "idle", "stop high"}
      BY <3>1, <3>2 DEF Moment, Off, Resting
    <3>3. CASE sender.step \in {"started", "low", "stop low", "restart low"}
      BY <3>1, <3>3 DEF Moment, Between, Listens
    <3>4. CASE sender.step = "set"
      <4>1. PICK bits : Between(chip, sda, heard, bits, written)
        BY <3>1, <3>4 DEF Moment, Setting
      <4> QED BY <4>1 DEF Between, Listens
    <3>5. CASE sender.step = "acknowledged"
      BY <3>1, <3>5 DEF Moment, Acknowledging, Listens
    <3> QED BY <2>2, <3>2, <3>3, <3>4, <3>5 DEF I2cInv, Senders, SenderSteps
  <2> QED BY <2>1, <2>2, Zenon DEF WritesAreStored
<1> QED BY <1>1, I2cInductive, PTL
-----------------------------------------------------------------------------
(* An SSI encoder and its reader. *)

\* What the constants are.
LEMMA SsiConstants ==
  /\ PositionBits \in Nat \ {0} /\ ErrorBits \in Nat /\ Resolution \in Nat \ {0} /\ Resolution = PositionBits + ErrorBits
  /\ LowBits \in 1..Resolution /\ Monoflop \in Nat \ {0} /\ MinPeriod \in Nat \ {0}
  /\ FirstLow \in Nat \ {0} /\ Bit = {0, 1} /\ Never = -1
  BY SsiAssumption DEF Resolution, Bit, Never

\* An encoder of these fields.
Enc(s, o, p, f, r, w, b, q, t) ==
  [state |-> s, out |-> o, prev |-> p, fall |-> f, rise |-> r, raw |-> w, bits |-> b, post |-> q, fault |-> t]

\* The fields of an encoder.
LEMMA EncFields ==
  ASSUME NEW s, NEW o, NEW p, NEW f, NEW r, NEW w, NEW b, NEW q, NEW t,
         NEW e, e = Enc(s, o, p, f, r, w, b, q, t)
  PROVE  /\ e.state = s /\ e.out = o /\ e.prev = p /\ e.fall = f /\ e.rise = r
         /\ e.raw = w /\ e.bits = b /\ e.post = q /\ e.fault = t
  BY DEF Enc

\* An encoder is its fields.
LEMMA EncIs ==
  ASSUME NEW e \in Encoder
  PROVE  e = Enc(e.state, e.out, e.prev, e.fall, e.rise, e.raw, e.bits, e.post, e.fault)
  BY DEF Encoder, Enc

\* An encoder of typed fields is typed.
LEMMA EncTyped ==
  ASSUME NEW s \in {"idle", "active", "guard"}, NEW o \in {0, 1}, NEW p \in {0, 1, -1}, NEW f \in -1..Monoflop,
         NEW r \in -1..MinPeriod, NEW w \in Seq(Bit), NEW b \in 0..Resolution, NEW q \in BOOLEAN, NEW t \in BOOLEAN
  PROVE  Enc(s, o, p, f, r, w, b, q, t) \in Encoder
  BY DEF Encoder, Enc, Bit, Never

\* The fields of a typed encoder are typed.
LEMMA EncTypes ==
  ASSUME NEW e \in Encoder
  PROVE  /\ e.state \in {"idle", "active", "guard"} /\ e.out \in {0, 1} /\ e.prev \in {0, 1, -1} /\ e.fall \in -1..Monoflop
         /\ e.rise \in -1..MinPeriod /\ e.raw \in Seq(Bit) /\ e.bits \in 0..Resolution /\ e.post \in BOOLEAN
         /\ e.fault \in BOOLEAN
  BY DEF Encoder, Bit, Never

\* What the encoder changes, and what it makes of the fields.
WithAges(e, u, v) == [e EXCEPT !.fall = u, !.rise = v]
WithRest(e, u, v, x) == [e EXCEPT !.state = u, !.fall = v, !.out = x]
WithPost(e, u, v) == [e EXCEPT !.post = u, !.fall = v]
WithBit(e, u, v, x, y) == [e EXCEPT !.out = u, !.bits = v, !.rise = x, !.state = y]
WithFrame(e, u, v, x, y, z, a, c) == [e EXCEPT !.state = a, !.raw = u, !.bits = v, !.fall = x, !.rise = y, !.post = z, !.out = c]
WithPrev(e, u) == [e EXCEPT !.prev = u]
WithFall(e, u) == [e EXCEPT !.fall = u]
WithOut(e, u) == [e EXCEPT !.out = u]
WithFault(e, u) == [e EXCEPT !.fault = u]

\* Each change to the encoder, field by field: this one and the eight behind it.
LEMMA WithAgesIs ==
  ASSUME NEW s, NEW o, NEW p, NEW f, NEW r, NEW w, NEW b, NEW q, NEW t,
         NEW e, e = Enc(s, o, p, f, r, w, b, q, t), NEW u, NEW v
  PROVE  WithAges(e, u, v) = Enc(s, o, p, u, v, w, b, q, t)
<1>1. PICK d : d = WithAges(e, u, v)
  OBVIOUS
<1>2. DOMAIN d = {"state", "out", "prev", "fall", "rise", "raw", "bits", "post", "fault"} /\ d = [k \in DOMAIN d |-> d[k]]
  BY <1>1 DEF Enc, WithAges
<1>3. d.state = s /\ d.out = o /\ d.prev = p /\ d.fall = u /\ d.rise = v /\ d.raw = w /\ d.bits = b /\ d.post = q /\ d.fault = t
  BY <1>1 DEF Enc, WithAges
<1>4. d = Enc(s, o, p, u, v, w, b, q, t)
  BY ONLY <1>2, <1>3 DEF Enc
<1> QED BY ONLY <1>1, <1>4

LEMMA WithRestIs ==
  ASSUME NEW s, NEW o, NEW p, NEW f, NEW r, NEW w, NEW b, NEW q, NEW t,
         NEW e, e = Enc(s, o, p, f, r, w, b, q, t), NEW u, NEW v, NEW x
  PROVE  WithRest(e, u, v, x) = Enc(u, x, p, v, r, w, b, q, t)
<1>1. PICK d : d = WithRest(e, u, v, x)
  OBVIOUS
<1>2. DOMAIN d = {"state", "out", "prev", "fall", "rise", "raw", "bits", "post", "fault"} /\ d = [k \in DOMAIN d |-> d[k]]
  BY <1>1 DEF Enc, WithRest
<1>3. d.state = u /\ d.out = x /\ d.prev = p /\ d.fall = v /\ d.rise = r /\ d.raw = w /\ d.bits = b /\ d.post = q /\ d.fault = t
  BY <1>1 DEF Enc, WithRest
<1>4. d = Enc(u, x, p, v, r, w, b, q, t)
  BY ONLY <1>2, <1>3 DEF Enc
<1> QED BY ONLY <1>1, <1>4

LEMMA WithPostIs ==
  ASSUME NEW s, NEW o, NEW p, NEW f, NEW r, NEW w, NEW b, NEW q, NEW t,
         NEW e, e = Enc(s, o, p, f, r, w, b, q, t), NEW u, NEW v
  PROVE  WithPost(e, u, v) = Enc(s, o, p, v, r, w, b, u, t)
<1>1. PICK d : d = WithPost(e, u, v)
  OBVIOUS
<1>2. DOMAIN d = {"state", "out", "prev", "fall", "rise", "raw", "bits", "post", "fault"} /\ d = [k \in DOMAIN d |-> d[k]]
  BY <1>1 DEF Enc, WithPost
<1>3. d.state = s /\ d.out = o /\ d.prev = p /\ d.fall = v /\ d.rise = r /\ d.raw = w /\ d.bits = b /\ d.post = u /\ d.fault = t
  BY <1>1 DEF Enc, WithPost
<1>4. d = Enc(s, o, p, v, r, w, b, u, t)
  BY ONLY <1>2, <1>3 DEF Enc
<1> QED BY ONLY <1>1, <1>4

LEMMA WithBitIs ==
  ASSUME NEW s, NEW o, NEW p, NEW f, NEW r, NEW w, NEW b, NEW q, NEW t,
         NEW e, e = Enc(s, o, p, f, r, w, b, q, t), NEW u, NEW v, NEW x, NEW y
  PROVE  WithBit(e, u, v, x, y) = Enc(y, u, p, f, x, w, v, q, t)
<1>1. PICK d : d = WithBit(e, u, v, x, y)
  OBVIOUS
<1>2. DOMAIN d = {"state", "out", "prev", "fall", "rise", "raw", "bits", "post", "fault"} /\ d = [k \in DOMAIN d |-> d[k]]
  BY <1>1 DEF Enc, WithBit
<1>3. d.state = y /\ d.out = u /\ d.prev = p /\ d.fall = f /\ d.rise = x /\ d.raw = w /\ d.bits = v /\ d.post = q /\ d.fault = t
  BY <1>1 DEF Enc, WithBit
<1>4. d = Enc(y, u, p, f, x, w, v, q, t)
  BY ONLY <1>2, <1>3 DEF Enc
<1> QED BY ONLY <1>1, <1>4

LEMMA WithFrameIs ==
  ASSUME NEW s, NEW o, NEW p, NEW f, NEW r, NEW w, NEW b, NEW q, NEW t,
         NEW e, e = Enc(s, o, p, f, r, w, b, q, t), NEW u, NEW v, NEW x, NEW y, NEW z, NEW a, NEW c
  PROVE  WithFrame(e, u, v, x, y, z, a, c) = Enc(a, c, p, x, y, u, v, z, t)
<1>1. PICK d : d = WithFrame(e, u, v, x, y, z, a, c)
  OBVIOUS
<1>2. DOMAIN d = {"state", "out", "prev", "fall", "rise", "raw", "bits", "post", "fault"} /\ d = [k \in DOMAIN d |-> d[k]]
  BY <1>1 DEF Enc, WithFrame
<1>3. d.state = a /\ d.out = c /\ d.prev = p /\ d.fall = x /\ d.rise = y /\ d.raw = u /\ d.bits = v /\ d.post = z /\ d.fault = t
  BY <1>1 DEF Enc, WithFrame
<1>4. d = Enc(a, c, p, x, y, u, v, z, t)
  BY ONLY <1>2, <1>3 DEF Enc
<1> QED BY ONLY <1>1, <1>4

LEMMA WithPrevIs ==
  ASSUME NEW s, NEW o, NEW p, NEW f, NEW r, NEW w, NEW b, NEW q, NEW t,
         NEW e, e = Enc(s, o, p, f, r, w, b, q, t), NEW u
  PROVE  WithPrev(e, u) = Enc(s, o, u, f, r, w, b, q, t)
<1>1. PICK d : d = WithPrev(e, u)
  OBVIOUS
<1>2. DOMAIN d = {"state", "out", "prev", "fall", "rise", "raw", "bits", "post", "fault"} /\ d = [k \in DOMAIN d |-> d[k]]
  BY <1>1 DEF Enc, WithPrev
<1>3. d.state = s /\ d.out = o /\ d.prev = u /\ d.fall = f /\ d.rise = r /\ d.raw = w /\ d.bits = b /\ d.post = q /\ d.fault = t
  BY <1>1 DEF Enc, WithPrev
<1>4. d = Enc(s, o, u, f, r, w, b, q, t)
  BY ONLY <1>2, <1>3 DEF Enc
<1> QED BY ONLY <1>1, <1>4

LEMMA WithFallIs ==
  ASSUME NEW s, NEW o, NEW p, NEW f, NEW r, NEW w, NEW b, NEW q, NEW t,
         NEW e, e = Enc(s, o, p, f, r, w, b, q, t), NEW u
  PROVE  WithFall(e, u) = Enc(s, o, p, u, r, w, b, q, t)
<1>1. PICK d : d = WithFall(e, u)
  OBVIOUS
<1>2. DOMAIN d = {"state", "out", "prev", "fall", "rise", "raw", "bits", "post", "fault"} /\ d = [k \in DOMAIN d |-> d[k]]
  BY <1>1 DEF Enc, WithFall
<1>3. d.state = s /\ d.out = o /\ d.prev = p /\ d.fall = u /\ d.rise = r /\ d.raw = w /\ d.bits = b /\ d.post = q /\ d.fault = t
  BY <1>1 DEF Enc, WithFall
<1>4. d = Enc(s, o, p, u, r, w, b, q, t)
  BY ONLY <1>2, <1>3 DEF Enc
<1> QED BY ONLY <1>1, <1>4

LEMMA WithOutIs ==
  ASSUME NEW s, NEW o, NEW p, NEW f, NEW r, NEW w, NEW b, NEW q, NEW t,
         NEW e, e = Enc(s, o, p, f, r, w, b, q, t), NEW u
  PROVE  WithOut(e, u) = Enc(s, u, p, f, r, w, b, q, t)
<1>1. PICK d : d = WithOut(e, u)
  OBVIOUS
<1>2. DOMAIN d = {"state", "out", "prev", "fall", "rise", "raw", "bits", "post", "fault"} /\ d = [k \in DOMAIN d |-> d[k]]
  BY <1>1 DEF Enc, WithOut
<1>3. d.state = s /\ d.out = u /\ d.prev = p /\ d.fall = f /\ d.rise = r /\ d.raw = w /\ d.bits = b /\ d.post = q /\ d.fault = t
  BY <1>1 DEF Enc, WithOut
<1>4. d = Enc(s, u, p, f, r, w, b, q, t)
  BY ONLY <1>2, <1>3 DEF Enc
<1> QED BY ONLY <1>1, <1>4

LEMMA WithFaultIs ==
  ASSUME NEW s, NEW o, NEW p, NEW f, NEW r, NEW w, NEW b, NEW q, NEW t,
         NEW e, e = Enc(s, o, p, f, r, w, b, q, t), NEW u
  PROVE  WithFault(e, u) = Enc(s, o, p, f, r, w, b, q, u)
<1>1. PICK d : d = WithFault(e, u)
  OBVIOUS
<1>2. DOMAIN d = {"state", "out", "prev", "fall", "rise", "raw", "bits", "post", "fault"} /\ d = [k \in DOMAIN d |-> d[k]]
  BY <1>1 DEF Enc, WithFault
<1>3. d.state = s /\ d.out = o /\ d.prev = p /\ d.fall = f /\ d.rise = r /\ d.raw = w /\ d.bits = b /\ d.post = q /\ d.fault = u
  BY <1>1 DEF Enc, WithFault
<1>4. d = Enc(s, o, p, f, r, w, b, q, u)
  BY ONLY <1>2, <1>3 DEF Enc
<1> QED BY ONLY <1>1, <1>4

\* An encoder, and how its times fit its state.
EncoderOK(e) ==
  /\ e \in Encoder
  /\ e.state = "idle" => e.fall = Never /\ e.out = 1
  /\ e.state # "idle" => e.fall \in 0..Monoflop-1 /\ Len(e.raw) = Resolution
  /\ e.state = "active" => e.bits < Resolution /\ ~e.post

\* The monoflop runs out with the next cycle.
Spent(e) == e.state # "idle" /\ e.fall + 1 >= Monoflop
StateNow(e) == IF Spent(e) THEN "idle" ELSE e.state
FallNow(e) == IF StateNow(e) = "idle" THEN Never ELSE e.fall + 1
OutNow(e) == IF Spent(e) THEN 1 ELSE e.out
AgedRise(e) == Older(e.rise, MinPeriod)

FallSeen(e, level) == e.prev = 1 /\ level = 0
RiseSeen(e, level) == e.prev = 0 /\ level = 1
CutsOff(e) == Spent(e) /\ e.state = "active"
TooEarly(e) == AgedRise(e) # Never /\ AgedRise(e) < MinPeriod

\* The faults a cycle may report.
Blame(e, level) ==
  \/ CutsOff(e)
  \/ FallSeen(e, level) /\ StateNow(e) = "guard" /\ e.post
  \/ RiseSeen(e, level) /\ StateNow(e) = "active" /\ TooEarly(e)

\* Whether a fault is on record, given whether there was one and whether there is one now.
Faulted(old, new) == IF new THEN TRUE ELSE old

\* The encoder before it looks at the edge.
Waited(e, level) ==
  Enc(StateNow(e), OutNow(e), level, FallNow(e), AgedRise(e), e.raw, e.bits, e.post, Faulted(e.fault, CutsOff(e)))

\* An age stays an age.
LEMMA OlderTyped ==
  ASSUME NEW most \in Nat, NEW age \in -1..most
  PROVE  /\ Older(age, most) \in -1..most
         /\ age = Never => Older(age, most) = Never
         /\ age # Never => Older(age, most) = (IF age = most THEN most ELSE age + 1)
  BY DEF Older, Never

\* Time goes on, and may run out.
LEMMA WaitedIs ==
  ASSUME NEW e, EncoderOK(e), NEW level
  PROVE  [Expired([e EXCEPT !.fall = Older(@, Monoflop), !.rise = Older(@, MinPeriod)]) EXCEPT !.prev = level]
           = Waited(e, level)
<1> DEFINE s == e.state  o == e.out  p == e.prev  r == AgedRise(e)  w == e.raw  b == e.bits  q == e.post  t == e.fault
           f == Older(e.fall, Monoflop)
           aged == [e EXCEPT !.fall = Older(@, Monoflop), !.rise = Older(@, MinPeriod)]
           over == [aged EXCEPT !.state = "idle", !.fall = Never, !.out = 1]
<1>1. /\ s = "idle" => f = Never
      /\ s # "idle" => f = e.fall + 1 /\ f \in 1..Monoflop /\ f # Never
      /\ Monoflop \in Nat /\ s \in {"idle", "active", "guard"}
  <2>1. e.fall \in -1..Monoflop /\ s \in {"idle", "active", "guard"}
    BY EncTypes DEF EncoderOK
  <2>2. /\ s = "idle" => e.fall = Never
        /\ s # "idle" => e.fall \in 0..Monoflop-1
    BY DEF EncoderOK
  <2> QED BY <2>1, <2>2, SsiConstants, OlderTyped
<1>2. aged = Enc(s, o, p, f, r, w, b, q, t)
  <2>1. e = Enc(s, o, p, e.fall, e.rise, w, b, q, t)
    BY EncIs, Zenon DEF EncoderOK
  <2>2. WithAges(e, f, r) = Enc(s, o, p, f, r, w, b, q, t)
    BY ONLY <2>1, WithAgesIs
  <2> QED BY <2>2, Zenon DEF WithAges, AgedRise
<1>3. aged.state = s /\ aged.fall = f
  BY ONLY <1>2, EncFields
<1>4. over = Enc("idle", 1, p, Never, r, w, b, q, t)
  <2>1. WithRest(aged, "idle", Never, 1) = Enc("idle", 1, p, Never, r, w, b, q, t)
    BY ONLY <1>2, WithRestIs
  <2> QED BY <2>1, Zenon DEF WithRest
<1> HIDE DEF aged, over, f
<1>5. Faulty(over) = Enc("idle", 1, p, Never, r, w, b, q, TRUE)
  <2>1. PICK yes : yes = TRUE
    OBVIOUS
  <2>2. WithFault(over, yes) = Enc("idle", 1, p, Never, r, w, b, q, yes)
    BY ONLY <1>4, WithFaultIs
  <2> QED BY <2>1, <2>2, Zenon DEF WithFault, Faulty
<1>6. Expired(aged) = IF aged.state = "idle" \/ aged.fall = Never \/ aged.fall < Monoflop THEN aged
                      ELSE IF aged.state = "guard" THEN over ELSE Faulty(over)
  BY Zenon DEF Expired, over
<1>7. CASE ~Spent(e)
  <2>1. aged.state = "idle" \/ aged.fall = Never \/ aged.fall < Monoflop
    BY <1>1, <1>3, <1>7 DEF Spent
  <2>2. StateNow(e) = s /\ OutNow(e) = o /\ FallNow(e) = f /\ Faulted(t, CutsOff(e)) = t
    BY <1>1, <1>7 DEF StateNow, OutNow, FallNow, CutsOff, Faulted
  <2>3. Expired(aged) = aged
    BY <1>6, <2>1, Zenon
  <2>4. WithPrev(aged, level) = Enc(s, o, level, f, r, w, b, q, t)
    BY ONLY <1>2, WithPrevIs
  <2> QED BY <2>2, <2>3, <2>4, Zenon DEF Waited, aged, WithPrev
<1>8. CASE Spent(e)
  <2>1. ~(aged.state = "idle" \/ aged.fall = Never \/ aged.fall < Monoflop)
    BY <1>1, <1>3, <1>8 DEF Spent
  <2>2. StateNow(e) = "idle" /\ OutNow(e) = 1 /\ FallNow(e) = Never
    BY <1>8 DEF StateNow, OutNow, FallNow
  <2>3. CASE s = "guard"
    <3>1. Expired(aged) = over
      BY <1>3, <1>6, <2>1, <2>3, Zenon
    <3>2. Faulted(t, CutsOff(e)) = t
      BY <2>3 DEF CutsOff, Faulted
    <3>3. WithPrev(over, level) = Enc("idle", 1, level, Never, r, w, b, q, t)
      BY ONLY <1>4, WithPrevIs
    <3> QED BY <2>2, <3>1, <3>2, <3>3, Zenon DEF Waited, aged, WithPrev
  <2>4. CASE s # "guard"
    <3>1. Expired(aged) = Faulty(over)
      BY <1>3, <1>6, <2>1, <2>4, Zenon
    <3>2. PICK yes : yes = TRUE /\ Faulted(t, CutsOff(e)) = yes
      BY <1>1, <1>8, <2>4 DEF CutsOff, Faulted, Spent
    <3>3. Faulty(over) = Enc("idle", 1, p, Never, r, w, b, q, yes)
      BY <1>5, <3>2, Zenon
    <3>4. WithPrev(Faulty(over), level) = Enc("idle", 1, level, Never, r, w, b, q, yes)
      BY ONLY <3>3, WithPrevIs
    <3> QED BY <2>2, <3>1, <3>2, <3>4, Zenon DEF Waited, aged, WithPrev
  <2> QED BY <2>3, <2>4
<1> QED BY <1>7, <1>8

\* A cycle of the encoder.
LEMMA TickIs ==
  ASSUME NEW e, EncoderOK(e), NEW level
  PROVE  Ticked(e, level) = IF FallSeen(e, level) THEN Fell(Waited(e, level))
                            ELSE IF RiseSeen(e, level) THEN Rose(Waited(e, level))
                            ELSE Waited(e, level)
  BY WaitedIs, Zenon DEF Ticked, FallSeen, RiseSeen

\* What a cycle makes of the encoder: without an edge, at a fall, at a rise.
Carried(e, x) == x.raw = e.raw /\ x.bits = e.bits /\ x.post = e.post

QuietFacts(e, x, level) ==
  /\ x.state = StateNow(e) /\ x.out = OutNow(e) /\ x.prev = level /\ x.fall = FallNow(e)
  /\ x.rise = AgedRise(e) /\ Carried(e, x)

FallFacts(e, x) ==
  /\ x.prev = 0 /\ x.fall = 0
  /\ StateNow(e) = "idle" =>
       x.state = "active" /\ x.raw = Packed(field) /\ x.bits = 0 /\ x.rise = Never /\ x.post = FALSE /\ x.out = 1
  /\ StateNow(e) = "active" => x.state = "active" /\ x.rise = AgedRise(e) /\ Carried(e, x)
  /\ StateNow(e) = "guard" => x.state = "guard" /\ x.post = TRUE /\ x.raw = e.raw /\ x.bits = e.bits

RiseFacts(e, x) ==
  /\ x.prev = 1 /\ x.fall = FallNow(e)
  /\ StateNow(e) = "idle" => x.state = "idle" /\ x.out = OutNow(e)
  /\ StateNow(e) = "active" =>
       /\ x.state = (IF e.bits + 1 = Resolution THEN "guard" ELSE "active")
       /\ x.bits = e.bits + 1 /\ x.out = e.raw[e.bits + 1] /\ x.rise = 0 /\ x.raw = e.raw /\ x.post = e.post
  /\ StateNow(e) = "guard" => x.state = "guard" /\ Carried(e, x)

\* Faults of two moments come to the same record.
LEMMA FaultedTwice ==
  ASSUME NEW f, NEW a \in BOOLEAN, NEW b \in BOOLEAN
  PROVE  Faulted(Faulted(f, a), b) = Faulted(f, a \/ b)
  BY DEF Faulted

\* The fields of the encoder before it looks at the edge.
LEMMA WaitedFields ==
  ASSUME NEW e, NEW level, NEW w, w = Waited(e, level)
  PROVE  /\ w.state = StateNow(e) /\ w.out = OutNow(e) /\ w.prev = level /\ w.fall = FallNow(e) /\ w.rise = AgedRise(e)
         /\ w.raw = e.raw /\ w.bits = e.bits /\ w.post = e.post /\ w.fault = Faulted(e.fault, CutsOff(e))
  BY EncFields DEF Waited

\* The fields of a cycle are typed.
LEMMA NowTyped ==
  ASSUME NEW e, EncoderOK(e)
  PROVE  /\ StateNow(e) \in {"idle", "active", "guard"} /\ OutNow(e) \in {0, 1} /\ AgedRise(e) \in -1..MinPeriod
         /\ StateNow(e) = "idle" => FallNow(e) = Never /\ OutNow(e) = 1
         /\ StateNow(e) # "idle" => /\ FallNow(e) = e.fall + 1 /\ FallNow(e) \in 1..Monoflop-1 /\ Len(e.raw) = Resolution
                                    /\ StateNow(e) = e.state /\ OutNow(e) = e.out
         /\ StateNow(e) = "active" => e.bits \in 0..Resolution-1 /\ e.post = FALSE
         /\ FallNow(e) \in -1..Monoflop
<1>1. /\ e.state \in {"idle", "active", "guard"} /\ e.out \in {0, 1} /\ e.fall \in -1..Monoflop
      /\ e.rise \in -1..MinPeriod /\ e.bits \in 0..Resolution /\ e.post \in BOOLEAN
  BY EncTypes DEF EncoderOK
<1>2. AgedRise(e) \in -1..MinPeriod
  BY <1>1, SsiConstants, OlderTyped DEF AgedRise
<1>3. /\ e.state = "idle" => e.fall = Never /\ e.out = 1
      /\ e.state # "idle" => e.fall \in 0..Monoflop-1 /\ Len(e.raw) = Resolution
      /\ e.state = "active" => e.bits < Resolution /\ ~e.post
  BY DEF EncoderOK
<1> QED BY <1>1, <1>2, <1>3, SsiConstants DEF StateNow, OutNow, FallNow, Spent

\* A cycle without an edge.
LEMMA QuietTick ==
  ASSUME NEW e, EncoderOK(e), NEW level \in Bit, ~FallSeen(e, level), ~RiseSeen(e, level)
  PROVE  /\ EncoderOK(Ticked(e, level)) /\ QuietFacts(e, Ticked(e, level), level)
         /\ Ticked(e, level).fault = Faulted(e.fault, Blame(e, level))
<1> DEFINE x == Ticked(e, level)
<1>1. x = Waited(e, level)
  BY TickIs, Zenon
<1>2. QuietFacts(e, x, level)
  BY ONLY <1>1, WaitedFields DEF QuietFacts, Carried
<1>3. x.fault = Faulted(e.fault, CutsOff(e))
  BY ONLY <1>1, WaitedFields
<1>4. Blame(e, level) = CutsOff(e)
  BY Zenon DEF Blame, CutsOff
<1>5. x \in Encoder
  <2>1. e.raw \in Seq(Bit) /\ e.bits \in 0..Resolution /\ e.post \in BOOLEAN /\ e.fault \in BOOLEAN
    BY EncTypes DEF EncoderOK
  <2>2. Faulted(e.fault, CutsOff(e)) \in BOOLEAN
    BY <2>1 DEF Faulted
  <2>3. level \in {0, 1, -1}
    BY SsiConstants
  <2>4. StateNow(e) \in {"idle", "active", "guard"} /\ OutNow(e) \in {0, 1} /\ AgedRise(e) \in -1..MinPeriod /\ FallNow(e) \in -1..Monoflop
    BY NowTyped
  <2>5. Waited(e, level) \in Encoder
    BY ONLY <2>1, <2>2, <2>3, <2>4, EncTyped DEF Waited
  <2> QED BY <1>1, <2>5
<1>6. EncoderOK(x)
  <2>1. /\ StateNow(e) = "idle" => FallNow(e) = Never /\ OutNow(e) = 1
        /\ StateNow(e) # "idle" => FallNow(e) \in 1..Monoflop-1 /\ Len(e.raw) = Resolution
        /\ StateNow(e) = "active" => e.bits \in 0..Resolution-1 /\ e.post = FALSE
    BY NowTyped
  <2>2. x.state = StateNow(e) /\ x.out = OutNow(e) /\ x.fall = FallNow(e) /\ x.raw = e.raw /\ x.bits = e.bits /\ x.post = e.post
    BY ONLY <1>2 DEF QuietFacts, Carried
  <2> HIDE DEF x
  <2> QED BY ONLY <1>5, <2>1, <2>2, SsiConstants DEF EncoderOK
<1> QED BY <1>2, <1>3, <1>4, <1>6, Zenon

\* The states of an encoder at a fall, once its time has gone on.
LEMMA FallTick ==
  ASSUME NEW e, EncoderOK(e), NEW level, level = 0, FallSeen(e, level),
         Packed(field) \in Seq(Bit), Len(Packed(field)) = Resolution
  PROVE  /\ EncoderOK(Ticked(e, level)) /\ FallFacts(e, Ticked(e, level))
         /\ Ticked(e, level).fault = Faulted(e.fault, Blame(e, level))
<1> DEFINE w == Waited(e, level)  x == Ticked(e, level)  t == Faulted(e.fault, CutsOff(e))
           s == StateNow(e)  o == OutNow(e)  r == AgedRise(e)  old == e.raw  b == e.bits  q == e.post  fresh == Packed(field)
<1>1. x = Fell(w)
  BY TickIs, Zenon
<1>2. w = Enc(s, o, level, FallNow(e), r, old, b, q, t)
  BY Zenon DEF Waited
<1>3. w.state = s /\ w.post = q
  BY ONLY <1>2, EncFields
<1>4. Fell(w) = CASE w.state = "idle" -> Started(w)
                  [] w.state = "active" -> [w EXCEPT !.fall = 0]
                  [] w.state = "guard" /\ ~w.post -> [w EXCEPT !.post = TRUE, !.fall = 0]
                  [] w.state = "guard" /\ w.post -> Faulty([w EXCEPT !.fall = 0])
  BY DEF Fell
<1>5. /\ s \in {"idle", "active", "guard"} /\ o \in {0, 1} /\ r \in -1..MinPeriod
      /\ s # "idle" => Len(old) = Resolution
      /\ s = "active" => b \in 0..Resolution-1 /\ q = FALSE
      /\ s # "idle" => s = e.state
  BY NowTyped
<1>6. old \in Seq(Bit) /\ b \in 0..Resolution /\ q \in BOOLEAN /\ e.fault \in BOOLEAN
  BY EncTypes DEF EncoderOK
<1>7. t \in BOOLEAN
  BY <1>6 DEF Faulted
<1>8. Blame(e, level) = (CutsOff(e) \/ (s = "guard" /\ e.post))
  <2>1. ~RiseSeen(e, level)
    BY DEF RiseSeen
  <2> QED BY <2>1, Zenon DEF Blame, CutsOff
<1>9. PICK yes : yes = TRUE
  OBVIOUS
<1>10. PICK no : no = FALSE
  OBVIOUS
<1> HIDE DEF w, x, t, s, o, r, old, b, q, fresh
<1>11. CASE s = "idle"
  <2>1. x = Started(w)
    BY <1>1, <1>3, <1>4, <1>11
  <2>2. WithFrame(w, fresh, 0, 0, Never, no, "active", 1) = Enc("active", 1, level, 0, Never, fresh, 0, no, t)
    BY ONLY <1>2, WithFrameIs
  <2>3. x = Enc("active", 1, level, 0, Never, fresh, 0, no, t)
    BY <1>10, <2>1, <2>2, Zenon DEF Started, WithFrame, fresh
  <2>4. x.state = "active" /\ x.out = 1 /\ x.prev = level /\ x.fall = 0 /\ x.rise = Never /\ x.raw = fresh /\ x.bits = 0 /\ x.post = no /\ x.fault = t
    BY ONLY <2>3, EncFields
  <2>5. x \in Encoder
    <3>1. 0 \in 0..Resolution /\ 0 \in -1..Monoflop /\ Never \in -1..MinPeriod /\ level \in {0, 1, -1}
      BY SsiConstants
    <3>2. fresh \in Seq(Bit) /\ no \in BOOLEAN
      BY <1>10 DEF fresh
    <3> QED BY ONLY <1>7, <2>3, <3>1, <3>2, EncTyped
  <2>6. EncoderOK(x)
    BY <1>10, <2>4, <2>5, SsiConstants DEF EncoderOK, fresh
  <2>7. FallFacts(e, x)
    BY <1>10, <1>11, <2>4 DEF FallFacts, s, fresh
  <2>8. Blame(e, level) = CutsOff(e)
    BY <1>8, <1>11, Zenon DEF CutsOff
  <2> QED BY <2>4, <2>6, <2>7, <2>8, Zenon DEF x, t
<1>12. CASE s = "active"
  <2>1. x = [w EXCEPT !.fall = 0]
    BY <1>1, <1>3, <1>4, <1>12
  <2>2. WithFall(w, 0) = Enc(s, o, level, 0, r, old, b, q, t)
    BY ONLY <1>2, WithFallIs
  <2>3. x = Enc(s, o, level, 0, r, old, b, q, t)
    BY <2>1, <2>2, Zenon DEF WithFall
  <2>4. x.state = s /\ x.out = o /\ x.prev = level /\ x.fall = 0 /\ x.rise = r /\ x.raw = old /\ x.bits = b /\ x.post = q /\ x.fault = t
    BY ONLY <2>3, EncFields
  <2>5. x \in Encoder
    <3>1. 0 \in -1..Monoflop /\ level \in {0, 1, -1}
      BY SsiConstants
    <3> QED BY ONLY <1>5, <1>6, <1>7, <2>3, <3>1, EncTyped
  <2>6. EncoderOK(x)
    BY ONLY <1>5, <1>12, <2>4, <2>5, SsiConstants DEF EncoderOK
  <2>7. FallFacts(e, x)
    BY <1>12, <2>4 DEF FallFacts, Carried, s, r, old, b, q
  <2>8. Blame(e, level) = CutsOff(e)
    BY <1>8, <1>12, Zenon DEF CutsOff
  <2> QED BY <2>4, <2>6, <2>7, <2>8, Zenon DEF x, t
<1>13. CASE s = "guard" /\ ~q
  <2>1. x = [w EXCEPT !.post = TRUE, !.fall = 0]
    BY <1>1, <1>3, <1>4, <1>13
  <2>2. WithPost(w, yes, 0) = Enc(s, o, level, 0, r, old, b, yes, t)
    BY ONLY <1>2, WithPostIs
  <2>3. x = Enc(s, o, level, 0, r, old, b, yes, t)
    BY <1>9, <2>1, <2>2, Zenon DEF WithPost
  <2>4. x.state = s /\ x.out = o /\ x.prev = level /\ x.fall = 0 /\ x.rise = r /\ x.raw = old /\ x.bits = b /\ x.post = yes /\ x.fault = t
    BY ONLY <2>3, EncFields
  <2>5. x \in Encoder
    <3>1. 0 \in -1..Monoflop /\ level \in {0, 1, -1} /\ yes \in BOOLEAN
      BY <1>9, SsiConstants
    <3> QED BY ONLY <1>5, <1>6, <1>7, <2>3, <3>1, EncTyped
  <2>6. EncoderOK(x)
    BY ONLY <1>5, <1>13, <2>4, <2>5, SsiConstants DEF EncoderOK
  <2>7. FallFacts(e, x)
    BY <1>9, <1>13, <2>4 DEF FallFacts, Carried, s, r, old, b
  <2>8. Blame(e, level) = CutsOff(e)
    BY <1>8, <1>13, Zenon DEF CutsOff, q
  <2> QED BY <2>4, <2>6, <2>7, <2>8, Zenon DEF x, t
<1>14. CASE s = "guard" /\ q
  <2>1. x = Faulty([w EXCEPT !.fall = 0])
    BY <1>1, <1>3, <1>4, <1>14
  <2>2. WithFall(w, 0) = Enc(s, o, level, 0, r, old, b, q, t)
    BY ONLY <1>2, WithFallIs
  <2> DEFINE y == WithFall(w, 0)
  <2> HIDE DEF y
  <2>3. WithFault(y, yes) = Enc(s, o, level, 0, r, old, b, q, yes)
    BY ONLY <2>2, WithFaultIs DEF y
  <2>4. x = Enc(s, o, level, 0, r, old, b, q, yes)
    BY <1>9, <2>1, <2>3, Zenon DEF WithFall, WithFault, Faulty, y
  <2>5. x.state = s /\ x.out = o /\ x.prev = level /\ x.fall = 0 /\ x.rise = r /\ x.raw = old /\ x.bits = b /\ x.post = q /\ x.fault = yes
    BY ONLY <2>4, EncFields
  <2>6. x \in Encoder
    <3>1. 0 \in -1..Monoflop /\ level \in {0, 1, -1} /\ yes \in BOOLEAN
      BY <1>9, SsiConstants
    <3> QED BY ONLY <1>5, <1>6, <2>4, <3>1, EncTyped
  <2>7. EncoderOK(x)
    BY ONLY <1>5, <1>14, <2>5, <2>6, SsiConstants DEF EncoderOK
  <2>8. FallFacts(e, x)
    BY <1>14, <2>5 DEF FallFacts, Carried, s, r, old, b, q
  <2>9. Faulted(e.fault, Blame(e, level)) = TRUE
    BY <1>8, <1>14 DEF Faulted, q
  <2> QED BY <1>9, <2>5, <2>7, <2>8, <2>9, Zenon DEF x
<1> QED BY <1>5, <1>6, <1>11, <1>12, <1>13, <1>14, Zenon DEF s, q

\* The states of an encoder at a rise.
LEMMA RiseTick ==
  ASSUME NEW e, EncoderOK(e), NEW level, level = 1, RiseSeen(e, level)
  PROVE  /\ EncoderOK(Ticked(e, level)) /\ RiseFacts(e, Ticked(e, level))
         /\ Ticked(e, level).fault = Faulted(e.fault, Blame(e, level))
<1> DEFINE w == Waited(e, level)  x == Ticked(e, level)  t == Faulted(e.fault, CutsOff(e))
           s == StateNow(e)  o == OutNow(e)  r == AgedRise(e)  old == e.raw  b == e.bits  q == e.post  f == FallNow(e)
<1>1. x = Rose(w)
  <2>1. ~FallSeen(e, level)
    BY DEF FallSeen
  <2> QED BY <2>1, TickIs, Zenon
<1>2. w = Enc(s, o, level, f, r, old, b, q, t)
  BY Zenon DEF Waited
<1>3. w.state = s /\ w.post = q /\ w.raw = old /\ w.bits = b /\ w.rise = r
  BY ONLY <1>2, EncFields
<1>4. Rose(w) = CASE w.state = "active" -> Clocked(w)
                  [] w.state = "guard" /\ w.post -> [w EXCEPT !.out = 0]
                  [] OTHER -> w
  BY DEF Rose
<1>5. /\ s \in {"idle", "active", "guard"} /\ o \in {0, 1} /\ r \in -1..MinPeriod /\ f \in -1..Monoflop
      /\ s = "idle" => f = Never /\ o = 1
      /\ s # "idle" => Len(old) = Resolution /\ f \in 1..Monoflop-1
      /\ s = "active" => b \in 0..Resolution-1 /\ q = FALSE
  BY NowTyped
<1>6. old \in Seq(Bit) /\ b \in 0..Resolution /\ q \in BOOLEAN /\ e.fault \in BOOLEAN
  BY EncTypes DEF EncoderOK
<1>7. t \in BOOLEAN
  BY <1>6 DEF Faulted
<1>8. Blame(e, level) = (CutsOff(e) \/ (s = "active" /\ TooEarly(e)))
  <2>1. ~FallSeen(e, level)
    BY DEF FallSeen
  <2> QED BY <2>1, Zenon DEF Blame, CutsOff
<1>9. PICK yes : yes = TRUE
  OBVIOUS
<1>10. level \in {0, 1, -1} /\ 0 \in -1..MinPeriod /\ 0 \in {0, 1}
  BY SsiConstants
<1> HIDE DEF w, x, t, s, o, r, old, b, q, f
<1>11. CASE s = "idle" \/ (s = "guard" /\ ~q)
  <2>1. x = Enc(s, o, level, f, r, old, b, q, t)
    BY <1>1, <1>2, <1>3, <1>4, <1>11
  <2>2. x.state = s /\ x.out = o /\ x.prev = level /\ x.fall = f /\ x.rise = r /\ x.raw = old /\ x.bits = b /\ x.post = q /\ x.fault = t
    BY ONLY <2>1, EncFields
  <2>3. x \in Encoder
    BY ONLY <1>5, <1>6, <1>7, <1>10, <2>1, EncTyped
  <2>4. EncoderOK(x)
    BY ONLY <1>5, <1>11, <2>2, <2>3, SsiConstants DEF EncoderOK
  <2>5. RiseFacts(e, x)
    BY <1>11, <2>2 DEF RiseFacts, Carried, s, o, old, b, q, f
  <2>6. Blame(e, level) = CutsOff(e)
    BY <1>8, <1>11, Zenon DEF CutsOff
  <2> QED BY <2>2, <2>4, <2>5, <2>6, Zenon DEF x, t
<1>12. CASE s = "guard" /\ q
  <2>1. x = [w EXCEPT !.out = 0]
    BY <1>1, <1>3, <1>4, <1>12
  <2>2. WithOut(w, 0) = Enc(s, 0, level, f, r, old, b, q, t)
    BY ONLY <1>2, WithOutIs
  <2>3. x = Enc(s, 0, level, f, r, old, b, q, t)
    BY <2>1, <2>2, Zenon DEF WithOut
  <2>4. x.state = s /\ x.out = 0 /\ x.prev = level /\ x.fall = f /\ x.rise = r /\ x.raw = old /\ x.bits = b /\ x.post = q /\ x.fault = t
    BY ONLY <2>3, EncFields
  <2>5. x \in Encoder
    BY ONLY <1>5, <1>6, <1>7, <1>10, <2>3, EncTyped
  <2>6. EncoderOK(x)
    BY ONLY <1>5, <1>12, <2>4, <2>5, SsiConstants DEF EncoderOK
  <2>7. RiseFacts(e, x)
    BY <1>12, <2>4 DEF RiseFacts, Carried, s, o, old, b, q, f
  <2>8. Blame(e, level) = CutsOff(e)
    BY <1>8, <1>12, Zenon DEF CutsOff
  <2> QED BY <2>4, <2>6, <2>7, <2>8, Zenon DEF x, t
<1>13. CASE s = "active"
  <2> DEFINE bit == old[b + 1]  more == b + 1  after == IF b + 1 = Resolution THEN "guard" ELSE "active"
             y == WithBit(w, bit, more, 0, after)
  <2>1. x = Clocked(w)
    BY <1>1, <1>3, <1>4, <1>13
  <2>2. bit \in {0, 1} /\ more \in 0..Resolution /\ after \in {"idle", "active", "guard"} /\ (after = "active" => more < Resolution)
        /\ after # "idle" /\ more = b + 1
    BY <1>5, <1>6, <1>13, SsiConstants
  <2>3. y = [w EXCEPT !.out = w.raw[w.bits + 1], !.bits = @ + 1, !.rise = 0,
                      !.state = IF w.bits + 1 = Resolution THEN "guard" ELSE "active"]
    BY <1>3, Zenon DEF WithBit
  <2>4. Clocked(w) = IF w.rise # Never /\ w.rise < MinPeriod THEN Faulty(y) ELSE y
    BY <2>3, Zenon DEF Clocked
  <2>5. after = (IF e.bits + 1 = Resolution THEN "guard" ELSE "active") /\ bit = e.raw[e.bits + 1] /\ more = e.bits + 1
    BY DEF old, b
  <2> HIDE DEF bit, more, after
  <2>6. y = Enc(after, bit, level, f, 0, old, more, q, t)
    BY ONLY <1>2, WithBitIs
  <2> HIDE DEF y
  <2>7. ASSUME NEW u \in BOOLEAN, x = Enc(after, bit, level, f, 0, old, more, q, u)
        PROVE  EncoderOK(x) /\ RiseFacts(e, x) /\ x.fault = u
    <3>1. x.state = after /\ x.out = bit /\ x.prev = level /\ x.fall = f /\ x.rise = 0 /\ x.raw = old /\ x.bits = more /\ x.post = q /\ x.fault = u
      BY ONLY <2>7, EncFields
    <3>2. x \in Encoder
      BY ONLY <1>5, <1>6, <1>10, <2>2, <2>7, EncTyped
    <3>3. EncoderOK(x)
      BY ONLY <1>5, <1>13, <2>2, <3>1, <3>2, SsiConstants DEF EncoderOK
    <3>4. RiseFacts(e, x)
      BY <1>13, <2>5, <3>1 DEF RiseFacts, s, old, q, f
    <3> QED BY <3>1, <3>3, <3>4
  <2>8. CASE TooEarly(e)
    <3>1. x = Faulty(y)
      BY <1>3, <2>1, <2>4, <2>8, Zenon DEF TooEarly, r
    <3>2. WithFault(y, yes) = Enc(after, bit, level, f, 0, old, more, q, yes)
      BY ONLY <2>6, WithFaultIs
    <3>3. x = Enc(after, bit, level, f, 0, old, more, q, yes)
      BY <1>9, <3>1, <3>2, Zenon DEF WithFault, Faulty
    <3>4. Faulted(e.fault, Blame(e, level)) = yes
      BY <1>8, <1>9, <1>13, <2>8 DEF Faulted
    <3>5. yes \in BOOLEAN
      BY <1>9
    <3> QED BY <2>7, <3>3, <3>4, <3>5, Zenon DEF x
  <2>9. CASE ~TooEarly(e)
    <3>1. x = y
      BY <1>3, <2>1, <2>4, <2>9, Zenon DEF TooEarly, r
    <3>2. Blame(e, level) = CutsOff(e)
      BY <1>8, <2>9, Zenon DEF CutsOff
    <3>3. x = Enc(after, bit, level, f, 0, old, more, q, t)
      BY <2>6, <3>1
    <3> QED BY <1>7, <2>7, <3>2, <3>3, Zenon DEF x, t
  <2> QED BY <2>8, <2>9
<1> QED BY <1>5, <1>6, <1>11, <1>12, <1>13, Zenon DEF s, q

\* A fault on record does not change what a cycle reports.
LEMMA FaultSaid ==
  ASSUME NEW e, EncoderOK(e), NEW level \in Bit, Packed(field) \in Seq(Bit), Len(Packed(field)) = Resolution
  PROVE  Ticked([e EXCEPT !.fault = FALSE], level).fault = Blame(e, level)
<1> DEFINE d == [e EXCEPT !.fault = FALSE]
<1>1. PICK no : no = FALSE
  OBVIOUS
<1>2. e = Enc(e.state, e.out, e.prev, e.fall, e.rise, e.raw, e.bits, e.post, e.fault)
  BY EncIs, Zenon DEF EncoderOK
<1>3. WithFault(e, no) = Enc(e.state, e.out, e.prev, e.fall, e.rise, e.raw, e.bits, e.post, no)
  BY ONLY <1>2, WithFaultIs
<1>4. d = Enc(e.state, e.out, e.prev, e.fall, e.rise, e.raw, e.bits, e.post, no)
  BY <1>1, <1>3, Zenon DEF WithFault
<1> HIDE DEF d
<1>5. /\ d.state = e.state /\ d.out = e.out /\ d.prev = e.prev /\ d.fall = e.fall /\ d.rise = e.rise
      /\ d.raw = e.raw /\ d.bits = e.bits /\ d.post = e.post /\ d.fault = FALSE
  BY ONLY <1>1, <1>4, EncFields
<1>6. d \in Encoder
  <2>1. /\ e.state \in {"idle", "active", "guard"} /\ e.out \in {0, 1} /\ e.prev \in {0, 1, -1} /\ e.fall \in -1..Monoflop
        /\ e.rise \in -1..MinPeriod /\ e.raw \in Seq(Bit) /\ e.bits \in 0..Resolution /\ e.post \in BOOLEAN /\ no \in BOOLEAN
    BY <1>1, EncTypes DEF EncoderOK
  <2> QED BY ONLY <1>4, <2>1, EncTyped
<1>7. EncoderOK(d)
  BY <1>5, <1>6, Zenon DEF EncoderOK
<1>8. Blame(d, level) = Blame(e, level)
  BY <1>5, Zenon DEF Blame, CutsOff, FallSeen, RiseSeen, StateNow, Spent, TooEarly, AgedRise
<1>9. Faulted(d.fault, Blame(d, level)) = Blame(e, level)
  <2>1. Blame(e, level) \in BOOLEAN
    BY Zenon DEF Blame
  <2> QED BY <1>5, <1>8, <2>1, Zenon DEF Faulted
<1>10. Ticked(d, level).fault = Faulted(d.fault, Blame(d, level))
  <2>1. CASE FallSeen(d, level)
    BY <1>7, <2>1, FallTick DEF FallSeen
  <2>2. CASE RiseSeen(d, level)
    BY <1>7, <2>2, RiseTick DEF RiseSeen
  <2> QED BY <1>7, <2>1, <2>2, QuietTick
<1> QED BY <1>9, <1>10, Zenon DEF d
SsiFields == [position : Positions, error : Errors]

\* The Gray code of a position: as many bits.
LEMMA GrayTyped ==
  ASSUME NEW n \in Nat, NEW p \in [1..n -> Bit]
  PROVE  /\ Gray(p) \in [1..n -> Bit]
         /\ \A i \in 1..n : Gray(p)[i] = IF i = 1 THEN p[1] ELSE (p[i] + p[i-1]) % 2
<1>1. Len(p) = n
  OBVIOUS
<1>2. ASSUME NEW i \in 1..n
      PROVE  (IF i = 1 THEN p[1] ELSE (p[i] + p[i-1]) % 2) \in {0, 1}
  <2>1. CASE i = 1
    BY <2>1 DEF Bit
  <2>2. CASE i # 1
    <3>1. p[i] \in {0, 1} /\ p[i-1] \in {0, 1}
      BY <2>2 DEF Bit
    <3> QED BY <2>2, <3>1
  <2> QED BY <2>1, <2>2
<1>3. Gray(p) = [i \in 1..n |-> IF i = 1 THEN p[1] ELSE (p[i] + p[i-1]) % 2]
  BY <1>1 DEF Gray
<1>4. Bit = {0, 1}
  BY DEF Bit
<1> QED BY <1>2, <1>3, <1>4

\* The parity of the ones so far is the bit.
LEMMA Parity ==
  ASSUME NEW n \in Nat, NEW p \in [1..n -> Bit], NEW i \in 1..n
  PROVE  Cardinality({j \in 1..i : Gray(p)[j] = 1}) % 2 = p[i]
<1> DEFINE g == Gray(p)  Ones(m) == {j \in 1..m : g[j] = 1}
           P == {m \in Nat : m + 1 \in 1..n => IsFiniteSet(Ones(m + 1)) /\ Cardinality(Ones(m + 1)) % 2 = p[m + 1]}
<1>0. /\ \A k \in 1..n : g[k] \in {0, 1} /\ p[k] \in {0, 1} /\ g[k] = IF k = 1 THEN p[1] ELSE (p[k] + p[k-1]) % 2
  BY GrayTyped DEF Bit
<1> HIDE DEF g
<1>1. 0 \in P
  <2> SUFFICES ASSUME 1 \in 1..n PROVE IsFiniteSet(Ones(1)) /\ Cardinality(Ones(1)) % 2 = p[1]
    OBVIOUS
  <2>1. g[1] = p[1] /\ p[1] \in {0, 1}
    BY <1>0
  <2>2. CASE p[1] = 1
    <3>1. Ones(1) = {1}
      BY <2>1, <2>2
    <3>2. IsFiniteSet({1}) /\ Cardinality({1}) = 1
      BY FS_Singleton
    <3> HIDE DEF Ones
    <3>3. Cardinality(Ones(1)) = 1 /\ IsFiniteSet(Ones(1))
      BY ONLY <3>1, <3>2, Zenon
    <3>4. 1 % 2 = 1
      OBVIOUS
    <3> QED BY ONLY <2>2, <3>3, <3>4, Zenon
  <2>3. CASE p[1] = 0
    <3>1. Ones(1) = {}
      BY <2>1, <2>3
    <3> QED BY <2>3, <3>1, FS_EmptySet
  <2> QED BY <2>1, <2>2, <2>3
<1>2. ASSUME NEW m \in P PROVE m + 1 \in P
  <2> SUFFICES ASSUME m + 2 \in 1..n PROVE IsFiniteSet(Ones(m + 2)) /\ Cardinality(Ones(m + 2)) % 2 = p[m + 2]
    OBVIOUS
  <2>1. m \in Nat /\ m + 1 \in 1..n /\ IsFiniteSet(Ones(m + 1)) /\ Cardinality(Ones(m + 1)) % 2 = p[m + 1]
    OBVIOUS
  <2>2. p[m + 1] \in {0, 1} /\ p[m + 2] \in {0, 1} /\ g[m + 2] \in {0, 1} /\ g[m + 2] = (p[m + 2] + p[m + 1]) % 2
    BY <1>0, <2>1
  <2>3. Cardinality(Ones(m + 1)) \in Nat
    BY <2>1, FS_CardinalityType
  <2>4. CASE g[m + 2] = 0
    <3>1. Ones(m + 2) = Ones(m + 1)
      BY <2>1, <2>4
    <3>2. p[m + 1] = p[m + 2]
      BY <2>2, <2>4
    <3> QED BY <2>1, <3>1, <3>2
  <2>5. CASE g[m + 2] = 1
    <3>1. Ones(m + 2) = Ones(m + 1) \cup {m + 2} /\ m + 2 \notin Ones(m + 1)
      BY <2>1, <2>5
    <3>3. p[m + 1] = 1 - p[m + 2]
      BY <2>2, <2>5
    <3> HIDE DEF Ones
    <3>2. IsFiniteSet(Ones(m + 2)) /\ Cardinality(Ones(m + 2)) = Cardinality(Ones(m + 1)) + 1
      BY ONLY <2>1, <3>1, FS_AddElement
    <3>4. ASSUME NEW c \in Nat, c % 2 = 1 - p[m + 2] PROVE (c + 1) % 2 = p[m + 2]
      BY <2>2, <3>4
    <3> QED BY <2>1, <2>3, <3>2, <3>3, <3>4
  <2> QED BY <2>2, <2>4, <2>5
<1>3. P = Nat
  <2>1. P \in SUBSET Nat
    OBVIOUS
  <2> HIDE DEF P
  <2> QED BY <1>1, <1>2, <2>1, SetInduction
<1>4. i - 1 \in P
  <2> HIDE DEF P
  <2>1. i - 1 \in Nat
    OBVIOUS
  <2> QED BY ONLY <1>3, <2>1
<1>5. (i - 1) + 1 = i
  OBVIOUS
<1> HIDE DEF Ones
<1>6. Cardinality(Ones(i)) % 2 = p[i]
  BY <1>4, <1>5
<1> QED BY <1>6 DEF g, Ones

\* Ungray undoes Gray.
LEMMA UngrayGray ==
  ASSUME NEW n \in Nat, NEW p \in [1..n -> Bit]
  PROVE  Ungray(Gray(p)) = p
<1>1. Len(Gray(p)) = n
  BY GrayTyped
<1>2. Ungray(Gray(p)) = [i \in 1..n |-> Cardinality({j \in 1..i : Gray(p)[j] = 1}) % 2]
  BY <1>1 DEF Ungray
<1>3. \A i \in 1..n : Cardinality({j \in 1..i : Gray(p)[j] = 1}) % 2 = p[i]
  BY Parity
<1>4. p = [i \in 1..n |-> p[i]]
  OBVIOUS
<1> QED BY ONLY <1>2, <1>3, <1>4

\* What stands on the wire for a position and an error.
LEMMA PackedTyped ==
  ASSUME NEW f \in SsiFields
  PROVE  Packed(f) \in Seq(Bit) /\ Len(Packed(f)) = Resolution
<1> DEFINE p == IF config.encoding = "gray" THEN Gray(f.position) ELSE f.position
<1>1. f.position \in [1..PositionBits -> Bit] /\ f.error \in [1..ErrorBits -> Bit]
  BY SsiAssumption DEF SsiFields
<1>2. p \in [1..PositionBits -> Bit] /\ PositionBits \in Nat /\ ErrorBits \in Nat
  BY <1>1, SsiConstants, GrayTyped
<1> HIDE DEF p
<1>3. p \in Seq(Bit) /\ Len(p) = PositionBits /\ f.error \in Seq(Bit) /\ Len(f.error) = ErrorBits
  BY <1>1, <1>2
<1>4. Packed(f) = p \o f.error
  BY DEF Packed, p
<1>5. p \o f.error \in Seq(Bit) /\ Len(p \o f.error) = PositionBits + ErrorBits
  BY ONLY <1>3, ConcatProperties
<1> QED BY <1>4, <1>5, SsiConstants

\* The mailbox's two words make the word again.
LEMMA WordsTogether ==
  ASSUME NEW word \in Seq(Bit), Len(word) = Resolution
  PROVE  High(word) \o Low(word) = word
  BY SsiConstants DEF High, Low

\* The host decodes what was packed.
LEMMA DecodesPacked ==
  ASSUME NEW f \in SsiFields
  PROVE  Decoded(Packed(f)) = f
<1> DEFINE p == IF config.encoding = "gray" THEN Gray(f.position) ELSE f.position
           word == p \o f.error
<1>1. f.position \in [1..PositionBits -> Bit] /\ f.error \in [1..ErrorBits -> Bit]
  BY SsiAssumption DEF SsiFields
<1>2. p \in [1..PositionBits -> Bit] /\ PositionBits \in Nat /\ ErrorBits \in Nat
  BY <1>1, SsiConstants, GrayTyped
<1>3. Packed(f) = word
  BY DEF Packed
<1>4. (IF config.encoding = "gray" THEN Ungray(p) ELSE p) = f.position
  BY <1>1, <1>2, UngrayGray
<1> HIDE DEF p
<1>5. p \in Seq(Bit) /\ Len(p) = PositionBits /\ f.error \in Seq(Bit) /\ Len(f.error) = ErrorBits
  BY <1>1, <1>2
<1>6. SubSeq(word, 1, PositionBits) = p
  BY <1>5, SsiConstants
<1>7. SubSeq(word, PositionBits + 1, Resolution) = f.error
  BY <1>5, SsiConstants
<1> HIDE DEF word
<1>8. Decoded(word) = [position |-> f.position, error |-> f.error]
  BY <1>4, <1>6, <1>7, Zenon DEF Decoded
<1>9. f = [position |-> f.position, error |-> f.error]
  BY DEF SsiFields
<1> QED BY <1>3, <1>8, <1>9

(* The invariant of encoder, firmware and mailbox. *)

Got == Len(fw.word)
LowTime == IF fw.word = << >> THEN FirstLow ELSE config.low
InFrame == {"rise", "sample"}
Behind == {"odd", "lo", "hi", "even"}
Before == {"start", "clear", "clear lo", "clear hi"}
FwRecords == [step : InFrame \cup Behind \cup Before \cup {"close", "frame"}, wait : Nat, left : Nat, word : Seq(Bit)]

\* Cycles since the clock fell last.
Age ==
  CASE fw.step \in {"rise", "close"} -> LowTime - 1 - fw.wait
    [] fw.step = "sample" -> LowTime + config.high - 1 - fw.wait
    [] fw.step = "odd" -> LowTime
    [] fw.step = "lo" -> LowTime + 1
    [] fw.step = "hi" -> LowTime + 2
    [] fw.step = "even" -> LowTime + 3
    [] OTHER -> LowTime + 3 + config.idle - fw.wait

ReaderTypes ==
  /\ fw \in FwRecords /\ field \in SsiFields /\ truth \in SsiFields /\ blamed \in BOOLEAN
  /\ config \in [high : HighDelays, low : LowDelays, idle : IdleDelays, encoding : Encodings]
  /\ mailbox \in [sequence : Bit, lo : Seq(Bit), hi : Seq(Bit)]

\* Where the firmware is says how far its frame has come.
FirmwareInv ==
  /\ ReaderTypes
  /\ fw.step = "rise" => fw.wait < LowTime /\ Got < Resolution
  /\ fw.step = "sample" => fw.wait < config.high /\ Got < Resolution
  /\ fw.step = "close" => fw.wait < config.low
  /\ fw.step = "frame" => fw.wait < config.idle
  /\ fw.step \in Before \cup Behind => fw.wait = 0
  /\ fw.step \in Behind \cup {"close"} => Got = Resolution
  /\ fw.step \in InFrame => Got + fw.left = Resolution
  /\ fw.step \in Before => fw.word = << >>
  /\ clock = IF fw.step \in {"start", "rise", "close"} THEN 0 ELSE 1

\* The monoflop measures the time since the firmware's last fall.
EncoderInv ==
  /\ EncoderOK(enc)
  /\ enc.prev = IF fw.step = "start" THEN Never ELSE clock
  /\ enc.state # "idle" => enc.fall = Age
  /\ enc.state = "active" /\ clock = 1 => enc.bits > 0
  /\ fw.step \in Before \/ (fw.step = "frame" /\ fw.word = << >>) => enc.state = "idle"

\* What an instruction of the firmware makes of its step, its delay and its word.
Becomes(step, wait, left, word) ==
  fw'.step = step /\ fw'.wait = wait /\ fw'.left = left /\ fw'.word = word

\* The types of what the firmware works with.
LEMMA ReaderTyped ==
  ASSUME ReaderTypes
  PROVE  /\ fw.wait \in Nat /\ fw.left \in Nat /\ fw.word \in Seq(Bit) /\ Got \in Nat
         /\ fw.step \in InFrame \cup Behind \cup Before \cup {"close", "frame"}
         /\ config.high \in Nat \ {0} /\ config.low \in Nat \ {0} /\ config.idle \in Nat \ {0} /\ FirstLow \in Nat \ {0}
         /\ FirstLow <= config.low /\ LowTime \in Nat \ {0} /\ LowTime <= config.low
         /\ fw.word = << >> <=> Got = 0
<1>1. /\ fw.wait \in Nat /\ fw.left \in Nat /\ fw.word \in Seq(Bit)
      /\ fw.step \in InFrame \cup Behind \cup Before \cup {"close", "frame"}
  BY DEF ReaderTypes, FwRecords
<1>2. /\ config.high \in Nat \ {0} /\ config.low \in Nat \ {0} /\ config.idle \in Nat \ {0} /\ FirstLow \in Nat \ {0}
      /\ FirstLow <= config.low
  BY SsiAssumption DEF ReaderTypes
<1>3. Got \in Nat /\ (fw.word = << >> <=> Got = 0)
  BY <1>1 DEF Got
<1> QED BY <1>1, <1>2, <1>3 DEF LowTime

\* What Goto does.
LEMMA Goes ==
  ASSUME ReaderTypes, NEW step, NEW delay, Goto(step, delay)
  PROVE  Becomes(step, delay - 1, fw.left, fw.word)
  BY DEF ReaderTypes, FwRecords, Goto, Becomes

\* The steps of the firmware.
LEMMA StepOfDelay ==
  ASSUME ReaderTypes, Delay
  PROVE  fw.wait > 0 /\ Becomes(fw.step, fw.wait - 1, fw.left, fw.word) /\ clock' = clock
  BY DEF ReaderTypes, FwRecords, Delay, Becomes

LEMMA StepOfBegin ==
  ASSUME Begin
  PROVE  /\ fw.step = "frame" /\ fw.wait = 0 /\ Becomes("rise", FirstLow - 1, Resolution, << >>) /\ clock' = 0
         /\ truth' = field
  BY DEF Begin, At, Becomes

LEMMA StepOfRise ==
  ASSUME ReaderTypes, Rise
  PROVE  fw.step = "rise" /\ fw.wait = 0 /\ Becomes("sample", config.high - 1, fw.left, fw.word) /\ clock' = 1
  BY Goes DEF Rise, At

LEMMA StepOfSample ==
  ASSUME Sample
  PROVE  /\ fw.step = "sample" /\ fw.wait = 0 /\ clock' = 0
         /\ Becomes(IF fw.left = 1 THEN "close" ELSE "rise", config.low - 1, fw.left - 1, Append(fw.word, enc.out))
  BY DEF Sample, At, Becomes

LEMMA StepOfClose ==
  ASSUME ReaderTypes, Close
  PROVE  fw.step = "close" /\ fw.wait = 0 /\ Becomes("odd", 0, fw.left, fw.word) /\ clock' = 1
<1>1. Becomes("odd", 1 - 1, fw.left, fw.word)
  BY Goes DEF Close
<1> QED BY <1>1 DEF Close, At, Becomes

LEMMA StepOfStart ==
  ASSUME ReaderTypes, Start
  PROVE  fw.step = "start" /\ fw.wait = 0 /\ Becomes("clear", 0, fw.left, fw.word) /\ clock' = 1
<1>1. Becomes("clear", 1 - 1, fw.left, fw.word)
  BY Goes DEF Start
<1> QED BY <1>1 DEF Start, At, Becomes

LEMMA StepOfClear ==
  ASSUME ReaderTypes, Clear
  PROVE  /\ clock' = clock
         /\ \/ fw.step = "clear" /\ Becomes("clear lo", 0, fw.left, fw.word)
            \/ fw.step = "clear lo" /\ Becomes("clear hi", 0, fw.left, fw.word)
            \/ fw.step = "clear hi" /\ Becomes("frame", 0, fw.left, fw.word)
<1>1. ASSUME NEW step, Goto(step, 1) PROVE Becomes(step, 0, fw.left, fw.word)
  <2>1. Becomes(step, 1 - 1, fw.left, fw.word)
    BY <1>1, Goes
  <2> QED BY <2>1 DEF Becomes
<1> QED BY <1>1 DEF Clear, At

LEMMA StepOfPublish ==
  ASSUME ReaderTypes, Publish
  PROVE  /\ clock' = clock
         /\ \/ fw.step = "odd" /\ Becomes("lo", 0, fw.left, fw.word)
            \/ fw.step = "lo" /\ Becomes("hi", 0, fw.left, fw.word)
            \/ fw.step = "hi" /\ Becomes("even", 0, fw.left, fw.word)
            \/ fw.step = "even" /\ Becomes("frame", config.idle - 1, fw.left, fw.word)
<1>1. ASSUME NEW step, Goto(step, 1) PROVE Becomes(step, 0, fw.left, fw.word)
  <2>1. Becomes(step, 1 - 1, fw.left, fw.word)
    BY <1>1, Goes
  <2> QED BY <2>1 DEF Becomes
<1>2. ASSUME NEW step, Goto(step, config.idle) PROVE Becomes(step, config.idle - 1, fw.left, fw.word)
  BY <1>2, Goes
<1> QED BY <1>1, <1>2 DEF Publish, At

\* A frame under way is never longer than it should be.
LEMMA WordGrows ==
  ASSUME ReaderTypes, EncoderOK(enc)
  PROVE  LET more == Append(fw.word, enc.out) IN more \in Seq(Bit) /\ Len(more) = Got + 1 /\ more # << >>
<1>1. enc.out \in Bit /\ fw.word \in Seq(Bit)
  BY EncTypes, ReaderTyped DEF EncoderOK, Bit
<1> QED BY <1>1 DEF Got

\* The firmware's record after an instruction.
LEMMA FwTyped ==
  ASSUME FirmwareInv, EncoderOK(enc), Run
  PROVE  fw' \in FwRecords
<1>0. ReaderTypes /\ fw \in FwRecords
  BY DEF FirmwareInv, ReaderTypes
<1>1. ASSUME NEW step \in InFrame \cup Behind \cup Before \cup {"close", "frame"}, NEW delay \in Nat \ {0}, Goto(step, delay)
      PROVE  fw' \in FwRecords
  <2>1. PICK wait \in Nat : wait = delay - 1
    OBVIOUS
  <2>2. fw' = [[fw EXCEPT !.step = step] EXCEPT !.wait = wait]
    BY <1>1, <2>1 DEF Goto
  <2>3. [fw EXCEPT !.step = step] \in FwRecords
    BY <1>0 DEF FwRecords
  <2> QED BY <2>2, <2>3 DEF FwRecords
<1>2. config.high \in Nat \ {0} /\ config.low \in Nat \ {0} /\ config.idle \in Nat \ {0} /\ FirstLow \in Nat \ {0} /\ 1 \in Nat \ {0}
  BY <1>0, ReaderTyped
<1>3. CASE Delay
  BY <1>0, <1>3 DEF Delay, FwRecords
<1>4. CASE Start
  BY <1>1, <1>2, <1>4 DEF Start, Before
<1>5. CASE Clear
  BY <1>1, <1>2, <1>5 DEF Clear, Before
<1>6. CASE Begin
  BY <1>2, <1>6, SsiConstants DEF Begin, FwRecords, InFrame
<1>7. CASE Rise
  BY <1>1, <1>2, <1>7 DEF Rise, InFrame
<1>8. CASE Sample
  <2>1. Append(fw.word, enc.out) \in Seq(Bit)
    BY <1>0, WordGrows
  <2>2. fw.left - 1 \in Nat
    BY <1>0, <1>8, SsiConstants DEF Sample, At, FirmwareInv, InFrame, Got, FwRecords
  <2>3. fw' = [step |-> IF fw.left = 1 THEN "close" ELSE "rise", wait |-> config.low - 1,
               left |-> fw.left - 1, word |-> Append(fw.word, enc.out)]
    BY <1>8 DEF Sample
  <2>4. config.low - 1 \in Nat /\ (IF fw.left = 1 THEN "close" ELSE "rise") \in InFrame \cup Behind \cup Before \cup {"close", "frame"}
    BY <1>2 DEF InFrame
  <2> QED BY ONLY <2>1, <2>2, <2>3, <2>4 DEF FwRecords
<1>9. CASE Close
  BY <1>1, <1>2, <1>9 DEF Close, Behind
<1>10. CASE Publish
  BY <1>1, <1>2, <1>10 DEF Publish, Behind
<1> QED BY <1>3, <1>4, <1>5, <1>6, <1>7, <1>8, <1>9, <1>10 DEF Run

\* The mailbox after an instruction.
LEMMA MailTyped ==
  ASSUME FirmwareInv, Run
  PROVE  mailbox' \in [sequence : Bit, lo : Seq(Bit), hi : Seq(Bit)]
<1>1. mailbox \in [sequence : Bit, lo : Seq(Bit), hi : Seq(Bit)] /\ ReaderTypes
  BY DEF FirmwareInv, ReaderTypes
<1>2. mailbox.sequence \in {0, 1} /\ 1 - mailbox.sequence \in Bit /\ 0 \in Bit
  BY <1>1 DEF Bit
<1>3. Zeros(LowBits) \in Seq(Bit) /\ Zeros(Resolution - LowBits) \in Seq(Bit)
  <2>1. LowBits \in Nat /\ Resolution - LowBits \in Nat
    BY SsiConstants
  <2>2. ASSUME NEW n \in Nat PROVE Zeros(n) \in Seq(Bit)
    BY <1>2 DEF Zeros
  <2> QED BY <2>1, <2>2
<1>4. CASE mailbox' = mailbox
  BY <1>1, <1>4
<1>5. CASE Clear
  BY <1>1, <1>2, <1>3, <1>5 DEF Clear
<1>6. CASE Publish
  <2>1. At("lo") \/ At("hi") => Low(fw.word) \in Seq(Bit) /\ High(fw.word) \in Seq(Bit)
    <3> SUFFICES ASSUME At("lo") \/ At("hi") PROVE Low(fw.word) \in Seq(Bit) /\ High(fw.word) \in Seq(Bit)
      OBVIOUS
    <3>1. fw.word \in Seq(Bit) /\ Len(fw.word) = Resolution
      BY <1>1, ReaderTyped DEF At, FirmwareInv, Behind, Got
    <3> QED BY <3>1, SsiConstants DEF Low, High
  <2> QED BY <1>1, <1>2, <1>6, <2>1 DEF Publish
<1> QED BY <1>4, <1>5, <1>6 DEF Run, Delay, Start, Begin, Rise, Sample, Close

\* A cycle as the encoder sees it.
LEMMA Turned ==
  ASSUME ReaderTypes, EncoderOK(enc), Cycle, clock' \in Bit
  PROVE  /\ EncoderOK(enc') /\ enc'.fault = Faulted(enc.fault, Blame(enc, clock')) /\ FaultNow = Blame(enc, clock')
         /\ ~FallSeen(enc, clock') /\ ~RiseSeen(enc, clock') => QuietFacts(enc, enc', clock')
         /\ FallSeen(enc, clock') => FallFacts(enc, enc')
         /\ RiseSeen(enc, clock') => RiseFacts(enc, enc')
<1> DEFINE level == clock'
<1>1. enc' = Ticked(enc, level) /\ FaultNow = Ticked([enc EXCEPT !.fault = FALSE], level).fault
  BY Zenon DEF Cycle, FaultNow
<1>2. Packed(field) \in Seq(Bit) /\ Len(Packed(field)) = Resolution
  BY PackedTyped DEF ReaderTypes
<1>3. level \in Bit
  OBVIOUS
<1> HIDE DEF level
<1>4. FaultNow = Blame(enc, level)
  BY <1>1, <1>2, <1>3, FaultSaid
<1>5. CASE FallSeen(enc, level)
  <2>1. level = 0 /\ ~RiseSeen(enc, level)
    BY <1>5 DEF FallSeen, RiseSeen
  <2>2. EncoderOK(Ticked(enc, level)) /\ FallFacts(enc, Ticked(enc, level))
        /\ Ticked(enc, level).fault = Faulted(enc.fault, Blame(enc, level))
    BY ONLY EncoderOK(enc), <1>2, <1>5, <2>1, FallTick
  <2> QED BY <1>1, <1>4, <1>5, <2>1, <2>2, Zenon DEF level
<1>6. CASE RiseSeen(enc, level)
  <2>1. level = 1 /\ ~FallSeen(enc, level)
    BY <1>6 DEF FallSeen, RiseSeen
  <2>2. EncoderOK(Ticked(enc, level)) /\ RiseFacts(enc, Ticked(enc, level))
        /\ Ticked(enc, level).fault = Faulted(enc.fault, Blame(enc, level))
    BY ONLY EncoderOK(enc), <1>6, <2>1, RiseTick
  <2> QED BY <1>1, <1>4, <1>6, <2>1, <2>2, Zenon DEF level
<1>7. CASE ~FallSeen(enc, level) /\ ~RiseSeen(enc, level)
  <2>1. EncoderOK(Ticked(enc, level)) /\ QuietFacts(enc, Ticked(enc, level), level)
        /\ Ticked(enc, level).fault = Faulted(enc.fault, Blame(enc, level))
    BY ONLY EncoderOK(enc), <1>3, <1>7, QuietTick
  <2> QED BY <1>1, <1>4, <1>7, <2>1, Zenon DEF level
<1> QED BY <1>5, <1>6, <1>7

\* Every instruction leaves the clock low or high, and a cycle passes.
LEMMA RunCycles ==
  ASSUME FirmwareInv, Run
  PROVE  clock' \in Bit /\ Cycle
<1>1. clock \in Bit
  BY DEF FirmwareInv, Bit
<1> QED BY <1>1, Zenon DEF Run, Delay, Start, Clear, Begin, Rise, Sample, Close, Publish, Bit

\* FirmwareInv survives every instruction.
LEMMA FirmwareStep ==
  ASSUME FirmwareInv, EncoderOK(enc), Run, UNCHANGED <<field, config>>
  PROVE  FirmwareInv'
<1>0. ReaderTypes
  BY DEF FirmwareInv
<1>1. ReaderTypes'
  <2>1. fw' \in FwRecords /\ mailbox' \in [sequence : Bit, lo : Seq(Bit), hi : Seq(Bit)]
    BY FwTyped, MailTyped
  <2>2. FaultNow = Blame(enc, clock')
    BY <1>0, RunCycles, Turned
  <2>3. Blame(enc, clock') \in BOOLEAN
    BY Zenon DEF Blame
  <2>4. FaultNow \in BOOLEAN /\ (blamed \/ FaultNow) \in BOOLEAN
    BY <2>2, <2>3, Zenon
  <2>5. blamed' \in BOOLEAN
    BY <2>4, Zenon DEF Run, Delay, Start, Clear, Begin, Rise, Sample, Close, Publish
  <2>6. truth' = truth \/ truth' = field
    BY Zenon DEF Run, Delay, Start, Clear, Begin, Rise, Sample, Close, Publish
  <2>7. field \in SsiFields /\ truth \in SsiFields
    BY <1>0 DEF ReaderTypes
  <2>8. field' \in SsiFields /\ truth' \in SsiFields
    BY <2>6, <2>7
  <2>9. config' \in [high : HighDelays, low : LowDelays, idle : IdleDelays, encoding : Encodings]
    BY <1>0 DEF ReaderTypes
  <2> QED BY <2>1, <2>5, <2>8, <2>9, Zenon DEF ReaderTypes
<1>2. /\ fw.wait \in Nat /\ Got \in Nat /\ Resolution \in Nat \ {0} /\ fw.left \in Nat
      /\ config.high \in Nat \ {0} /\ config.low \in Nat \ {0} /\ config.idle \in Nat \ {0} /\ FirstLow \in Nat \ {0}
      /\ LowTime \in Nat \ {0}
  BY <1>0, ReaderTyped, SsiConstants
<1>3. ASSUME fw'.word = fw.word
      PROVE  Got' = Got /\ LowTime' = LowTime
  BY <1>3 DEF Got, LowTime
<1>4. CASE Delay
  <2>1. fw.wait > 0 /\ Becomes(fw.step, fw.wait - 1, fw.left, fw.word) /\ clock' = clock
    BY <1>0, <1>4, StepOfDelay
  <2>2. fw'.step = fw.step /\ fw'.wait = fw.wait - 1 /\ fw'.left = fw.left /\ fw'.word = fw.word /\ Got' = Got /\ LowTime' = LowTime
    BY <1>3, <2>1 DEF Becomes
  <2>3. config'.high = config.high /\ config'.low = config.low /\ config'.idle = config.idle
    OBVIOUS
  <2>4. fw.step \notin Before \cup Behind
    BY <2>1 DEF FirmwareInv
  <2>5. clock' = IF fw'.step \in {"start", "rise", "close"} THEN 0 ELSE 1
    BY <2>1, <2>2 DEF FirmwareInv
  <2>6. /\ fw.step = "rise" => fw.wait - 1 < LowTime /\ Got < Resolution
        /\ fw.step = "sample" => fw.wait - 1 < config.high /\ Got < Resolution
        /\ fw.step = "close" => fw.wait - 1 < config.low /\ Got = Resolution
        /\ fw.step = "frame" => fw.wait - 1 < config.idle
        /\ fw.step \in InFrame => Got + fw.left = Resolution
    BY ONLY <1>2, FirmwareInv DEF FirmwareInv
  <2> QED BY ONLY <1>1, <2>2, <2>3, <2>4, <2>5, <2>6 DEF FirmwareInv, InFrame, Behind, Before
<1>5. CASE Start \/ Clear
  <2>1. \/ fw.step = "start" /\ Becomes("clear", 0, fw.left, fw.word) /\ clock' = 1
        \/ fw.step = "clear" /\ Becomes("clear lo", 0, fw.left, fw.word) /\ clock' = clock
        \/ fw.step = "clear lo" /\ Becomes("clear hi", 0, fw.left, fw.word) /\ clock' = clock
        \/ fw.step = "clear hi" /\ Becomes("frame", 0, fw.left, fw.word) /\ clock' = clock
    BY <1>0, <1>5, StepOfStart, StepOfClear
  <2>2. CASE fw.step = "start"
    BY <1>1, <1>2, <1>3, <2>1, <2>2 DEF FirmwareInv, Becomes, InFrame, Behind, Before
  <2>3. CASE fw.step = "clear"
    BY <1>1, <1>2, <1>3, <2>1, <2>3 DEF FirmwareInv, Becomes, InFrame, Behind, Before
  <2>4. CASE fw.step = "clear lo"
    BY <1>1, <1>2, <1>3, <2>1, <2>4 DEF FirmwareInv, Becomes, InFrame, Behind, Before
  <2>5. CASE fw.step = "clear hi"
    <3>1. fw'.step = "frame" /\ fw'.wait = 0 /\ fw'.word = fw.word /\ clock' = clock
      BY <2>1, <2>5 DEF Becomes
    <3>2. clock = 1 /\ config'.idle = config.idle
      BY <2>5 DEF FirmwareInv
    <3> QED BY ONLY <1>1, <1>2, <3>1, <3>2 DEF FirmwareInv, InFrame, Behind, Before
  <2> QED BY <2>1, <2>2, <2>3, <2>4, <2>5
<1>6. CASE Begin
  <2>1. fw.step = "frame" /\ Becomes("rise", FirstLow - 1, Resolution, << >>) /\ clock' = 0
    BY <1>6, StepOfBegin
  <2>2. Got' = 0 /\ LowTime' = FirstLow
    BY <2>1 DEF Becomes, Got, LowTime
  <2> QED BY <1>1, <1>2, <2>1, <2>2 DEF FirmwareInv, Becomes, InFrame, Behind, Before
<1>7. CASE Rise
  <2>1. fw.step = "rise" /\ Becomes("sample", config.high - 1, fw.left, fw.word) /\ clock' = 1
    BY <1>0, <1>7, StepOfRise
  <2> QED BY <1>1, <1>2, <1>3, <2>1 DEF FirmwareInv, Becomes, InFrame, Behind, Before
<1>8. CASE Sample
  <2>1. /\ fw.step = "sample" /\ clock' = 0
        /\ Becomes(IF fw.left = 1 THEN "close" ELSE "rise", config.low - 1, fw.left - 1, Append(fw.word, enc.out))
    BY <1>8, StepOfSample
  <2>2. Got' = Got + 1 /\ LowTime' = config.low
    BY <1>0, <2>1, WordGrows DEF Becomes, Got, LowTime
  <2> QED BY <1>1, <1>2, <2>1, <2>2 DEF FirmwareInv, Becomes, InFrame, Behind, Before
<1>9. CASE Close
  <2>1. fw.step = "close" /\ Becomes("odd", 0, fw.left, fw.word) /\ clock' = 1
    BY <1>0, <1>9, StepOfClose
  <2> QED BY <1>1, <1>2, <1>3, <2>1 DEF FirmwareInv, Becomes, InFrame, Behind, Before
<1>10. CASE Publish
  <2>1. /\ clock' = clock
        /\ \/ fw.step = "odd" /\ Becomes("lo", 0, fw.left, fw.word)
           \/ fw.step = "lo" /\ Becomes("hi", 0, fw.left, fw.word)
           \/ fw.step = "hi" /\ Becomes("even", 0, fw.left, fw.word)
           \/ fw.step = "even" /\ Becomes("frame", config.idle - 1, fw.left, fw.word)
    BY <1>0, <1>10, StepOfPublish
  <2>2. CASE fw.step = "odd"
    BY <1>1, <1>2, <1>3, <2>1, <2>2 DEF FirmwareInv, Becomes, InFrame, Behind, Before
  <2>3. CASE fw.step = "lo"
    BY <1>1, <1>2, <1>3, <2>1, <2>3 DEF FirmwareInv, Becomes, InFrame, Behind, Before
  <2>4. CASE fw.step = "hi"
    BY <1>1, <1>2, <1>3, <2>1, <2>4 DEF FirmwareInv, Becomes, InFrame, Behind, Before
  <2>5. CASE fw.step = "even"
    <3>1. fw'.step = "frame" /\ fw'.wait = config.idle - 1 /\ fw'.word = fw.word /\ clock' = clock
      BY <2>1, <2>5 DEF Becomes
    <3>2. clock = 1 /\ config'.idle = config.idle
      BY <2>5 DEF FirmwareInv
    <3> QED BY ONLY <1>1, <1>2, <3>1, <3>2 DEF FirmwareInv, InFrame, Behind, Before
  <2> QED BY <2>1, <2>2, <2>3, <2>4, <2>5
<1> QED BY <1>4, <1>5, <1>6, <1>7, <1>8, <1>9, <1>10 DEF Run

\* Where each instruction leads.
LEMMA StepsLead ==
  ASSUME FirmwareInv, Run
  PROVE  /\ Delay => fw'.step = fw.step /\ fw'.wait = fw.wait - 1 /\ fw'.word = fw.word /\ clock' = clock /\ fw.wait > 0
         /\ Start => fw.step = "start" /\ fw'.step = "clear" /\ fw'.word = fw.word
         /\ Clear => /\ fw'.word = fw.word /\ clock' = clock /\ fw.step \in {"clear", "clear lo", "clear hi"}
                     /\ fw'.step \in {"clear lo", "clear hi", "frame"}
         /\ Begin => /\ fw.step = "frame" /\ fw.wait = 0 /\ clock' = 0 /\ fw'.step = "rise" /\ fw'.wait = FirstLow - 1
                     /\ fw'.word = << >> /\ truth' = field
         /\ Rise => /\ fw.step = "rise" /\ fw.wait = 0 /\ clock' = 1 /\ fw'.step = "sample" /\ fw'.wait = config.high - 1
                    /\ fw'.word = fw.word
         /\ Sample => /\ fw.step = "sample" /\ fw.wait = 0 /\ clock' = 0 /\ fw'.step = (IF fw.left = 1 THEN "close" ELSE "rise")
                      /\ fw'.wait = config.low - 1 /\ fw'.word = Append(fw.word, enc.out)
         /\ Close => fw.step = "close" /\ fw.wait = 0 /\ clock' = 1 /\ fw'.step = "odd" /\ fw'.wait = 0 /\ fw'.word = fw.word
         /\ Publish => /\ fw'.word = fw.word /\ clock' = clock
                       /\ \/ fw.step = "odd" /\ fw'.step = "lo" /\ fw'.wait = 0
                          \/ fw.step = "lo" /\ fw'.step = "hi" /\ fw'.wait = 0
                          \/ fw.step = "hi" /\ fw'.step = "even" /\ fw'.wait = 0
                          \/ fw.step = "even" /\ fw'.step = "frame" /\ fw'.wait = config.idle - 1
<1>0. ReaderTypes
  BY DEF FirmwareInv
<1>1. Delay => fw'.step = fw.step /\ fw'.wait = fw.wait - 1 /\ fw'.word = fw.word /\ clock' = clock /\ fw.wait > 0
  BY <1>0, StepOfDelay DEF Becomes
<1>2. Start => fw.step = "start" /\ fw'.step = "clear" /\ fw'.word = fw.word
  BY <1>0, StepOfStart DEF Becomes
<1>3. Clear => /\ fw'.word = fw.word /\ clock' = clock /\ fw.step \in {"clear", "clear lo", "clear hi"}
               /\ fw'.step \in {"clear lo", "clear hi", "frame"}
  BY <1>0, StepOfClear DEF Becomes
<1>4. Begin => /\ fw.step = "frame" /\ fw.wait = 0 /\ clock' = 0 /\ fw'.step = "rise" /\ fw'.wait = FirstLow - 1
               /\ fw'.word = << >> /\ truth' = field
  BY StepOfBegin DEF Becomes
<1>5. Rise => /\ fw.step = "rise" /\ fw.wait = 0 /\ clock' = 1 /\ fw'.step = "sample" /\ fw'.wait = config.high - 1
              /\ fw'.word = fw.word
  BY <1>0, StepOfRise DEF Becomes
<1>6. Sample => /\ fw.step = "sample" /\ fw.wait = 0 /\ clock' = 0 /\ fw'.step = (IF fw.left = 1 THEN "close" ELSE "rise")
                /\ fw'.wait = config.low - 1 /\ fw'.word = Append(fw.word, enc.out)
  BY StepOfSample DEF Becomes
<1>7. Close => fw.step = "close" /\ fw.wait = 0 /\ clock' = 1 /\ fw'.step = "odd" /\ fw'.wait = 0 /\ fw'.word = fw.word
  BY <1>0, StepOfClose DEF Becomes
<1>8. Publish => /\ fw'.word = fw.word /\ clock' = clock
                 /\ \/ fw.step = "odd" /\ fw'.step = "lo" /\ fw'.wait = 0
                    \/ fw.step = "lo" /\ fw'.step = "hi" /\ fw'.wait = 0
                    \/ fw.step = "hi" /\ fw'.step = "even" /\ fw'.wait = 0
                    \/ fw.step = "even" /\ fw'.step = "frame" /\ fw'.wait = config.idle - 1
  BY <1>0, StepOfPublish DEF Becomes
<1> QED BY <1>1, <1>2, <1>3, <1>4, <1>5, <1>6, <1>7, <1>8

\* The time since the last fall goes on, until the clock falls again.
LEMMA AgeStep ==
  ASSUME FirmwareInv, EncoderOK(enc), Run, UNCHANGED <<field, config>>
  PROVE  /\ Begin \/ Sample => Age' = 0
         /\ Delay \/ Rise \/ Close \/ Publish => Age' = Age + 1
<1>0. ReaderTypes
  BY DEF FirmwareInv
<1>1. /\ fw.wait \in Nat /\ config.high \in Nat \ {0} /\ config.low \in Nat \ {0} /\ config.idle \in Nat \ {0}
      /\ FirstLow \in Nat \ {0} /\ LowTime \in Nat \ {0}
  BY <1>0, ReaderTyped
<1>2. config' = config
  OBVIOUS
<1>3. fw'.word = fw.word => LowTime' = LowTime
  BY <1>2 DEF LowTime
<1>4. CASE Begin
  <2>1. fw'.step = "rise" /\ fw'.wait = FirstLow - 1 /\ LowTime' = FirstLow /\ fw.step = "frame" /\ fw.wait = 0
    BY <1>4, StepsLead DEF LowTime
  <2>2. Age' = 0
    BY ONLY <1>1, <2>1 DEF Age
  <2>3. ~Delay /\ ~Rise /\ ~Close /\ ~Publish
    BY <2>1 DEF Delay, Rise, Close, Publish, At
  <2> QED BY <2>2, <2>3
<1>5. CASE Sample
  <2>1. fw'.step \in {"rise", "close"} /\ fw'.wait = config.low - 1 /\ LowTime' = config.low /\ fw.step = "sample" /\ fw.wait = 0
    BY <1>0, <1>2, <1>5, StepsLead, WordGrows DEF LowTime
  <2>2. Age' = 0
    BY ONLY <1>1, <2>1 DEF Age
  <2>3. ~Delay /\ ~Rise /\ ~Close /\ ~Publish
    BY <2>1 DEF Delay, Rise, Close, Publish, At
  <2> QED BY <2>2, <2>3
<1>6. CASE Delay
  <2>1. fw'.step = fw.step /\ fw'.wait = fw.wait - 1 /\ LowTime' = LowTime /\ fw.wait > 0
    BY <1>3, <1>6, StepsLead
  <2>2. fw.step \notin {"odd", "lo", "hi", "even"}
    BY <2>1 DEF FirmwareInv, Behind
  <2>3. Age' = Age + 1
    BY ONLY <1>1, <1>2, <2>1, <2>2 DEF Age
  <2>4. ~Begin /\ ~Sample
    BY <2>1 DEF Begin, Sample, At
  <2> QED BY <2>3, <2>4
<1>7. CASE Rise
  <2>1. fw'.step = "sample" /\ fw.step = "rise" /\ fw.wait = 0 /\ fw'.wait = config.high - 1 /\ LowTime' = LowTime
    BY <1>3, <1>7, StepsLead
  <2>2. Age' = Age + 1
    BY ONLY <1>1, <1>2, <2>1 DEF Age
  <2>3. ~Begin /\ ~Sample
    BY <2>1 DEF Begin, Sample, At
  <2> QED BY <2>2, <2>3
<1>8. CASE Close
  <2>1. fw'.step = "odd" /\ fw.step = "close" /\ fw.wait = 0 /\ LowTime' = LowTime
    BY <1>3, <1>8, StepsLead
  <2>2. Age' = Age + 1
    BY ONLY <1>1, <1>2, <2>1 DEF Age
  <2>3. ~Begin /\ ~Sample
    BY <2>1 DEF Begin, Sample, At
  <2> QED BY <2>2, <2>3
<1>9. CASE Publish
  <2>1. /\ \/ fw.step = "odd" /\ fw'.step = "lo" /\ fw'.wait = 0
           \/ fw.step = "lo" /\ fw'.step = "hi" /\ fw'.wait = 0
           \/ fw.step = "hi" /\ fw'.step = "even" /\ fw'.wait = 0
           \/ fw.step = "even" /\ fw'.step = "frame" /\ fw'.wait = config.idle - 1
        /\ LowTime' = LowTime
    BY <1>3, <1>9, StepsLead
  <2>2. Age' = Age + 1
    BY ONLY <1>1, <1>2, <2>1 DEF Age
  <2>3. ~Begin /\ ~Sample
    BY <2>1 DEF Begin, Sample, At
  <2> QED BY <2>2, <2>3
<1> QED BY <1>4, <1>5, <1>6, <1>7, <1>8, <1>9

\* The edges the encoder sees are those the firmware makes.
LEMMA Edges ==
  ASSUME FirmwareInv, EncoderInv, Run
  PROVE  /\ Begin \/ Sample => FallSeen(enc, clock') /\ clock' = 0
         /\ Rise \/ Close => RiseSeen(enc, clock') /\ clock' = 1
         /\ Delay \/ Start \/ Clear \/ Publish => ~FallSeen(enc, clock') /\ ~RiseSeen(enc, clock')
<1>1. enc.prev = (IF fw.step = "start" THEN -1 ELSE clock) /\ clock = IF fw.step \in {"start", "rise", "close"} THEN 0 ELSE 1
  BY SsiConstants DEF EncoderInv, FirmwareInv
<1>2. fw.step = "start" => fw.wait = 0
  BY DEF FirmwareInv, Before
<1>3. Begin \/ Sample => FallSeen(enc, clock') /\ clock' = 0
  BY <1>1, StepsLead DEF FallSeen
<1>4. Rise \/ Close => RiseSeen(enc, clock') /\ clock' = 1
  BY <1>1, StepsLead DEF RiseSeen
<1>5. Start => ~FallSeen(enc, clock') /\ ~RiseSeen(enc, clock')
  <2>1. Start => fw.step = "start"
    BY StepsLead
  <2> QED BY <1>1, <2>1 DEF FallSeen, RiseSeen
<1>6. Delay \/ Clear \/ Publish => ~FallSeen(enc, clock') /\ ~RiseSeen(enc, clock')
  <2> SUFFICES ASSUME Delay \/ Clear \/ Publish PROVE ~FallSeen(enc, clock') /\ ~RiseSeen(enc, clock')
    OBVIOUS
  <2>1. clock' = clock /\ fw.step # "start"
    <3>1. CASE Delay
      <4>1. clock' = clock /\ fw.wait > 0
        BY <3>1, StepsLead
      <4> QED BY <1>2, <4>1
    <3>2. CASE Clear
      BY <3>2, StepsLead
    <3>3. CASE Publish
      BY <3>3, StepsLead
    <3> QED BY <3>1, <3>2, <3>3
  <2> QED BY <1>1, <2>1 DEF FallSeen, RiseSeen
<1> QED BY <1>3, <1>4, <1>5, <1>6

\* What an instruction makes of the encoder.
LEMMA Turns ==
  ASSUME FirmwareInv, EncoderInv, Run
  PROVE  /\ EncoderOK(enc') /\ enc'.fault = Faulted(enc.fault, Blame(enc, clock')) /\ FaultNow = Blame(enc, clock')
         /\ Delay \/ Start \/ Clear \/ Publish => QuietFacts(enc, enc', clock')
         /\ Begin \/ Sample => FallFacts(enc, enc')
         /\ Rise \/ Close => RiseFacts(enc, enc')
<1>1. ReaderTypes /\ EncoderOK(enc) /\ Cycle /\ clock' \in Bit
  BY RunCycles DEF FirmwareInv, EncoderInv
<1> QED BY <1>1, Turned, Edges

\* Before the first frame the encoder is at rest.
LEMMA RestStays ==
  ASSUME EncoderOK(enc), enc.state = "idle"
  PROVE  StateNow(enc) = "idle" /\ ~Spent(enc)
  BY DEF StateNow, Spent

\* EncoderInv survives every instruction.
LEMMA EncoderStep ==
  ASSUME FirmwareInv, EncoderInv, Run, UNCHANGED <<field, config>>
  PROVE  EncoderInv'
<1>0. ReaderTypes /\ EncoderOK(enc)
  BY DEF FirmwareInv, EncoderInv
<1>1. EncoderOK(enc') /\ FirmwareInv'
  BY <1>0, Turns, FirmwareStep
<1>2. CASE Start \/ Clear
  <2>1. enc.state = "idle"
    <3>1. fw.step \in Before
      BY <1>2, StepsLead DEF Before
    <3> QED BY <3>1 DEF EncoderInv
  <2>2. enc'.state = "idle" /\ enc'.prev = clock'
    BY <1>0, <1>2, <2>1, Turns, RestStays DEF QuietFacts
  <2>3. fw'.step # "start"
    BY <1>2, StepsLead
  <2> QED BY <1>1, <2>2, <2>3 DEF EncoderInv
<1>3. CASE Delay \/ Publish
  <2>1. QuietFacts(enc, enc', clock') /\ Age' = Age + 1
    BY <1>0, <1>3, Turns, AgeStep
  <2>2. enc'.state = StateNow(enc) /\ enc'.prev = clock' /\ enc'.fall = FallNow(enc) /\ enc'.bits = enc.bits
    BY <2>1 DEF QuietFacts, Carried
  <2>3. enc'.state # "idle" => enc'.fall = Age' /\ enc'.state = enc.state
    <3>1. StateNow(enc) # "idle" => FallNow(enc) = enc.fall + 1 /\ StateNow(enc) = enc.state
      BY <1>0, NowTyped
    <3>2. enc.state # "idle" => enc.fall = Age
      BY DEF EncoderInv
    <3> QED BY <2>1, <2>2, <3>1, <3>2
  <2>4. clock' = clock /\ fw'.step # "start"
    <3>1. CASE Delay
      <4>1. fw'.step = fw.step /\ fw.wait > 0 /\ clock' = clock
        BY <3>1, StepsLead
      <4>2. fw.step = "start" => fw.wait = 0
        BY DEF FirmwareInv, Before
      <4> QED BY <4>1, <4>2
    <3>2. CASE Publish
      BY <3>2, StepsLead
    <3> QED BY <1>3, <3>1, <3>2
  <2>5. enc'.state = "active" /\ clock' = 1 => enc'.bits > 0
    BY <2>2, <2>3, <2>4 DEF EncoderInv
  <2>6. fw'.step \in Before \/ (fw'.step = "frame" /\ fw'.word = << >>) => fw.step \in Before \/ (fw.step = "frame" /\ fw.word = << >>)
    <3>1. CASE Delay
      BY <3>1, StepsLead
    <3>2. CASE Publish
      <4>1. fw.step \in Behind /\ fw'.step \notin Before /\ fw'.word = fw.word
        BY <3>2, StepsLead DEF Behind, Before
      <4>2. fw.word # << >>
        BY <1>0, <4>1, ReaderTyped, SsiConstants DEF FirmwareInv
      <4> QED BY <4>1, <4>2
    <3> QED BY <1>3, <3>1, <3>2
  <2>7. enc.state = "idle" => enc'.state = "idle"
    BY <1>0, <2>2, RestStays
  <2>8. fw'.step \in Before \/ (fw'.step = "frame" /\ fw'.word = << >>) => enc'.state = "idle"
    BY <2>6, <2>7 DEF EncoderInv
  <2> QED BY <1>1, <2>2, <2>3, <2>4, <2>5, <2>8 DEF EncoderInv
<1>4. CASE Begin \/ Sample
  <2>1. enc'.prev = 0 /\ enc'.fall = 0 /\ Age' = 0 /\ clock' = 0
    BY <1>0, <1>4, Turns, AgeStep, Edges DEF FallFacts
  <2>2. fw'.step \in {"rise", "close"}
    BY <1>4, StepsLead
  <2>3. enc'.fall = Age' /\ enc'.prev = clock'
    BY <2>1, Zenon
  <2>4. ~(clock' = 1)
    BY <2>1
  <2>5. fw'.step # "start" /\ fw'.step # "frame" /\ fw'.step \notin Before
    BY <2>2 DEF Before
  <2> QED BY ONLY <1>1, <2>3, <2>4, <2>5, Zenon DEF EncoderInv
<1>5. CASE Rise \/ Close
  <2>1. RiseFacts(enc, enc') /\ Age' = Age + 1 /\ clock' = 1 /\ clock = 0
    <3>1. clock = 0
      BY <1>5, StepsLead DEF FirmwareInv
    <3> QED BY <1>0, <1>5, <3>1, Turns, AgeStep, Edges
  <2>2. /\ enc'.prev = 1 /\ enc'.fall = FallNow(enc) /\ (enc'.state # "idle" => StateNow(enc) # "idle")
        /\ enc'.state = "active" => StateNow(enc) = "active" /\ enc'.bits = enc.bits + 1
    <3>1. StateNow(enc) \in {"idle", "active", "guard"}
      BY <1>0, NowTyped
    <3> QED BY <2>1, <3>1 DEF RiseFacts
  <2>3. enc'.state # "idle" => enc'.fall = Age'
    <3>1. StateNow(enc) # "idle" => FallNow(enc) = enc.fall + 1 /\ StateNow(enc) = enc.state
      BY <1>0, NowTyped
    <3>2. enc.state # "idle" => enc.fall = Age
      BY DEF EncoderInv
    <3> QED BY <2>1, <2>2, <3>1, <3>2
  <2>4. enc'.state = "active" => enc'.bits > 0
    BY <1>0, <2>2, EncTypes DEF EncoderOK
  <2>5. fw'.step \in {"sample", "odd"}
    BY <1>5, StepsLead
  <2> QED BY <1>1, <2>1, <2>2, <2>3, <2>4, <2>5 DEF EncoderInv, Before
<1> QED BY <1>2, <1>3, <1>4, <1>5 DEF Run

Slow == config.low + config.high >= Monoflop

\* The firmware has the bits the encoder has given, all of the frame's own word.
Synced ==
  /\ enc.raw = Packed(truth) /\ fw.word = SubSeq(enc.raw, 1, Got)
  /\ \/ fw.step = "rise" /\ enc.state = "active" /\ enc.bits = Got
     \/ /\ fw.step = "sample" /\ enc.bits = Got + 1 /\ enc.out = enc.raw[enc.bits]
        /\ IF Got + 1 = Resolution THEN enc.state = "guard" /\ ~enc.post ELSE enc.state = "active"

\* The encoder is ahead of the firmware and will be at the end of its word too soon.
Ahead ==
  \/ enc.state = "active" /\ enc.bits > (IF fw.step = "rise" THEN Got ELSE Got + 1)
  \/ enc.state = "guard" /\ ~enc.post /\ fw.step = "sample" /\ Got + 1 < Resolution
  \/ enc.state = "guard" /\ enc.post

\* A frame in which the monoflop expires is blamed by its third bit.
Doomed == Got <= 2 /\ (Got = 2 => enc.state = "active" /\ enc.bits = (IF fw.step = "rise" THEN 0 ELSE 1))

FrameInv ==
  /\ ~blamed /\ fw.step \in InFrame => IF Slow THEN Doomed ELSE Synced \/ Ahead
  /\ ~blamed /\ fw.step \in Behind \cup {"close"} => fw.word = Packed(truth)

\* A word grows by one bit.
LEMMA OneMore ==
  ASSUME NEW S, NEW w \in Seq(S), NEW g \in Nat, g + 1 <= Len(w)
  PROVE  Append(SubSeq(w, 1, g), w[g + 1]) = SubSeq(w, 1, g + 1)
<1>1. 1 \in 1..Len(w) /\ g + 1 \in 1..Len(w) /\ (g + 1) - 1 = g
  OBVIOUS
<1>2. SubSeq(w, 1, g + 1) = SubSeq(w, 1, (g + 1) - 1) \o <<w[g + 1]>>
  BY ONLY <1>1, w \in Seq(S), SubSeqRecursiveSecond
<1>3. SubSeq(w, 1, g) \in Seq(S) /\ w[g + 1] \in S
  BY <1>1
<1>4. Append(SubSeq(w, 1, g), w[g + 1]) = SubSeq(w, 1, g) \o <<w[g + 1]>>
  BY ONLY <1>3, AppendIsConcat
<1> QED BY <1>1, <1>2, <1>4

\* A fault is put on the frame under way.
LEMMA Blaming ==
  ASSUME FirmwareInv, EncoderInv, Run, ~blamed'
  PROVE  ~Blame(enc, clock') /\ (Begin \/ ~blamed)
<1>1. FaultNow = Blame(enc, clock')
  BY Turns
<1>2. blamed' = (blamed \/ FaultNow) \/ (Begin /\ blamed' = FaultNow)
  BY Zenon DEF Run, Delay, Start, Clear, Begin, Rise, Sample, Close, Publish
<1>3. FaultNow \in BOOLEAN /\ blamed \in BOOLEAN
  <2>1. Blame(enc, clock') \in BOOLEAN
    BY Zenon DEF Blame
  <2> QED BY <1>1, <2>1, Zenon DEF FirmwareInv, ReaderTypes
<1> QED BY <1>1, <1>2, <1>3, Zenon

\* With the times short enough the monoflop does not expire in a frame.
LEMMA FastFrame ==
  ASSUME FirmwareInv, EncoderInv, fw.step \in InFrame, ~Slow
  PROVE  ~Spent(enc) /\ StateNow(enc) = enc.state /\ OutNow(enc) = enc.out
<1>1. /\ fw.wait \in Nat /\ config.high \in Nat \ {0} /\ config.low \in Nat \ {0} /\ LowTime \in Nat \ {0} /\ LowTime <= config.low
  BY ReaderTyped DEF FirmwareInv
<1>2. Age <= config.low + config.high - 1
  BY <1>1 DEF Age, InFrame
<1>3. config.low + config.high < Monoflop /\ Monoflop \in Nat
  BY <1>1, SsiConstants DEF Slow
<1>4. enc.state # "idle" => enc.fall = Age
  BY DEF EncoderInv
<1>5. Age \in Int
  BY <1>1 DEF Age, InFrame
<1>6. ~Spent(enc)
  BY <1>1, <1>2, <1>3, <1>4, <1>5 DEF Spent
<1> QED BY <1>6 DEF StateNow, OutNow

\* At the sample of a later bit of a slow frame the encoder is at rest, or has just been cut off.
LEMMA SlowSample ==
  ASSUME FirmwareInv, EncoderInv, At("sample"), Got > 0, Slow
  PROVE  StateNow(enc) = "idle" /\ (enc.state = "active" => CutsOff(enc))
<1>1. /\ fw.wait = 0 /\ fw.step = "sample" /\ config.high \in Nat \ {0} /\ config.low \in Nat \ {0} /\ LowTime = config.low
  BY ReaderTyped DEF FirmwareInv, At, LowTime
<1>2. Age = config.low + config.high - 1
  BY <1>1 DEF Age
<1>3. enc.state # "idle" => enc.fall = Age
  BY DEF EncoderInv
<1>4. config.low + config.high >= Monoflop /\ Monoflop \in Nat
  BY SsiConstants DEF Slow
<1> QED BY <1>1, <1>2, <1>3, <1>4 DEF StateNow, Spent, CutsOff

\* A word stays what it is.
LEMMA WordUnchanged ==
  ASSUME config' = config, truth' = truth
  PROVE  Packed(truth)' = Packed(truth)
  BY DEF Packed

\* A fast frame: in step, ahead, or blamed.
LEMMA FastStep ==
  ASSUME FirmwareInv, EncoderInv, FrameInv, Run, UNCHANGED <<field, config>>, ~blamed', ~Slow, fw.step \in InFrame
  PROVE  /\ fw'.step \in InFrame => (Synced \/ Ahead)'
         /\ fw'.step = "close" => fw'.word = Packed(truth)'
<1>1. ReaderTypes /\ EncoderOK(enc) /\ EncoderOK(enc')
  BY Turns DEF FirmwareInv, EncoderInv
<1>2. StateNow(enc) = enc.state /\ OutNow(enc) = enc.out
  BY FastFrame
<1>3. ~Blame(enc, clock') /\ (Begin \/ ~blamed)
  BY Blaming
<1>4. /\ enc.state \in {"idle", "active", "guard"} /\ enc.bits \in 0..Resolution /\ enc.post \in BOOLEAN
      /\ enc.state = "active" => enc.bits \in 0..Resolution-1 /\ enc.post = FALSE
      /\ enc.state # "idle" => enc.raw \in Seq(Bit) /\ Len(enc.raw) = Resolution
  BY <1>1, EncTypes DEF EncoderOK
<1>5. Got \in Nat /\ fw.left \in Nat /\ Resolution \in Nat \ {0} /\ Got < Resolution /\ Got + fw.left = Resolution
  BY <1>1, ReaderTyped, SsiConstants DEF FirmwareInv, InFrame
<1>6. ASSUME truth' = truth PROVE Packed(truth)' = Packed(truth)
  BY <1>6, WordUnchanged
<1>7. ASSUME fw'.word = fw.word PROVE Got' = Got
  BY <1>7 DEF Got
<1>8. CASE Delay
  <2>1. /\ fw'.step = fw.step /\ fw'.word = fw.word /\ truth' = truth /\ ~Begin
    <3>1. fw'.step = fw.step /\ fw'.word = fw.word /\ fw.wait > 0
      BY <1>8, StepsLead
    <3> QED BY <1>8, <3>1 DEF Delay, Begin, At
  <2>2. enc'.state = enc.state /\ enc'.out = enc.out /\ enc'.raw = enc.raw /\ enc'.bits = enc.bits /\ enc'.post = enc.post
    BY <1>2, <1>8, Turns DEF QuietFacts, Carried
  <2>3. Synced \/ Ahead
    BY <1>3, <2>1 DEF FrameInv
  <2>4. Packed(truth)' = Packed(truth) /\ Got' = Got
    BY <1>6, <1>7, <2>1
  <2>5. Synced => Synced'
    BY <2>1, <2>2, <2>4, Zenon DEF Synced
  <2>6. Ahead => Ahead'
    BY <2>1, <2>2, <2>4, Zenon DEF Ahead
  <2> QED BY <2>1, <2>3, <2>5, <2>6 DEF InFrame
<1>9. CASE Rise
  <2>1. fw.step = "rise" /\ fw'.step = "sample" /\ fw'.word = fw.word /\ truth' = truth /\ ~Begin
    <3>1. fw.step = "rise" /\ fw'.step = "sample" /\ fw'.word = fw.word
      BY <1>9, StepsLead
    <3> QED BY <1>9, <3>1 DEF Rise, Begin, At
  <2>2. RiseFacts(enc, enc')
    BY <1>9, Turns
  <2>3. Synced \/ Ahead
    BY <1>3, <2>1 DEF FrameInv, InFrame
  <2>4. Packed(truth)' = Packed(truth) /\ Got' = Got
    BY <1>6, <1>7, <2>1
  <2>5. enc.state = "active" =>
          /\ enc'.state = (IF enc.bits + 1 = Resolution THEN "guard" ELSE "active") /\ enc'.bits = enc.bits + 1
          /\ enc'.out = enc.raw[enc.bits + 1] /\ enc'.raw = enc.raw /\ enc'.post = FALSE
    BY <1>2, <1>4, <2>2 DEF RiseFacts
  <2>6. enc.state = "guard" => enc'.state = "guard" /\ enc'.post = enc.post
    BY <1>2, <2>2 DEF RiseFacts, Carried
  <2>7. Synced => Synced'
    <3> SUFFICES ASSUME Synced PROVE Synced'
      OBVIOUS
    <3>1. enc.raw = Packed(truth) /\ fw.word = SubSeq(enc.raw, 1, Got) /\ enc.state = "active" /\ enc.bits = Got
      BY <2>1 DEF Synced
    <3>2. enc'.raw = Packed(truth)' /\ fw'.word = SubSeq(enc'.raw, 1, Got')
      BY <2>1, <2>4, <2>5, <3>1
    <3>3. enc'.bits = Got' + 1 /\ enc'.out = enc'.raw[enc'.bits]
      BY <2>4, <2>5, <3>1
    <3>4. IF Got' + 1 = Resolution THEN enc'.state = "guard" /\ ~enc'.post ELSE enc'.state = "active"
      BY <2>4, <2>5, <3>1
    <3> QED BY <2>1, <3>2, <3>3, <3>4 DEF Synced
  <2>8. Ahead => Ahead'
    <3>1. Ahead => (enc.state = "active" /\ enc.bits > Got) \/ (enc.state = "guard" /\ enc.post)
      BY <2>1 DEF Ahead
    <3> QED BY <1>4, <1>5, <2>1, <2>4, <2>5, <2>6, <3>1 DEF Ahead
  <2> QED BY <2>1, <2>3, <2>7, <2>8
<1>10. CASE Sample
  <2>1. /\ fw.step = "sample" /\ fw'.step = (IF fw.left = 1 THEN "close" ELSE "rise") /\ fw'.word = Append(fw.word, enc.out)
        /\ truth' = truth /\ ~Begin
    <3>1. fw.step = "sample" /\ fw'.step = (IF fw.left = 1 THEN "close" ELSE "rise") /\ fw'.word = Append(fw.word, enc.out)
      BY <1>10, StepsLead
    <3> QED BY <1>10, <3>1 DEF Sample, Begin, At
  <2>2. FallFacts(enc, enc')
    BY <1>10, Turns
  <2>3. Synced \/ Ahead
    BY <1>3, <2>1 DEF FrameInv, InFrame
  <2>4. Packed(truth)' = Packed(truth)
    BY <1>6, <2>1
  <2>5. Got' = Got + 1
    BY <1>1, <2>1, WordGrows DEF Got
  <2>6. fw.left = 1 <=> Got + 1 = Resolution
    BY <1>5
  <2>7. ~(enc.state = "guard" /\ enc.post)
    BY <1>2, <1>3, <1>10, Edges, Zenon DEF Blame
  <2>8. /\ enc.state = "active" => enc'.state = "active" /\ enc'.bits = enc.bits /\ enc'.raw = enc.raw
        /\ enc.state = "guard" => enc'.state = "guard" /\ enc'.post = TRUE
    BY <1>2, <2>2 DEF FallFacts, Carried
  <2>9. CASE Synced
    <3>1. /\ enc.raw = Packed(truth) /\ fw.word = SubSeq(enc.raw, 1, Got) /\ enc.bits = Got + 1 /\ enc.out = enc.raw[enc.bits]
          /\ IF Got + 1 = Resolution THEN enc.state = "guard" /\ ~enc.post ELSE enc.state = "active"
      BY <2>1, <2>9 DEF Synced
    <3>2. enc.raw \in Seq(Bit) /\ Got + 1 <= Len(enc.raw) /\ Len(enc.raw) = Resolution
      BY <1>4, <1>5, <3>1
    <3>3. fw'.word = SubSeq(enc.raw, 1, Got + 1)
      <4>1. fw'.word = Append(SubSeq(enc.raw, 1, Got), enc.raw[Got + 1])
        BY <2>1, <3>1
      <4> QED BY <1>5, <3>2, <4>1, OneMore
    <3>4. CASE fw.left = 1
      <4>1. fw'.word = enc.raw
        BY <2>6, <3>2, <3>3, <3>4, SubSeqFull
      <4> QED BY <2>1, <2>4, <3>1, <3>4, <4>1 DEF InFrame
    <3>5. CASE fw.left # 1
      <4>1. enc.state = "active" /\ fw'.step = "rise"
        BY <2>1, <2>6, <3>1, <3>5
      <4>2. enc'.raw = Packed(truth)' /\ fw'.word = SubSeq(enc'.raw, 1, Got') /\ enc'.state = "active" /\ enc'.bits = Got'
        BY <2>4, <2>5, <2>8, <3>1, <3>3, <4>1
      <4> QED BY <4>1, <4>2 DEF Synced
    <3> QED BY <3>4, <3>5
  <2>10. CASE Ahead
    <3>1. (enc.state = "active" /\ enc.bits > Got + 1) \/ (enc.state = "guard" /\ ~enc.post /\ Got + 1 < Resolution)
      BY <2>1, <2>7, <2>10 DEF Ahead
    <3>2. fw'.step = "rise"
      BY <1>4, <1>5, <2>1, <2>6, <3>1
    <3>3. Ahead'
      BY <1>4, <1>5, <2>5, <2>8, <3>1, <3>2 DEF Ahead
    <3> QED BY <3>2, <3>3
  <2> QED BY <2>3, <2>9, <2>10
<1>11. ~Start /\ ~Clear /\ ~Begin /\ ~Close /\ ~Publish
  BY Zenon DEF Start, Clear, Begin, Close, Publish, At, InFrame
<1> QED BY <1>8, <1>9, <1>10, <1>11 DEF Run

\* A slow frame of three bits or more is blamed before it is complete.
LEMMA SlowStep ==
  ASSUME FirmwareInv, EncoderInv, FrameInv, Run, UNCHANGED <<field, config>>, ~blamed', Slow, fw.step \in InFrame, Resolution >= 3
  PROVE  /\ fw'.step \in InFrame => Doomed'
         /\ fw'.step # "close"
<1>1. ReaderTypes /\ EncoderOK(enc)
  BY DEF FirmwareInv, EncoderInv
<1>2. ~Blame(enc, clock') /\ (Begin \/ ~blamed) /\ ~CutsOff(enc)
  BY Blaming, Zenon DEF Blame
<1>3. Got \in Nat /\ fw.left \in Nat /\ Resolution \in Nat \ {0} /\ Got < Resolution /\ Got + fw.left = Resolution
  BY <1>1, ReaderTyped, SsiConstants DEF FirmwareInv, InFrame
<1>4. ASSUME fw'.word = fw.word PROVE Got' = Got
  BY <1>4 DEF Got
<1>5. ~Start /\ ~Clear /\ ~Begin /\ ~Close /\ ~Publish
  BY Zenon DEF Start, Clear, Begin, Close, Publish, At, InFrame
<1>6. Doomed
  BY <1>2, <1>5 DEF FrameInv
<1>7. enc.state = "active" => StateNow(enc) = "active"
  BY <1>2 DEF StateNow, CutsOff
<1>8. CASE Delay
  <2>1. fw'.step = fw.step /\ fw'.word = fw.word
    BY <1>8, StepsLead
  <2>2. enc.state = "active" => enc'.state = "active" /\ enc'.bits = enc.bits
    BY <1>7, <1>8, Turns DEF QuietFacts, Carried
  <2>3. Got' = Got
    BY <1>4, <2>1
  <2> QED BY <1>6, <2>1, <2>2, <2>3 DEF Doomed, InFrame
<1>9. CASE Rise
  <2>1. fw.step = "rise" /\ fw'.step = "sample" /\ fw'.word = fw.word
    BY <1>9, StepsLead
  <2>2. enc.state = "active" => /\ enc'.state = (IF enc.bits + 1 = Resolution THEN "guard" ELSE "active")
                                /\ enc'.bits = enc.bits + 1
    BY <1>7, <1>9, Turns DEF RiseFacts
  <2>3. Got' = Got
    BY <1>4, <2>1
  <2> QED BY <1>3, <1>6, <2>1, <2>2, <2>3 DEF Doomed
<1>10. CASE Sample
  <2>1. fw.step = "sample" /\ fw'.step = (IF fw.left = 1 THEN "close" ELSE "rise") /\ fw'.word = Append(fw.word, enc.out)
        /\ fw.wait = 0
    BY <1>10, StepsLead
  <2>2. Got' = Got + 1
    BY <1>1, <2>1, WordGrows DEF Got
  <2>3. ASSUME Got > 0
        PROVE  StateNow(enc) = "idle" /\ enc.state # "active"
    BY <1>2, <2>1, <2>3, SlowSample DEF At
  <2>4. Got < 2
    BY <1>3, <1>6, <2>3 DEF Doomed
  <2>5. fw'.step = "rise"
    BY <1>3, <2>1, <2>4
  <2>6. Got > 0 => enc'.state = "active" /\ enc'.bits = 0
    BY <1>10, <2>3, Turns DEF FallFacts
  <2> QED BY <1>3, <2>2, <2>4, <2>5, <2>6 DEF Doomed
<1> QED BY <1>5, <1>8, <1>9, <1>10 DEF Run

\* A frame begins in step with the encoder, or the encoder is ahead.
LEMMA FrameBegins ==
  ASSUME FirmwareInv, EncoderInv, Begin, Run, UNCHANGED <<field, config>>, ~blamed'
  PROVE  (Synced \/ Ahead)' /\ Doomed'
<1>1. ReaderTypes /\ EncoderOK(enc) /\ EncoderOK(enc')
  BY Turns DEF FirmwareInv, EncoderInv
<1>2. fw.step = "frame" /\ fw'.step = "rise" /\ fw'.word = << >> /\ truth' = field
  BY StepsLead
<1>3. Got' = 0
  BY <1>2 DEF Got
<1>4. FallFacts(enc, enc')
  BY Turns
<1>5. Packed(truth)' = Packed(field)
  BY <1>2 DEF Packed
<1>6. ~Blame(enc, clock')
  BY Blaming
<1>7. StateNow(enc) \in {"idle", "active", "guard"} /\ (StateNow(enc) # "idle" => StateNow(enc) = enc.state)
  BY <1>1, NowTyped
<1>8. CASE StateNow(enc) = "idle"
  <2>1. enc'.state = "active" /\ enc'.raw = Packed(truth)' /\ enc'.bits = 0
    BY <1>4, <1>5, <1>8 DEF FallFacts
  <2>2. fw'.word = SubSeq(enc'.raw, 1, Got')
    <3>1. enc'.raw \in Seq(Bit)
      BY <1>1, EncTypes DEF EncoderOK
    <3> QED BY <1>2, <1>3, <3>1
  <2>3. Synced'
    BY <1>2, <1>3, <2>1, <2>2 DEF Synced
  <2> QED BY <1>3, <2>3 DEF Doomed
<1>9. CASE StateNow(enc) = "active"
  <2>1. enc.state = "active" /\ clock = 1
    BY <1>2, <1>7, <1>9 DEF FirmwareInv
  <2>2. enc.bits > 0
    BY <2>1 DEF EncoderInv
  <2>3. enc'.state = "active" /\ enc'.bits = enc.bits
    BY <1>4, <1>9 DEF FallFacts, Carried
  <2>4. Ahead'
    BY <1>2, <1>3, <2>2, <2>3 DEF Ahead
  <2> QED BY <1>3, <2>4 DEF Doomed
<1>10. CASE StateNow(enc) = "guard"
  <2>1. enc'.state = "guard" /\ enc'.post = TRUE
    BY <1>4, <1>10 DEF FallFacts
  <2> QED BY <1>3, <2>1 DEF Ahead, Doomed
<1> QED BY <1>7, <1>8, <1>9, <1>10

\* A frame without blame that is complete is the encoder's word.
LEMMA FrameStep ==
  ASSUME FirmwareInv, EncoderInv, FrameInv, Run, UNCHANGED <<field, config>>, Resolution >= 3
  PROVE  FrameInv'
<1> SUFFICES ASSUME ~blamed' PROVE FrameInv'
  BY DEF FrameInv
<1>1. Slow' = Slow
  BY DEF Slow
<1>2. Begin \/ ~blamed
  BY Blaming
<1>3. CASE Begin
  <2>1. fw'.step = "rise" /\ (Synced \/ Ahead)' /\ Doomed'
    BY <1>3, FrameBegins, StepsLead
  <2> QED BY <2>1 DEF FrameInv, Behind
<1>4. CASE ~Begin /\ fw.step \in InFrame
  <2>1. fw'.step \in InFrame \cup {"close"}
    <3>1. ~Start /\ ~Clear /\ ~Close /\ ~Publish
      BY <1>4, Zenon DEF Start, Clear, Close, Publish, At, InFrame
    <3> QED BY <1>4, <3>1, StepsLead DEF Run, InFrame
  <2>2. fw'.step \in InFrame => IF Slow' THEN Doomed' ELSE (Synced \/ Ahead)'
    BY <1>1, <1>4, FastStep, SlowStep
  <2>3. fw'.step = "close" => fw'.word = Packed(truth)'
    BY <1>4, FastStep, SlowStep
  <2> QED BY <2>1, <2>2, <2>3 DEF FrameInv, InFrame, Behind
<1>5. CASE ~Begin /\ fw.step \notin InFrame
  <2>1. truth' = truth
    BY <1>5, Zenon DEF Run, Delay, Start, Clear, Rise, Sample, Close, Publish
  <2>2. Packed(truth)' = Packed(truth)
    BY <2>1, WordUnchanged
  <2>3. ~Rise /\ ~Sample
    BY <1>5 DEF Rise, Sample, At, InFrame
  <2>4. /\ fw'.step \notin InFrame
        /\ fw'.step \in Behind \cup {"close"} => fw.step \in Behind \cup {"close"} /\ fw'.word = fw.word
    <3>1. CASE Delay
      BY <1>5, <3>1, StepsLead
    <3>2. CASE Start
      BY <3>2, StepsLead DEF InFrame, Behind
    <3>3. CASE Clear
      BY <3>3, StepsLead DEF InFrame, Behind
    <3>4. CASE Close
      BY <3>4, StepsLead DEF InFrame, Behind
    <3>5. CASE Publish
      BY <3>5, StepsLead DEF InFrame, Behind
    <3> QED BY <1>5, <2>3, <3>1, <3>2, <3>3, <3>4, <3>5 DEF Run
  <2> QED BY <1>2, <1>5, <2>2, <2>4 DEF FrameInv
<1> QED BY <1>3, <1>4, <1>5

\* The mailbox is written from its low word to its high word between two flips of
\* its sequence.
MailInv ==
  /\ fw.step \in Before => shown = Unread
  /\ fw.step \in InFrame \cup {"clear lo", "clear hi", "close", "odd", "frame"} => mailbox.sequence = 0
  /\ fw.step \in {"lo", "hi", "even"} => mailbox.sequence = 1
  /\ fw.step \in {"hi", "even"} => mailbox.lo = Low(fw.word)
  /\ fw.step = "even" => mailbox.hi = High(fw.word)
  /\ FrameIsTrueOrBlamed

\* A mailbox nobody writes to stays true.
LEMMA SameMail ==
  ASSUME config' = config, mailbox' = mailbox, shown' = shown, FrameIsTrueOrBlamed
  PROVE  FrameIsTrueOrBlamed'
  BY Zenon DEF FrameIsTrueOrBlamed, Coherent, Decoded

\* MailInv survives every instruction.
LEMMA MailStep ==
  ASSUME FirmwareInv, EncoderInv, FrameInv, MailInv, Run, UNCHANGED <<field, config>>
  PROVE  MailInv'
<1>0. config' = config /\ ReaderTypes /\ mailbox \in [sequence : Bit, lo : Seq(Bit), hi : Seq(Bit)]
  BY DEF FirmwareInv, ReaderTypes
<1>1. CASE Delay
  <2>1. fw'.step = fw.step /\ fw'.word = fw.word /\ mailbox' = mailbox /\ shown' = shown
    BY <1>1, StepsLead DEF Delay
  <2>2. FrameIsTrueOrBlamed' /\ Low(fw'.word) = Low(fw.word) /\ High(fw'.word) = High(fw.word)
    BY <1>0, <2>1, SameMail DEF MailInv
  <2> QED BY <2>1, <2>2 DEF MailInv
<1>2. CASE Start
  <2>1. fw.step = "start" /\ fw'.step = "clear" /\ mailbox' = mailbox /\ shown' = shown
    BY <1>2, StepsLead DEF Start
  <2>2. FrameIsTrueOrBlamed'
    BY <1>0, <2>1, SameMail DEF MailInv
  <2> QED BY <2>1, <2>2 DEF MailInv, Before, InFrame
<1>3. CASE Clear
  <2>1. shown' = shown /\ shown = Unread
    BY <1>3, StepsLead DEF Clear, MailInv, Before
  <2>2. FrameIsTrueOrBlamed'
    BY <2>1 DEF FrameIsTrueOrBlamed
  <2>3. fw'.step \in {"clear lo", "clear hi", "frame"}
    BY <1>3, StepsLead
  <2>4. mailbox'.sequence = 0
    <3>1. CASE fw.step = "clear"
      BY <1>0, <1>3, <3>1 DEF Clear, At
    <3>2. CASE fw.step # "clear"
      <4>1. fw.step \in {"clear lo", "clear hi"}
        BY <1>3, <3>2, StepsLead
      <4>2. mailbox.sequence = 0
        BY <4>1 DEF MailInv
      <4> QED BY <1>0, <1>3, <3>2, <4>2 DEF Clear, At
    <3> QED BY <3>1, <3>2
  <2> QED BY <2>1, <2>2, <2>3, <2>4 DEF MailInv, InFrame
<1>4. CASE Begin \/ Rise \/ Sample \/ Close
  <2>1. mailbox' = mailbox /\ shown' = shown
    BY <1>4, Zenon DEF Begin, Rise, Sample, Close
  <2>2. FrameIsTrueOrBlamed'
    BY <1>0, <2>1, SameMail DEF MailInv
  <2>3. fw.step \in InFrame \cup {"frame", "close"} /\ fw'.step \in InFrame \cup {"close", "odd"}
    BY <1>4, StepsLead DEF InFrame
  <2> QED BY <2>1, <2>2, <2>3 DEF MailInv, InFrame, Before
<1>5. CASE Publish /\ fw.step = "odd"
  <2>1. fw'.step = "lo" /\ mailbox' = [mailbox EXCEPT !.sequence = 1 - @] /\ mailbox.sequence = 0
    BY <1>5, StepsLead DEF Publish, At, MailInv
  <2>2. mailbox'.sequence = 1
    BY <1>0, <2>1
  <2>3. FrameIsTrueOrBlamed'
    BY <2>2 DEF FrameIsTrueOrBlamed, Coherent
  <2> QED BY <2>1, <2>2, <2>3 DEF MailInv, InFrame, Before
<1>6. CASE Publish /\ fw.step = "lo"
  <2>1. fw'.step = "hi" /\ fw'.word = fw.word /\ mailbox' = [mailbox EXCEPT !.lo = Low(fw.word)] /\ mailbox.sequence = 1
    BY <1>6, StepsLead DEF Publish, At, MailInv
  <2>2. mailbox'.sequence = 1 /\ mailbox'.lo = Low(fw'.word)
    BY <1>0, <2>1
  <2>3. FrameIsTrueOrBlamed'
    BY <2>2 DEF FrameIsTrueOrBlamed, Coherent
  <2> QED BY <2>1, <2>2, <2>3 DEF MailInv, InFrame, Before
<1>7. CASE Publish /\ fw.step = "hi"
  <2>1. /\ fw'.step = "even" /\ fw'.word = fw.word /\ mailbox' = [mailbox EXCEPT !.hi = High(fw.word)]
        /\ mailbox.sequence = 1 /\ mailbox.lo = Low(fw.word)
    BY <1>7, StepsLead DEF Publish, At, MailInv
  <2>2. mailbox'.sequence = 1 /\ mailbox'.lo = Low(fw'.word) /\ mailbox'.hi = High(fw'.word)
    BY <1>0, <2>1
  <2>3. FrameIsTrueOrBlamed'
    BY <2>2 DEF FrameIsTrueOrBlamed, Coherent
  <2> QED BY <2>1, <2>2, <2>3 DEF MailInv, InFrame, Before
<1>8. CASE Publish /\ fw.step = "even"
  <2>1. /\ fw'.step = "frame" /\ mailbox' = [mailbox EXCEPT !.sequence = 1 - @]
        /\ mailbox.sequence = 1 /\ mailbox.lo = Low(fw.word) /\ mailbox.hi = High(fw.word)
        /\ shown' = [field |-> truth, blamed |-> blamed \/ FaultNow]
    BY <1>8, StepsLead DEF Publish, At, MailInv
  <2>2. mailbox'.sequence = 0 /\ mailbox'.lo = Low(fw.word) /\ mailbox'.hi = High(fw.word)
    BY <1>0, <2>1
  <2>3. ASSUME ~shown'.blamed
        PROVE  Decoded(mailbox.hi \o mailbox.lo)' = shown'.field
    <3>1. ~blamed /\ shown'.field = truth
      BY <2>1, <2>3
    <3>2. fw.word = Packed(truth)
      BY <1>8, <3>1 DEF FrameInv, Behind
    <3>3. High(fw.word) \o Low(fw.word) = fw.word
      BY <1>0, <1>8, ReaderTyped, WordsTogether DEF FirmwareInv, Behind, Got
    <3>4. truth \in SsiFields
      BY <1>0 DEF ReaderTypes
    <3>5. Decoded(Packed(truth)) = truth
      BY <3>4, DecodesPacked
    <3>6. mailbox'.hi \o mailbox'.lo = Packed(truth)
      BY <2>2, <3>2, <3>3
    <3>7. Decoded(mailbox.hi \o mailbox.lo)' = Decoded(Packed(truth))
      BY <1>0, <3>6, Zenon DEF Decoded
    <3> QED BY <3>1, <3>5, <3>7
  <2>4. FrameIsTrueOrBlamed'
    BY <2>3 DEF FrameIsTrueOrBlamed
  <2> QED BY <2>1, <2>2, <2>4 DEF MailInv, InFrame, Before
<1>9. Publish => fw.step \in {"odd", "lo", "hi", "even"}
  BY StepsLead
<1> QED BY <1>1, <1>2, <1>3, <1>4, <1>5, <1>6, <1>7, <1>8, <1>9 DEF Run

\* A reader that keeps to the times of the data sheet.
Keeps ==
  /\ config.high + config.low >= MinPeriod
  /\ config.high + config.low < Monoflop /\ config.high + FirstLow < Monoflop
  /\ config.low + config.idle + 4 >= Monoflop

AtMost(a) == IF MinPeriod < a THEN MinPeriod ELSE a

Closed == enc.state = "idle" \/ (enc.state = "guard" /\ enc.post = TRUE)

\* Encoder and reader go through a frame bit by bit, and the guard time is over
\* before the next one.
GoodInv == Keeps =>
  /\ enc.fault = FALSE
  /\ fw.step = "rise" => /\ enc.state = "active" /\ enc.bits = Got
                         /\ enc.rise = IF Got = 0 THEN Never ELSE AtMost(config.high + config.low - 1 - fw.wait)
  /\ fw.step = "sample" => /\ enc.bits = Got + 1 /\ enc.post = FALSE
                           /\ enc.state = (IF Got + 1 = Resolution THEN "guard" ELSE "active")
                           /\ enc.rise = AtMost(config.high - 1 - fw.wait)
  /\ fw.step \in Behind \cup {"close", "frame"} => Closed

\* A rise ages up to the shortest period allowed.
LEMMA RiseAges ==
  ASSUME EncoderOK(enc)
  PROVE  /\ enc.rise = Never => AgedRise(enc) = Never
         /\ \A a \in Nat : enc.rise = AtMost(a) => AgedRise(enc) = AtMost(a + 1)
<1>1. enc.rise \in -1..MinPeriod /\ MinPeriod \in Nat \ {0} /\ Never = -1
  BY EncTypes, SsiConstants DEF EncoderOK
<1>2. /\ enc.rise = Never => AgedRise(enc) = Never
      /\ enc.rise # Never => AgedRise(enc) = (IF enc.rise = MinPeriod THEN MinPeriod ELSE enc.rise + 1)
  BY <1>1, OlderTyped DEF AgedRise
<1> QED BY <1>1, <1>2 DEF AtMost

\* What is not reported now is not on record.
LEMMA NoFault ==
  ASSUME FirmwareInv, EncoderInv, Run, enc.fault = FALSE, ~Blame(enc, clock')
  PROVE  enc'.fault = FALSE
  BY Turns DEF Faulted

\* Between frames the encoder comes to rest.
LEMMA ClosedStays ==
  ASSUME EncoderOK(enc), Closed, QuietFacts(enc, enc', clock') \/ RiseFacts(enc, enc')
  PROVE  Closed' /\ ~CutsOff(enc) /\ StateNow(enc) # "active"
<1>1. /\ StateNow(enc) \in {"idle", "active", "guard"} /\ (StateNow(enc) # "idle" => StateNow(enc) = enc.state)
      /\ StateNow(enc) # "active" /\ ~CutsOff(enc)
      /\ StateNow(enc) = "guard" => enc.post = TRUE
  BY NowTyped DEF Closed, CutsOff, StateNow
<1>2. CASE QuietFacts(enc, enc', clock')
  BY <1>1, <1>2 DEF QuietFacts, Carried, Closed
<1>3. CASE RiseFacts(enc, enc')
  BY <1>1, <1>3 DEF RiseFacts, Carried, Closed
<1> QED BY <1>1, <1>2, <1>3

\* GoodInv survives every instruction.
LEMMA GoodStep ==
  ASSUME FirmwareInv, EncoderInv, GoodInv, Run, UNCHANGED <<field, config>>
  PROVE  GoodInv'
<1>0. ReaderTypes /\ EncoderOK(enc) /\ EncoderOK(enc') /\ config' = config
  BY Turns DEF FirmwareInv, EncoderInv
<1> SUFFICES ASSUME Keeps PROVE GoodInv'
  <2>1. Keeps' = Keeps
    BY <1>0 DEF Keeps
  <2> QED BY <2>1 DEF GoodInv
<1>1. /\ fw.wait \in Nat /\ config.high \in Nat \ {0} /\ config.low \in Nat \ {0} /\ config.idle \in Nat \ {0}
      /\ FirstLow \in Nat \ {0} /\ Got \in Nat /\ Resolution \in Nat \ {0} /\ MinPeriod \in Nat \ {0} /\ Monoflop \in Nat \ {0}
      /\ Never = -1 /\ fw.left \in Nat
  BY <1>0, ReaderTyped, SsiConstants
<1>2. ~Slow
  BY <1>1 DEF Slow, Keeps
<1>3. ASSUME fw'.word = fw.word PROVE Got' = Got
  BY <1>3 DEF Got
<1>4. enc.fault = FALSE
  BY DEF GoodInv
<1>5. fw.step \in InFrame => ~CutsOff(enc) /\ StateNow(enc) = enc.state
  BY <1>2, FastFrame DEF CutsOff
<1>6. CASE Start \/ Clear
  <2>1. enc.state = "idle"
    <3>1. fw.step \in Before
      BY <1>6, StepsLead DEF Before
    <3> QED BY <3>1 DEF EncoderInv
  <2>2. QuietFacts(enc, enc', clock') /\ ~FallSeen(enc, clock') /\ ~RiseSeen(enc, clock')
    BY <1>6, Turns, Edges
  <2>3. Closed' /\ ~CutsOff(enc)
    BY <1>0, <2>1, <2>2, ClosedStays DEF Closed
  <2>4. enc'.fault = FALSE
    BY <1>4, <2>2, <2>3, NoFault, Zenon DEF Blame
  <2>5. fw'.step \in {"clear", "clear lo", "clear hi", "frame"}
    BY <1>6, StepsLead
  <2> QED BY <2>3, <2>4, <2>5 DEF GoodInv, Behind
<1>7. CASE (Delay \/ Publish) /\ fw.step \notin InFrame
  <2>1. QuietFacts(enc, enc', clock') /\ ~FallSeen(enc, clock') /\ ~RiseSeen(enc, clock')
    BY <1>7, Turns, Edges
  <2>2. fw.step \in Behind \cup {"close", "frame"} /\ fw'.step \in Behind \cup {"close", "frame"}
    <3>1. CASE Delay
      <4>1. fw'.step = fw.step /\ fw.wait > 0
        BY <3>1, StepsLead
      <4>2. fw.step \notin Before
        BY <4>1 DEF FirmwareInv
      <4> QED BY <1>0, <1>7, <4>1, <4>2, ReaderTyped
    <3>2. CASE Publish
      BY <3>2, StepsLead DEF Behind
    <3> QED BY <1>7, <3>1, <3>2
  <2>3. Closed
    BY <2>2 DEF GoodInv
  <2>4. Closed' /\ ~CutsOff(enc)
    BY <1>0, <2>1, <2>3, ClosedStays
  <2>5. enc'.fault = FALSE
    BY <1>4, <2>1, <2>4, NoFault, Zenon DEF Blame
  <2> QED BY <2>2, <2>4, <2>5 DEF GoodInv, Behind
<1>8. CASE Delay /\ fw.step \in InFrame
  <2>1. QuietFacts(enc, enc', clock') /\ ~FallSeen(enc, clock') /\ ~RiseSeen(enc, clock')
    BY <1>8, Turns, Edges
  <2>2. enc'.fault = FALSE
    BY <1>4, <1>5, <1>8, <2>1, NoFault, Zenon DEF Blame
  <2>3. /\ enc'.state = enc.state /\ enc'.bits = enc.bits /\ enc'.post = enc.post /\ enc'.rise = AgedRise(enc)
    BY <1>5, <1>8, <2>1 DEF QuietFacts, Carried
  <2>4. fw'.step = fw.step /\ fw'.wait = fw.wait - 1 /\ fw.wait > 0 /\ Got' = Got
    BY <1>3, <1>8, StepsLead
  <2>5. CASE fw.step = "rise"
    <3>1. /\ enc.state = "active" /\ enc.bits = Got
          /\ enc.rise = IF Got = 0 THEN Never ELSE AtMost(config.high + config.low - 1 - fw.wait)
      BY <2>5 DEF GoodInv
    <3>2. Got = 0 => enc'.rise = Never
      BY <1>0, <2>3, <3>1, RiseAges
    <3>3. Got # 0 => enc'.rise = AtMost(config.high + config.low - 1 - fw'.wait)
      <4>1. CASE Got = 0
        BY <4>1
      <4>2. CASE Got # 0
        <5>1. LowTime = config.low
          BY <1>0, <4>2, ReaderTyped DEF LowTime
        <5>2. fw.wait < config.low
          BY <2>5, <5>1 DEF FirmwareInv
        <5>3. PICK a \in Nat : a = config.high + config.low - 1 - fw.wait
          BY <1>1, <5>2
        <5>4. AgedRise(enc) = AtMost(a + 1)
          BY <1>0, <3>1, <4>2, <5>3, RiseAges
        <5>5. a + 1 = config.high + config.low - 1 - fw'.wait
          BY <1>1, <2>4, <5>3
        <5> QED BY <2>3, <5>4, <5>5
      <4> QED BY <4>1, <4>2
    <3> QED BY <1>0, <2>2, <2>3, <2>4, <2>5, <3>1, <3>2, <3>3 DEF GoodInv, Behind
  <2>6. CASE fw.step = "sample"
    <3>1. /\ enc.bits = Got + 1 /\ enc.post = FALSE /\ enc.state = (IF Got + 1 = Resolution THEN "guard" ELSE "active")
          /\ enc.rise = AtMost(config.high - 1 - fw.wait)
      BY <2>6 DEF GoodInv
    <3>2. enc'.rise = AtMost(config.high - 1 - fw'.wait)
      <4>1. fw.wait < config.high
        BY <2>6 DEF FirmwareInv
      <4>2. PICK a \in Nat : a = config.high - 1 - fw.wait
        BY <1>1, <4>1
      <4>3. AgedRise(enc) = AtMost(a + 1)
        BY <1>0, <3>1, <4>2, RiseAges
      <4>4. a + 1 = config.high - 1 - fw'.wait
        BY <1>1, <2>4, <4>2
      <4> QED BY <2>3, <4>3, <4>4
    <3> QED BY <1>0, <2>2, <2>3, <2>4, <2>6, <3>1, <3>2 DEF GoodInv, Behind
  <2> QED BY <1>8, <2>5, <2>6 DEF InFrame
<1>9. CASE Begin
  <2>1. fw.step = "frame" /\ fw.wait = 0 /\ fw'.step = "rise" /\ fw'.word = << >> /\ clock' = 0 /\ FallSeen(enc, clock')
    BY <1>9, StepsLead, Edges
  <2>2. Closed
    BY <2>1 DEF GoodInv
  <2>3. StateNow(enc) = "idle" /\ ~CutsOff(enc)
    <3>1. CASE enc.state = "idle"
      BY <3>1 DEF StateNow, CutsOff
    <3>2. CASE enc.state = "guard"
      <4>1. fw.word # << >>
        BY <2>1, <3>2 DEF EncoderInv
      <4>2. LowTime = config.low
        BY <4>1 DEF LowTime
      <4>3. enc.fall = LowTime + 3 + config.idle
        BY <1>1, <2>1, <3>2, <4>2 DEF EncoderInv, Age
      <4>4. enc.fall + 1 >= Monoflop
        BY <1>1, <4>2, <4>3 DEF Keeps
      <4> QED BY <3>2, <4>4 DEF StateNow, Spent, CutsOff
    <3> QED BY <2>2, <3>1, <3>2 DEF Closed
  <2>4. ~Blame(enc, clock')
    BY <2>1, <2>3, SsiConstants DEF Blame, RiseSeen
  <2>5. enc'.fault = FALSE
    BY <1>4, <2>4, NoFault
  <2>6. enc'.state = "active" /\ enc'.bits = 0 /\ enc'.rise = Never
    BY <1>9, <2>3, Turns DEF FallFacts
  <2>7. Got' = 0
    BY <2>1 DEF Got
  <2> QED BY <2>1, <2>5, <2>6, <2>7 DEF GoodInv, Behind
<1>10. CASE Rise
  <2>1. /\ fw.step = "rise" /\ fw.wait = 0 /\ clock' = 1 /\ fw'.step = "sample" /\ fw'.wait = config.high - 1
        /\ Got' = Got /\ ~FallSeen(enc, clock')
    <3>1. /\ fw.step = "rise" /\ fw.wait = 0 /\ clock' = 1 /\ fw'.step = "sample" /\ fw'.wait = config.high - 1 /\ fw'.word = fw.word
      BY <1>10, StepsLead
    <3> QED BY <1>3, <3>1 DEF FallSeen
  <2>2. /\ enc.state = "active" /\ enc.bits = Got
        /\ enc.rise = IF Got = 0 THEN Never ELSE AtMost(config.high + config.low - 1 - fw.wait)
    BY <2>1 DEF GoodInv
  <2>3. StateNow(enc) = "active" /\ ~CutsOff(enc)
    BY <1>5, <2>1, <2>2 DEF InFrame
  <2>4. ~TooEarly(enc)
    <3>1. CASE Got = 0
      BY <1>0, <2>2, <3>1, RiseAges DEF TooEarly
    <3>2. CASE Got # 0
      <4>1. PICK a \in Nat : a = config.high + config.low - 1 - fw.wait /\ a + 1 >= MinPeriod
        BY <1>1, <2>1 DEF Keeps
      <4>2. AgedRise(enc) = AtMost(a + 1)
        BY <1>0, <2>2, <3>2, <4>1, RiseAges
      <4>3. AtMost(a + 1) = MinPeriod
        BY <1>1, <4>1 DEF AtMost
      <4> QED BY <1>1, <4>2, <4>3 DEF TooEarly
    <3> QED BY <3>1, <3>2
  <2>5. enc'.fault = FALSE
    BY <1>4, <2>1, <2>3, <2>4, NoFault, Zenon DEF Blame
  <2>6. /\ enc'.state = (IF enc.bits + 1 = Resolution THEN "guard" ELSE "active") /\ enc'.bits = enc.bits + 1
        /\ enc'.rise = 0 /\ enc'.post = FALSE
    <3>1. enc.post = FALSE
      BY <1>0, <2>3, NowTyped
    <3> QED BY <1>10, <2>3, <3>1, Turns DEF RiseFacts
  <2>7. AtMost(config.high - 1 - fw'.wait) = 0
    BY <1>1, <2>1 DEF AtMost
  <2> QED BY <1>0, <2>1, <2>2, <2>5, <2>6, <2>7 DEF GoodInv, Behind
<1>11. CASE Sample
  <2>1. /\ fw.step = "sample" /\ fw.wait = 0 /\ clock' = 0 /\ fw'.step = (IF fw.left = 1 THEN "close" ELSE "rise")
        /\ fw'.wait = config.low - 1 /\ fw'.word = Append(fw.word, enc.out) /\ ~RiseSeen(enc, clock')
    <3>1. clock' = 0
      BY <1>11, StepsLead
    <3>2. ~RiseSeen(enc, clock')
      BY <3>1 DEF RiseSeen
    <3> QED BY <1>11, <3>2, StepsLead
  <2>2. Got' = Got + 1 /\ (fw.left = 1 <=> Got + 1 = Resolution)
    <3>1. Got + fw.left = Resolution
      BY <2>1 DEF FirmwareInv, InFrame
    <3> QED BY <1>0, <1>1, <2>1, <3>1, WordGrows DEF Got
  <2>3. /\ enc.bits = Got + 1 /\ enc.post = FALSE /\ enc.state = (IF Got + 1 = Resolution THEN "guard" ELSE "active")
        /\ enc.rise = AtMost(config.high - 1 - fw.wait)
    BY <2>1 DEF GoodInv
  <2>4. StateNow(enc) = enc.state /\ ~CutsOff(enc)
    BY <1>5, <2>1 DEF InFrame
  <2>5. enc'.fault = FALSE
    BY <1>4, <2>1, <2>3, <2>4, NoFault DEF Blame
  <2>6. FallFacts(enc, enc')
    BY <1>11, Turns
  <2>7. CASE Got + 1 = Resolution
    <3>1. fw'.step = "close" /\ enc'.state = "guard" /\ enc'.post = TRUE
      BY <2>1, <2>2, <2>3, <2>4, <2>6, <2>7 DEF FallFacts
    <3> QED BY <2>5, <3>1 DEF GoodInv, Closed
  <2>8. CASE Got + 1 # Resolution
    <3>1. fw'.step = "rise" /\ enc'.state = "active" /\ enc'.bits = Got' /\ enc'.rise = AgedRise(enc) /\ Got' # 0
      BY <1>1, <2>1, <2>2, <2>3, <2>4, <2>6, <2>8 DEF FallFacts, Carried
    <3>2. AgedRise(enc) = AtMost(config.high)
      <4>1. PICK a \in Nat : a = config.high - 1 - fw.wait /\ a + 1 = config.high
        BY <1>1, <2>1
      <4> QED BY <1>0, <2>3, <4>1, RiseAges
    <3>3. config.high + config.low - 1 - fw'.wait = config.high
      BY <1>1, <2>1
    <3> QED BY <1>0, <2>5, <3>1, <3>2, <3>3 DEF GoodInv, Behind
  <2> QED BY <2>7, <2>8
<1>12. CASE Close
  <2>1. fw.step = "close" /\ fw'.step = "odd" /\ clock' = 1 /\ ~FallSeen(enc, clock')
    <3>1. fw.step = "close" /\ fw'.step = "odd" /\ clock' = 1
      BY <1>12, StepsLead
    <3> QED BY <3>1 DEF FallSeen
  <2>2. Closed /\ RiseFacts(enc, enc')
    BY <1>12, <2>1, Turns DEF GoodInv
  <2>3. Closed' /\ ~CutsOff(enc) /\ StateNow(enc) # "active"
    BY <1>0, <2>2, ClosedStays
  <2>4. enc'.fault = FALSE
    BY <1>4, <2>1, <2>3, NoFault, Zenon DEF Blame
  <2> QED BY <2>1, <2>3, <2>4 DEF GoodInv
<1>13. ~(Publish /\ fw.step \in InFrame)
  BY StepsLead DEF InFrame
<1> QED BY <1>6, <1>7, <1>8, <1>9, <1>10, <1>11, <1>12, <1>13 DEF Run

\* After a reset of the reader nothing is known of any frame.
JustReset == ReaderTypes /\ fw = AtStart /\ clock = 0 /\ enc = EncoderReset /\ shown = Unread

\* The invariants hold after a reset.
LEMMA ResetHolds == JustReset => FirmwareInv /\ EncoderInv /\ FrameInv /\ MailInv /\ GoodInv
<1> SUFFICES ASSUME JustReset PROVE FirmwareInv /\ EncoderInv /\ FrameInv /\ MailInv /\ GoodInv
  OBVIOUS
<1>1. ReaderTypes /\ fw.step = "start" /\ fw.wait = 0 /\ fw.word = << >> /\ clock = 0 /\ shown = Unread
  BY DEF JustReset, AtStart
<1>2. EncoderReset = Enc("idle", 1, Never, Never, Never, << >>, 0, FALSE, FALSE)
  BY DEF EncoderReset, Enc
<1>3. EncoderReset \in Encoder
  BY SsiConstants DEF EncoderReset, Encoder
<1>4. enc.state = "idle" /\ enc.out = 1 /\ enc.prev = Never /\ enc.fall = Never /\ enc.fault = FALSE
  BY DEF JustReset, EncoderReset
<1>5. EncoderOK(enc)
  BY <1>3, <1>4 DEF EncoderOK, JustReset
<1>6. FirmwareInv
  BY <1>1 DEF FirmwareInv, Before, Behind, InFrame
<1>7. EncoderInv
  BY <1>1, <1>4, <1>5 DEF EncoderInv
<1>8. FrameInv
  BY <1>1 DEF FrameInv, Behind, InFrame
<1>9. MailInv
  BY <1>1 DEF MailInv, FrameIsTrueOrBlamed, InFrame, Before
<1>10. GoodInv
  BY <1>1, <1>4 DEF GoodInv, Behind
<1> QED BY <1>6, <1>7, <1>8, <1>9, <1>10

\* The reader begins as after a reset.
LEMMA SsiStart == SsiInit => JustReset
<1> SUFFICES ASSUME SsiInit PROVE JustReset
  OBVIOUS
<1>1. AtStart \in FwRecords
  BY DEF AtStart, FwRecords, Before
<1>2. EmptyMailbox \in [sequence : Bit, lo : Seq(Bit), hi : Seq(Bit)]
  <2>1. LowBits \in Nat /\ Resolution - LowBits \in Nat /\ 0 \in Bit
    BY SsiConstants
  <2>2. ASSUME NEW n \in Nat PROVE Zeros(n) \in Seq(Bit)
    BY <2>1 DEF Zeros
  <2> QED BY <2>1, <2>2 DEF EmptyMailbox
<1> QED BY <1>1, <1>2 DEF SsiInit, JustReset, ReaderTypes, SsiFields

\* What the host does to reader and encoder.
LEMMA HostSteps ==
  ASSUME ReaderTypes, ResetReader \/ LoadReader
  PROVE  JustReset'
<1>1. AtStart \in FwRecords
  BY DEF AtStart, FwRecords, Before
<1>2. EmptyMailbox \in [sequence : Bit, lo : Seq(Bit), hi : Seq(Bit)]
  <2>1. LowBits \in Nat /\ Resolution - LowBits \in Nat /\ 0 \in Bit
    BY SsiConstants
  <2>2. ASSUME NEW n \in Nat PROVE Zeros(n) \in Seq(Bit)
    BY <2>1 DEF Zeros
  <2> QED BY <2>1, <2>2 DEF EmptyMailbox
<1>3. CASE ResetReader
  BY <1>1, <1>3 DEF ResetReader, JustReset, ReaderTypes
<1>4. CASE LoadReader
  <2>1. config.encoding \in Encodings
    BY DEF ReaderTypes
  <2>2. config' \in [high : HighDelays, low : LowDelays, idle : IdleDelays, encoding : Encodings]
    BY <1>4, <2>1 DEF LoadReader
  <2> QED BY <1>1, <1>2, <1>4, <2>2 DEF LoadReader, JustReset, ReaderTypes
<1> QED BY <1>3, <1>4

\* Fields the host sets disturb no frame under way.
LEMMA FieldsSet ==
  ASSUME SetField
  PROVE  /\ FirmwareInv => FirmwareInv'
         /\ EncoderInv => EncoderInv'
         /\ FrameInv => FrameInv'
         /\ MailInv => MailInv'
         /\ GoodInv => GoodInv'
<1>1. field' \in SsiFields /\ UNCHANGED <<enc, config, fw, clock, mailbox, truth, blamed, shown>>
  BY DEF SetField, SsiFields
<1>2. FirmwareInv => FirmwareInv'
  BY <1>1 DEF FirmwareInv, ReaderTypes, LowTime, Got
<1>3. EncoderInv => EncoderInv'
  BY <1>1 DEF EncoderInv, Age, LowTime
<1>4. FrameInv => FrameInv'
  BY <1>1 DEF FrameInv, Slow, Doomed, Synced, Ahead, Packed, Got
<1>5. MailInv => MailInv'
  BY <1>1 DEF MailInv, FrameIsTrueOrBlamed, Coherent, Decoded
<1>6. GoodInv => GoodInv'
  BY <1>1 DEF GoodInv, Keeps, Closed, Got
<1> QED BY <1>2, <1>3, <1>4, <1>5, <1>6

\* Nor does a stuttering step.
LEMMA NothingMoves ==
  ASSUME UNCHANGED ssiVars
  PROVE  /\ FirmwareInv => FirmwareInv'
         /\ EncoderInv => EncoderInv'
         /\ FrameInv => FrameInv'
         /\ MailInv => MailInv'
         /\ GoodInv => GoodInv'
<1>1. UNCHANGED <<enc, field, config, fw, clock, mailbox, truth, blamed, shown>>
  BY DEF ssiVars
<1>2. FirmwareInv => FirmwareInv'
  BY <1>1 DEF FirmwareInv, ReaderTypes, LowTime, Got
<1>3. EncoderInv => EncoderInv'
  BY <1>1 DEF EncoderInv, Age, LowTime
<1>4. FrameInv => FrameInv'
  BY <1>1 DEF FrameInv, Slow, Doomed, Synced, Ahead, Packed, Got
<1>5. MailInv => MailInv'
  BY <1>1 DEF MailInv, FrameIsTrueOrBlamed, Coherent, Decoded
<1>6. GoodInv => GoodInv'
  BY <1>1 DEF GoodInv, Keeps, Closed, Got
<1> QED BY <1>2, <1>3, <1>4, <1>5, <1>6

\* What holds of every reader, whatever the length of its words.
ReaderInv == FirmwareInv /\ EncoderInv /\ GoodInv

\* The whole step.
LEMMA ReaderSteps == ReaderInv /\ [Ssi]_ssiVars => ReaderInv'
<1> SUFFICES ASSUME ReaderInv, [Ssi]_ssiVars PROVE ReaderInv'
  OBVIOUS
<1>1. FirmwareInv /\ EncoderInv /\ GoodInv /\ ReaderTypes /\ EncoderOK(enc)
  BY DEF ReaderInv, FirmwareInv, EncoderInv
<1>2. CASE Run /\ UNCHANGED <<field, config>>
  BY <1>1, <1>2, FirmwareStep, EncoderStep, GoodStep DEF ReaderInv
<1>3. CASE SetField
  BY <1>1, <1>3, FieldsSet DEF ReaderInv
<1>4. CASE ResetReader \/ LoadReader
  <2>1. JustReset'
    BY <1>1, <1>4, HostSteps
  <2>2. JustReset' => FirmwareInv' /\ EncoderInv' /\ GoodInv'
    BY ResetHolds, PTL
  <2> QED BY <2>1, <2>2 DEF ReaderInv
<1>5. CASE UNCHANGED ssiVars
  BY <1>1, <1>5, NothingMoves DEF ReaderInv
<1> QED BY <1>2, <1>3, <1>4, <1>5 DEF Ssi

\* The encoder reports no fault of a reader that keeps to its times, for words of
\* every length and fields that change at any moment.
THEOREM GoodReadersNeverBlamed == SsiSpec => []GoodReaderNotBlamed
<1>1. SsiInit => ReaderInv
  BY SsiStart, ResetHolds DEF ReaderInv
<1>2. ReaderInv => GoodReaderNotBlamed
  BY DEF ReaderInv, GoodInv, GoodReaderNotBlamed, Keeps
<1> QED BY <1>1, <1>2, ReaderSteps, PTL DEF SsiSpec

\* With words of three bits or more a mailbox the host finds coherent holds the fields
\* of one moment, or the encoder has reported a fault in that frame, for all delays of
\* the firmware, good or bad.
THEOREM MailboxIsTrusted ==
  ASSUME Resolution >= 3
  PROVE  SsiSpec => []MailboxCanBeTrusted
<1> DEFINE Inv == ReaderInv /\ FrameInv /\ MailInv
<1>1. SsiInit => Inv
  BY SsiStart, ResetHolds DEF ReaderInv
<1>2. Inv /\ [Ssi]_ssiVars => Inv'
  <2> SUFFICES ASSUME Inv, [Ssi]_ssiVars PROVE FrameInv' /\ MailInv'
    BY ReaderSteps
  <2>1. FirmwareInv /\ EncoderInv /\ GoodInv /\ ReaderTypes
    BY DEF ReaderInv, FirmwareInv
  <2>2. CASE Run /\ UNCHANGED <<field, config>>
    BY <2>1, <2>2, FrameStep, MailStep
  <2>3. CASE SetField
    BY <2>3, FieldsSet
  <2>4. CASE ResetReader \/ LoadReader
    <3>1. JustReset'
      BY <2>1, <2>4, HostSteps
    <3>2. JustReset' => FrameInv' /\ MailInv'
      BY ResetHolds, PTL
    <3> QED BY <3>1, <3>2
  <2>5. CASE UNCHANGED ssiVars
    BY <2>5, NothingMoves
  <2> QED BY <2>2, <2>3, <2>4, <2>5 DEF Ssi
<1>3. Inv => MailboxCanBeTrusted
  BY DEF ReaderInv, GoodInv, MailInv, MailboxCanBeTrusted, GoodReaderNotBlamed, Keeps
<1> QED BY <1>1, <1>2, <1>3, PTL DEF SsiSpec
=============================================================================
