------------------------------ MODULE IepTimer ------------------------------
(***************************************************************************)
(* The IEP timer of the ICSSG (class IepTimer, perif/iep.py): counter,     *)
(* compares, captures and the rational rate at which shared time becomes   *)
(* counter ticks.  The time itself is PacedRun's; here it arrives as the   *)
(* units observe_core_cycles found to have elapsed.  snapshot and restore   *)
(* are left to the step history that uses them.                            *)
(*                                                                         *)
(* A 64-bit register is a pair of words below Half; a status register is   *)
(* the set of its bits.  A rate is the pair <<numerator, denominator>> in  *)
(* lowest terms of ticks per time unit.                                    *)
(***************************************************************************)
EXTENDS Integers

CONSTANTS
  Half,         \* 2^32 in the code
  Compares,     \* 0..15 in the code
  Captures,     \* 0..9 in the code
  ByteOf(_),    \* which byte of its status register a bit is in
  Increments,   \* values of DEFAULT_INC
  ResetInc,     \* DEFAULT_INC after reset, 5 in the code
  Words,        \* words firmware writes to compares and counter
  ExternalRates, OcpRate, \* ticks per time unit of the two clock sources
  Steps,        \* units that may elapse in one observation
  MaxElapsed,   \* bound: units observed at one rate
  Batches       \* bound: the numbers of ticks for which batch and single ticks
                \* are compared

Rates == ExternalRates \cup {OcpRate}
Modulus == Half * Half
Counts == 0..Modulus-1

ASSUME HalfAssumption == Half \in Nat \ {0}
ASSUME CompareAssumption == 0 \in Compares
ASSUME IncAssumption == Increments \subseteq Nat /\ ResetInc \in Increments
ASSUME WordAssumption == Words \subseteq 0..Half-1
ASSUME RateAssumption == Rates \subseteq (Nat \ {0}) \X (Nat \ {0})
ASSUME StepAssumption == Steps \subseteq Nat /\ MaxElapsed \in Nat
ASSUME BatchAssumption == Batches \subseteq Nat

VARIABLES
  cnt_enable, default_inc,            \* GLOBAL_CFG
  count,
  cmp_en, cmp0_rst_cnt_en,            \* CMP_CFG
  compare, cmp_status,
  cap_en, cap_status, capture,
  iepclk,                             \* IEPCLK_OCP_EN
  external_clock,
  tick_remainder,
  elapsed, ticks                      \* history: time and ticks since the timing
                                      \* last changed

cmp_config == <<cmp_en, cmp0_rst_cnt_en, compare>>
captures == <<cap_en, cap_status, capture>>
clocks   == <<iepclk, external_clock>>
phase    == <<tick_remainder, elapsed, ticks>>
registers == <<cnt_enable, default_inc, count, cmp_config, cmp_status, captures>>
vars == <<registers, clocks, phase>>

active_clock == IF iepclk THEN OcpRate ELSE external_clock
numerator == IF cnt_enable THEN active_clock[1] ELSE 0
denominator == IF cnt_enable THEN active_clock[2] ELSE 1
-----------------------------------------------------------------------------
(***************************************************************************)
(* _advance_ticks: n ticks at once.                                        *)
(***************************************************************************)
Divides(d, n) == n % d = 0
\* Of each increment: its gcd with 2^64, and its inverse once that is divided out.
gcd == [inc \in Increments |->
  LET common == {d \in 1..Modulus : Divides(d, inc) /\ Divides(d, Modulus)}
  IN  CHOOSE d \in common : \A e \in common : e <= d]
inverses == [inc \in Increments |->
  LET cycle == Modulus \div gcd[inc]
  IN  CHOOSE x \in 0..cycle-1 : (x * (inc \div gcd[inc])) % cycle = 1 % cycle]

divisor == gcd[default_inc]
period == Modulus \div divisor

NoHit == 0

\* Seeded fault: a compare equal to the count is hit without a tick.
HitAtOnce(d) == d
\* The count a compare is equal to comes round again after a whole period.
NextHit(d) == IF d = 0 THEN period ELSE d

\* Ticks from a count until the counter equals a value.
hit_distance(start, value) ==
  LET delta == (value - start) % Modulus
  IN  IF default_inc = 0 THEN (IF delta = 0 THEN 1 ELSE NoHit)
      ELSE IF ~Divides(divisor, delta) THEN NoHit
      ELSE NextHit(((delta \div divisor) * inverses[default_inc]) % period)

Hits(start, length) == {j \in cmp_en : hit_distance(start, compare[j]) \in 1..length}

AdvanceTicks(n) ==
  LET first == IF cmp0_rst_cnt_en /\ 0 \in cmp_en
               THEN hit_distance(count, compare[0]) ELSE NoHit
      left == n - first
      loop == hit_distance(0, compare[0])
      loops == loop # NoHit /\ left >= loop
      rest == IF loops THEN left % loop ELSE left
  IN  IF first = NoHit \/ first > n
      THEN [count |-> (count + n * default_inc) % Modulus, hits |-> Hits(count, n)]
      ELSE [count |-> (rest * default_inc) % Modulus,
            hits  |-> Hits(count, first) \cup (IF loops THEN Hits(0, loop) ELSE {})
                      \cup Hits(0, rest)]
-----------------------------------------------------------------------------
ResetRegisters ==
  /\ cnt_enable' = FALSE /\ default_inc' = ResetInc /\ count' = 0
  /\ cmp_en' = {} /\ cmp0_rst_cnt_en' = FALSE /\ cmp_status' = {}
  /\ compare' = [j \in Compares |-> 0]
  /\ cap_en' = {} /\ cap_status' = {} /\ capture' = [n \in Captures |-> 0]
  /\ tick_remainder' = 0 /\ elapsed' = 0 /\ ticks' = 0

Init ==
  /\ cnt_enable = FALSE /\ default_inc = ResetInc /\ count = 0
  /\ cmp_en = {} /\ cmp0_rst_cnt_en = FALSE /\ cmp_status = {}
  /\ compare = [j \in Compares |-> 0]
  /\ cap_en = {} /\ cap_status = {} /\ capture = [n \in Captures |-> 0]
  /\ tick_remainder = 0 /\ elapsed = 0 /\ ticks = 0
  /\ iepclk = FALSE /\ external_clock \in ExternalRates

\* The external clock rate is a setting of the host and survives.
HardwareReset ==
  /\ ResetRegisters
  /\ iepclk' = FALSE
  /\ UNCHANGED external_clock

\* observe_core_cycles once time has passed.  A rate of whole ticks per unit
\* needs no remainder: it is the division with denominator one.
Observe(units) ==
  /\ elapsed + units <= MaxElapsed
  /\ LET due == tick_remainder + units * numerator
         whole == due \div denominator
         new == AdvanceTicks(whole)
     IN  IF cnt_enable
         THEN /\ tick_remainder' = due % denominator
              /\ count' = new.count
              /\ cmp_status' = cmp_status \cup new.hits
              /\ elapsed' = elapsed + units /\ ticks' = ticks + whole
         ELSE UNCHANGED <<count, cmp_status, phase>>
  /\ UNCHANGED <<cnt_enable, default_inc, cmp_config, captures, clocks>>
-----------------------------------------------------------------------------
(***************************************************************************)
(* Register and host writes.                                               *)
(***************************************************************************)
timing == <<cnt_enable, default_inc, active_clock>>

\* Seeded fault: the remainder of the old rate is carried into the new one.
CarriedOver(changed) == tick_remainder
RemainderAfter(changed) == IF changed THEN 0 ELSE tick_remainder

\* A change of rate or increment starts a new phase, any other write does not.
Retime ==
  /\ tick_remainder' = RemainderAfter(timing' # timing)
  /\ IF timing' # timing THEN elapsed' = 0 /\ ticks' = 0 ELSE UNCHANGED <<elapsed, ticks>>

WriteGlobalCfg ==
  /\ cnt_enable' \in BOOLEAN /\ default_inc' \in Increments
  /\ UNCHANGED <<clocks, count, cmp_config, cmp_status, captures>>
  /\ Retime

WriteIepclk ==
  /\ iepclk' \in BOOLEAN
  /\ UNCHANGED <<registers, external_clock>>
  /\ Retime

set_clock_mhz ==
  /\ external_clock' \in ExternalRates
  /\ UNCHANGED <<registers, iepclk>>
  /\ Retime

\* One word of a 64-bit register.
WithWord(old, word, upper) ==
  IF upper THEN word * Half + (old % Half) ELSE (old \div Half) * Half + word

WriteCount(word, upper) ==
  /\ count' = WithWord(count, word, upper)
  /\ UNCHANGED <<cnt_enable, default_inc, cmp_config, cmp_status, captures, clocks, phase>>

WriteCompare(j, word, upper) ==
  /\ compare' = [compare EXCEPT ![j] = WithWord(@, word, upper)]
  /\ UNCHANGED <<cnt_enable, default_inc, count, cmp_en, cmp0_rst_cnt_en, cmp_status,
                 captures, clocks, phase>>

WriteCmpCfg ==
  /\ cmp_en' \in SUBSET Compares /\ cmp0_rst_cnt_en' \in BOOLEAN
  /\ UNCHANGED <<cnt_enable, default_inc, count, compare, cmp_status, captures, clocks,
                 phase>>

WriteCapCfg ==
  /\ cap_en' \in SUBSET Captures
  /\ UNCHANGED <<cnt_enable, default_inc, count, cmp_config, cmp_status, cap_status,
                 capture, clocks, phase>>

\* A write of `ones' to some bytes of a status word: the bytes not written are
\* read back and written with it.
WordWritten(status, bytes, ones) == ones \cup {b \in status : ByteOf(b) \notin bytes}

WriteCmpStatus(bytes, ones) ==
  /\ \A b \in ones : ByteOf(b) \in bytes
  /\ cmp_status' = cmp_status \ WordWritten(cmp_status, bytes, ones)
  /\ UNCHANGED <<cnt_enable, default_inc, count, cmp_config, captures, clocks, phase>>

WriteCapStatus(bytes, ones) ==
  /\ \A b \in ones : ByteOf(b) \in bytes
  /\ cap_status' = cap_status \ WordWritten(cap_status, bytes, ones)
  /\ UNCHANGED <<cnt_enable, default_inc, count, cmp_config, cmp_status, cap_en, capture,
                 clocks, phase>>

\* Seeded fault: a valid capture is overwritten by the next event.
Overwrites(n) == n \in cap_en
Latches(n) == n \in cap_en /\ n \notin cap_status

capture_event(n) ==
  /\ Latches(n)
  /\ capture' = [capture EXCEPT ![n] = count]
  /\ cap_status' = cap_status \cup {n}
  /\ UNCHANGED <<cnt_enable, default_inc, count, cmp_config, cmp_status, cap_en, clocks,
                 phase>>
-----------------------------------------------------------------------------
Bytes == {ByteOf(b) : b \in Compares \cup Captures}

StatusWrite ==
  \E bytes \in SUBSET Bytes :
    \/ \E ones \in SUBSET Compares : WriteCmpStatus(bytes, ones)
    \/ \E ones \in SUBSET Captures : WriteCapStatus(bytes, ones)

Next ==
  \/ \E units \in Steps : Observe(units)
  \/ WriteGlobalCfg \/ WriteIepclk \/ set_clock_mhz
  \/ \E word \in Words, upper \in BOOLEAN :
       WriteCount(word, upper) \/ \E j \in Compares : WriteCompare(j, word, upper)
  \/ WriteCmpCfg \/ WriteCapCfg \/ StatusWrite
  \/ \E n \in Captures : capture_event(n)
  \/ HardwareReset

Spec == Init /\ [][Next]_vars
-----------------------------------------------------------------------------
(***************************************************************************)
(* Properties.                                                             *)
(***************************************************************************)
\* Types of the variables; the flags apart from the numbers.
FlagsOK == cnt_enable \in BOOLEAN /\ cmp0_rst_cnt_en \in BOOLEAN /\ iepclk \in BOOLEAN
TypeOK ==
  /\ FlagsOK
  /\ default_inc \in Increments /\ count \in Counts
  /\ cmp_en \subseteq Compares /\ cmp_status \subseteq Compares
  /\ compare \in [Compares -> Counts]
  /\ cap_en \subseteq Captures /\ cap_status \subseteq Captures
  /\ capture \in [Captures -> Counts]
  /\ external_clock \in ExternalRates
  /\ tick_remainder \in Nat /\ elapsed \in Nat /\ ticks \in Nat

\* Integer time units "do not accumulate float drift": however the elapsed time
\* was cut into observations, the ticks counted since the timing last changed and
\* the remainder are exactly that time at the present rate, and the remainder is
\* less than a tick -- across writes that change nothing, too.
PhaseExact ==
  cnt_enable => /\ elapsed * numerator = ticks * denominator + tick_remainder
                /\ tick_remainder < denominator

\* tick(): one cycle of the timer as the TRM tells it.
TickOnce(s) ==
  LET new == (s.count + default_inc) % Modulus
      hits == {j \in cmp_en : compare[j] = new}
  IN  [count |-> IF 0 \in hits /\ cmp0_rst_cnt_en THEN 0 ELSE new,
       hits  |-> s.hits \cup hits]

TickByTick(n) ==
  LET after[k \in 0..n] == IF k = 0 THEN [count |-> count, hits |-> {}]
                           ELSE TickOnce(after[k-1])
  IN  after[n]

\* The closed form that advances many ticks at once, with modular inverses for
\* the hits and a division for the resets by CMP0, is the timer ticked one by one:
\* for every increment, compare set-up and count firmware can bring about.
BatchMatchesTicks == \A n \in Batches : AdvanceTicks(n) = TickByTick(n)

\* A valid capture keeps its value until software clears the valid bit, whatever
\* events, counts and enables come in between; only a reset replaces it.
CaptureHeld ==
  [][HardwareReset \/
     \A n \in cap_status \cap cap_status' : capture'[n] = capture[n]]_vars

\* "CMP_STATUS, write 1 to clear": a write clears the flags it has ones for and
\* no other.
WriteOneToClear ==
  [][\A bytes \in SUBSET Bytes, ones \in SUBSET Compares :
       WriteCmpStatus(bytes, ones) => cmp_status' = cmp_status \ ones]_vars
=============================================================================
