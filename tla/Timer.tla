------------------------------- MODULE Timer -------------------------------
(***************************************************************************)
(* A counter of the i8253: its modes, the load and read sequences, the     *)
(* latch and the clock.  The three counters of TimerI8253 share nothing;   *)
(* a control word selects one.  A byte has Base values, a count of 0 means *)
(* Base * Base clocks; counting in BCD changes that number only and is     *)
(* left out.                                                               *)
(***************************************************************************)
EXTENDS Integers

CONSTANT Base       \* 256 in the machine

ASSUME TimerAssumption == Base \in Nat \ {0} /\ Base % 2 = 0

VARIABLES
  counter,   \* the registers of CounterUnit
  wave,      \* ghost: the clocks since the output changed, the changes since the load
             \* (two stand for more) and how long the last half took, from the third on
  latched    \* ghost: the count latched and not read yet, and the first byte read of it

timerVars == <<counter, wave, latched>>

Full == Base * Base
CountByte == 0..(Base - 1)
LATCH_DELAY == 1

Fresh ==
  [mode |-> 0, latchMode |-> 0, writeState |-> 0, lsb |-> 0, loadValue |-> 0, value |-> 0,
   latchValue |-> -1, out |-> 0, delay |-> 0, armed |-> FALSE, load |-> FALSE, enabled |-> FALSE]

-----------------------------------------------------------------------------
Reload(c) == IF c.loadValue = 0 THEN Full ELSE c.loadValue

(* One mode's work in a clock, after the delay. *)
InterruptOnTerminalCount(c) ==
  LET l == IF c.load THEN [c EXCEPT !.value = c.loadValue, !.enabled = TRUE, !.armed = TRUE, !.out = 0]
                     ELSE c
      left == l.value - 1
  IN  IF left > 0 THEN [l EXCEPT !.value = left]
      ELSE [l EXCEPT !.value = left + Full, !.armed = FALSE,
                     !.out = IF l.armed /\ l.value # 0 THEN 1 ELSE @]
OneShot(c) ==
  LET left == c.value - 1
  IN  [c EXCEPT !.enabled = TRUE,
         !.value = IF left > 0 THEN left
                   ELSE left + (IF c.loadValue = 0 THEN Full ELSE c.loadValue + 1)]
Loaded(c) == IF ~c.enabled /\ c.load THEN [c EXCEPT !.value = c.loadValue, !.enabled = TRUE] ELSE c
RateGenerator(c) ==
  LET l == Loaded(c)
      left == l.value - 1
  IN  [l EXCEPT !.value = IF left > 0 THEN left ELSE left + Reload(l)]
SquareWave(c) ==
  LET l == Loaded(c)
      left == l.value - (IF l.value = l.loadValue /\ l.value % 2 = 1
                         THEN (IF l.out = 0 THEN 3 ELSE 1) ELSE 2)
  IN  IF left > 0 THEN [l EXCEPT !.value = left]
      ELSE [l EXCEPT !.value = left + Reload(l), !.out = 1 - @]

Clocked(c) ==
  IF c.delay > 0 THEN [c EXCEPT !.delay = @ - 1]
  ELSE IF ~c.enabled /\ ~c.load THEN c
  ELSE LET d == CASE c.mode = 0 -> InterruptOnTerminalCount(c)
                  [] c.mode = 1 -> OneShot(c)
                  [] c.mode = 2 -> RateGenerator(c)
                  [] c.mode = 3 -> SquareWave(c)
       IN  [d EXCEPT !.load = FALSE]

(* A control word clocks the counter once more, and delays the next clock. *)
Delayed(c) == [Clocked(c) EXCEPT !.delay = LATCH_DELAY]
WithMode(c, mode, latchMode) ==
  [Delayed(c) EXCEPT !.mode = mode, !.out = IF mode = 0 THEN 0 ELSE 1,
     !.armed = @ \/ mode \in {0, 1}, !.enabled = FALSE, !.load = FALSE,
     !.latchMode = latchMode, !.writeState = 0]
(* Mutant: the count is not latched. *)
WithoutLatch(c) == Delayed(c)
WithLatch(c) == LET d == Delayed(c) IN [d EXCEPT !.latchValue = d.value]

(* A byte written; the count it completes is loaded at a later clock. *)
Loading(c) ==
  [c EXCEPT !.load = TRUE, !.delay = IF c.mode = 0 \/ ~c.enabled THEN 3 ELSE @]
WithByte(c, v) ==
  CASE c.latchMode = 3 /\ c.writeState = 0 -> LET d == [c EXCEPT !.lsb = v, !.writeState = 1]
                                              IN  IF c.load THEN Loading(d) ELSE d
    [] c.latchMode = 3 /\ c.writeState = 1 ->
         Loading([c EXCEPT !.writeState = 0, !.loadValue = v * Base + c.lsb])
    [] c.latchMode = 1 -> Loading([c EXCEPT !.loadValue = v])
    [] c.latchMode = 2 -> Loading([c EXCEPT !.value = v * Base, !.loadValue = v * Base])
    [] c.latchMode = 0 -> IF c.load THEN Loading(c) ELSE c

Reading(c) == IF c.latchValue # -1 THEN c.latchValue ELSE c.value
LowByte(n) == n % Base
HighByte(n) == (n \div Base) % Base
(* Reading shares the byte order's state with writing. *)
ByteRead(c) ==
  CASE c.latchMode = 0 -> 0
    [] c.latchMode = 1 \/ (c.latchMode = 3 /\ c.writeState = 0) -> LowByte(Reading(c))
    [] c.latchMode = 2 \/ (c.latchMode = 3 /\ c.writeState = 1) -> HighByte(Reading(c))
AfterRead(c) ==
  CASE c.latchMode = 0 -> c
    [] c.latchMode \in {1, 2} -> [c EXCEPT !.latchValue = -1]
    [] c.latchMode = 3 /\ c.writeState = 0 -> [c EXCEPT !.writeState = 1]
    [] c.latchMode = 3 /\ c.writeState = 1 -> [c EXCEPT !.latchValue = -1, !.writeState = 0]

-----------------------------------------------------------------------------
(* The wave starts anew, of unknown length, with a load or a mode.  An odd *)
(* count that is loaded into a running counter may find one clock too few  *)
(* left for it, at the first change of the output: the half that follows   *)
(* is that clock short.                                                    *)
NoWave == [clocks |-> 0, changes |-> 0, last |-> -1]
NotLatched == [count |-> -1, low |-> -1, read |-> -1]

Clock ==
  /\ counter' = Clocked(counter)
  /\ wave' = IF counter.delay > 0 THEN wave
             ELSE IF counter'.out # counter.out
             THEN [clocks |-> 0, last |-> IF wave.changes = 2 THEN wave.clocks + 1 ELSE -1,
                   changes |-> IF counter.mode # 3 \/ counter.load THEN 0
                               ELSE IF wave.changes = 2 THEN 2 ELSE wave.changes + 1]
             ELSE IF wave.changes = 0 THEN wave
             ELSE [wave EXCEPT !.clocks = IF @ < 2 * Full THEN @ + 1 ELSE @]
  /\ UNCHANGED latched

SetMode(mode, latchMode) ==
  /\ counter' = WithMode(counter, mode, latchMode) /\ wave' = NoWave /\ latched' = NotLatched
LatchCount ==
  /\ counter' = WithLatch(counter) /\ wave' = NoWave
  /\ latched' = IF counter.latchMode = 3 /\ counter.writeState = 0
                THEN [count |-> counter'.value, low |-> -1, read |-> -1] ELSE NotLatched
Write(v) ==
  /\ counter' = WithByte(counter, v)
  /\ wave' = NoWave /\ latched' = NotLatched
ReadCounter ==
  LET v == ByteRead(counter)
  IN  /\ counter' = AfterRead(counter)
      /\ latched' = IF latched.count = -1 \/ latched.read # -1 THEN NotLatched
                    ELSE IF latched.low = -1 THEN [latched EXCEPT !.low = v]
                    ELSE [latched EXCEPT !.read = v * Base + latched.low]
      /\ UNCHANGED wave
TimerReset == counter' = Fresh /\ wave' = NoWave /\ latched' = NotLatched

TimerInit == counter = Fresh /\ wave = NoWave /\ latched = NotLatched
(* Loading 1 in mode 3 makes the count drift below zero, clock by clock:   *)
(* bound, a program does not.                                              *)
Sensible(c) == c.mode # 3 \/ c.loadValue # 1
TimerNext ==
  \/ Clock \/ LatchCount \/ ReadCounter \/ TimerReset
  \/ \E mode \in 0..3, latchMode \in 1..3 : Sensible([counter EXCEPT !.mode = mode]) /\ SetMode(mode, latchMode)
  \/ \E v \in CountByte : Sensible(WithByte(counter, v)) /\ Write(v)

-----------------------------------------------------------------------------
TimerTypeOK ==
  /\ counter.mode \in 0..3 /\ counter.latchMode \in 0..3 /\ counter.writeState \in 0..1
  /\ counter.lsb \in CountByte /\ counter.loadValue \in 0..(Full - 1) /\ counter.latchValue \in -1..Full
  /\ counter.out \in 0..1 /\ counter.delay \in 0..3
  /\ {counter.armed, counter.load, counter.enabled} \subseteq BOOLEAN

(* From the second change of the output after a load, the square wave of a *)
(* count n is high for half of n clocks, rounded up, and low for the rest; *)
(* the count never leaves 0..Full; and a latched count is read whole, both *)
(* bytes of it, however many clocks, loads' ends and reloads come between  *)
(* them (Clock(), Latch(), Read(), Write()).                               *)
CounterExact ==
  /\ counter.value \in 0..Full
  /\ counter.mode = 3 /\ wave.last # -1 =>
       LET n == Reload(counter)
       IN  wave.last = IF counter.out = 0 THEN (n + 1) \div 2 ELSE n \div 2
  /\ latched.read # -1 => latched.read = latched.count % Full
=============================================================================
