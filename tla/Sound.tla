------------------------------- MODULE Sound -------------------------------
(***************************************************************************)
(* The sound chip: its registers, three tones, the noise and the envelope. *)
(* How the channels are mixed and how loud they are leaves no state and is *)
(* left out.                                                               *)
(***************************************************************************)
EXTENDS Integers

CONSTANTS
  LowTap,      \* the bits a 1 shifted out of the noise register inverts: 0x4000
  HighTap,     \* and 0x20000 in the chip, the bit above the register
  Tunes        \* bound: what programs write, sets of registers and values

ASSUME SoundAssumption ==
  /\ {LowTap, HighTap} \subseteq Nat \ {0} /\ HighTap % (2 * LowTap) = 0
  /\ \A writes \in Tunes : writes \subseteq (0..15) \X (0..255)

VARIABLES
  ay,          \* the members of SoundAY8910
  tune,        \* ghost: the register writes of this behaviour's program
  envelope,    \* ghost: the shape asked for and how far the envelope has come
  tones        \* ghost: by channel, the clocks since the tone changed, whether its
               \* period was the same all the time, and how long the last half took
soundVars == <<ay, tune, envelope, tones>>

Channel == 0..2
SHAPE == 13

-----------------------------------------------------------------------------
TonePeriod(ch) == ay.ayr[2 * ch] + 256 * ay.ayr[2 * ch + 1]
EnvelopePeriod == 2 * (ay.ayr[11] + 256 * ay.ayr[12])
NoisePeriod == 2 * ay.ayr[6]

(* The shape's bits; without CONT it is made of another shape. *)
Ay13(v) ==
  CASE v < 4 -> [att |-> FALSE, alt |-> FALSE, hold |-> TRUE]
    [] v \in 4..7 -> [att |-> TRUE, alt |-> TRUE, hold |-> TRUE]
    [] v >= 8 -> [att |-> v \in 12..15, alt |-> v % 4 >= 2, hold |-> v % 2 = 1]

(* Mutant: the last ramp's direction decides. *)
HeldByRamp(c) == IF c.ay13.att THEN 15 ELSE 0
Held(c) == IF c.ay13.att # c.ay13.alt THEN 15 ELSE 0
EStep(c) ==
  LET wrapped == c.envx = 16
      att == IF wrapped /\ c.ay13.alt THEN ~c.ay13.att ELSE c.ay13.att
      x == IF wrapped THEN 0 ELSE c.envx
  IN  IF wrapped /\ c.ay13.hold
      THEN [c EXCEPT !.envv = Held(c)]
      ELSE [c EXCEPT !.envx = x + 1, !.ay13.att = att, !.envv = IF att THEN x ELSE 15 - x]
EnvelopeClock(c) ==
  IF c.envc + 1 < EnvelopePeriod THEN [c EXCEPT !.envc = @ + 1] ELSE EStep([c EXCEPT !.envc = 0])
Inverted(v, bit) == IF (v \div bit) % 2 = 1 THEN v - bit ELSE v + bit
Tapped(v) == IF v % 2 = 1 THEN Inverted(Inverted(v, HighTap), LowTap) ELSE v
NoiseClock(c) ==
  IF c.noic + 1 < NoisePeriod THEN [c EXCEPT !.noic = @ + 1]
  ELSE [c EXCEPT !.noic = 0, !.noiv = c.noir % 2, !.noir = Tapped(@) \div 2]
Toggles(ch) == ay.toneCount[ch] + 1 >= TonePeriod(ch)
CStep(c) ==
  [c EXCEPT !.toneCount = [ch \in Channel |-> IF Toggles(ch) THEN 0 ELSE @[ch] + 1],
            !.tons = [ch \in Channel |-> @[ch] # Toggles(ch)]]

-----------------------------------------------------------------------------
Clock8910 ==
  /\ ay' = CStep(NoiseClock(EnvelopeClock(ay)))
  /\ envelope' = IF ay.envc + 1 < EnvelopePeriod THEN envelope
                 ELSE [envelope EXCEPT !.steps = IF @ = 48 THEN 17 ELSE @ + 1]
  /\ tones' = [ch \in Channel |->
       CASE Toggles(ch) ->
              [clocks |-> 0, same |-> TRUE,
               last |-> IF tones[ch].same THEN tones[ch].clocks + 1 ELSE -1]
         [] ~Toggles(ch) ->
              [tones[ch] EXCEPT !.clocks = IF tones[ch].same THEN @ + 1 ELSE @]]
  /\ UNCHANGED tune

Select(r) == ay' = [ay EXCEPT !.ayreg = r] /\ UNCHANGED <<tune, envelope, tones>>

(* The registers are 4, 5 or 8 bits wide. *)
Masked(r, v) ==
  CASE r \in {1, 3, 5, SHAPE} -> v % 16 [] r \in {6, 8, 9, 10} -> v % 32
    [] r \in {0, 2, 4, 7, 11, 12, 14, 15} -> v
WriteSelected(v) ==
  /\ ay' = IF ay.ayreg = SHAPE
           THEN [ay EXCEPT !.ayr[SHAPE] = v % 16, !.envx = 0, !.ay13 = Ay13(v % 16)]
           ELSE [ay EXCEPT !.ayr[ay.ayreg] = Masked(ay.ayreg, v)]
  /\ envelope' = IF ay.ayreg = SHAPE THEN [shape |-> v % 16, steps |-> 0] ELSE envelope
  /\ tones' = [ch \in Channel |->
       IF ay.ayreg \in {2 * ch, 2 * ch + 1} THEN [clocks |-> 0, same |-> FALSE, last |-> -1] ELSE tones[ch]]
  /\ UNCHANGED tune

(* After a reset, and until it is given one, the envelope has the shape 8. *)
Silent ==
  [ayr |-> [r \in 0..15 |-> 0], toneCount |-> [ch \in Channel |-> 0],
   tons |-> [ch \in Channel |-> FALSE], envc |-> 0, envv |-> 0, envx |-> 0,
   ay13 |-> Ay13(8), noic |-> 0, noiv |-> 0, noir |-> 1, ayreg |-> 0]
Unheard == [ch \in Channel |-> [clocks |-> 0, same |-> TRUE, last |-> -1]]
Sawtooth == [shape |-> 8, steps |-> 0]

SoundReset == ay' = Silent /\ envelope' = Sawtooth /\ tones' = Unheard /\ UNCHANGED tune
SoundInit == ay = Silent /\ envelope = Sawtooth /\ tones = Unheard /\ tune \in Tunes
SoundNext ==
  \/ Clock8910
  \/ SoundReset
  \/ \E w \in tune : Select(w[1])
  \/ \E w \in tune : ay.ayreg = w[1] /\ WriteSelected(w[2])

-----------------------------------------------------------------------------
SoundTypeOK ==
  /\ ay.ayr \in [0..15 -> 0..255] /\ ay.ayreg \in 0..15 /\ ay.tons \in [Channel -> BOOLEAN]
  /\ ay.envv \in 0..15 /\ ay.envx \in 0..16 /\ ay.noiv \in 0..1 /\ ay.noir \in 0..(HighTap - 1)
  /\ \A ch \in Channel : ay.toneCount[ch] \in Nat

(* The n-th level of a shape, from 0: a ramp of 16 levels up or down, and  *)
(* then, by the bits CONT, ATT, ALT and HOLD, silence, the ramp again or   *)
(* the ramp back, or one level for ever.                                   *)
Level(shape, n) ==
  LET cont == shape >= 8
      att == (shape \div 4) % 2 = 1
      alt == (shape \div 2) % 2 = 1
      hold == shape % 2 = 1
      back == alt /\ (n \div 16) % 2 = 1
      up == att # back
  IN  CASE n < 16 -> IF att THEN n ELSE 15 - n
        [] n >= 16 /\ ~cont -> 0
        [] n >= 16 /\ cont /\ hold -> IF att # alt THEN 15 ELSE 0
        [] n >= 16 /\ cont /\ ~hold -> IF up THEN n % 16 ELSE 15 - (n % 16)

(* The envelope follows the shape that was asked for, through its wraps    *)
(* and changes of direction; half a tone lasts its period, at least one    *)
(* clock, when that was not changed meanwhile; and the noise never dies    *)
(* (EStep(), CStep(), Clock(), Write()).                                   *)
SoundExact ==
  /\ envelope.steps > 0 => ay.envv = Level(envelope.shape, envelope.steps - 1)
  /\ \A ch \in Channel :
       tones[ch].last # -1 => tones[ch].last = IF TonePeriod(ch) = 0 THEN 1 ELSE TonePeriod(ch)
  /\ ay.noir # 0
=============================================================================
