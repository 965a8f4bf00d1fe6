------------------------------- MODULE Ports -------------------------------
(***************************************************************************)
(* A program and a host at the two sides of the 8255: the program sets     *)
(* modes, bits and latches and reads them, the host presses keys.  An OUT  *)
(* is one step here: Display shows that it is over within one machine      *)
(* cycle, and the next instruction takes more than that.                   *)
(***************************************************************************)
EXTENDS IO

CONSTANTS
  Keys,     \* bound: the keys of the host
  Sent      \* bound: the bytes sent to each of the ports 0 to 3

(* No two keys of the host have one place: they would release each other. *)
ASSUME PortsAssumption ==
  /\ \A p \in DOMAIN Sent : p \in 0..3 /\ Sent[p] \subseteq Byte8
  /\ \A k, l \in Keys :
       \/ k = l
       \/ /\ ~ {k, l} \subseteq SSKeys /\ ~ {k, l} \subseteq RusKeys
          /\ ~InMatrix(k) \/ ~InMatrix(l) \/ Place(k) # Place(l)

VARIABLES
  pio, kb,
  held,     \* ghost: the keys the host holds down
  latch,    \* ghost: what the program set ports A, B and C to, C bit by bit
  inputs    \* ghost: the halves of the ports its control word made inputs

portVars == <<pio, kb, held, latch, inputs>>

Bits(v) == {i \in 0..7 : BitOf(v, i) = 1}
AllCleared == [a |-> 0, b |-> 0, c |-> {}]

(* IN and OUT as the program sees them; RUS/LAT may lag behind port C. *)
Committed(i) ==
  LET after[n \in 0..DisplayModeTime] ==
        IF n = 0 THEN i ELSE TryToCommit(after[n - 1], after[n - 1].brdColorIdx)
  IN  after[DisplayModeTime]
Out(port, v) ==
  /\ pio' = Committed(PortOut(pio, port, v))
  /\ latch' = CASE port = 0 /\ v >= 128 -> AllCleared
                [] port = 0 /\ v < 128 ->
                     [latch EXCEPT !.c = IF v % 2 = 1 THEN @ \cup {(v \div 2) % 8} ELSE @ \ {(v \div 2) % 8}]
                [] port = 1 -> [latch EXCEPT !.c = Bits(v)]
                [] port = 2 -> [latch EXCEPT !.b = v]
                [] port = 3 -> [latch EXCEPT !.a = v]
  /\ inputs' = IF port # 0 \/ v < 128 THEN inputs
               ELSE {h \in {"C low", "B", "C high", "A"} :
                       (CASE h = "C low" -> 0 [] h = "B" -> 1 [] h = "C high" -> 3 [] h = "A" -> 4)
                         \in Bits(v)}
  /\ UNCHANGED <<kb, held>>

Key(key, down) ==
  /\ ~Reboots(key, down)
  /\ kb' = KeyHandling(kb, key, down)
  /\ held' = IF down THEN held \cup {key} ELSE held \ {key}
  /\ UNCHANGED <<pio, latch, inputs>>

(* Hardware::Init() on reset; the keyboard stays as it is, and F11 ends    *)
(* not being held.                                                         *)
PortsReset ==
  /\ pio' = IOReset(pio) /\ latch' = [a |-> 255, b |-> 255, c |-> 0..7] /\ inputs' = {"C high"}
  /\ UNCHANGED <<kb, held>>

PortsInit ==
  /\ pio = IOInit /\ kb = KeyboardInit /\ held = {}
  /\ latch = [a |-> 255, b |-> 255, c |-> 0..7] /\ inputs = {"C high"}
PortsNext ==
  \/ \E p \in DOMAIN Sent : \E v \in Sent[p] : Out(p, v)
  \/ \E key \in Keys, down \in BOOLEAN : Key(key, down)
  \/ PortsReset

-----------------------------------------------------------------------------
PortsTypeOK ==
  /\ {pio.cw, pio.a, pio.b, pio.c, pio.hwColor, pio.port, pio.byte} \subseteq Byte8
  /\ pio.ruslat \in 0..1 /\ pio.palette \in [Color -> Byte8]
  /\ kb.pressed \subseteq (0..7) \X (0..7) /\ {kb.ss, kb.us, kb.rus} \subseteq BOOLEAN
  /\ held \subseteq Keys

In(port) == Bits(PortInHandling(pio, kb, port))
Down(keys) == held \cap keys # {}

(* Whatever the order of modes, bits, latches and keys, a port reads what  *)
(* it was set to last or, made an input, the keys that are held now: for   *)
(* the columns, in the rows port A selects (PortOutHandling(),             *)
(* PortInHandling(), KeyHandling(), Read()).  The host's keys have one     *)
(* place each: two keys of one place release each other.                   *)
PortsExact ==
  /\ \A i \in 0..7 : i \in In(2) <=>
       IF "B" \in inputs
       THEN \A key \in held : InMatrix(key) => Place(key)[1] \in Bits(latch.a) \/ Place(key)[2] # i
       ELSE i \in Bits(latch.b)
  /\ \A i \in 4..7 : i \in In(1) <=>
       IF "C high" \in inputs
       THEN i > 4 /\ ~Down(CASE i = 5 -> SSKeys [] i = 6 -> USKeys [] i = 7 -> RusKeys)
       ELSE i \in latch.c
  /\ \A i \in 0..3 : i \in In(1) <=> IF "C low" \in inputs THEN i # 2 ELSE i \in latch.c
  /\ In(3) = IF "A" \in inputs THEN 0..7 ELSE Bits(latch.a)
=============================================================================
