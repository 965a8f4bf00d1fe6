-------------------------------- MODULE IO --------------------------------
(***************************************************************************)
(* The ports: the 8255 with the keyboard behind it, the palette and the    *)
(* delayed effect of OUT.  io is a record of the port's latches and        *)
(* timers, kb one of the keys; the timer, the sound chip, the disk and the *)
(* RAM disks behind the other ports are modules of their own.              *)
(***************************************************************************)
EXTENDS Integers, Sequences, FiniteSets

CONSTANTS
  OutCommitTime, PaletteCommitTime, DisplayModeTime,   \* in pixels
  PaletteLen

ASSUME IOAssumption ==
  /\ {OutCommitTime, PaletteCommitTime, DisplayModeTime} \subseteq Nat \ {0}
  /\ OutCommitTime <= PaletteCommitTime /\ OutCommitTime <= DisplayModeTime
  /\ PaletteLen \in 1..16

Byte8 == 0..255
Weight == <<1, 2, 4, 8, 16, 32, 64, 128>>
BitOf(v, i) == (v \div Weight[i + 1]) % 2
(* Mutant: a bit is never reset. *)
SetBitOnly(v, i, b) == IF BitOf(v, i) = 1 THEN v ELSE v + b * Weight[i + 1]
SetBit(v, i, b) == v + (b - BitOf(v, i)) * Weight[i + 1]
Color == 0..(PaletteLen - 1)
PaletteOut == {12, 13, 14, 15}      \* PORT_OUT_BORDER_COLOR0 to 3
DisplayModeOut == 2                 \* PORT_OUT_DISPLAY_MODE

IOInit ==
  [cw |-> 8, a |-> 255, b |-> 255, c |-> 255, ruslat |-> 0, hwColor |-> 0, brdColorIdx |-> 0,
   palette |-> [i \in Color |-> 0], reqDisplayMode |-> FALSE, mode512 |-> FALSE,
   port |-> 0, byte |-> 0, outTimer |-> 0, paletteTimer |-> 0, modeTimer |-> 0]
(* Init() on reset: the display mode asked for last stays.                 *)
IOReset(io) == [IOInit EXCEPT !.reqDisplayMode = io.reqDisplayMode]

-----------------------------------------------------------------------------
(* The keyboard's matrix: column 0 first.  Column 6 of row 7 has no key,   *)
(* and GRAVE is wired to the X.                                            *)
Matrix == <<
  <<"TAB", "RALT", "RETURN", "BACKSPACE", "LEFT", "UP", "RIGHT", "DOWN">>,
  <<"F7", "F8", "ESCAPE", "F1", "F2", "F3", "F4", "F5">>,
  <<"0", "1", "2", "3", "4", "5", "6", "7">>,
  <<"8", "9", "APOSTROPHE", "SEMICOLON", "COMMA", "PLUS", "PERIOD", "SLASH">>,
  <<"MINUS", "A", "B", "C", "D", "E", "F", "G">>,
  <<"H", "I", "J", "K", "L", "M", "N", "O">>,
  <<"P", "Q", "R", "S", "T", "U", "V", "W">>,
  <<"X", "Y", "Z", "LBRACKET", "BACKSLASH", "RBRACKET", "NONE", "SPACE">> >>
InMatrix(key) == key = "GRAVE" \/ \E r, c \in 1..8 : Matrix[r][c] = key
Place(key) ==
  IF key = "GRAVE" THEN <<7, 0>>
  ELSE CHOOSE p \in (0..7) \X (0..7) : Matrix[p[1] + 1][p[2] + 1] = key

SSKeys == {"LSHIFT", "RSHIFT"}
USKeys == {"LCTRL"}
RusKeys == {"LGUI", "LALT", "F6"}

KeyboardInit == [pressed |-> {}, ss |-> FALSE, us |-> FALSE, rus |-> FALSE]
KeyHandling(kb, key, down) ==
  CASE key \in SSKeys -> [kb EXCEPT !.ss = down]
    [] key \in USKeys -> [kb EXCEPT !.us = down]
    [] key \in RusKeys -> [kb EXCEPT !.rus = down]
    [] InMatrix(key) -> [kb EXCEPT !.pressed = IF down THEN @ \cup {Place(key)} ELSE @ \ {Place(key)}]
    [] OTHER -> kb
(* F11 and F12 reboot when they are released. *)
Reboots(key, down) == key \in {"F11", "F12"} /\ ~down

(* Rows are selected by zeros, and pressed keys read as zeros. *)
ReadRows(kb, rows) ==
  LET low == {p[2] : p \in {q \in kb.pressed : BitOf(rows, q[1]) = 0}}
      sum[i \in 0..8] == IF i = 0 THEN 0 ELSE sum[i - 1] + (IF i - 1 \in low THEN 0 ELSE Weight[i])
  IN  sum[8]

-----------------------------------------------------------------------------
(* Ports 0 to 3 are the 8255; a bit of the control word set makes a port   *)
(* an input.  Port C's low half reads a constant, its high half the keys   *)
(* beside the matrix.                                                      *)
PortInHandling(io, kb, port) ==
  LET key(pressed, bit) == IF pressed THEN 0 ELSE Weight[bit + 1]
  IN  CASE port = 1 ->
             (IF BitOf(io.cw, 0) = 1 THEN 11 ELSE io.c % 16)
             + (IF BitOf(io.cw, 3) = 1 THEN key(kb.ss, 5) + key(kb.us, 6) + key(kb.rus, 7)
                ELSE (io.c \div 16) * 16)
        [] port = 2 -> IF BitOf(io.cw, 1) = 1 THEN ReadRows(kb, io.a) ELSE io.b
        [] port = 3 -> IF BitOf(io.cw, 4) = 1 THEN 255 ELSE io.a
        [] OTHER -> 255

(* What an OUT does once it is committed.  A control word sets a bit of    *)
(* port C, or the mode: then ports A, B and C are cleared, by the handlers *)
(* of the three OUTs.                                                      *)
RusLat(io) == [io EXCEPT !.ruslat = BitOf(io.c, 3)]
PortB(io, v) == [io EXCEPT !.b = v, !.brdColorIdx = v % 16, !.reqDisplayMode = (BitOf(v, 4) = 1)]
PortC(io, v) == [RusLat(io) EXCEPT !.c = v]
PortOutHandling(io, port, v) ==
  CASE port = 0 /\ v < 128 -> [RusLat(io) EXCEPT !.c = SetBit(@, (v \div 2) % 8, v % 2)]
    [] port = 0 /\ v >= 128 -> [PortB(PortC([RusLat(io) EXCEPT !.cw = v], 0), 0) EXCEPT !.a = 0]
    [] port = 1 -> PortC(io, v)
    [] port = 2 -> PortB(io, v)
    [] port = 3 -> [io EXCEPT !.a = v]
    [] port \in PaletteOut -> [io EXCEPT !.hwColor = v]
    [] OTHER -> io

(* OUT itself only notes the port and the byte and starts timers, which    *)
(* every pixel drawn with port handling counts down.                       *)
PortOut(io, port, v) ==
  [io EXCEPT !.port = port, !.byte = v, !.outTimer = OutCommitTime,
             !.paletteTimer = IF port \in PaletteOut THEN PaletteCommitTime ELSE @,
             !.modeTimer = IF port = DisplayModeOut THEN DisplayModeTime ELSE @]

Tick(timer) == IF timer > 0 THEN timer - 1 ELSE 0
TryToCommit(io, colorIdx) ==
  LET out == IF io.outTimer = 1 THEN PortOutHandling(io, io.port, io.byte) ELSE io
  IN  [out EXCEPT !.outTimer = Tick(@), !.paletteTimer = Tick(@), !.modeTimer = Tick(@),
         !.palette = IF io.paletteTimer = 1 THEN [@ EXCEPT ![colorIdx] = out.hwColor] ELSE @,
         !.mode512 = IF io.modeTimer = 1 THEN out.reqDisplayMode ELSE @]
=============================================================================
