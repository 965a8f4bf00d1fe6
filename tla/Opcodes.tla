------------------------------ MODULE Opcodes ------------------------------
(***************************************************************************)
(* The processor's tables: how many machine cycles an opcode takes, what   *)
(* the other parts of the program believe of its length and its type, and  *)
(* which routine Decode() runs for it.                                     *)
(***************************************************************************)
EXTENDS Integers, Sequences

Opcode == 0..255
Same(n) == [i \in 1..16 |-> n]
Entry(table, op) == table[(op \div 16) + 1][(op % 16) + 1]

M_CYCLES ==
  << <<1, 3, 2, 2, 2, 2, 2, 1, 1, 3, 2, 2, 2, 2, 2, 1>>,
     <<1, 3, 2, 2, 2, 2, 2, 1, 1, 3, 2, 2, 2, 2, 2, 1>>,
     <<1, 3, 5, 2, 2, 2, 2, 1, 1, 3, 5, 2, 2, 2, 2, 1>>,
     <<1, 3, 4, 2, 3, 3, 3, 1, 1, 3, 4, 2, 2, 2, 2, 1>>,
     Same(2), Same(2), Same(2), [Same(2) EXCEPT ![6] = 1] >>
  \o [i \in 1..4 |-> [Same(1) EXCEPT ![7] = 2, ![15] = 2]]
  \o << <<4, 3, 3, 3, 6, 4, 2, 4, 4, 3, 3, 3, 6, 6, 2, 4>>,
        <<4, 3, 3, 3, 6, 4, 2, 4, 4, 3, 3, 3, 6, 6, 2, 4>>,
        <<4, 3, 3, 6, 6, 4, 2, 4, 4, 2, 3, 1, 6, 6, 2, 4>>,
        <<4, 3, 3, 1, 6, 4, 2, 4, 4, 2, 3, 1, 6, 6, 2, 4>> >>

INSTR_LENS ==
  << <<1, 3, 1, 1, 1, 1, 2, 1, 1, 1, 1, 1, 1, 1, 2, 1>>,
     <<1, 3, 1, 1, 1, 1, 2, 1, 1, 1, 1, 1, 1, 1, 2, 1>>,
     <<1, 3, 3, 1, 1, 1, 2, 1, 1, 1, 3, 1, 1, 1, 2, 1>>,
     <<1, 3, 3, 1, 1, 1, 2, 1, 1, 1, 3, 1, 1, 1, 2, 1>> >>
  \o [i \in 1..8 |-> Same(1)]
  \o << <<1, 1, 3, 3, 3, 1, 2, 1, 1, 1, 3, 1, 3, 3, 2, 1>>,
        <<1, 1, 3, 2, 3, 1, 2, 1, 1, 1, 3, 2, 3, 1, 2, 1>>,
        <<1, 1, 3, 1, 3, 1, 2, 1, 1, 1, 3, 1, 3, 1, 2, 1>>,
        <<1, 1, 3, 1, 3, 1, 2, 1, 1, 1, 3, 1, 3, 1, 2, 1>> >>

INSTR_TYPES ==
  [i \in 1..12 |-> Same(8)]
  \o << <<4, 8, 2, 3, 0, 8, 8, 7, 4, 5, 2, 8, 0, 1, 8, 7>>,
        <<4, 8, 2, 8, 0, 8, 8, 7, 4, 8, 2, 8, 0, 8, 8, 7>>,
        <<4, 8, 2, 8, 0, 8, 8, 7, 4, 6, 2, 8, 0, 8, 8, 7>>,
        <<4, 8, 2, 8, 0, 8, 8, 7, 4, 8, 2, 8, 0, 8, 8, 7>> >>

Cycles(op) == Entry(M_CYCLES, op)
GetInstrLen(op) == Entry(INSTR_LENS, op)
GetInstrType(op) ==
  Entry(INSTR_TYPES, op)

(* 0x00 .. 0x3F: the column decides, and in some of them the row. *)
LowRoutine(op) ==
  LET y == (op \div 8) % 8
  IN  CASE op % 8 = 0 -> "one"
        [] op % 8 = 1 -> IF y % 2 = 1 THEN "DAD" ELSE IF y = 6 THEN "LXI_SP" ELSE "LXI"
        [] op % 8 = 2 -> <<"STAX", "load", "STAX", "load", "SHLD", "LHLD", "STA", "LDA">>[y + 1]
        [] op % 8 = 3 -> IF y < 6 THEN "move" ELSE IF y = 6 THEN "INX_SP" ELSE "DCX_SP"
        [] op % 8 \in {4, 5} -> IF y = 6 THEN "update" ELSE "move"
        [] op % 8 = 6 -> IF y = 6 THEN "MVI_M" ELSE "immediate"
        [] op % 8 = 7 -> "one"

(* 0x40 .. 0x7F *)
MovRoutine(op) ==
  CASE op = 118 -> "HLT"
    [] op # 118 /\ (op \div 8) % 8 = 6 -> "MOV_M"
    [] op # 118 /\ (op \div 8) % 8 # 6 -> IF op % 8 = 6 THEN "load" ELSE "move"

(* 0x80 .. 0xBF: from memory if the column says M. *)
AluRoutine(op) == IF op % 8 = 6 THEN "load" ELSE "one"

(* 0xC0 .. 0xFF: the undocumented opcodes are further jumps, calls and a return. *)
HighRoutine(op) ==
  LET y == (op \div 8) % 8
  IN  CASE op % 8 = 0 -> "RETCond"
        [] op % 8 = 1 -> <<"POP", "RET", "POP", "RET", "POP", "PCHL", "POP", "SPHL">>[y + 1]
        [] op % 8 = 2 -> "JCond"
        [] op % 8 = 3 -> <<"JMP", "JMP", "OUT", "IN", "XTHL", "one", "DI", "EI">>[y + 1]
        [] op % 8 = 4 -> "CCond"
        [] op % 8 = 5 -> IF y % 2 = 0 THEN "PUSH" ELSE "CALL"
        [] op % 8 = 6 -> "immediate"
        [] op % 8 = 7 -> "RST"

Routine(op) ==
  CASE op \div 64 = 0 -> LowRoutine(op) [] op \div 64 = 1 -> MovRoutine(op)
    [] op \div 64 = 2 -> AluRoutine(op) [] op \div 64 = 3 -> HighRoutine(op)
=============================================================================
