----------------------------- MODULE CpuTables -----------------------------
(***************************************************************************)
(* How the routines of the decoder fit what the tables say of an opcode:   *)
(* its machine cycles, its length and its type, and what module Isa takes  *)
(* it for.  TLC compares them opcode by opcode.                            *)
(***************************************************************************)
EXTENDS Cpu

(* MOV M,L is a cycle short, and the undocumented jump, return and calls   *)
(* are nothing special to the tables.                                      *)
Odd == {117, 203, 217, 221, 237, 253}

(* Routines that move data: how many operand bytes they read, how many     *)
(* bytes they store, and from which cycle on.                              *)
DataRoutines ==
  {"one", "move", "load", "DAD", "immediate", "IN", "OUT", "LXI", "LDA", "LHLD",
   "STAX", "MOV_M", "update", "MVI_M", "STA", "SHLD"}
ReadBytes(r) ==
  IF r \in {"immediate", "IN", "OUT", "MVI_M"} THEN 1
  ELSE IF r \in {"LXI", "LDA", "LHLD", "STA", "SHLD"} THEN 2 ELSE 0
StoreBytes(r) == IF r = "SHLD" THEN 2 ELSE IF r \in {"STAX", "MOV_M", "update", "MVI_M", "STA"} THEN 1 ELSE 0
StoreCycle(r) == IF r \in {"STAX", "MOV_M"} THEN 1 ELSE IF r \in {"update", "MVI_M"} THEN 2 ELSE 3

Is(op, cycles, len, type) == Cycles(op) = cycles /\ GetInstrLen(op) = len /\ GetInstrType(op) = type
SpecialOpcodes ==
  {118, 243, 251, 227, 49, 51, 59, 249, 197, 213, 229, 245, 193, 209, 225, 241}

DataAgrees(op) ==
  LET r == Routine(op)
  IN  /\ Is(op, Cycles(op), 1 + ReadBytes(r), 8) /\ op \notin SpecialOpcodes
      /\ Cycles(op) \in 1..5 /\ Cycles(op) > ReadBytes(r)
      /\ ISA!Stores(op) = StoreBytes(r)
      /\ StoreBytes(r) > 0 => Cycles(op) >= StoreCycle(r) + StoreBytes(r)

Agree(op) ==
  LET r == Routine(op)
  IN  \/ r \in DataRoutines /\ DataAgrees(op)
      \/ r = "LXI_SP" /\ op = 49 /\ Is(op, 3, 3, 8)
      \/ r = "SPHL" /\ op = 249 /\ Is(op, 2, 1, 8)
      \/ r = "INX_SP" /\ op = 51 /\ Is(op, 2, 1, 8)
      \/ r = "DCX_SP" /\ op = 59 /\ Is(op, 2, 1, 8)
      \/ r = "XTHL" /\ op = 227 /\ Is(op, 6, 1, 8)
      \/ r = "PUSH" /\ op \in {197, 213, 229, 245} /\ Is(op, 4, 1, 8)
      \/ r = "POP" /\ op \in {193, 209, 225, 241} /\ Is(op, 3, 1, 8)
      \/ r = "JMP" /\ Is(op, 3, 3, 3)
      \/ r = "JCond" /\ Is(op, 3, 3, 2)
      \/ r = "PCHL" /\ Is(op, 2, 1, 6)
      \/ r = "CALL" /\ Is(op, 6, 3, 1)
      \/ r = "CCond" /\ Is(op, 6, 3, 0)
      \/ r = "RST" /\ Is(op, 4, 1, 7)
      \/ r = "RET" /\ Is(op, 3, 1, 5)
      \/ r = "RETCond" /\ Is(op, 4, 1, 4)
      \/ r = "DI" /\ op = 243 /\ Is(op, 1, 1, 8)
      \/ r = "EI" /\ op = 251 /\ Is(op, 1, 1, 8)
      \/ r = "HLT" /\ op = 118 /\ Is(op, 2, 1, 8)

ASSUME TablesAgree == \A op \in Opcode \ Odd : Agree(op)
ASSUME InterruptIsRst7 ==
  Routine(OPCODE_RST7) = "RST" /\ Is(OPCODE_RST7, 4, 1, 7) /\ (OPCODE_RST7 \div 8) % 8 = 7
=============================================================================
