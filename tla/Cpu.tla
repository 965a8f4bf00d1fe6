-------------------------------- MODULE Cpu --------------------------------
(***************************************************************************)
(* The processor, one machine cycle at a time (CpuI8080): fetch, interrupt *)
(* acceptance, and each instruction routine's switch over the cycle.       *)
(*                                                                         *)
(* Of the data only what the control flow depends on is kept: PC, SP and   *)
(* the memory the stack lies in.  The flag a conditional instruction tests *)
(* and the contents of the other registers are any value; WZ is kept while *)
(* it holds what was read from the stack, and is any value when it was     *)
(* read from the program.                                                  *)
(***************************************************************************)
EXTENDS Words, Opcodes

CONSTANT Program   \* the opcodes the program uses

ASSUME ProgramAssumption == Program \subseteq Opcode

VARIABLES
  cpu,        \* the registers, the interrupt logic and the memory
  seen,       \* ghost: what a request sees of them after an instruction
  last        \* ghost: the opcode that has just ended and the bytes it wrote

cpuVars == <<cpu, seen, last>>

OPCODE_RST7 == 255

Registers(mem) ==
  [pc |-> 0, sp |-> 0, wz |-> 0, ir |-> 0, mc |-> 0, flag |-> FALSE, inte |-> FALSE,
   iff |-> FALSE, hlta |-> FALSE, eiPending |-> FALSE, stored |-> 0, mem |-> mem]

IsInstructionExecuted(s) == s.mc = 0 \/ s.hlta

-----------------------------------------------------------------------------
(* Memory accesses; stored counts the bytes written by this instruction.   *)
ReadInstrMovePC(s) == [s EXCEPT !.pc = Plus(@, 1)]
WriteByte(s, addr, value) == [s EXCEPT !.mem[addr] = value, !.stored = @ + 1]
PopByte(s) == [s EXCEPT !.sp = Plus(@, 1)]
ReadZ(s) == [s EXCEPT !.wz = Join(High(@), s.mem[s.sp])]
ReadW(s, addr) == [s EXCEPT !.wz = Join(s.mem[addr], Low(@))]

(* Instructions that only move data: operand bytes in cycles 1 to n. *)
Operands(s, n) == IF s.mc \in 1..n THEN ReadInstrMovePC(s) ELSE s
StoreAt(s, cycles) ==
  IF s.mc \in cycles THEN {WriteByte(s, a, v) : a \in Word, v \in Byte} ELSE {s}

MVIRegData(s) == {Operands(s, 1)}
LXI(s) == {Operands(s, 2)}
LDA(s) == {Operands(s, 2)}
LHLD(s) == {Operands(s, 2)}
PortAccess(s) == {Operands(s, 1)}      \* IN and OUT
MOVMemReg(s) == StoreAt(s, {1})
STAX(s) == StoreAt(s, {1})
INRMem(s) == StoreAt(s, {2})           \* and DCR
MVIMemData(s) == StoreAt(Operands(s, 1), {2})
STA(s) == StoreAt(Operands(s, 2), {3})
SHLD(s) == StoreAt(Operands(s, 2), {3, 4})

LXI_SP(s) ==
  CASE s.mc = 1 -> {[ReadInstrMovePC(s) EXCEPT !.sp = Join(High(@), l)] : l \in Byte}
    [] s.mc = 2 -> {[ReadInstrMovePC(s) EXCEPT !.sp = Join(h, Low(@))] : h \in Byte}
    [] OTHER -> {s}
SPHL(s) == IF s.mc = 1 THEN {[s EXCEPT !.sp = w] : w \in Word} ELSE {s}
StepSP(s, n) == IF s.mc = 1 THEN {[s EXCEPT !.sp = Plus(@, n)]} ELSE {s}

XTHL(s) ==
  CASE s.mc = 1 -> {ReadZ(s)}
    [] s.mc = 2 -> {ReadW(s, Plus(s.sp, 1))}
    [] s.mc = 3 -> {WriteByte(s, s.sp, v) : v \in Byte}
    [] s.mc = 4 -> {WriteByte(s, Plus(s.sp, 1), v) : v \in Byte}
    [] OTHER -> {s}
PUSH(s) ==
  CASE s.mc \in {0, 2} -> {[s EXCEPT !.sp = Plus(@, -1)]}
    [] s.mc \in {1, 3} -> {WriteByte(s, s.sp, v) : v \in Byte}
POP(s) == IF s.mc \in {1, 2} THEN {PopByte(s)} ELSE {s}

JMP(s, taken) ==
  CASE s.mc = 1 -> {ReadInstrMovePC(s)}
    [] s.mc = 2 -> IF taken THEN {[s EXCEPT !.pc = w] : w \in Word} ELSE {ReadInstrMovePC(s)}
    [] OTHER -> {s}
PCHL(s) == IF s.mc = 1 THEN {[s EXCEPT !.pc = w] : w \in Word} ELSE {s}

CALL(s, taken) ==
  CASE s.mc = 0 -> {[s EXCEPT !.sp = IF taken THEN Plus(@, -1) ELSE @]}
    [] s.mc \in {1, 2} -> {ReadInstrMovePC(s)}
    [] s.mc = 3 -> IF taken THEN {[WriteByte(s, s.sp, High(s.pc)) EXCEPT !.sp = Plus(@, -1)]}
                            ELSE {[s EXCEPT !.mc = 5]}
    [] s.mc = 4 -> {WriteByte(s, s.sp, Low(s.pc))}
    [] s.mc = 5 -> {[s EXCEPT !.pc = w] : w \in Word}

RST(s, n) ==
  CASE s.mc = 0 -> {[s EXCEPT !.sp = Plus(@, -1)]}
    [] s.mc = 1 -> {[WriteByte(s, s.sp, High(s.pc)) EXCEPT !.sp = Plus(@, -1)]}
    [] s.mc = 2 -> {WriteByte(s, s.sp, Low(s.pc))}
    [] s.mc = 3 -> {[s EXCEPT !.pc = Vector(n)]}

RET(s) ==
  CASE s.mc = 1 -> {PopByte(ReadZ(s))}
    [] s.mc = 2 -> {[PopByte(t) EXCEPT !.pc = t.wz] : t \in {ReadW(s, s.sp)}}
    [] OTHER -> {s}
RETCond(s, taken) ==
  CASE s.mc = 1 -> {IF taken THEN s ELSE [s EXCEPT !.mc = 3]}
    [] s.mc = 2 -> {PopByte(ReadZ(s))}
    [] s.mc = 3 -> {[PopByte(t) EXCEPT !.pc = t.wz] : t \in {ReadW(s, s.sp)}}
    [] OTHER -> {s}

(* HLT reads itself again and again, in its second cycle, until an         *)
(* interrupt is latched.                                                   *)
HLT(s) ==
  CASE s.mc = 0 -> {[s EXCEPT !.pc = Plus(@, -1)]}
    [] s.mc = 1 -> IF s.iff THEN {ReadInstrMovePC(s)} ELSE {[s EXCEPT !.hlta = TRUE, !.mc = 0]}

-----------------------------------------------------------------------------
(* The routine an opcode runs in one machine cycle. *)
Micro(s) ==
  LET r == Routine(s.ir)
  IN  CASE r \in {"one", "move", "load", "DAD"} -> {s}
        [] r = "immediate" -> MVIRegData(s) [] r \in {"IN", "OUT"} -> PortAccess(s)
        [] r = "LXI" -> LXI(s) [] r = "LDA" -> LDA(s) [] r = "LHLD" -> LHLD(s)
        [] r = "STAX" -> STAX(s) [] r = "MOV_M" -> MOVMemReg(s) [] r = "update" -> INRMem(s)
        [] r = "MVI_M" -> MVIMemData(s) [] r = "STA" -> STA(s) [] r = "SHLD" -> SHLD(s)
        [] r = "LXI_SP" -> LXI_SP(s) [] r = "SPHL" -> SPHL(s)
        [] r = "INX_SP" -> StepSP(s, 1) [] r = "DCX_SP" -> StepSP(s, -1)
        [] r = "XTHL" -> XTHL(s) [] r = "PUSH" -> PUSH(s) [] r = "POP" -> POP(s)
        [] r = "JMP" -> JMP(s, TRUE) [] r = "JCond" -> JMP(s, s.flag) [] r = "PCHL" -> PCHL(s)
        [] r = "CALL" -> CALL(s, TRUE) [] r = "CCond" -> CALL(s, s.flag)
        [] r = "RST" -> RST(s, (s.ir \div 8) % 8)
        [] r = "RET" -> RET(s) [] r = "RETCond" -> RETCond(s, s.flag)
        [] r = "DI" -> {[s EXCEPT !.inte = FALSE]}
        [] r = "EI" -> {[s EXCEPT !.inte = TRUE, !.eiPending = TRUE]}
        [] r = "HLT" -> HLT(s)

Advance(s) == [s EXCEPT !.mc = (@ + 1) % Cycles(s.ir)]
Decode(s) == {Advance(t) : t \in Micro(s)}

(* The first cycle takes the interrupt or the program's next opcode; the   *)
(* flag is the one a conditional instruction tests.                        *)
Latch(s, irq) == [s EXCEPT !.iff = @ \/ (irq /\ s.inte)]
(* Mutant: EI takes effect at once. *)
InterruptedAtOnce(s) == s.iff
Interrupted(s) == s.iff /\ ~s.eiPending
AcceptInterrupt(s) == [s EXCEPT !.inte = FALSE, !.iff = FALSE, !.hlta = FALSE, !.ir = OPCODE_RST7]
Fetch(s, op, flag) ==
  [ReadInstrMovePC(s) EXCEPT !.eiPending = FALSE, !.ir = op, !.flag = flag]
Flags(op) == IF Routine(op) \in {"JCond", "CCond", "RETCond"} THEN BOOLEAN ELSE {FALSE}

Begin(s) ==
  IF s.mc # 0 THEN {s}
  ELSE IF Interrupted(s) THEN {AcceptInterrupt(s)}
  ELSE UNION {{Fetch(s, op, flag) : flag \in Flags(op)} : op \in Program}

(* Requests are served once an instruction is over.  WZ, the opcode and    *)
(* the flag are dead then, and the next instruction starts with the debug  *)
(* data, stored, cleared; while halted the next one is the same HLT.       *)
Shown(s) ==
  [pc |-> s.pc, sp |-> s.sp, mem |-> s.mem, inte |-> s.inte, pending |-> s.iff,
   shadow |-> s.eiPending, halted |-> s.hlta /\ s.mc # 0]
Between(s) ==
  [s EXCEPT !.wz = 0, !.stored = 0, !.flag = FALSE, !.ir = IF s.mc = 0 THEN 0 ELSE @]
Underway == [op |-> -1, stored |-> 0]
Show(s) ==
  IF IsInstructionExecuted(s)
  THEN cpu' = Between(s) /\ seen' = Shown(s) /\ last' = [op |-> s.ir, stored |-> s.stored]
  ELSE cpu' = s /\ UNCHANGED seen /\ last' = Underway

ExecuteMachineCycle(irq) ==
  \E s \in UNION {Decode(t) : t \in Begin(Latch(cpu, irq))} : Show(s)

(* Reset and restart come from requests or keys, between instructions. *)
CpuReset ==
  /\ IsInstructionExecuted(cpu)
  /\ LET s == Registers(cpu.mem)
     IN  cpu' = s /\ seen' = Shown(s) /\ last' = [op |-> 0, stored |-> 0]

CpuInit ==
  /\ cpu = Registers([w \in Word |-> 0])
  /\ seen = Shown(cpu) /\ last = [op |-> 0, stored |-> 0]
CpuNext == CpuReset \/ \E irq \in BOOLEAN : ExecuteMachineCycle(irq)

-----------------------------------------------------------------------------
ISA == INSTANCE Isa WITH pc <- seen.pc, sp <- seen.sp, mem <- seen.mem, inte <- seen.inte,
  pending <- seen.pending, shadow <- seen.shadow, halted <- seen.halted, stored <- last.stored

CpuTypeOK ==
  /\ cpu.pc \in Word /\ cpu.sp \in Word /\ cpu.wz \in Word /\ cpu.mem \in [Word -> Byte]
  /\ cpu.ir \in Opcode /\ cpu.mc \in 0..5 /\ cpu.stored \in 0..2
  /\ {cpu.flag, cpu.inte, cpu.iff, cpu.hlta, cpu.eiPending} \subseteq BOOLEAN
  /\ cpu.mc # 0 => cpu.mc < Cycles(cpu.ir)

(* Whatever its machine cycles do one by one, a program and the requests   *)
(* between its instructions see whole instructions, of the length and the  *)
(* type GetInstrLen() and GetInstrType() report, with the return address   *)
(* and the bytes of the stack where they belong, and interrupts only       *)
(* between them, never after EI (ExecuteMachineCycle(), Decode()).         *)
ImplementsIsa ==
  /\ ISA!Init
  /\ [][ \/ last' = Underway /\ UNCHANGED seen
         \/ ISA!Reset \/ ISA!Execute(last'.op) \/ ISA!Wait \/ ISA!Interrupt ]_cpuVars
=============================================================================
