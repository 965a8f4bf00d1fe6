-------------------------------- MODULE Isa --------------------------------
(***************************************************************************)
(* What the processor promises to a program and to the requests that are   *)
(* served between instructions: every instruction is one step, however     *)
(* many machine cycles it takes, and interrupts fall between instructions. *)
(* Only what decides the control flow is kept: the program counter, the    *)
(* stack and the memory it lies in, and the interrupt logic.  What other   *)
(* registers hold is any value.                                            *)
(***************************************************************************)
EXTENDS Words, Opcodes

VARIABLES
  pc, sp, mem,
  inte,        \* interrupts are enabled
  pending,     \* an interrupt has been asked for while they were
  shadow,      \* the last instruction was EI: no interrupt before the next one
  halted,
  stored       \* how many bytes the last instruction has written

ivars == <<pc, sp, mem, inte, pending, shadow, halted, stored>>

(* The frame interrupt may be asked for at any time; it is kept if enabled. *)
Asked(p, enabled) == {p, p \/ enabled}

Push(h, l) == [mem EXCEPT ![Plus(sp, -1)] = h, ![Plus(sp, -2)] = l]
StackTop == Join(mem[Plus(sp, 1)], mem[sp])

(* An instruction that starts now and leaves the interrupt flag at i. *)
Instruction(i) ==
  /\ ~halted /\ halted' = FALSE
  /\ \E p \in Asked(pending, inte) :
       /\ p => shadow
       /\ pending' \in Asked(p, i)
  /\ inte' = i
Ordinary == Instruction(inte) /\ shadow' = FALSE

(* len bytes long, n bytes written anywhere, SP left alone. *)
Data(len, n) ==
  /\ Ordinary /\ pc' = Plus(pc, len) /\ stored' = n
  /\ \E at \in [1..n -> Word] :
       /\ mem' \in [Word -> Byte]
       /\ \A w \in Word : mem'[w] # mem[w] => \E i \in 1..n : at[i] = w
  /\ UNCHANGED sp
MoveSP(len) ==
  /\ Ordinary /\ pc' = Plus(pc, len) /\ stored' = 0 /\ sp' \in Word /\ UNCHANGED mem
PushAny ==
  /\ Ordinary /\ pc' = Plus(pc, 1) /\ stored' = 2 /\ sp' = Plus(sp, -2)
  /\ \E h, l \in Byte : mem' = Push(h, l)
PopAny ==
  /\ Ordinary /\ pc' = Plus(pc, 1) /\ stored' = 0 /\ sp' = Plus(sp, 2) /\ UNCHANGED mem
Exchange ==
  /\ Ordinary /\ pc' = Plus(pc, 1) /\ stored' = 2 /\ UNCHANGED sp
  /\ \E h, l \in Byte : mem' = [mem EXCEPT ![sp] = l, ![Plus(sp, 1)] = h]
Jump ==
  /\ Ordinary /\ pc' \in Word /\ stored' = 0 /\ UNCHANGED <<sp, mem>>
Call(len, target) ==
  LET back == Plus(pc, len)
  IN  /\ Ordinary /\ pc' = target /\ stored' = 2 /\ sp' = Plus(sp, -2)
      /\ mem' = Push(High(back), Low(back))
Return ==
  /\ Ordinary /\ pc' = StackTop /\ stored' = 0 /\ sp' = Plus(sp, 2) /\ UNCHANGED mem
DisableInterrupts ==
  /\ Instruction(FALSE) /\ shadow' = FALSE
  /\ pc' = Plus(pc, 1) /\ stored' = 0 /\ UNCHANGED <<sp, mem>>
EnableInterrupts ==
  /\ Instruction(TRUE) /\ shadow' = TRUE
  /\ pc' = Plus(pc, 1) /\ stored' = 0 /\ UNCHANGED <<sp, mem>>
Halt ==
  /\ ~halted
  /\ \E p \in Asked(pending, inte) :
       /\ p => shadow
       /\ \E q \in Asked(p, inte) :
            /\ pending' = q /\ halted' = ~q /\ pc' = IF q THEN Plus(pc, 1) ELSE pc
  /\ shadow' = FALSE /\ stored' = 0 /\ UNCHANGED <<sp, mem, inte>>

(* A halted processor waits for an interrupt and then leaves the HLT. *)
Wait ==
  /\ halted
  /\ pending' \in Asked(pending, inte)
  /\ halted' = ~pending' /\ pc' = IF pending' THEN Plus(pc, 1) ELSE pc
  /\ stored' = 0 /\ UNCHANGED <<sp, mem, inte, shadow>>

(* The interrupt calls vector 7 and disables interrupts.  The code does    *)
(* not ask whether DI has come between the request and the call: after EI  *)
(* and DI in a row an interrupt asked for in between is still taken.       *)
Interrupt ==
  /\ ~halted /\ ~shadow /\ TRUE \in Asked(pending, inte)
  /\ pc' = Vector(7) /\ sp' = Plus(sp, -2) /\ mem' = Push(High(pc), Low(pc))
  /\ inte' = FALSE /\ pending' = FALSE /\ stored' = 2
  /\ UNCHANGED <<shadow, halted>>

Reset ==
  /\ pc' = 0 /\ sp' = 0
  /\ inte' = FALSE /\ pending' = FALSE /\ shadow' = FALSE /\ halted' = FALSE
  /\ stored' = 0 /\ UNCHANGED mem

(* The bytes an instruction of type "other" writes to an address it names. *)
Stores(op) ==
  CASE op \in {2, 18, 50, 52, 53, 54} \cup ((112..119) \ {118}) -> 1
    [] op = 34 -> 2
    [] OTHER -> 0
Other(op) ==
  CASE op = 118 -> Halt
    [] op = 243 -> DisableInterrupts
    [] op = 251 -> EnableInterrupts
    [] op = 227 -> Exchange
    [] op \in {49, 51, 59, 249} -> MoveSP(GetInstrLen(op))
    [] op \in {197, 213, 229, 245} -> PushAny
    [] op \in {193, 209, 225, 241} -> PopAny
    [] OTHER -> Data(GetInstrLen(op), Stores(op))

(* One whole instruction, of the length and the type the tables give it. *)
Execute(op) ==
  LET len == GetInstrLen(op)
  IN  CASE GetInstrType(op) = 0 -> Data(len, 0) \/ \E w \in Word : Call(len, w)
        [] GetInstrType(op) = 1 -> \E w \in Word : Call(len, w)
        [] GetInstrType(op) = 2 -> Data(len, 0) \/ Jump
        [] GetInstrType(op) = 3 -> Jump
        [] GetInstrType(op) = 4 -> Data(len, 0) \/ Return
        [] GetInstrType(op) = 5 -> Return
        [] GetInstrType(op) = 6 -> Jump
        [] GetInstrType(op) = 7 -> Call(len, Vector((op \div 8) % 8))
        [] GetInstrType(op) = 8 -> Other(op)

Init ==
  /\ pc = 0 /\ sp = 0 /\ mem \in [Word -> Byte]
  /\ inte = FALSE /\ pending = FALSE /\ shadow = FALSE /\ halted = FALSE
  /\ stored = 0
=============================================================================
