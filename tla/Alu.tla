-------------------------------- MODULE Alu --------------------------------
(***************************************************************************)
(* Arithmetic and logic of the processor as CpuI8080 computes them, with   *)
(* the tricks it uses for carries, against plain arithmetic.               *)
(* A result is the byte and the flags; f holds the flags before.           *)
(***************************************************************************)
EXTENDS Integers, Sequences, Bitwise

CONSTANT Operands8   \* bound: the bytes that are combined

ASSUME OperandsAssumption == Operands8 \subseteq 0..255

VARIABLE alu    \* the last instruction's operation, operands, flags before and result

Bit(w, i) == (w \div 2^i) % 2 = 1
Num(b) == IF b THEN 1 ELSE 0
Not8(a) == 255 - a

-----------------------------------------------------------------------------
(* The table's 16 rows are one row or its complement. *)
Even == <<TRUE, FALSE, FALSE, TRUE, FALSE, TRUE, TRUE, FALSE,
          FALSE, TRUE, TRUE, FALSE, TRUE, FALSE, FALSE, TRUE>>
GetParity(v) == Even[(v \div 16) + 1] = Even[(v % 16) + 1]
GetCarry(bit, a, b, cy) == Bit(((a + b + Num(cy)) ^^ a) ^^ b, bit)
SetZSP(v, f) == [f EXCEPT !.z = (v = 0), !.s = Bit(v, 7), !.p = GetParity(v)]
Res(v, f) == [a |-> v, f |-> f]

ADD(a, b, cy, f) ==
  LET sum == (a + b + Num(cy)) % 256
  IN  Res(sum, SetZSP(sum, [f EXCEPT !.c = GetCarry(8, a, b, cy), !.ac = GetCarry(4, a, b, cy)]))
SUB(a, b, cy, f) == LET r == ADD(a, Not8(b), ~cy, f) IN [r EXCEPT !.f.c = ~@]
CMP(a, b, f) ==
  LET res == (a - b) % 512
      low == res % 256
  IN  Res(a, SetZSP(low, [f EXCEPT !.c = Bit(res, 8), !.ac = ~Bit((a ^^ low) ^^ b, 4)]))
INR(a, f) ==
  LET v == (a + 1) % 256 IN Res(v, SetZSP(v, [f EXCEPT !.ac = (v % 16 = 0)]))
DCR(a, f) ==
  LET v == (a - 1) % 256 IN Res(v, SetZSP(v, [f EXCEPT !.ac = (v % 16 # 15)]))
(* Mutant: a carry out of the low digit is forgotten. *)
DAANoRipple(a, f) ==
  LET high == f.c \/ a \div 16 > 9
      correction == (IF f.ac \/ a % 16 > 9 THEN 6 ELSE 0) + (IF high THEN 96 ELSE 0)
  IN  [ADD(a, correction, FALSE, f) EXCEPT !.f.c = f.c \/ high]
DAA(a, f) ==
  LET lsb == a % 16
      msb == a \div 16
      high == f.c \/ msb > 9 \/ (msb >= 9 /\ lsb > 9)
      correction == (IF f.ac \/ lsb > 9 THEN 6 ELSE 0) + (IF high THEN 96 ELSE 0)
  IN  [ADD(a, correction, FALSE, f) EXCEPT !.f.c = f.c \/ high]
ANA(a, b, f) ==
  LET v == a & b IN Res(v, SetZSP(v, [f EXCEPT !.c = FALSE, !.ac = Bit(a | b, 3)]))
XRA(a, b, f) ==
  LET v == a ^^ b IN Res(v, SetZSP(v, [f EXCEPT !.c = FALSE, !.ac = FALSE]))
ORA(a, b, f) ==
  LET v == a | b IN Res(v, SetZSP(v, [f EXCEPT !.c = FALSE, !.ac = FALSE]))
RLC(a, f) == Res(((a * 2) % 256) + Num(Bit(a, 7)), [f EXCEPT !.c = Bit(a, 7)])
RRC(a, f) == Res((a \div 2) | (128 * Num(Bit(a, 0))), [f EXCEPT !.c = Bit(a, 0)])
RAL(a, f) == Res(((a * 2) % 256) | Num(f.c), [f EXCEPT !.c = Bit(a, 7)])
RAR(a, f) == Res((a \div 2) | (128 * Num(f.c)), [f EXCEPT !.c = Bit(a, 0)])
(* DAD adds the low bytes in one machine cycle and the high ones in the next. *)
DAD(hl, rp, f) ==
  LET low == (hl % 256) + (rp % 256)
      high == (hl \div 256) + (rp \div 256) + Num(low >= 256)
  IN  Res((high % 256) * 256 + (low % 256), [f EXCEPT !.c = (high >= 256)])

-----------------------------------------------------------------------------
Flags8 == [c : BOOLEAN, ac : BOOLEAN, z : {FALSE}, s : {FALSE}, p : {FALSE}]

Operation(op, a, b, f) ==
  CASE op = "ADD" -> ADD(a, b, FALSE, f) [] op = "ADC" -> ADD(a, b, f.c, f)
    [] op = "SUB" -> SUB(a, b, FALSE, f) [] op = "SBB" -> SUB(a, b, f.c, f)
    [] op = "CMP" -> CMP(a, b, f) [] op = "INR" -> INR(a, f) [] op = "DCR" -> DCR(a, f)
    [] op = "ANA" -> ANA(a, b, f) [] op = "XRA" -> XRA(a, b, f) [] op = "ORA" -> ORA(a, b, f)
    [] op = "RLC" -> RLC(a, f) [] op = "RRC" -> RRC(a, f)
    [] op = "RAL" -> RAL(a, f) [] op = "RAR" -> RAR(a, f)
    [] op = "DAA" -> DAA(a, f)
    [] op = "DAD" -> DAD(a * 256 + b, b * 256 + a, f)
Binary == {"ADD", "ADC", "SUB", "SBB", "CMP", "ANA", "XRA", "ORA", "DAD"}
Unary == {"INR", "DCR", "RLC", "RRC", "RAL", "RAR", "DAA"}

NoFlags == [c |-> FALSE, ac |-> FALSE, z |-> FALSE, s |-> FALSE, p |-> FALSE]
AluInit == alu = [op |-> "NOP", a |-> 0, b |-> 0, f |-> NoFlags, r |-> Res(0, NoFlags)]
(* One operation each: they share nothing but the flags they are given. *)
Compute(ops, as, bs) ==
  /\ alu.op = "NOP"
  /\ \E op \in ops, a \in as, b \in bs, f \in Flags8 :
       alu' = [op |-> op, a |-> a, b |-> b, f |-> f, r |-> Operation(op, a, b, f)]
AluNext == Compute(Binary, Operands8, Operands8) \/ Compute(Unary, 0..255, {0})

-----------------------------------------------------------------------------
(* The reference: numbers, nibbles and bits. *)
Ones(v) == LET n[i \in 0..8] == IF i = 0 THEN 0 ELSE n[i - 1] + ((v \div 2^(i - 1)) % 2) IN n[8]
Bitwise8(F(_, _), a, b) ==
  LET n[i \in 0..8] == IF i = 0 THEN 0
                       ELSE n[i - 1] + 2^(i - 1) * Num(F(Bit(a, i - 1), Bit(b, i - 1)))
  IN  n[8]
Signs(r) == r.f.z = (r.a = 0) /\ r.f.s = (r.a >= 128) /\ r.f.p = (Ones(r.a) % 2 = 0)
Bcd(a) == a % 16 < 10 /\ a \div 16 < 10
Dec(a) == 10 * (a \div 16) + (a % 16)

Sum(a, b, cy, r) ==
  /\ r.a = (a + b + cy) % 256 /\ r.f.c = (a + b + cy > 255)
  /\ r.f.ac = ((a % 16) + (b % 16) + cy > 15) /\ Signs(r)
Difference(a, b, cy, r) ==
  /\ r.a = (a - b - cy) % 256 /\ r.f.c = (a < b + cy)
  /\ r.f.ac = (a % 16 >= (b % 16) + cy) /\ Signs(r)
Adjusted(a, b, r) ==
  LET d == DAA(r.a, r.f) IN Dec(d.a) = (Dec(a) + Dec(b)) % 100 /\ d.f.c = (Dec(a) + Dec(b) > 99)

(* Every operation gives the number, the carry and half-carry, and the     *)
(* zero, sign and parity flags that plain arithmetic gives; comparing is   *)
(* subtracting; DAA makes decimal digits of a sum of decimal digits;       *)
(* rotating one way undoes rotating the other (ADD(), SUB(), CMP(), DAA(), *)
(* INR(), DCR(), DAD(), ANA(), XRA(), ORA(), RLC() and its kin).           *)
AluExact ==
  LET op == alu.op  a == alu.a  b == alu.b  f == alu.f  r == alu.r  cy == Num(alu.f.c)
      Kept == r.f.z = f.z /\ r.f.s = f.s /\ r.f.p = f.p
  IN  /\ op = "ADD" => Sum(a, b, 0, r) /\ (Bcd(a) /\ Bcd(b) => Adjusted(a, b, r))
      /\ op = "ADC" => Sum(a, b, cy, r)
      /\ op = "SUB" => Difference(a, b, 0, r)
      /\ op = "SBB" => Difference(a, b, cy, r)
      /\ op = "CMP" => r.a = a /\ r.f = SUB(a, b, FALSE, f).f
      /\ op = "INR" => Sum(a, 1, 0, [r EXCEPT !.f.c = (a = 255)]) /\ r.f.c = f.c
      /\ op = "DCR" => Difference(a, 1, 0, [r EXCEPT !.f.c = (a = 0)]) /\ r.f.c = f.c
      /\ op = "ANA" => r.a = Bitwise8(LAMBDA x, y : x /\ y, a, b) /\ ~r.f.c /\ Signs(r)
      /\ op = "XRA" => r.a = Bitwise8(LAMBDA x, y : x # y, a, b) /\ ~r.f.c /\ Signs(r)
      /\ op = "ORA" => r.a = Bitwise8(LAMBDA x, y : x \/ y, a, b) /\ ~r.f.c /\ Signs(r)
      /\ op = "RLC" => Kept /\ RRC(r.a, r.f).a = a /\ r.f.c = (a >= 128)
      /\ op = "RRC" => Kept /\ RLC(r.a, r.f).a = a /\ r.f.c = (a % 2 = 1)
      /\ op = "RAL" => Kept /\ 256 * Num(r.f.c) + r.a = 2 * a + cy
      /\ op = "RAR" => Kept /\ 2 * r.a + Num(r.f.c) = 256 * cy + a
      /\ op = "DAD" => /\ r.a = (257 * (a + b)) % 65536 /\ r.f.c = (257 * (a + b) >= 65536)
                       /\ Kept /\ r.f.ac = f.ac
=============================================================================
