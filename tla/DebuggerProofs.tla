--------------------------- MODULE DebuggerProofs ---------------------------
(***************************************************************************)
(* What module Debugger promises for every memory, every set of addresses, *)
(* configurations and counters, and any number of requests: the types, the *)
(* counting of breakpoints, what becomes of the writes to read-only bytes, *)
(* what watchpoints have seen and report, and the update counters.         *)
(***************************************************************************)
EXTENDS Debugger, FiniteSetTheorems, SequenceTheorems, WellFoundedInduction, TLAPS

Writing == [addr : Addrs, before : Values, after : Values]

(* The writes of an instruction: from what is there, to different addresses, *)
(* all of them counted unless the instruction is XTHL.                       *)
Shape(acc) ==
  /\ acc.writes \in Seq(Writing)
  /\ acc.counted \in 0..Len(acc.writes)
  /\ ~Xthl => acc.counted = Len(acc.writes)
  /\ \A i \in 1..Len(acc.writes) : acc.writes[i].before = ram[acc.writes[i].addr]
  /\ \A i, j \in 1..Len(acc.writes) : acc.writes[i].addr = acc.writes[j].addr => i = j

LEMMA WriteType ==
  ASSUME ram \in [Addrs -> Values], NEW a \in Addrs, NEW v \in Values
  PROVE  /\ Write(a, v) \in Writing
         /\ Write(a, v).addr = a /\ Write(a, v).before = ram[a]
  BY DEF Write, Writing

LEMMA OneWrite ==
  ASSUME ram \in [Addrs -> Values], NEW a \in Addrs, NEW v \in Values, NEW reads
  PROVE  Shape(Access(reads, <<Write(a, v)>>, 1))
  BY WriteType DEF Shape, Access

LEMMA TwoWrites ==
  ASSUME ram \in [Addrs -> Values], NEW a \in Addrs, NEW b \in Addrs, a # b,
         NEW v \in Values, NEW w \in Values, NEW reads, NEW counted \in 0..2,
         Xthl \/ counted = 2
  PROVE  Shape(Access(reads, <<Write(a, v), Write(b, w)>>, counted))
  <1>1. /\ Write(a, v) \in Writing /\ Write(b, w) \in Writing
        /\ Write(a, v).addr = a /\ Write(a, v).before = ram[a]
        /\ Write(b, w).addr = b /\ Write(b, w).before = ram[b]
    BY WriteType
  <1> HIDE DEF Write
  <1> QED
    BY <1>1 DEF Shape, Access

LEMMA WordAddresses ==
  ASSUME NEW as \in WordAddrs
  PROVE  /\ as \in Seq(Addrs)
         /\ as[1] \in Addrs /\ as[2] \in Addrs /\ as[1] # as[2]
  <1>1. as \in [1..2 -> Addrs] /\ 2 \in Nat
    BY DEF WordAddrs
  <1>2. as[1] # as[2]
    BY DEF WordAddrs
  <1>3. as[1] \in Addrs /\ as[2] \in Addrs
    <2>1. 1 \in 1..2 /\ 2 \in 1..2
      OBVIOUS
    <2>2. \A i \in 1..2 : as[i] \in Addrs
      BY <1>1, Zenon
    <2> QED
      BY <2>1, <2>2, Zenon
  <1>4. as \in Seq(Addrs)
    BY <1>1, SeqDef, Zenon
  <1> QED
    BY <1>2, <1>3, <1>4

LEMMA InstructionShape ==
  ASSUME ram \in [Addrs -> Values], NEW acc \in Instructions
  PROVE  Shape(acc)
  <1> USE DebuggerAssumption
  <1>1. ASSUME NEW reads, acc = Access(reads, <<>>, 0) PROVE Shape(acc)
    BY <1>1 DEF Shape, Access
  <1>2. CASE acc \in Plain
    BY <1>1, <1>2 DEF Plain
  <1>3. CASE acc \in Bytes
    <2>1. ASSUME NEW a \in Addrs, acc = ReadByte(a) PROVE Shape(acc)
      BY <1>1, <2>1 DEF ReadByte
    <2>2. ASSUME NEW a \in Addrs, NEW v \in Values, acc = WriteByte(a, v) PROVE Shape(acc)
      BY <2>2, OneWrite DEF WriteByte
    <2>3. ASSUME NEW a \in Addrs, NEW v \in Values, acc = UpdateByte(a, v) PROVE Shape(acc)
      BY <2>3, OneWrite DEF UpdateByte
    <2> QED
      BY <1>3, <2>1, <2>2, <2>3 DEF Bytes
  <1>4. CASE acc \in Words
    <2>1. ASSUME NEW as \in WordAddrs, acc = ReadWord(as) PROVE Shape(acc)
      BY <1>1, <2>1 DEF ReadWord
    <2>2. ASSUME NEW as \in WordAddrs, NEW vs \in Values \X Values, acc = WriteWord(as, vs)
          PROVE  Shape(acc)
      <3>1. as[1] \in Addrs /\ as[2] \in Addrs /\ as[1] # as[2]
        BY WordAddresses
      <3>2. PICK a \in Addrs, b \in Addrs : as[1] = a /\ as[2] = b /\ a # b
        BY <3>1
      <3>3. PICK v \in Values, w \in Values : vs[1] = v /\ vs[2] = w
        OBVIOUS
      <3>4. acc = Access(<<>>, <<Write(a, v), Write(b, w)>>, 2)
        BY <2>2, <3>2, <3>3 DEF WriteWord
      <3> QED
        BY <3>2, <3>4, TwoWrites
    <2> QED
      BY <1>4, <2>1, <2>2 DEF Words
  <1>5. CASE Xthl /\ acc \in XthlBytes
    <2>1. PICK as \in WordAddrs, vs \in Values \X Values : acc = ExchangeWord(as, vs)
      BY <1>5 DEF XthlBytes
    <2>2. PICK a \in Addrs, b \in Addrs : as[1] = a /\ as[2] = b /\ a # b
      BY WordAddresses
    <2>3. PICK v \in Values, w \in Values : vs[1] = v /\ vs[2] = w
      OBVIOUS
    <2>4. acc = Access(as, <<Write(b, v), Write(a, w)>>, 1)
      BY <2>1, <2>2, <2>3 DEF ExchangeWord
    <2>5. 1 \in 0..2 /\ b # a
      BY <2>2
    <2>6. Shape(Access(as, <<Write(b, v), Write(a, w)>>, 1))
      BY <1>5, <2>5, TwoWrites
    <2> QED
      BY <2>4, <2>6
  <1> QED
    BY <1>2, <1>3, <1>4, <1>5 DEF Instructions

-----------------------------------------------------------------------------
(* The memory after writes to different addresses. *)
LEMMA AfterWrites ==
  ASSUME ram \in [Addrs -> Values], NEW ws \in Seq(Writing)
  PROVE  /\ After(ws) \in [Addrs -> Values]
         /\ \A a \in Addrs : (\A i \in 1..Len(ws) : ws[i].addr # a) => After(ws)[a] = ram[a]
         /\ (\A i, j \in 1..Len(ws) : ws[i].addr = ws[j].addr => i = j)
              => \A i \in 1..Len(ws) : After(ws)[ws[i].addr] = ws[i].after
  <1>1. DOMAIN ws = 1..Len(ws) /\ \A i \in 1..Len(ws) : ws[i] \in Writing
    OBVIOUS
  <1>2. \A w \in Range(ws) : \E i \in 1..Len(ws) : w = ws[i]
    BY <1>1 DEF Range
  <1>3. \A i \in 1..Len(ws) : ws[i] \in Range(ws)
    BY <1>1 DEF Range
  <1>4. ASSUME NEW a \in Addrs, NEW i \in 1..Len(ws), ws[i].addr = a
        PROVE  \E j \in 1..Len(ws) : After(ws)[a] = ws[j].after /\ ws[j].addr = a
    <2>1. PICK w \in Range(ws) : w = CHOOSE x \in Range(ws) : x.addr = a
      BY <1>3, <1>4
    <2>2. w.addr = a /\ After(ws)[a] = w.after
      BY <1>1, <1>3, <1>4, <2>1 DEF After
    <2> QED
      BY <1>2, <2>2
  <1>5. \A a \in Addrs : (\A i \in 1..Len(ws) : ws[i].addr # a) => After(ws)[a] = ram[a]
    BY <1>1 DEF After
  <1>6. \A a \in Addrs : After(ws)[a] \in Values
    BY <1>1, <1>4, <1>5 DEF Writing
  <1>7. After(ws) \in [Addrs -> Values]
    BY <1>6 DEF After
  <1>8. (\A i, j \in 1..Len(ws) : ws[i].addr = ws[j].addr => i = j)
              => \A i \in 1..Len(ws) : After(ws)[ws[i].addr] = ws[i].after
    BY <1>1, <1>4 DEF Writing
  <1> QED
    BY <1>5, <1>7, <1>8

-----------------------------------------------------------------------------
(* What Debug() makes of the writes: ws, of which the counted ones may have *)
(* been put back.                                                           *)
Treated(acc, ws) ==
  /\ ws \in Seq(Writing) /\ Len(ws) = Len(acc.writes)
  /\ \A i \in 1..Len(ws) : ws[i].addr = acc.writes[i].addr /\ ws[i].before = acc.writes[i].before
  /\ \A i \in 1..acc.counted : ws[i] = PutBack(acc.writes[i])
  /\ \A i, j \in 1..Len(ws) : ws[i].addr = ws[j].addr => i = j

LEMMA PutBackType ==
  ASSUME ram \in [Addrs -> Values], NEW w \in Writing, w.before = ram[w.addr]
  PROVE  /\ PutBack(w) \in Writing
         /\ PutBack(w).addr = w.addr /\ PutBack(w).before = w.before
         /\ Rejected(w) => PutBack(w).after = w.before
  BY DEF PutBack, Writing

LEMMA Rest ==
  ASSUME NEW S, NEW s \in Seq(S), NEW k \in 0..Len(s)
  PROVE  LET rest == [i \in 1..Len(s) - k |-> s[k + i]]
         IN  /\ rest \in Seq(S) /\ Len(rest) = Len(s) - k
             /\ \A i \in 1..Len(s) - k : rest[i] = s[k + i]
  <1> DEFINE n == Len(s) - k
             rest == [i \in 1..n |-> s[k + i]]
  <1>1. n \in Nat /\ \A i \in 1..n : k + i \in 1..Len(s) /\ s[k + i] \in S
    OBVIOUS
  <1> HIDE DEF n
  <1>2. rest \in Seq(S) /\ Len(rest) = n
    BY <1>1
  <1> QED
    BY <1>2 DEF n

LEMMA Glued ==
  ASSUME NEW S, NEW s \in Seq(S), NEW t \in Seq(S)
  PROVE  /\ s \o t \in Seq(S) /\ Len(s \o t) = Len(s) + Len(t)
         /\ \A i \in 1..Len(s) : (s \o t)[i] = s[i]
         /\ \A i \in Len(s) + 1..Len(s) + Len(t) : (s \o t)[i] = t[i - Len(s)]
  BY ConcatProperties

LEMMA DebugWrites ==
  ASSUME NEW acc, Debug(acc)
  PROVE  LET kept == [i \in DOMAIN Counted(acc) |-> PutBack(Counted(acc)[i])]
         IN  ram' = After(kept \o Uncounted(acc))
  BY Zenon DEF Debug

LEMMA DebugTreats ==
  ASSUME ram \in [Addrs -> Values], NEW acc \in Instructions, Debug(acc)
  PROVE  \E ws \in Seq(Writing) : Treated(acc, ws) /\ ram' = After(ws)
  <1>1. Shape(acc)
    BY InstructionShape
  <1> DEFINE kept == [i \in DOMAIN Counted(acc) |-> PutBack(Counted(acc)[i])]
             rest == Uncounted(acc)
             ws == kept \o rest
             n == Len(acc.writes)
             c == acc.counted
  <1>2. /\ acc.writes \in Seq(Writing) /\ n \in Nat /\ c \in 0..n
        /\ \A i \in 1..n : acc.writes[i] \in Writing
        /\ \A i \in 1..n : acc.writes[i].before = ram[acc.writes[i].addr]
    BY <1>1 DEF Shape
  <1>3. /\ kept \in Seq(Writing) /\ Len(kept) = c
        /\ \A i \in 1..c : kept[i] = PutBack(acc.writes[i])
    <2>1. kept = [i \in 1..acc.counted |-> PutBack(acc.writes[i])]
      BY <1>2 DEF Counted
    <2>2. \A i \in 1..acc.counted : PutBack(acc.writes[i]) \in Writing
      BY <1>2, PutBackType
    <2> QED
      BY <1>2, <2>1, <2>2
  <1>4. /\ rest \in Seq(Writing) /\ Len(rest) = n - c
        /\ \A i \in 1..n - c : rest[i] = acc.writes[c + i]
    BY <1>2, Rest DEF Uncounted
  <1>5. /\ ws \in Seq(Writing) /\ Len(ws) = n
        /\ \A i \in 1..c : ws[i] = PutBack(acc.writes[i])
        /\ \A i \in c + 1..n : ws[i] = acc.writes[i]
    <2> HIDE DEF kept, rest, n, c
    <2>1. /\ ws \in Seq(Writing) /\ Len(ws) = Len(kept) + Len(rest)
          /\ \A i \in 1..Len(kept) : ws[i] = kept[i]
          /\ \A i \in Len(kept) + 1..Len(kept) + Len(rest) : ws[i] = rest[i - Len(kept)]
      BY <1>3, <1>4, Glued
    <2> HIDE DEF ws
    <2>2. ASSUME NEW i \in c + 1..n PROVE ws[i] = acc.writes[i]
      <3>1. i - c \in 1..n - c /\ c + (i - c) = i
        BY <1>2
      <3> QED
        BY <1>2, <1>3, <1>4, <2>1, <3>1
    <2>3. Len(ws) = n
      BY <1>2, <1>3, <1>4, <2>1
    <2>4. \A i \in 1..c : ws[i] = PutBack(acc.writes[i])
      BY <1>3, <2>1
    <2> QED
      BY <2>1, <2>2, <2>3, <2>4
  <1> HIDE DEF ws, n, c
  <1>6. ASSUME NEW i \in 1..n
        PROVE  ws[i].addr = acc.writes[i].addr /\ ws[i].before = acc.writes[i].before
    <2>1. CASE i \in 1..c
      BY <1>2, <1>5, <2>1, PutBackType
    <2>2. CASE i \in c + 1..n
      BY <1>5, <2>2
    <2> QED
      BY <1>2, <2>1, <2>2
  <1>7. Treated(acc, ws)
    BY <1>1, <1>5, <1>6 DEF Treated, Shape, n, c
  <1>8. ram' = After(ws)
    BY DebugWrites DEF ws
  <1> QED
    BY <1>5, <1>7, <1>8

(* Every write the recorder is given was treated that way, and none is left *)
(* out but XTHL's.                                                          *)
LEMMA DebugRecords ==
  ASSUME ram \in [Addrs -> Values], NEW acc \in Instructions, Debug(acc)
  PROVE  /\ DOMAIN recorded' = 1..acc.counted
         /\ \A i \in 1..acc.counted : recorded'[i] = PutBack(acc.writes[i])
  <1>1. acc.counted \in Nat
    BY InstructionShape DEF Shape
  <1>2. recorded' = [i \in DOMAIN Counted(acc) |-> Given(Counted(acc)[i])]
    BY Zenon DEF Debug
  <1> QED
    BY <1>1, <1>2 DEF Counted, Given

-----------------------------------------------------------------------------
(* With every write counted, a rejected one leaves the byte as it was. *)
LEMMA DebugKeepsReadonly ==
  ASSUME ~Xthl, TypeOK, NEW acc \in Instructions, Debug(acc),
         NEW a \in DOMAIN edits, edits[a].active, edits[a].readonly
  PROVE  ram'[a] = ram[a]
  <1>1. ram \in [Addrs -> Values] /\ a \in Addrs
    BY DEF TypeOK
  <1>2. Shape(acc)
    BY <1>1, InstructionShape
  <1>3. PICK ws \in Seq(Writing) : Treated(acc, ws) /\ ram' = After(ws)
    BY <1>1, DebugTreats
  <1>4. CASE \A i \in 1..Len(ws) : ws[i].addr # a
    BY <1>1, <1>3, <1>4, AfterWrites
  <1>5. CASE \E i \in 1..Len(ws) : ws[i].addr = a
    <2>1. PICK i \in 1..Len(ws) : ws[i].addr = a
      BY <1>5
    <2>2. i \in 1..acc.counted /\ i \in 1..Len(acc.writes)
      BY <1>2, <1>3, <2>1 DEF Shape, Treated
    <2>3. /\ acc.writes[i] \in Writing /\ acc.writes[i].addr = a
          /\ acc.writes[i].before = ram[a] /\ ws[i] = PutBack(acc.writes[i])
      BY <1>2, <1>3, <2>1, <2>2 DEF Shape, Treated
    <2>4. ws[i].after = ram[a]
      BY <2>3 DEF PutBack, Rejected, Writing
    <2>5. ram'[a] = ws[i].after
      BY <1>1, <1>3, <2>1, AfterWrites DEF Treated
    <2> QED
      BY <2>4, <2>5
  <1> QED
    BY <1>4, <1>5

LEMMA DebugRecordsAll ==
  ASSUME ~Xthl, TypeOK, NEW acc \in Instructions, Debug(acc), NEW a \in Addrs
  PROVE  LET ws == {w \in Range(recorded') : w.addr = a}
         IN  IF ws = {} THEN ram'[a] = ram[a]
             ELSE \A w \in ws : w.before = ram[a] /\ w.after = ram'[a]
  <1>1. ram \in [Addrs -> Values]
    BY DEF TypeOK
  <1>2. Shape(acc)
    BY <1>1, InstructionShape
  <1>3. PICK ws \in Seq(Writing) : Treated(acc, ws) /\ ram' = After(ws)
    BY <1>1, DebugTreats
  <1>4. /\ DOMAIN recorded' = 1..Len(ws)
        /\ \A i \in 1..Len(ws) : recorded'[i] = ws[i]
    BY <1>1, <1>2, <1>3, DebugRecords DEF Shape, Treated
  <1>5. ASSUME NEW i \in 1..Len(ws), ws[i].addr = a
        PROVE  ws[i].before = ram[a] /\ ws[i].after = ram'[a]
    <2>1. ws[i].before = ram[a]
      BY <1>2, <1>3, <1>5 DEF Shape, Treated
    <2>2. ws[i].after = ram'[a]
      BY <1>1, <1>3, <1>5, AfterWrites DEF Treated
    <2> QED
      BY <2>1, <2>2
  <1>6. CASE \A i \in 1..Len(ws) : ws[i].addr # a
    <2>1. ram'[a] = ram[a]
      BY <1>1, <1>3, <1>6, AfterWrites
    <2>2. {w \in Range(recorded') : w.addr = a} = {}
      BY <1>4, <1>6 DEF Range
    <2> QED
      BY <2>1, <2>2
  <1>7. CASE \E i \in 1..Len(ws) : ws[i].addr = a
    <2>1. PICK i \in 1..Len(ws) : ws[i].addr = a
      BY <1>7
    <2>2. recorded'[i] \in {w \in Range(recorded') : w.addr = a}
      BY <1>4, <2>1 DEF Range
    <2>3. \A w \in Range(recorded') :
            w.addr = a => w.before = ram[a] /\ w.after = ram'[a]
      BY <1>4, <1>5 DEF Range
    <2> QED
      BY <2>2, <2>3
  <1> QED
    BY <1>6, <1>7

(* Only instructions that are watched have anything to say. *)
LEMMA OnlyDebugSpeaks ==
  ASSUME Next, report'.by = "debug"
  PROVE  \E acc \in Instructions : Debug(acc)
  <1>1. report' # Silent
    BY DEF Silent
  <1> QED
    BY <1>1 DEF Next, Instruction, BeginFrame, FrameInstruction, Unwatched, Request,
                BreakpointRequest, WatchpointRequest, EditRequest, MemoryRequest

-----------------------------------------------------------------------------
(* The invariant, a conjunct for each collection; what a breakpoint's       *)
(* counter may be follows from how it is counted.                           *)
EditsOK ==
  /\ ram \in [Addrs -> Values]
  /\ DOMAIN edits \subseteq Addrs
  /\ \A a \in DOMAIN edits : edits[a] \in [entered : Values, readonly : BOOLEAN,
                                           active : BOOLEAN, original : Values]

BreaksOK ==
  /\ DOMAIN bps \subseteq Pcs
  /\ \A pc \in DOMAIN bps :
       bps[pc] \in [counter : 0..MaxCounter, autoDel : BOOLEAN, active : BOOLEAN]
  /\ DOMAIN asked = DOMAIN bps
  /\ \A pc \in DOMAIN asked : asked[pc] \in [counter : 1..MaxCounter, visits : 0..MaxCounter]
  /\ bpUpdates \in 0..UpdateWrap - 1
  /\ CountKept

WatchesOK ==
  /\ nextId \in Nat /\ DOMAIN wps \subseteq 0..nextId - 1
  /\ DOMAIN seen = DOMAIN wps
  /\ wpUpdates \in 0..UpdateWrap - 1

IInv ==
  /\ EditsOK /\ BreaksOK /\ WatchesOK
  /\ frame \in BOOLEAN /\ requests \in 0..MaxRequests

LEMMA Parts == IInv <=> TypeOK /\ CountKept
  BY DEF IInv, EditsOK, BreaksOK, WatchesOK, TypeOK

LEMMA BumpType ==
  ASSUME NEW n \in 0..UpdateWrap - 1
  PROVE  Bump(n) \in 0..UpdateWrap - 1
  BY DebuggerAssumption DEF Bump

-----------------------------------------------------------------------------
(* The breakpoints. *)

LEMMA DropKeepsBreaks ==
  ASSUME BreaksOK, NEW pc, bps' = Drop(bps, pc), asked' = Drop(asked, pc),
         bpUpdates' \in 0..UpdateWrap - 1
  PROVE  BreaksOK'
  <1>1. /\ DOMAIN bps' = DOMAIN bps \ {pc} /\ DOMAIN asked' = DOMAIN asked \ {pc}
        /\ \A x \in DOMAIN bps \ {pc} : bps'[x] = bps[x]
        /\ \A x \in DOMAIN asked \ {pc} : asked'[x] = asked[x]
    BY DEF Drop, Restrict
  <1> QED
    BY <1>1 DEF BreaksOK, CountKept

LEMMA VisitKeepsBreaks ==
  ASSUME BreaksOK, NEW pc, CheckBreakpoint(pc)
  PROVE  BreaksOK'
  <1> USE DebuggerAssumption
  <1>1. bpUpdates' \in 0..UpdateWrap - 1
    BY BumpType DEF BreaksOK, CheckBreakpoint
  <1>2. CASE ~Visits(pc)
    BY <1>1, <1>2 DEF BreaksOK, CheckBreakpoint, CountKept
  <1>3. CASE Visits(pc) /\ Breaks(pc) /\ bps[pc].autoDel
    <2>1. bps' = Drop(bps, pc) /\ asked' = Drop(asked, pc)
      BY <1>3 DEF CheckBreakpoint
    <2> QED
      BY <1>1, <2>1, DropKeepsBreaks
  <1>4. CASE Visits(pc) /\ ~(Breaks(pc) /\ bps[pc].autoDel)
    <2> DEFINE b == bps[pc]
               a == asked[pc]
    <2>1. /\ pc \in DOMAIN bps /\ pc \in DOMAIN asked /\ pc \in Pcs
          /\ b \in [counter : 0..MaxCounter, autoDel : BOOLEAN, active : BOOLEAN]
          /\ a \in [counter : 1..MaxCounter, visits : 0..MaxCounter]
          /\ b.counter = a.counter - a.visits
          /\ b.autoDel => a.visits < a.counter
      BY <1>4 DEF BreaksOK, CountKept, Visits
    <2>2. /\ bps' = [bps EXCEPT ![pc].counter = Left(pc)]
          /\ asked' = [asked EXCEPT ![pc].visits = IF @ < asked[pc].counter THEN @ + 1 ELSE @]
      BY <1>4 DEF CheckBreakpoint, Remaining
    <2>3. /\ DOMAIN bps' = DOMAIN bps /\ DOMAIN asked' = DOMAIN asked
          /\ \A x \in DOMAIN bps \ {pc} : bps'[x] = bps[x] /\ asked'[x] = asked[x]
      BY <2>2 DEF BreaksOK
    <2>4. Left(pc) \in 0..MaxCounter /\ (b.autoDel => Left(pc) # 0)
      BY <1>4, <2>1 DEF Left, Breaks
    <2>5. /\ bps'[pc] \in [counter : 0..MaxCounter, autoDel : BOOLEAN, active : BOOLEAN]
          /\ bps'[pc].counter = Left(pc) /\ bps'[pc].autoDel = b.autoDel
      BY <2>1, <2>2, <2>4
    <2>6. /\ asked'[pc] \in [counter : 1..MaxCounter, visits : 0..MaxCounter]
          /\ asked'[pc].counter = a.counter
          /\ asked'[pc].visits = (IF a.visits < a.counter THEN a.visits + 1 ELSE a.visits)
      BY <2>1, <2>2
    <2>7. /\ bps'[pc].counter = asked'[pc].counter - asked'[pc].visits
          /\ bps'[pc].autoDel => asked'[pc].visits < asked'[pc].counter
      BY <2>1, <2>4, <2>5, <2>6 DEF Left
    <2> QED
      BY <1>1, <2>1, <2>3, <2>5, <2>6, <2>7 DEF BreaksOK, CountKept
  <1> QED
    BY <1>2, <1>3, <1>4

LEMMA RequestKeepsBreaks ==
  ASSUME BreaksOK, BreakpointRequest
  PROVE  BreaksOK'
  <1> USE DebuggerAssumption
  <1>1. Bump(bpUpdates) \in 0..UpdateWrap - 1
    BY BumpType DEF BreaksOK
  <1>2. ASSUME NEW pc \in Pcs, NEW n \in 1..MaxCounter, NEW del \in BOOLEAN,
               NEW act \in BOOLEAN, BreakpointAdd(pc, n, del, act)
        PROVE  BreaksOK'
    <2> DEFINE b == [counter |-> n, autoDel |-> del, active |-> act]
               a == [counter |-> n, visits |-> 0]
    <2>1. /\ b \in [counter : 0..MaxCounter, autoDel : BOOLEAN, active : BOOLEAN]
          /\ a \in [counter : 1..MaxCounter, visits : 0..MaxCounter]
          /\ b.counter = a.counter - a.visits /\ a.visits < a.counter
      OBVIOUS
    <2> HIDE DEF a, b
    <2>2. bps' = Put(bps, pc, b) /\ asked' = Put(asked, pc, a) /\ bpUpdates' = Bump(bpUpdates)
      BY <1>2 DEF BreakpointAdd, a, b
    <2>3. /\ DOMAIN bps' = DOMAIN bps \union {pc} /\ DOMAIN asked' = DOMAIN asked \union {pc}
          /\ bps'[pc] = b /\ asked'[pc] = a
          /\ \A x \in DOMAIN bps \ {pc} : bps'[x] = bps[x]
          /\ \A x \in DOMAIN asked \ {pc} : asked'[x] = asked[x]
      BY <2>2 DEF Put
    <2> QED
      BY <1>1, <2>1, <2>2, <2>3 DEF BreaksOK, CountKept
  <1>3. ASSUME NEW pc \in Pcs, NEW act \in BOOLEAN, BreakpointSetStatus(pc, act)
        PROVE  BreaksOK'
    BY <1>1, <1>3 DEF BreakpointSetStatus, BreaksOK, CountKept, breaks
  <1>4. ASSUME NEW pc \in Pcs, BreakpointDel(pc)
        PROVE  BreaksOK'
    <2>1. CASE pc \in DOMAIN bps
      BY <1>1, <1>4, <2>1, DropKeepsBreaks DEF BreakpointDel
    <2>2. CASE pc \notin DOMAIN bps
      BY <1>4, <2>2 DEF BreakpointDel, BreaksOK, CountKept, breaks
    <2> QED
      BY <2>1, <2>2
  <1>5. ASSUME BreakpointDelAll
        PROVE  BreaksOK'
    BY <1>1, <1>5 DEF BreakpointDelAll, BreaksOK, CountKept, breaks
  <1> QED
    BY <1>2, <1>3, <1>4, <1>5 DEF BreakpointRequest

-----------------------------------------------------------------------------
(* The watchpoints. *)

(* The number a new watchpoint is given is the next one: no number at or     *)
(* above it is taken.                                                        *)
LEMMA NumberIsNext ==
  ASSUME WatchesOK
  PROVE  nextId = CHOOSE i \in nextId..nextId + Cardinality(DOMAIN wps) :
                    i \notin DOMAIN wps /\ \A j \in nextId..i - 1 : j \in DOMAIN wps
  <1>1. nextId \in Nat /\ \A i \in DOMAIN wps : i \in Int /\ i < nextId
    BY DEF WatchesOK
  <1>2. Cardinality(DOMAIN wps) \in Nat
    <2>1. IsFiniteSet(0..nextId - 1)
      BY <1>1, FS_Interval
    <2> QED
      BY <2>1, FS_Subset, FS_CardinalityType DEF WatchesOK
  <1> DEFINE Free(i) == i \notin DOMAIN wps /\ \A j \in nextId..i - 1 : j \in DOMAIN wps
             Candidates == nextId..nextId + Cardinality(DOMAIN wps)
  <1>3. nextId \in Candidates /\ Free(nextId)
    BY <1>1, <1>2
  <1>4. \A i \in Candidates : Free(i) => i = nextId
    <2>1. ASSUME NEW i \in Candidates, Free(i), i # nextId PROVE FALSE
      <3>1. nextId \in nextId..i - 1
        BY <1>1, <1>2, <2>1
      <3> QED
        BY <1>1, <2>1, <3>1
    <2> QED
      BY <2>1
  <1> HIDE DEF Candidates, Free
  <1>5. nextId = CHOOSE i \in Candidates : Free(i)
    BY <1>3, <1>4
  <1> QED
    BY <1>5 DEF Candidates, Free

LEMMA RequestKeepsWatches ==
  ASSUME WatchesOK, WatchpointRequest
  PROVE  WatchesOK'
  <1> USE DebuggerAssumption
  <1>1. Bump(wpUpdates) \in 0..UpdateWrap - 1
    BY BumpType DEF WatchesOK
  <1>2. ASSUME NEW w \in Watches, WatchpointAdd(w)
        PROVE  WatchesOK'
    <2>1. /\ wps' = Put(wps, nextId, Unlatched(w)) /\ seen' = Put(seen, nextId, NoBytes)
          /\ nextId' = nextId + 1 /\ wpUpdates' = Bump(wpUpdates)
      BY <1>2, NumberIsNext DEF WatchpointAdd
    <2>2. DOMAIN wps' = DOMAIN wps \union {nextId} /\ DOMAIN seen' = DOMAIN seen \union {nextId}
      BY <2>1 DEF Put
    <2> QED
      BY <1>1, <2>1, <2>2 DEF WatchesOK
  <1>3. ASSUME NEW w \in Watches, NEW id \in DOMAIN wps, WatchpointEdit(id, w)
        PROVE  WatchesOK'
    BY <1>1, <1>3 DEF WatchpointEdit, WatchesOK
  <1>4. ASSUME NEW id \in DOMAIN wps, WatchpointDel(id)
        PROVE  WatchesOK'
    <2>1. DOMAIN wps' = DOMAIN wps \ {id} /\ DOMAIN seen' = DOMAIN seen \ {id}
      BY <1>4 DEF WatchpointDel, Drop, Restrict
    <2> QED
      BY <1>1, <1>4, <2>1 DEF WatchpointDel, WatchesOK
  <1>5. ASSUME WatchpointDelAll
        PROVE  WatchesOK'
    BY <1>1, <1>5 DEF WatchpointDelAll, WatchesOK, watches
  <1> QED
    BY <1>2, <1>3, <1>4, <1>5 DEF WatchpointRequest

-----------------------------------------------------------------------------
(* The memory and its edits. *)

LEMMA RequestKeepsEdits ==
  ASSUME EditsOK, EditRequest
  PROVE  EditsOK'
  <1> USE DebuggerAssumption
  <1>1. ASSUME NEW a \in Addrs, NEW e \in Edits, EditAdd(a, e)
        PROVE  EditsOK'
    <2> DEFINE original == IF a \in DOMAIN edits THEN edits[a].original ELSE ram[a]
               new == [entered |-> e.entered, readonly |-> e.readonly,
                       active |-> e.active, original |-> original]
    <2>1. e.entered \in Values /\ e.readonly \in BOOLEAN /\ e.active \in BOOLEAN
      BY DEF EditConfigs
    <2>2. original \in Values
      BY DEF EditsOK
    <2>3. new \in [entered : Values, readonly : BOOLEAN, active : BOOLEAN, original : Values]
      BY <2>1, <2>2
    <2>4. edits' = Put(edits, a, new) /\ (ram' = ram \/ ram' = [ram EXCEPT ![a] = e.entered])
      BY <1>1 DEF EditAdd
    <2> HIDE DEF new, original
    <2>5. ram' \in [Addrs -> Values]
      BY <2>1, <2>4 DEF EditsOK
    <2>6. /\ DOMAIN edits' = DOMAIN edits \union {a} /\ edits'[a] = new
          /\ \A x \in DOMAIN edits \ {a} : edits'[x] = edits[x]
      BY <2>4 DEF Put
    <2> QED
      BY <2>3, <2>5, <2>6 DEF EditsOK
  <1>2. ASSUME NEW a \in Addrs, edits' = Drop(edits, a), ram' \in [Addrs -> Values]
        PROVE  EditsOK'
    <2>1. /\ DOMAIN edits' = DOMAIN edits \ {a}
          /\ \A x \in DOMAIN edits \ {a} : edits'[x] = edits[x]
      BY <1>2 DEF Drop, Restrict
    <2> QED
      BY <1>2, <2>1 DEF EditsOK
  <1>3. ASSUME NEW a \in Addrs, EditDel(a)
        PROVE  EditsOK'
    BY <1>2, <1>3 DEF EditDel, EditsOK
  <1>4. ASSUME NEW a \in Addrs, EditRestore(a)
        PROVE  EditsOK'
    <2>1. CASE a \in DOMAIN edits
      <3>1. ram' \in [Addrs -> Values]
        BY <1>4, <2>1 DEF EditRestore, EditsOK
      <3> QED
        BY <1>2, <1>4, <2>1, <3>1 DEF EditRestore
    <2>2. CASE a \notin DOMAIN edits
      BY <1>4, <2>2 DEF EditRestore, EditsOK
    <2> QED
      BY <2>1, <2>2
  <1>5. ASSUME EditDelAll
        PROVE  EditsOK'
    BY <1>5 DEF EditDelAll, EditsOK
  <1> QED
    BY <1>1, <1>3, <1>4, <1>5 DEF EditRequest

LEMMA MemoryRequestKeepsEdits ==
  ASSUME EditsOK, MemoryRequest
  PROVE  EditsOK'
  <1>1. ASSUME NEW a \in Addrs, NEW v \in Values, HostWrite(a, v)
        PROVE  ram' \in [Addrs -> Values]
    BY <1>1 DEF HostWrite, EditsOK
  <1>2. ASSUME NEW rom \in [Addrs -> Values], LoadRom(rom)
        PROVE  ram' \in [Addrs -> Values]
    BY <1>2 DEF LoadRom, EditsOK
  <1> QED
    BY <1>1, <1>2 DEF MemoryRequest, EditsOK

-----------------------------------------------------------------------------
(* An instruction that is watched. *)
LEMMA DebugKeeps ==
  ASSUME EditsOK, BreaksOK, WatchesOK, NEW acc \in Instructions, Debug(acc)
  PROVE  EditsOK' /\ BreaksOK' /\ WatchesOK' /\ requests' = requests
  <1>1. /\ DOMAIN wps' = DOMAIN wps /\ DOMAIN seen' = DOMAIN wps
        /\ nextId' = nextId /\ wpUpdates' = wpUpdates /\ edits' = edits /\ requests' = requests
        /\ \E pc : CheckBreakpoint(pc)
    <2>1. \E was, accs :
            /\ wps' = CheckBreak(was)
            /\ seen' = IF was.hit # Quiet THEN [id \in DOMAIN wps |-> NoBytes] ELSE Seen(accs)
      BY Zenon DEF Debug
    <2>2. DOMAIN wps' = DOMAIN wps /\ DOMAIN seen' = DOMAIN wps
      BY <2>1 DEF CheckBreak, Seen
    <2>3. /\ nextId' = nextId /\ wpUpdates' = wpUpdates /\ edits' = edits /\ requests' = requests
          /\ \E pc : CheckBreakpoint(pc)
      BY Zenon DEF Debug
    <2> QED
      BY <2>2, <2>3
  <1>2. PICK ws \in Seq(Writing) : ram' = After(ws)
    BY DebugTreats DEF EditsOK
  <1>3. ram' \in [Addrs -> Values]
    BY <1>2, AfterWrites DEF EditsOK
  <1>4. BreaksOK'
    BY <1>1, VisitKeepsBreaks
  <1> QED
    BY <1>1, <1>3, <1>4 DEF EditsOK, WatchesOK

LEMMA UnwatchedKeeps ==
  ASSUME EditsOK, Unwatched
  PROVE  EditsOK'
  <1>1. PICK acc \in Instructions : ram' = After(acc.writes)
    BY DEF Unwatched
  <1>2. acc.writes \in Seq(Writing)
    BY InstructionShape DEF Shape, EditsOK
  <1>3. ram' \in [Addrs -> Values]
    BY <1>1, <1>2, AfterWrites DEF EditsOK
  <1> QED
    BY <1>3 DEF Unwatched, EditsOK

LEMMA Unchanged ==
  /\ EditsOK /\ UNCHANGED <<ram, edits>> => EditsOK'
  /\ BreaksOK /\ UNCHANGED breaks => BreaksOK'
  /\ WatchesOK /\ UNCHANGED watches => WatchesOK'
  BY DEF EditsOK, BreaksOK, CountKept, WatchesOK, breaks, watches

LEMMA InitIInv == Init => IInv
  <1> SUFFICES ASSUME Init PROVE IInv
    OBVIOUS
  <1> USE DebuggerAssumption DEF Init
  <1>1. DOMAIN edits = {} /\ DOMAIN bps = {} /\ DOMAIN wps = {}
    OBVIOUS
  <1>2. DOMAIN asked = {} /\ DOMAIN seen = {}
    OBVIOUS
  <1>3. EditsOK
    BY <1>1 DEF EditsOK
  <1>4. BreaksOK
    <2>1. bpUpdates = 0 /\ UpdateWrap \in Nat \ {0, 1}
      OBVIOUS
    <2> QED
      BY <1>1, <1>2, <2>1 DEF BreaksOK, CountKept
  <1>5. WatchesOK
    <2>1. nextId = 0 /\ wpUpdates = 0 /\ UpdateWrap \in Nat \ {0, 1}
      OBVIOUS
    <2> QED
      BY <1>1, <1>2, <2>1 DEF WatchesOK
  <1>6. requests \in 0..MaxRequests
    OBVIOUS
  <1>7. frame \in BOOLEAN
    BY Zenon
  <1> HIDE DEF Init
  <1> QED
    BY <1>3, <1>4, <1>5, <1>6, <1>7 DEF IInv

LEMMA StepIInv == IInv /\ [Next]_vars => IInv'
  <1> SUFFICES ASSUME IInv, [Next]_vars PROVE IInv'
    OBVIOUS
  <1> USE DebuggerAssumption DEF IInv
  <1>1. CASE Instruction
    BY <1>1, DebugKeeps DEF Instruction
  <1>2. CASE BeginFrame
    BY <1>2, Unchanged DEF BeginFrame
  <1>3. CASE FrameInstruction
    BY <1>3, DebugKeeps DEF FrameInstruction
  <1>4. CASE Unwatched
    BY <1>4, UnwatchedKeeps, Unchanged DEF Unwatched
  <1>5. ASSUME Request PROVE requests' \in 0..MaxRequests
    BY <1>5 DEF Request
  <1>6. CASE BreakpointRequest
    BY <1>5, <1>6, RequestKeepsBreaks, Unchanged DEF BreakpointRequest
  <1>7. CASE WatchpointRequest
    BY <1>5, <1>7, RequestKeepsWatches, Unchanged DEF WatchpointRequest
  <1>8. CASE EditRequest
    BY <1>5, <1>8, RequestKeepsEdits, Unchanged DEF EditRequest
  <1>9. CASE MemoryRequest
    BY <1>9, MemoryRequestKeepsEdits, Unchanged DEF MemoryRequest
  <1>10. CASE UNCHANGED vars
    BY <1>10, Unchanged DEF vars
  <1> QED
    BY <1>1, <1>2, <1>3, <1>4, <1>6, <1>7, <1>8, <1>9, <1>10 DEF Next

(* The types hold in every reachable state: a new watchpoint's number is     *)
(* free, a counter stays between zero and what it was asked to be.           *)
THEOREM TypeCorrect == Spec => []TypeOK
  <1>1. IInv => TypeOK
    BY Parts
  <1> QED
    BY InitIInv, StepIInv, <1>1, PTL DEF Spec

(* Breakpoints stop at the visit their counter says and at every later one,  *)
(* whatever requests and executed frames come in between.                    *)
THEOREM CountsKept == Spec => []CountKept
  <1>1. IInv => CountKept
    BY Parts
  <1> QED
    BY InitIInv, StepIInv, <1>1, PTL DEF Spec

(* Unless the program executes XTHL, no instruction that is watched changes  *)
(* a byte an active read-only edit protects: Debug() puts every one back.    *)
THEOREM ReadonlyEnforced ==
  ASSUME ~Xthl
  PROVE  Spec => ReadonlyHeld
  <1> DEFINE Kept == report'.by = "debug" =>
                       \A a \in DOMAIN edits :
                         edits[a].active /\ edits[a].readonly => ram'[a] = ram[a]
  <1>1. TypeOK /\ [Next]_vars => [Kept]_vars
    <2> SUFFICES ASSUME TypeOK, Next, report'.by = "debug",
                        NEW a \in DOMAIN edits, edits[a].active, edits[a].readonly
                 PROVE  ram'[a] = ram[a]
      OBVIOUS
    <2> QED
      BY OnlyDebugSpeaks, DebugKeepsReadonly
  <1> QED
    BY TypeCorrect, <1>1, PTL DEF Spec, ReadonlyHeld

(* Unless the program executes XTHL, what the recorder is given of an        *)
(* instruction undoes and redoes exactly what it did to the memory.          *)
THEOREM RecorderTold ==
  ASSUME ~Xthl
  PROVE  Spec => RecorderExact
  <1> DEFINE Told == report'.by = "debug" =>
                       \A a \in Addrs :
                         LET ws == {w \in Range(recorded') : w.addr = a}
                         IN  IF ws = {} THEN ram'[a] = ram[a]
                             ELSE \A w \in ws : w.before = ram[a] /\ w.after = ram'[a]
  <1>1. TypeOK /\ [Next]_vars => [Told]_vars
    <2> SUFFICES ASSUME TypeOK, Next, report'.by = "debug" PROVE Told
      OBVIOUS
    <2>1. PICK acc \in Instructions : Debug(acc)
      BY OnlyDebugSpeaks
    <2> QED
      BY <2>1, DebugRecordsAll
  <1> QED
    BY TypeCorrect, <1>1, PTL DEF Spec, RecorderExact

-----------------------------------------------------------------------------
(* Watchpoints look at the accesses of an instruction one by one.  Both the *)
(* accesses and what they do are computed by loops, so what the loops       *)
(* compute is shown by induction over their steps.                          *)

LEMMA Induct ==
  ASSUME NEW n \in Nat, NEW S, 0 \in S, \A k \in 0..n - 1 : k \in S => k + 1 \in S
  PROVE  \A k \in 0..n : k \in S
  <1> DEFINE T == (0..n) \ S
  <1>1. SUFFICES ASSUME T # {} PROVE FALSE
    OBVIOUS
  <1>2. T \subseteq Nat
    OBVIOUS
  <1> HIDE DEF T
  <1>3. PICK x \in T : \A y \in T : ~ (<<y, x>> \in OpToRel(<, Nat))
    BY <1>1, <1>2, WFMin, NatLessThanWellFounded, Zenon
  <1>4. \A y \in T : ~ (y < x)
    BY <1>2, <1>3, Zenon DEF OpToRel
  <1>5. x \in 0..n /\ x \notin S /\ \A y \in 0..n : y < x => y \in S
    BY <1>4 DEF T
  <1>6. x # 0 /\ x - 1 \in 0..n - 1 /\ x - 1 \in S
    BY <1>5
  <1>7. (x - 1) + 1 \in S
    BY <1>6
  <1> QED
    BY <1>5, <1>7

LEMMA InstructionReads ==
  ASSUME NEW acc \in Instructions
  PROVE  acc.reads \in Seq(Addrs)
  <1>1. ASSUME NEW reads \in Seq(Addrs), NEW writes, NEW counted, acc = Access(reads, writes, counted)
        PROVE  acc.reads \in Seq(Addrs)
    BY <1>1 DEF Access
  <1>2. <<>> \in Seq(Addrs) /\ \A a \in Addrs : <<a>> \in Seq(Addrs)
    OBVIOUS
  <1>3. \A as \in WordAddrs : as \in Seq(Addrs)
    BY WordAddresses
  <1>4. CASE acc \in Plain
    BY <1>1, <1>2, <1>4 DEF Plain
  <1>5. CASE acc \in Bytes
    <2>1. ASSUME NEW a \in Addrs, acc = ReadByte(a) PROVE acc.reads \in Seq(Addrs)
      BY <1>1, <1>2, <2>1, Zenon DEF ReadByte
    <2>2. ASSUME NEW a \in Addrs, NEW v \in Values, acc = WriteByte(a, v)
          PROVE  acc.reads \in Seq(Addrs)
      BY <1>1, <1>2, <2>2, Zenon DEF WriteByte
    <2>3. ASSUME NEW a \in Addrs, NEW v \in Values, acc = UpdateByte(a, v)
          PROVE  acc.reads \in Seq(Addrs)
      BY <1>1, <1>2, <2>3, Zenon DEF UpdateByte
    <2> QED
      BY <1>5, <2>1, <2>2, <2>3 DEF Bytes
  <1>6. CASE acc \in Words
    <2>1. ASSUME NEW as \in WordAddrs, acc = ReadWord(as) PROVE acc.reads \in Seq(Addrs)
      BY <1>1, <1>3, <2>1, Zenon DEF ReadWord
    <2>2. ASSUME NEW as \in WordAddrs, NEW vs \in Values \X Values, acc = WriteWord(as, vs)
          PROVE  acc.reads \in Seq(Addrs)
      BY <1>1, <1>2, <2>2, Zenon DEF WriteWord
    <2> QED
      BY <1>6, <2>1, <2>2 DEF Words
  <1>7. CASE acc \in XthlBytes
    <2>1. PICK as \in WordAddrs, vs \in Values \X Values : acc = ExchangeWord(as, vs)
      BY <1>7 DEF XthlBytes
    <2> QED
      BY <1>1, <1>3, <2>1, Zenon DEF ExchangeWord
  <1> QED
    BY <1>4, <1>5, <1>6, <1>7, Zenon DEF Instructions

(* The accepted writes, as the watchpoints see them.                        *)
AsSeen(w) == [access |-> "W", addr |-> w.addr, value |-> w.after]
Shown(ws) == {AsSeen(w) : w \in {v \in Range(ws) : ~Rejected(v)}}

LEMMA WritesShown ==
  ASSUME NEW acc, Counted(acc) \in Seq(Writing)
  PROVE  Writes(acc) \in Seq(Shown(Counted(acc)))
  <1> DEFINE ws == Counted(acc)
             n == Len(ws)
             S == Seq(Shown(ws))
             Loop(f, i) == IF i = 0 THEN <<>>
                           ELSE IF Rejected(ws[i]) THEN f[i - 1]
                           ELSE Append(f[i - 1], [access |-> "W", addr |-> ws[i].addr,
                                                  value |-> ws[i].after])
             Defines(f, m) == f = [i \in 0..m |-> Loop(f, i)]
             Defined == {m \in 0..n : \E f : Defines(f, m)}
             shown == CHOOSE f : Defines(f, n)
             Good == {i \in 0..n : shown[i] \in S}
  <1>1. n \in Nat
    OBVIOUS
  <1>2. ASSUME NEW i \in 1..n, ~Rejected(ws[i])
        PROVE  AsSeen(ws[i]) \in Shown(ws)
    BY <1>2 DEF Shown, Range
  <1>3. Writes(acc) = shown[n]
    BY Zenon DEF Writes
  <1>4. ASSUME NEW f PROVE Loop(f, 0) = <<>>
    OBVIOUS
  <1>5. ASSUME NEW f, NEW i \in 1..n
        PROVE  Loop(f, i) = IF Rejected(ws[i]) THEN f[i - 1] ELSE Append(f[i - 1], AsSeen(ws[i]))
    <2>1. i # 0
      OBVIOUS
    <2> QED
      BY <2>1, Zenon DEF AsSeen
  <1>6. ASSUME NEW f, NEW g, NEW i \in 0..n, i # 0 => f[i - 1] = g[i - 1]
        PROVE  Loop(f, i) = Loop(g, i)
    BY <1>6, Zenon
  <1>7. <<>> \in S
    OBVIOUS
  <1>8. ASSUME NEW s \in S, NEW x \in Shown(ws)
        PROVE  Append(s, x) \in S
    OBVIOUS
  <1> HIDE DEF ws, n, S, Loop
  <1>9. 0 \in Defined
    <2>1. Defines([i \in 0..0 |-> Loop(<<>>, i)], 0)
      <3> DEFINE g == [i \in 0..0 |-> Loop(<<>>, i)]
      <3>1. ASSUME NEW i \in 0..0 PROVE Loop(<<>>, i) = Loop(g, i)
        BY <1>4
      <3> QED
        BY <3>1
    <2> QED
      BY <1>1, <2>1
  <1>10. ASSUME NEW m \in 0..n - 1, m \in Defined
         PROVE  m + 1 \in Defined
    <2>1. PICK f : Defines(f, m)
      BY <1>10
    <2> DEFINE g == [i \in 0..m + 1 |-> IF i <= m THEN f[i] ELSE Loop(f, i)]
    <2>2. ASSUME NEW i \in 0..m + 1 PROVE g[i] = Loop(g, i)
      <3>1. i # 0 => i - 1 \in 0..m /\ g[i - 1] = f[i - 1]
        BY <1>1
      <3>2. i <= m => f[i] = Loop(f, i)
        BY <2>1, <1>1
      <3>3. g[i] = Loop(f, i)
        BY <3>2
      <3>4. Loop(f, i) = Loop(g, i)
        BY <1>1, <1>6, <3>1
      <3> QED
        BY <3>3, <3>4
    <2>3. g = [i \in 0..m + 1 |-> g[i]]
      OBVIOUS
    <2> HIDE DEF g
    <2>4. Defines(g, m + 1)
      BY <2>2, <2>3
    <2> QED
      BY <1>1, <2>4
  <1>11. \E f : Defines(f, n)
    <2>1. n \in 0..n
      BY <1>1
    <2> HIDE DEF Defines
    <2> DEFINE D == Defined
    <2>2. 0 \in D /\ \A k \in 0..n - 1 : k \in D => k + 1 \in D
      BY <1>9, <1>10
    <2> HIDE DEF D
    <2>3. n \in D
      BY <1>1, <2>1, <2>2, Induct
    <2> QED
      BY <2>3 DEF D
  <1>12. Defines(shown, n)
    <2> HIDE DEF Defines
    <2> QED
      BY <1>11, Zenon
  <1> HIDE DEF shown
  <1>13. \A i \in 0..n : shown[i] = Loop(shown, i)
    BY <1>12
  <1>14. 0 \in Good
    BY <1>1, <1>4, <1>7, <1>13
  <1>15. ASSUME NEW i \in 0..n - 1, i \in Good
         PROVE  i + 1 \in Good
    <2>1. i + 1 \in 1..n /\ (i + 1) - 1 = i /\ i + 1 \in 0..n
      BY <1>1
    <2>2. shown[i + 1] = Loop(shown, i + 1)
      BY <1>13, <2>1
    <2>3. shown[i + 1] = IF Rejected(ws[i + 1]) THEN shown[i]
                         ELSE Append(shown[i], AsSeen(ws[i + 1]))
      BY <1>5, <2>1, <2>2
    <2>4. shown[i] \in S
      BY <1>15
    <2>5. shown[i + 1] \in S
      BY <1>2, <1>8, <2>1, <2>3, <2>4
    <2> QED
      BY <2>1, <2>5
  <1>16. n \in Good
    <2>1. n \in 0..n
      BY <1>1
    <2> DEFINE G == Good
    <2>2. 0 \in G /\ \A k \in 0..n - 1 : k \in G => k + 1 \in G
      BY <1>14, <1>15
    <2> HIDE DEF G
    <2>3. n \in G
      BY <1>1, <2>1, <2>2, Induct
    <2> QED
      BY <2>3 DEF G
  <1> QED
    BY <1>3, <1>16 DEF ws, S

(* An access, as the watchpoints see it. *)
Seeing == [access : {"R", "W"}, addr : Addrs, value : Values]

(* The byte a configuration has seen last in the first k accesses.          *)
LastTo(w, low, accs, before, k) ==
  LET ks == {j \in 1..k : Touches(w, accs[j]) /\ Low(w, accs[j].addr) = low}
  IN  IF ks = {} THEN before
      ELSE accs[CHOOSE j \in ks : \A i \in ks : i <= j].value

LastLo(w, accs, before, k) == LastTo(w, TRUE, accs, before, k)
LastHi(w, accs, before, k) == LastTo(w, FALSE, accs, before, k)
SatisfiedLo(w, v) == Satisfied(w, TRUE, v)
SatisfiedHi(w, v) == Satisfied(w, FALSE, v)

LEMMA LastAll ==
  ASSUME NEW w, NEW low, NEW S, NEW accs \in Seq(S), NEW before
  PROVE  LastSeen(w, low, accs, before) = LastTo(w, low, accs, before, Len(accs))
  <1> DEFINE ks(D) == {j \in D : Touches(w, accs[j]) /\ Low(w, accs[j].addr) = low}
             last(D) == IF ks(D) = {} THEN before
                        ELSE accs[CHOOSE j \in ks(D) : \A i \in ks(D) : i <= j].value
  <1>1. DOMAIN accs = 1..Len(accs)
    OBVIOUS
  <1>2. LastSeen(w, low, accs, before) = last(DOMAIN accs)
    BY Zenon DEF LastSeen
  <1>3. LastTo(w, low, accs, before, Len(accs)) = last(1..Len(accs))
    BY Zenon DEF LastTo
  <1> QED
    BY <1>1, <1>2, <1>3, Zenon

LEMMA LastNone ==
  ASSUME NEW w, NEW accs, NEW before
  PROVE  LastLo(w, accs, before, 0) = before /\ LastHi(w, accs, before, 0) = before
  BY DEF LastTo, LastLo, LastHi

LEMMA LastStepOf ==
  ASSUME NEW w, NEW low, NEW accs, NEW before, NEW k \in Nat
  PROVE  LastTo(w, low, accs, before, k + 1)
           = IF Touches(w, accs[k + 1]) /\ Low(w, accs[k + 1].addr) = low
             THEN accs[k + 1].value ELSE LastTo(w, low, accs, before, k)
  <1> DEFINE Sees(j) == Touches(w, accs[j]) /\ Low(w, accs[j].addr) = low
             ks(m) == {j \in 1..m : Sees(j)}
             last(m) == CHOOSE j \in ks(m) : \A i \in ks(m) : i <= j
  <1>1. \A m : LastTo(w, low, accs, before, m) = IF ks(m) = {} THEN before ELSE accs[last(m)].value
    BY Zenon DEF LastTo
  <1> HIDE DEF Sees
  <1>3. CASE Sees(k + 1)
    <2>1. k + 1 \in ks(k + 1) /\ \A i \in ks(k + 1) : i <= k + 1
      BY <1>3
    <2>2. \A j \in ks(k + 1) : (\A i \in ks(k + 1) : i <= j) => j = k + 1
      BY <2>1
    <2> HIDE DEF ks
    <2>3. last(k + 1) = k + 1
      BY <2>1, <2>2
    <2>4. LastTo(w, low, accs, before, k + 1) = accs[k + 1].value
      BY <1>1, <2>1, <2>3
    <2> QED
      BY <1>3, <2>4 DEF Sees
  <1>4. CASE ~ Sees(k + 1)
    <2>1. ks(k + 1) = ks(k)
      BY <1>4
    <2> HIDE DEF ks
    <2>2. last(k + 1) = last(k)
      BY <2>1
    <2>3. LastTo(w, low, accs, before, k + 1) = LastTo(w, low, accs, before, k)
      BY <1>1, <2>1, <2>2
    <2> QED
      BY <1>4, <2>3 DEF Sees
  <1> QED
    BY <1>3, <1>4

LEMMA LastStep ==
  ASSUME NEW w, NEW accs, NEW before, NEW k \in Nat, NEW acc, acc = accs[k + 1]
  PROVE  /\ LastLo(w, accs, before, k + 1)
              = IF Touches(w, acc) /\ Low(w, acc.addr)
                THEN acc.value ELSE LastLo(w, accs, before, k)
         /\ LastHi(w, accs, before, k + 1)
              = IF Touches(w, acc) /\ ~Low(w, acc.addr)
                THEN acc.value ELSE LastHi(w, accs, before, k)
  <1>1. \A low : LastTo(w, low, accs, before, k + 1)
                   = IF Touches(w, acc) /\ Low(w, acc.addr) = low
                     THEN acc.value ELSE LastTo(w, low, accs, before, k)
    BY LastStepOf
  <1>2. Low(w, acc.addr) \in BOOLEAN
    BY DEF Low
  <1>3. PICK yes : yes = TRUE
    BY Zenon
  <1>4. PICK no : no = FALSE
    BY Zenon
  <1>5. LastTo(w, yes, accs, before, k + 1)
          = IF Touches(w, acc) /\ Low(w, acc.addr) = yes
            THEN acc.value ELSE LastTo(w, yes, accs, before, k)
    BY <1>1, Zenon
  <1>6. LastTo(w, no, accs, before, k + 1)
          = IF Touches(w, acc) /\ Low(w, acc.addr) = no
            THEN acc.value ELSE LastTo(w, no, accs, before, k)
    BY <1>1, Zenon
  <1> QED
    BY <1>2, <1>3, <1>4, <1>5, <1>6, Zenon DEF LastLo, LastHi

(* What one access does to a watchpoint: its latches follow what it sees.   *)
WpType == [config : Watches, breakL : BOOLEAN, breakH : BOOLEAN]

LEMMA HoldsType ==
  ASSUME NEW c \in Conditions, NEW v \in Int, NEW b \in Int
  PROVE  Holds(c, v, b) \in BOOLEAN
  <1>1. /\ c = "ANY" => Holds(c, v, b) = TRUE
        /\ c = "EQU" => Holds(c, v, b) = (v = b)
        /\ c = "LESS" => Holds(c, v, b) = (v < b)
        /\ c = "GREATER" => Holds(c, v, b) = (v > b)
        /\ c = "LESS_EQU" => Holds(c, v, b) = (v <= b)
        /\ c = "GREATER_EQU" => Holds(c, v, b) = (v >= b)
        /\ c = "NOT_EQU" => Holds(c, v, b) = (v # b)
    BY DEF Holds
  <1>2. /\ (v = b) \in BOOLEAN /\ (v < b) \in BOOLEAN /\ (v > b) \in BOOLEAN
        /\ (v <= b) \in BOOLEAN /\ (v >= b) \in BOOLEAN /\ (v # b) \in BOOLEAN
        /\ TRUE \in BOOLEAN
    OBVIOUS
  <1> QED
    BY <1>1, <1>2, Zenon DEF Conditions

LEMMA ByteType ==
  ASSUME NEW w \in Watches, NEW low
  PROVE  ByteOf(w, low) \in Int
  <1>1. w.value \in Nat /\ Base \in Nat \ {0}
    BY DebuggerAssumption DEF WatchConfigs
  <1>2. w.value % Base \in Int /\ w.value \div Base \in Int
    BY <1>1
  <1>3. (w.value \div Base) % Base \in Int
    BY <1>1, <1>2
  <1> QED
    BY <1>2, <1>3 DEF ByteOf

LEMMA Latching ==
  ASSUME NEW wp \in WpType, NEW w, wp.config = w, NEW acc \in Seeing,
         NEW new, new = Latched(wp, acc)
  PROVE  LET low == Low(w, acc.addr)
         IN  /\ new \in WpType /\ new.config = w /\ low \in BOOLEAN
             /\ w.type = "LEN" => low
             /\ new.breakL = IF Touches(w, acc) /\ low THEN SatisfiedLo(w, acc.value)
                                                       ELSE wp.breakL
             /\ new.breakH = IF Touches(w, acc) /\ ~low THEN SatisfiedHi(w, acc.value)
                                                        ELSE wp.breakH
  <1> DEFINE low == Low(w, acc.addr)
             match == Holds(w.cond, acc.value, ByteOf(w, low))
  <1>1. w \in Watches /\ w.cond \in Conditions /\ acc.value \in Int /\ acc.value # Nothing
    BY DebuggerAssumption DEF WpType, WatchConfigs, Seeing, Values, Nothing
  <1>2. low \in BOOLEAN /\ (w.type = "LEN" => low)
    BY DEF Low
  <1>3. match \in BOOLEAN
    BY <1>1, HoldsType, ByteType
  <1>4. match = Satisfied(w, low, acc.value)
    <2>1. Satisfied(w, low, acc.value) <=> match
      BY <1>1, Zenon DEF Satisfied
    <2>2. Satisfied(w, low, acc.value) \in BOOLEAN
      BY Zenon DEF Satisfied
    <2> HIDE DEF match
    <2> QED
      BY <1>3, <2>1, <2>2
  <1>5. new = IF ~Touches(w, acc) THEN wp
              ELSE IF low THEN [wp EXCEPT !.breakL = match] ELSE [wp EXCEPT !.breakH = match]
    BY Zenon DEF Latched
  <1> HIDE DEF match, low
  <1>6. CASE ~Touches(w, acc)
    BY <1>2, <1>5, <1>6 DEF low
  <1>7. CASE Touches(w, acc) /\ low
    <2>1. new = [wp EXCEPT !.breakL = match]
      BY <1>5, <1>7
    <2>2. new \in WpType /\ new.config = w /\ new.breakL = match /\ new.breakH = wp.breakH
      BY <1>3, <2>1 DEF WpType
    <2>3. low = TRUE
      BY <1>2, <1>7
    <2> QED
      BY <1>2, <1>4, <1>7, <2>2, <2>3, Zenon DEF low, SatisfiedLo, SatisfiedHi
  <1>8. CASE Touches(w, acc) /\ ~low
    <2>1. new = [wp EXCEPT !.breakH = match]
      BY <1>5, <1>8
    <2>2. new \in WpType /\ new.config = w /\ new.breakH = match /\ new.breakL = wp.breakL
      BY <1>3, <2>1 DEF WpType
    <2>3. low = FALSE
      BY <1>2, <1>8
    <2> QED
      BY <1>2, <1>4, <1>8, <2>2, <2>3, Zenon DEF low, SatisfiedLo, SatisfiedHi
  <1> QED
    BY <1>6, <1>7, <1>8

(* What the watchpoints are after the first k accesses, and which one hit.  *)
LatchesTell(r, accs, k) ==
  /\ DOMAIN r.wps = DOMAIN wps
  /\ \A id \in DOMAIN wps :
       /\ r.wps[id] \in WpType /\ r.wps[id].config = wps[id].config
       /\ r.wps[id].breakL =
            SatisfiedLo(wps[id].config, LastLo(wps[id].config, accs, seen[id].lo, k))
       /\ r.wps[id].breakH =
            SatisfiedHi(wps[id].config, LastHi(wps[id].config, accs, seen[id].hi, k))

NoneSatisfied(ws) ==
  \A id \in DOMAIN wps : ws[id].breakL => ws[id].config.type = "WORD" /\ ~ws[id].breakH

Hit(acc, ids) ==
  [by |-> "debug", reason |-> "watchpoint", ids |-> ids,
   access |-> acc.access, addr |-> acc.addr, value |-> acc.value]

HitIsReal(hit, accs, k) ==
  \E j \in 1..k, ids \in SUBSET DOMAIN wps :
    /\ hit = Hit(accs[j], ids) /\ ids # {}
    /\ \A id \in ids : Touches(wps[id].config, accs[j])

Fine(r, accs, k) ==
  /\ LatchesTell(r, accs, k)
  /\ r.hit = Quiet => NoneSatisfied(r.wps)
  /\ r.hit # Quiet => HitIsReal(r.hit, accs, k)

(* One step of the loop. *)
WatchOne(was, acc) ==
  LET fired == {id \in DOMAIN wps : Fires(was.wps[id], acc)}
  IN  [wps |-> [id \in DOMAIN wps |-> Latched(was.wps[id], acc)],
       hit |-> IF was.hit # Quiet \/ fired = {} THEN was.hit ELSE Hit(acc, fired)]

WatchTypes == \A id \in DOMAIN wps : wps[id] \in WpType

LEMMA HitIsNotQuiet ==
  ASSUME NEW acc, NEW ids
  PROVE  Hit(acc, ids) # Quiet
  BY DEF Hit, Quiet

LEMMA WatchOneFine ==
  ASSUME NEW accs \in Seq(Seeing), NEW k \in 0..Len(accs) - 1, NEW was, Fine(was, accs, k)
  PROVE  Fine(WatchOne(was, accs[k + 1]), accs, k + 1)
  <1> DEFINE acc == accs[k + 1]
             fired == {id \in DOMAIN wps : Fires(was.wps[id], acc)}
             r == WatchOne(was, acc)
  <1>1. acc \in Seeing /\ k \in Nat /\ Len(accs) \in Nat
    OBVIOUS
  <1>2. /\ DOMAIN r.wps = DOMAIN wps
        /\ \A id \in DOMAIN wps : r.wps[id] = Latched(was.wps[id], acc)
        /\ r.hit = IF was.hit # Quiet \/ fired = {} THEN was.hit ELSE Hit(acc, fired)
    BY DEF WatchOne
  <1>3. /\ LatchesTell(was, accs, k)
        /\ was.hit = Quiet => NoneSatisfied(was.wps)
        /\ was.hit # Quiet => HitIsReal(was.hit, accs, k)
    BY DEF Fine
  <1> HIDE DEF r
  <1>4. ASSUME NEW id \in DOMAIN wps
        PROVE  LET w == wps[id].config IN
               /\ r.wps[id] \in WpType /\ r.wps[id].config = w
               /\ r.wps[id].breakL = SatisfiedLo(w, LastLo(w, accs, seen[id].lo, k + 1))
               /\ r.wps[id].breakH = SatisfiedHi(w, LastHi(w, accs, seen[id].hi, k + 1))
    <2> DEFINE w == wps[id].config
               low == Low(w, acc.addr)
    <2>1. /\ was.wps[id] \in WpType /\ was.wps[id].config = w
          /\ was.wps[id].breakL = SatisfiedLo(w, LastLo(w, accs, seen[id].lo, k))
          /\ was.wps[id].breakH = SatisfiedHi(w, LastHi(w, accs, seen[id].hi, k))
      BY <1>3 DEF LatchesTell
    <2> HIDE DEF w
    <2>7. r.wps[id] = Latched(was.wps[id], acc) /\ acc \in Seeing
      BY <1>1, <1>2
    <2>8. k \in Nat /\ acc = accs[k + 1]
      BY <1>1
    <2> HIDE DEF acc
    <2>2. /\ r.wps[id] \in WpType /\ r.wps[id].config = w /\ low \in BOOLEAN
          /\ r.wps[id].breakL = IF Touches(w, acc) /\ low THEN SatisfiedLo(w, acc.value)
                                                          ELSE was.wps[id].breakL
          /\ r.wps[id].breakH = IF Touches(w, acc) /\ ~low THEN SatisfiedHi(w, acc.value)
                                                           ELSE was.wps[id].breakH
      <3> DEFINE wp == was.wps[id]
                 new == r.wps[id]
      <3>1. wp \in WpType /\ wp.config = w /\ new = Latched(wp, acc) /\ acc \in Seeing
        BY <2>1, <2>7
      <3> HIDE DEF wp, new
      <3>2. /\ new \in WpType /\ new.config = w /\ low \in BOOLEAN
            /\ new.breakL = IF Touches(w, acc) /\ low THEN SatisfiedLo(w, acc.value)
                                                     ELSE wp.breakL
            /\ new.breakH = IF Touches(w, acc) /\ ~low THEN SatisfiedHi(w, acc.value)
                                                      ELSE wp.breakH
        BY <3>1, Latching
      <3> QED
        BY <3>2 DEF wp, new
    <2>3. LastLo(w, accs, seen[id].lo, k + 1)
            = IF Touches(w, acc) /\ low THEN acc.value ELSE LastLo(w, accs, seen[id].lo, k)
      BY <2>8, LastStep
    <2>4. LastHi(w, accs, seen[id].hi, k + 1)
            = IF Touches(w, acc) /\ ~low THEN acc.value ELSE LastHi(w, accs, seen[id].hi, k)
      BY <2>8, LastStep
    <2> HIDE DEF low
    <2>5. r.wps[id].breakL = SatisfiedLo(w, LastLo(w, accs, seen[id].lo, k + 1))
      BY <2>1, <2>2, <2>3, Zenon
    <2>6. r.wps[id].breakH = SatisfiedHi(w, LastHi(w, accs, seen[id].hi, k + 1))
      BY <2>1, <2>2, <2>4, Zenon
    <2> QED
      BY <2>2, <2>5, <2>6, Zenon DEF w
  <1>5. LatchesTell(r, accs, k + 1)
    BY <1>2, <1>4, Zenon DEF LatchesTell
  <1>6. ASSUME r.hit = Quiet PROVE NoneSatisfied(r.wps)
    <2>1. was.hit = Quiet /\ fired = {}
      BY <1>2, <1>6, HitIsNotQuiet, Zenon
    <2>2. NoneSatisfied(was.wps)
      BY <1>3, <2>1
    <2> SUFFICES ASSUME NEW id \in DOMAIN wps, r.wps[id].breakL
                 PROVE  r.wps[id].config.type = "WORD" /\ ~r.wps[id].breakH
      BY Zenon DEF NoneSatisfied
    <2>3. was.wps[id] \in WpType /\ was.wps[id].config = wps[id].config
      BY <1>3 DEF LatchesTell
    <2>4. r.wps[id] = Latched(was.wps[id], acc)
      BY <1>2
    <2>5. CASE Touches(was.wps[id].config, acc)
      <3>1. ~ Fires(was.wps[id], acc)
        BY <2>1
      <3>2. ~ (was.wps[id].config.type = "LEN" \/ r.wps[id].breakH)
        BY <2>4, <2>5, <3>1, Zenon DEF Fires
      <3>3. was.wps[id].config.type \in {"LEN", "WORD"} /\ r.wps[id].config = was.wps[id].config
        BY <1>4, <2>3, DebuggerAssumption DEF WpType, WatchConfigs
      <3> QED
        BY <3>2, <3>3
    <2>6. CASE ~Touches(was.wps[id].config, acc)
      <3>1. r.wps[id] = was.wps[id]
        BY <2>4, <2>6, Zenon DEF Latched
      <3> QED
        BY <2>2, <3>1 DEF NoneSatisfied
    <2> QED
      BY <2>5, <2>6
  <1>7. ASSUME r.hit # Quiet PROVE HitIsReal(r.hit, accs, k + 1)
    <2>1. CASE was.hit # Quiet
      <3>1. HitIsReal(was.hit, accs, k) /\ r.hit = was.hit
        BY <1>2, <1>3, <2>1
      <3>2. \A j \in 1..k : j \in 1..k + 1
        BY <1>1
      <3> QED
        BY <3>1, <3>2, Zenon DEF HitIsReal
    <2>2. CASE was.hit = Quiet
      <3>1. r.hit = Hit(acc, fired) /\ fired # {} /\ fired \in SUBSET DOMAIN wps
        BY <1>2, <1>7, <2>2
      <3>2. ASSUME NEW id \in fired PROVE Touches(wps[id].config, acc)
        <4>1. Fires(was.wps[id], acc) /\ was.wps[id].config = wps[id].config
          BY <1>3 DEF LatchesTell
        <4> QED
          BY <4>1 DEF Fires
      <3>3. k + 1 \in 1..k + 1
        BY <1>1
      <3> HIDE DEF fired
      <3> QED
        BY <3>1, <3>2, <3>3, Zenon DEF HitIsReal
    <2> QED
      BY <2>1, <2>2
  <1> QED
    BY <1>5, <1>6, <1>7, Zenon DEF Fine, r

LEMMA WatchedFine ==
  ASSUME WatchTypes, NothingMissed, NEW accs \in Seq(Seeing)
  PROVE  Fine(Watched(accs), accs, Len(accs))
  <1> DEFINE n == Len(accs)
             Start == [wps |-> wps, hit |-> Quiet]
             Loop(f, i) ==
               IF i = 0 THEN [wps |-> wps, hit |-> Quiet]
               ELSE LET was == f[i - 1]
                        fired == {id \in DOMAIN wps : Fires(was.wps[id], accs[i])}
                    IN  [wps |-> [id \in DOMAIN wps |-> Latched(was.wps[id], accs[i])],
                         hit |-> IF was.hit # Quiet \/ fired = {} THEN was.hit
                                 ELSE [by |-> "debug", reason |-> "watchpoint", ids |-> fired,
                                       access |-> accs[i].access, addr |-> accs[i].addr,
                                       value |-> accs[i].value]]
             Defines(f, m) == f = [i \in 0..m |-> Loop(f, i)]
             Defined == {m \in 0..n : \E f : Defines(f, m)}
             check == CHOOSE f : Defines(f, n)
             Good == {i \in 0..n : Fine(check[i], accs, i)}
  <1>1. n \in Nat
    OBVIOUS
  <1>2. Watched(accs) = check[n]
    BY Zenon DEF Watched
  <1>3. ASSUME NEW f PROVE Loop(f, 0) = Start
    OBVIOUS
  <1>4. ASSUME NEW f, NEW i \in 1..n PROVE Loop(f, i) = WatchOne(f[i - 1], accs[i])
    <2>1. i # 0
      OBVIOUS
    <2> QED
      BY <2>1, Zenon DEF WatchOne, Hit
  <1>5. Fine(Start, accs, 0)
    <2>1. Start.wps = wps /\ Start.hit = Quiet
      OBVIOUS
    <2>2. \A id \in DOMAIN wps :
            /\ LastLo(wps[id].config, accs, seen[id].lo, 0) = seen[id].lo
            /\ LastHi(wps[id].config, accs, seen[id].hi, 0) = seen[id].hi
      <3>1. ASSUME NEW id \in DOMAIN wps
            PROVE  /\ LastLo(wps[id].config, accs, seen[id].lo, 0) = seen[id].lo
                   /\ LastHi(wps[id].config, accs, seen[id].hi, 0) = seen[id].hi
        BY LastNone
      <3> QED
        BY <3>1
    <2>3. LatchesTell(Start, accs, 0)
      BY <2>1, <2>2, Zenon DEF LatchesTell, WatchTypes, NothingMissed, SatisfiedLo, SatisfiedHi
    <2>4. NoneSatisfied(Start.wps)
      BY <2>1, Zenon DEF NoneSatisfied, NothingMissed
    <2> QED
      BY <2>1, <2>3, <2>4, Zenon DEF Fine
  <1> HIDE DEF Start
  <1>6. ASSUME NEW f, NEW g, NEW i \in 0..n, i # 0 => f[i - 1] = g[i - 1]
        PROVE  Loop(f, i) = Loop(g, i)
    <2>1. CASE i = 0
      BY <1>3, <2>1
    <2>2. CASE i # 0
      <3>1. i \in 1..n
        BY <2>2
      <3> HIDE DEF Loop
      <3> QED
        BY <1>4, <1>6, <2>2, <3>1
    <2> QED
      BY <2>1, <2>2
  <1> HIDE DEF n, Loop
  <1>9. 0 \in Defined
    <2>1. Defines([i \in 0..0 |-> Loop(<<>>, i)], 0)
      <3> DEFINE g == [i \in 0..0 |-> Loop(<<>>, i)]
      <3>1. ASSUME NEW i \in 0..0 PROVE Loop(<<>>, i) = Loop(g, i)
        BY <1>3
      <3> QED
        BY <3>1
    <2> QED
      BY <1>1, <2>1
  <1>10. ASSUME NEW m \in 0..n - 1, m \in Defined
         PROVE  m + 1 \in Defined
    <2>1. PICK f : Defines(f, m)
      BY <1>10
    <2> DEFINE g == [i \in 0..m + 1 |-> IF i <= m THEN f[i] ELSE Loop(f, i)]
    <2>2. ASSUME NEW i \in 0..m + 1 PROVE g[i] = Loop(g, i)
      <3>1. i # 0 => i - 1 \in 0..m /\ g[i - 1] = f[i - 1]
        BY <1>1
      <3>2. i <= m => f[i] = Loop(f, i)
        BY <2>1, <1>1
      <3>3. g[i] = Loop(f, i)
        BY <3>2
      <3>4. Loop(f, i) = Loop(g, i)
        BY <1>1, <1>6, <3>1
      <3> QED
        BY <3>3, <3>4
    <2>3. g = [i \in 0..m + 1 |-> g[i]]
      OBVIOUS
    <2> HIDE DEF g
    <2>4. Defines(g, m + 1)
      BY <2>2, <2>3
    <2> QED
      BY <1>1, <2>4
  <1>11. \E f : Defines(f, n)
    <2>1. n \in 0..n
      BY <1>1
    <2> HIDE DEF Defines
    <2> DEFINE D == Defined
    <2>2. 0 \in D /\ \A k \in 0..n - 1 : k \in D => k + 1 \in D
      BY <1>9, <1>10
    <2> HIDE DEF D
    <2>3. n \in D
      BY <1>1, <2>1, <2>2, Induct
    <2> QED
      BY <2>3 DEF D
  <1>12. Defines(check, n)
    <2> HIDE DEF Defines
    <2> QED
      BY <1>11, Zenon
  <1> HIDE DEF check
  <1>13. \A i \in 0..n : check[i] = Loop(check, i)
    BY <1>12
  <1>14. 0 \in Good
    <2>1. 0 \in 0..n
      BY <1>1
    <2>2. check[0] = Start
      BY <1>3, <1>13, <2>1
    <2> QED
      BY <1>5, <2>1, <2>2
  <1>15. ASSUME NEW i \in 0..n - 1, i \in Good
         PROVE  i + 1 \in Good
    <2>1. i + 1 \in 1..n /\ (i + 1) - 1 = i /\ i + 1 \in 0..n
      BY <1>1
    <2>2. check[i + 1] = WatchOne(check[i], accs[i + 1])
      BY <1>4, <1>13, <2>1
    <2>3. Fine(check[i], accs, i)
      BY <1>15
    <2>4. Fine(WatchOne(check[i], accs[i + 1]), accs, i + 1)
      BY <2>3, WatchOneFine DEF n
    <2> QED
      BY <2>1, <2>2, <2>4
  <1>16. n \in Good
    <2>1. n \in 0..n
      BY <1>1
    <2> DEFINE G == Good
    <2>2. 0 \in G /\ \A k \in 0..n - 1 : k \in G => k + 1 \in G
      BY <1>14, <1>15
    <2> HIDE DEF G
    <2>3. n \in G
      BY <1>1, <2>1, <2>2, Induct
    <2> QED
      BY <2>3 DEF G
  <1> QED
    BY <1>2, <1>16 DEF n

(* The accesses Debug() shows to the watchpoints. *)
Shows(acc) == Reads(acc) \o Writes(acc)

LEMMA CountedWrites ==
  ASSUME ram \in [Addrs -> Values], NEW acc \in Instructions
  PROVE  /\ Counted(acc) \in Seq(Writing) /\ Len(Counted(acc)) = acc.counted
         /\ \A i \in 1..acc.counted : Counted(acc)[i] = acc.writes[i] /\ i \in 1..Len(acc.writes)
  <1>1. /\ acc.writes \in Seq(Writing) /\ acc.counted \in 0..Len(acc.writes)
    BY InstructionShape DEF Shape
  <1>2. \A i \in 1..acc.counted : acc.writes[i] \in Writing /\ i \in 1..Len(acc.writes)
    BY <1>1
  <1>3. acc.counted \in Nat
    BY <1>1
  <1> QED
    BY <1>2, <1>3 DEF Counted

LEMMA ReadsShown ==
  ASSUME ram \in [Addrs -> Values], NEW acc \in Instructions
  PROVE  /\ Reads(acc) \in Seq(Seeing)
         /\ \A i \in 1..Len(Reads(acc)) :
              Reads(acc)[i].access = "R" /\ Reads(acc)[i].value = ram[Reads(acc)[i].addr]
  <1>1. acc.reads \in Seq(Addrs)
    BY InstructionReads
  <1>2. DOMAIN acc.reads = 1..Len(acc.reads) /\ Len(acc.reads) \in Nat
    BY <1>1
  <1>3. Reads(acc) = [i \in 1..Len(acc.reads) |->
                        [access |-> "R", addr |-> acc.reads[i], value |-> ram[acc.reads[i]]]]
    BY <1>2 DEF Reads
  <1>4. \A i \in 1..Len(acc.reads) :
          [access |-> "R", addr |-> acc.reads[i], value |-> ram[acc.reads[i]]] \in Seeing
    BY <1>1 DEF Seeing
  <1>5. Reads(acc) \in Seq(Seeing) /\ Len(Reads(acc)) = Len(acc.reads)
    BY <1>2, <1>3, <1>4
  <1> QED
    BY <1>3, <1>5

LEMMA ShownType ==
  ASSUME NEW ws \in Seq(Writing)
  PROVE  Shown(ws) \subseteq Seeing
  <1>1. \A w \in Range(ws) : w \in Writing
    BY DEF Range
  <1> QED
    BY <1>1 DEF Shown, AsSeen, Seeing, Writing

(* Each of them is of the memory before the instruction or after it.        *)
LEMMA ShowsReal ==
  ASSUME ram \in [Addrs -> Values], NEW acc \in Instructions, Debug(acc)
  PROVE  /\ Shows(acc) \in Seq(Seeing)
         /\ \A i \in 1..Len(Shows(acc)) :
              LET r == Shows(acc)[i]
              IN  r.value = (IF r.access = "R" THEN ram ELSE ram')[r.addr]
  <1> DEFINE rs == Reads(acc)
             ws == Writes(acc)
             real(r) == r.value = (IF r.access = "R" THEN ram ELSE ram')[r.addr]
  <1>1. rs \in Seq(Seeing) /\ \A i \in 1..Len(rs) : real(rs[i])
    BY ReadsShown
  <1>2. /\ Counted(acc) \in Seq(Writing) /\ Len(Counted(acc)) = acc.counted
        /\ \A i \in 1..acc.counted : Counted(acc)[i] = acc.writes[i] /\ i \in 1..Len(acc.writes)
    BY CountedWrites
  <1>3. ws \in Seq(Shown(Counted(acc)))
    BY <1>2, WritesShown
  <1>4. ws \in Seq(Seeing)
    BY <1>2, <1>3, ShownType, SeqMonotonic
  <1>5. ASSUME NEW x \in Shown(Counted(acc)) PROVE real(x)
    <2>1. PICK w \in Range(Counted(acc)) : x = AsSeen(w) /\ ~Rejected(w)
      BY DEF Shown
    <2>2. PICK i \in 1..acc.counted : w = Counted(acc)[i]
      BY <1>2 DEF Range
    <2>3. w = acc.writes[i] /\ i \in 1..Len(acc.writes) /\ PutBack(w) = w
      BY <1>2, <2>1, <2>2 DEF PutBack
    <2>4. PICK all \in Seq(Writing) : Treated(acc, all) /\ ram' = After(all)
      BY DebugTreats
    <2>5. i \in 1..Len(all) /\ all[i] = w
      BY <2>3, <2>4 DEF Treated
    <2>6. ram'[w.addr] = w.after
      BY <2>4, <2>5, AfterWrites DEF Treated
    <2> QED
      BY <2>1, <2>6 DEF AsSeen
  <1>6. \A i \in 1..Len(ws) : real(ws[i])
    BY <1>3, <1>5, ElementOfSeq
  <1> HIDE DEF rs, ws, real
  <1>7. /\ rs \o ws \in Seq(Seeing) /\ Len(rs \o ws) = Len(rs) + Len(ws)
        /\ \A i \in 1..Len(rs) : (rs \o ws)[i] = rs[i]
        /\ \A i \in Len(rs) + 1..Len(rs) + Len(ws) : (rs \o ws)[i] = ws[i - Len(rs)]
    BY <1>1, <1>4, Glued
  <1>8. Len(rs) \in Nat /\ Len(ws) \in Nat
    BY <1>1, <1>4
  <1>9. ASSUME NEW i \in 1..Len(rs \o ws) PROVE real((rs \o ws)[i])
    <2>1. CASE i \in 1..Len(rs)
      BY <1>1, <1>7, <2>1
    <2>2. CASE i \in Len(rs) + 1..Len(rs) + Len(ws)
      <3>1. i - Len(rs) \in 1..Len(ws)
        BY <1>8, <2>2
      <3> QED
        BY <1>6, <1>7, <2>2, <3>1
    <2> QED
      BY <1>7, <1>8, <2>1, <2>2
  <1>10. Shows(acc) = rs \o ws
    BY DEF Shows, rs, ws
  <1> QED
    BY <1>7, <1>9, <1>10 DEF real

(* What Debug() does with the outcome. *)
LEMMA DebugWatches ==
  ASSUME NEW acc, Debug(acc)
  PROVE  LET was == Watched(Shows(acc))
         IN  /\ wps' = CheckBreak(was)
             /\ seen' = IF was.hit # Quiet THEN [id \in DOMAIN wps |-> NoBytes]
                        ELSE Seen(Shows(acc))
             /\ \/ was.hit # Quiet /\ report' = was.hit
                \/ was.hit = Quiet /\ report'.reason # "watchpoint"
  <1> DEFINE was == Watched(Shows(acc))
  <1>1. /\ wps' = CheckBreak(was)
        /\ seen' = IF was.hit # Quiet THEN [id \in DOMAIN wps |-> NoBytes]
                   ELSE Seen(Shows(acc))
        /\ \E pc : report' \in IF was.hit # Quiet THEN {was.hit}
                          ELSE IF Breaks(pc)
                               THEN {[by |-> "debug", reason |-> "breakpoint", addr |-> pc]}
                          ELSE {Quiet, [by |-> "debug", reason |-> "script"]}
    BY Zenon DEF Debug, Shows
  <1> HIDE DEF was
  <1>2. \/ was.hit # Quiet /\ report' = was.hit
        \/ was.hit = Quiet /\ report'.reason # "watchpoint"
    <2>1. \/ was.hit # Quiet /\ report' = was.hit
          \/ /\ was.hit = Quiet
             /\ \/ \E pc : report' = [by |-> "debug", reason |-> "breakpoint", addr |-> pc]
                \/ report' = Quiet
                \/ report' = [by |-> "debug", reason |-> "script"]
      BY <1>1, Zenon
    <2> QED
      BY <2>1 DEF Quiet
  <1> QED
    BY <1>1, <1>2 DEF was

LEMMA DebugMissesNothing ==
  ASSUME ram \in [Addrs -> Values], WatchTypes, NothingMissed,
         NEW acc \in Instructions, Debug(acc)
  PROVE  WatchTypes' /\ NothingMissed' /\ Configs(wps') = Configs(wps)
  <1> DEFINE accs == Shows(acc)
             was == Watched(accs)
  <1>1. accs \in Seq(Seeing)
    BY ShowsReal
  <1>2. Fine(was, accs, Len(accs))
    BY <1>1, WatchedFine
  <1>3. /\ wps' = CheckBreak(was)
        /\ seen' = IF was.hit # Quiet THEN [id \in DOMAIN wps |-> NoBytes] ELSE Seen(accs)
    BY DebugWatches
  <1> HIDE DEF accs, was
  <1>4. DOMAIN wps' = DOMAIN wps
    BY <1>3 DEF CheckBreak
  <1>5. ASSUME NEW id \in DOMAIN wps
        PROVE  /\ wps'[id] \in WpType /\ wps'[id].config = wps[id].config
               /\ wps'[id].breakL = SatisfiedLo(wps[id].config, seen'[id].lo)
               /\ wps'[id].breakH = SatisfiedHi(wps[id].config, seen'[id].hi)
               /\ wps'[id].breakL => wps'[id].config.type = "WORD" /\ ~wps'[id].breakH
    <2> DEFINE w == wps[id].config
               wp == was.wps[id]
    <2>1. /\ wp \in WpType /\ wp.config = w
          /\ wp.breakL = SatisfiedLo(w, LastLo(w, accs, seen[id].lo, Len(accs)))
          /\ wp.breakH = SatisfiedHi(w, LastHi(w, accs, seen[id].hi, Len(accs)))
      BY <1>2 DEF Fine, LatchesTell
    <2>2. CASE was.hit # Quiet
      <3>1. wps'[id] = [wp EXCEPT !.breakL = FALSE, !.breakH = FALSE]
        BY <1>3, <2>2, Zenon DEF CheckBreak
      <3>2. seen'[id].lo = Nothing /\ seen'[id].hi = Nothing
        BY <1>3, <2>2 DEF NoBytes
      <3> HIDE DEF wp
      <3>3. /\ wps'[id] \in WpType /\ wps'[id].config = w
            /\ wps'[id].breakL = FALSE /\ wps'[id].breakH = FALSE
        BY <2>1, <3>1 DEF WpType
      <3>4. SatisfiedLo(w, Nothing) = FALSE /\ SatisfiedHi(w, Nothing) = FALSE
        BY Zenon DEF SatisfiedLo, SatisfiedHi, Satisfied
      <3> QED
        BY <3>2, <3>3, <3>4
    <2>3. CASE was.hit = Quiet
      <3>1. wps'[id] = wp
        BY <1>3, <2>3, Zenon DEF CheckBreak
      <3>2. /\ seen'[id].lo = LastLo(w, accs, seen[id].lo, Len(accs))
            /\ seen'[id].hi = LastHi(w, accs, seen[id].hi, Len(accs))
        <4>1. seen'[id] = [lo |-> LastSeen(w, TRUE, accs, seen[id].lo),
                           hi |-> LastSeen(w, FALSE, accs, seen[id].hi)]
          BY <1>3, <2>3, Zenon DEF Seen
        <4>2. /\ LastSeen(w, TRUE, accs, seen[id].lo) = LastLo(w, accs, seen[id].lo, Len(accs))
              /\ LastSeen(w, FALSE, accs, seen[id].hi) = LastHi(w, accs, seen[id].hi, Len(accs))
          BY <1>1, LastAll, Zenon DEF LastLo, LastHi
        <4>3. seen'[id] = [lo |-> LastLo(w, accs, seen[id].lo, Len(accs)),
                           hi |-> LastHi(w, accs, seen[id].hi, Len(accs))]
          BY <4>1, <4>2, Zenon
        <4> QED
          BY <4>3
      <3>3. wp.breakL => wp.config.type = "WORD" /\ ~wp.breakH
        BY <1>2, <2>3 DEF Fine, NoneSatisfied
      <3> HIDE DEF wp
      <3> QED
        BY <2>1, <3>1, <3>2, <3>3
    <2> QED
      BY <2>2, <2>3
  <1>6. WatchTypes'
    BY <1>4, <1>5 DEF WatchTypes
  <1>7. NothingMissed'
    BY <1>4, <1>5, Zenon DEF NothingMissed, SatisfiedLo, SatisfiedHi
  <1>8. Configs(wps') = Configs(wps)
    BY <1>4, <1>5 DEF Configs
  <1> QED
    BY <1>6, <1>7, <1>8

LEMMA DebugHitsReal ==
  ASSUME ram \in [Addrs -> Values], WatchTypes, NothingMissed,
         NEW acc \in Instructions, Debug(acc), report'.reason = "watchpoint"
  PROVE  LET r == report' IN
           /\ r.ids # {} /\ r.ids \subseteq DOMAIN wps
           /\ \A id \in r.ids : Touches(wps[id].config, r)
           /\ r.value = (IF r.access = "R" THEN ram ELSE ram')[r.addr]
  <1> DEFINE accs == Shows(acc)
             was == Watched(accs)
  <1>1. /\ accs \in Seq(Seeing)
        /\ \A i \in 1..Len(accs) :
             accs[i].value = (IF accs[i].access = "R" THEN ram ELSE ram')[accs[i].addr]
    BY ShowsReal
  <1>2. Fine(was, accs, Len(accs))
    BY <1>1, WatchedFine
  <1>3. was.hit # Quiet /\ report' = was.hit
    BY DebugWatches
  <1> HIDE DEF accs, was
  <1>4. PICK j \in 1..Len(accs), ids \in SUBSET DOMAIN wps :
          /\ report' = Hit(accs[j], ids) /\ ids # {}
          /\ \A id \in ids : Touches(wps[id].config, accs[j])
    BY <1>2, <1>3 DEF Fine, HitIsReal
  <1> DEFINE r == report'
             a == accs[j]
  <1>5. r.ids = ids /\ r.access = a.access /\ r.addr = a.addr /\ r.value = a.value
    BY <1>4 DEF Hit
  <1>6. \A id \in ids : Touches(wps[id].config, r)
    BY <1>4, <1>5 DEF Touches
  <1>7. r.value = (IF r.access = "R" THEN ram ELSE ram')[r.addr]
    BY <1>1, <1>5
  <1> QED
    BY <1>4, <1>5, <1>6, <1>7

(* A watchpoint whose latches say what it has seen.                         *)
WatchFine(wp, s) ==
  /\ wp \in WpType
  /\ wp.breakL = SatisfiedLo(wp.config, s.lo) /\ wp.breakH = SatisfiedHi(wp.config, s.hi)
  /\ wp.breakL => wp.config.type = "WORD" /\ ~wp.breakH

WatchInv == \A id \in DOMAIN wps : WatchFine(wps[id], seen[id])

LEMMA WatchInvParts == WatchInv <=> WatchTypes /\ NothingMissed
  <1>1. WatchInv => WatchTypes /\ NothingMissed
    BY Zenon DEF WatchInv, WatchFine, WatchTypes, NothingMissed, SatisfiedLo, SatisfiedHi
  <1>2. WatchTypes /\ NothingMissed => WatchInv
    BY Zenon DEF WatchInv, WatchFine, WatchTypes, NothingMissed, SatisfiedLo, SatisfiedHi
  <1> QED
    BY <1>1, <1>2

LEMMA NewFine ==
  ASSUME NEW w \in Watches
  PROVE  WatchFine(Unlatched(w), NoBytes)
  <1>1. SatisfiedLo(w, Nothing) = FALSE /\ SatisfiedHi(w, Nothing) = FALSE
    BY Zenon DEF SatisfiedLo, SatisfiedHi, Satisfied
  <1>2. NoBytes.lo = Nothing /\ NoBytes.hi = Nothing
    BY DEF NoBytes
  <1>3. /\ Unlatched(w) \in WpType /\ Unlatched(w).config = w
        /\ Unlatched(w).breakL = FALSE /\ Unlatched(w).breakH = FALSE
    BY DEF Unlatched, WpType
  <1> QED
    BY <1>1, <1>2, <1>3, Zenon DEF WatchFine

LEMMA RequestMissesNothing ==
  ASSUME WatchesOK, WatchInv, WatchpointRequest
  PROVE  WatchInv'
  <1>1. ASSUME NEW w \in Watches, WatchpointAdd(w)
        PROVE  WatchInv'
    <2>1. /\ wps' = Put(wps, nextId, Unlatched(w)) /\ seen' = Put(seen, nextId, NoBytes)
      BY <1>1, NumberIsNext DEF WatchpointAdd
    <2>2. DOMAIN seen = DOMAIN wps
      BY DEF WatchesOK
    <2>3. /\ DOMAIN wps' = DOMAIN wps \union {nextId}
          /\ wps'[nextId] = Unlatched(w) /\ seen'[nextId] = NoBytes
          /\ \A id \in DOMAIN wps \ {nextId} : wps'[id] = wps[id] /\ seen'[id] = seen[id]
      BY <2>1, <2>2 DEF Put
    <2> QED
      BY <2>3, NewFine DEF WatchInv
  <1>2. ASSUME NEW w \in Watches, NEW id \in DOMAIN wps, WatchpointEdit(id, w)
        PROVE  WatchInv'
    <2>1. /\ wps' = [wps EXCEPT ![id] = Unlatched(w)] /\ seen' = [seen EXCEPT ![id] = NoBytes]
          /\ DOMAIN seen = DOMAIN wps
      BY <1>2 DEF WatchpointEdit, Edited, WatchesOK
    <2>2. /\ DOMAIN wps' = DOMAIN wps /\ wps'[id] = Unlatched(w) /\ seen'[id] = NoBytes
          /\ \A x \in DOMAIN wps \ {id} : wps'[x] = wps[x] /\ seen'[x] = seen[x]
      BY <2>1
    <2> QED
      BY <2>2, NewFine DEF WatchInv
  <1>3. ASSUME NEW id \in DOMAIN wps, WatchpointDel(id)
        PROVE  WatchInv'
    <2>1. /\ DOMAIN wps' = DOMAIN wps \ {id}
          /\ \A x \in DOMAIN wps \ {id} : wps'[x] = wps[x] /\ seen'[x] = seen[x]
      BY <1>3 DEF WatchpointDel, Drop, Restrict, WatchesOK
    <2> QED
      BY <2>1 DEF WatchInv
  <1>4. ASSUME WatchpointDelAll
        PROVE  WatchInv'
    <2>1. CASE wps' = <<>>
      <3>1. DOMAIN wps' = {}
        BY <2>1
      <3> QED
        BY <3>1 DEF WatchInv
    <2>2. CASE UNCHANGED watches
      BY <2>2 DEF WatchInv, watches
    <2> QED
      BY <1>4, <2>1, <2>2 DEF WatchpointDelAll
  <1> QED
    BY <1>1, <1>2, <1>3, <1>4 DEF WatchpointRequest

LEMMA InitWatchInv == Init => WatchInv
  <1>1. Init => DOMAIN wps = {}
    BY DEF Init
  <1> QED
    BY <1>1 DEF WatchInv

LEMMA StepWatchInv == IInv /\ WatchInv /\ [Next]_vars => WatchInv'
  <1> SUFFICES ASSUME IInv, WatchInv, [Next]_vars PROVE WatchInv'
    OBVIOUS
  <1>1. ASSUME NEW acc \in Instructions, Debug(acc)
        PROVE  WatchInv'
    <2>1. ram \in [Addrs -> Values] /\ WatchTypes /\ NothingMissed
      BY WatchInvParts DEF IInv, EditsOK
    <2>2. WatchTypes' /\ NothingMissed'
      BY <1>1, <2>1, DebugMissesNothing
    <2>3. (WatchTypes /\ NothingMissed)' => WatchInv'
      BY WatchInvParts, PTL
    <2> QED
      BY <2>2, <2>3
  <1>2. ASSUME UNCHANGED watches PROVE WatchInv'
    BY <1>2 DEF WatchInv, watches
  <1>3. CASE Instruction
    BY <1>1, <1>3 DEF Instruction
  <1>4. CASE BeginFrame
    BY <1>2, <1>4 DEF BeginFrame
  <1>5. CASE FrameInstruction
    BY <1>1, <1>5 DEF FrameInstruction
  <1>6. CASE Unwatched
    BY <1>2, <1>6 DEF Unwatched
  <1>7. CASE BreakpointRequest
    BY <1>2, <1>7 DEF BreakpointRequest
  <1>8. CASE WatchpointRequest
    BY <1>8, RequestMissesNothing DEF IInv
  <1>9. CASE EditRequest
    BY <1>2, <1>9 DEF EditRequest
  <1>10. CASE MemoryRequest
    BY <1>2, <1>10 DEF MemoryRequest
  <1>11. CASE UNCHANGED vars
    BY <1>2, <1>11 DEF vars
  <1> QED
    BY <1>3, <1>4, <1>5, <1>6, <1>7, <1>8, <1>9, <1>10, <1>11 DEF Next

(* The breakpoints are a function; types alone do not say so.               *)
BpsMap == bps = [pc \in DOMAIN bps |-> bps[pc]]

LEMMA InitBpsMap == Init => BpsMap
  BY DEF Init, BpsMap

LEMMA StepBpsMap == BpsMap /\ [Next]_vars => BpsMap'
  <1> SUFFICES ASSUME BpsMap, [Next]_vars PROVE BpsMap'
    OBVIOUS
  <1>1. ASSUME UNCHANGED bps PROVE BpsMap'
    BY <1>1 DEF BpsMap
  <1>2. ASSUME NEW pc, bps' = Drop(bps, pc) PROVE BpsMap'
    BY <1>2 DEF Drop, Restrict, BpsMap
  <1>3. ASSUME NEW pc, CheckBreakpoint(pc) PROVE BpsMap'
    BY <1>1, <1>2, <1>3 DEF CheckBreakpoint, BpsMap
  <1>4. ASSUME NEW acc, Debug(acc) PROVE BpsMap'
    <2>1. \E pc : CheckBreakpoint(pc)
      BY <1>4, Zenon DEF Debug
    <2> QED
      BY <1>3, <2>1
  <1>5. CASE BreakpointRequest
    <2>1. ASSUME NEW pc \in Pcs, NEW n \in 1..MaxCounter, NEW del \in BOOLEAN, NEW act \in BOOLEAN,
                 BreakpointAdd(pc, n, del, act)
          PROVE  BpsMap'
      BY <2>1 DEF BreakpointAdd, Put, BpsMap
    <2>2. ASSUME NEW pc \in Pcs, NEW act \in BOOLEAN, BreakpointSetStatus(pc, act)
          PROVE  BpsMap'
      BY <2>2 DEF BreakpointSetStatus, breaks, BpsMap
    <2>3. ASSUME NEW pc \in Pcs, BreakpointDel(pc) PROVE BpsMap'
      BY <1>1, <1>2, <2>3 DEF BreakpointDel, breaks
    <2>4. ASSUME BreakpointDelAll PROVE BpsMap'
      <3>1. bps' = <<>> \/ UNCHANGED bps
        BY <2>4 DEF BreakpointDelAll, breaks
      <3>2. ASSUME bps' = <<>> PROVE BpsMap'
        BY <3>2 DEF BpsMap
      <3> QED
        BY <1>1, <3>1, <3>2
    <2> QED
      BY <1>5, <2>1, <2>2, <2>3, <2>4 DEF BreakpointRequest
  <1>6. CASE Instruction \/ FrameInstruction
    BY <1>4, <1>6 DEF Instruction, FrameInstruction
  <1>7. CASE BeginFrame \/ Unwatched \/ WatchpointRequest \/ EditRequest \/ MemoryRequest
    BY <1>1, <1>7 DEF BeginFrame, Unwatched, WatchpointRequest, EditRequest, MemoryRequest, breaks
  <1>8. CASE UNCHANGED vars
    BY <1>1, <1>8 DEF vars, breaks
  <1> QED
    BY <1>5, <1>6, <1>7, <1>8 DEF Next

LEMMA WatchInvariant == Spec => [](IInv /\ WatchInv /\ BpsMap)
  BY InitIInv, StepIInv, InitWatchInv, StepWatchInv, InitBpsMap, StepBpsMap, PTL DEF Spec

(* No match goes by: the latches of every watchpoint are what the bytes it   *)
(* has seen since the last stop make of its condition, and they have never   *)
(* been satisfied together without a stop.                                   *)
THEOREM WatchpointsMissNothing == Spec => []NothingMissed
  <1>1. WatchInv => NothingMissed
    BY WatchInvParts
  <1> QED
    BY WatchInvariant, <1>1, PTL

(* A stop of a watchpoint reports an access its watchpoints do watch, with   *)
(* the byte the memory had, or has once rejected writes have been put back.  *)
THEOREM WatchpointStopsAreReal == Spec => TriggerIsReal
  <1> DEFINE Real ==
        LET r == report' IN
        r.by = "debug" /\ r.reason = "watchpoint" =>
          /\ r.ids # {} /\ r.ids \subseteq DOMAIN wps
          /\ \A id \in r.ids : Touches(wps[id].config, r)
          /\ r.value = (IF r.access = "R" THEN ram ELSE ram')[r.addr]
  <1>1. IInv /\ WatchInv /\ [Next]_vars => [Real]_vars
    <2> SUFFICES ASSUME IInv, WatchInv, Next, report'.by = "debug", report'.reason = "watchpoint"
                 PROVE  Real
      OBVIOUS
    <2>1. PICK acc \in Instructions : Debug(acc)
      BY OnlyDebugSpeaks
    <2>2. ram \in [Addrs -> Values] /\ WatchTypes /\ NothingMissed
      BY WatchInvParts DEF IInv, EditsOK
    <2> QED
      BY <2>1, <2>2, DebugHitsReal
  <1> QED
    BY WatchInvariant, <1>1, PTL DEF Spec, TriggerIsReal

-----------------------------------------------------------------------------
(* The update counters. *)
LEMMA BumpMoves ==
  ASSUME NEW n \in 0..UpdateWrap - 1
  PROVE  Bump(n) # n
  <1>1. UpdateWrap \in Nat /\ UpdateWrap >= 2 /\ n + 1 \in 0..UpdateWrap
    BY DebuggerAssumption
  <1>2. CASE n + 1 = UpdateWrap
    <2>1. Bump(n) = 0
      BY <1>1, <1>2 DEF Bump
    <2> QED
      BY <1>1, <1>2, <2>1
  <1>3. CASE n + 1 # UpdateWrap
    <2>1. Bump(n) = n + 1
      BY <1>1, <1>3 DEF Bump
    <2> QED
      BY <2>1
  <1> QED
    BY <1>2, <1>3

(* A visit that is not announced leaves the breakpoint as it was: its        *)
(* counter has run out, and it does not delete itself.                       *)
LEMMA VisitTells ==
  ASSUME BreaksOK, BpsMap, NEW pc, CheckBreakpoint(pc), bps' # bps
  PROVE  bpUpdates' # bpUpdates
  <1>1. Visits(pc)
    BY DEF CheckBreakpoint
  <1>2. bps[pc] \in [counter : 0..MaxCounter, autoDel : BOOLEAN, active : BOOLEAN]
    BY <1>1 DEF BreaksOK, Visits
  <1>3. Announced(pc)
    <2> SUFFICES ASSUME bps[pc].counter = 0, ~bps[pc].autoDel PROVE FALSE
      BY <1>1, <1>2, DebuggerAssumption DEF Announced
    <2>1. bps' = [bps EXCEPT ![pc].counter = 0]
      BY <1>1 DEF CheckBreakpoint, Remaining, Left
    <2>2. [bps[pc] EXCEPT !.counter = 0] = bps[pc]
      BY <1>2
    <2>3. bps' = bps
      BY <2>1, <2>2 DEF BpsMap
    <2> QED
      BY <2>3
  <1>4. bpUpdates \in 0..UpdateWrap - 1 /\ bpUpdates' = Bump(bpUpdates)
    BY <1>3 DEF CheckBreakpoint, BreaksOK
  <1> QED
    BY <1>4, BumpMoves

(* A client that polls the two counters sees them move with every change of  *)
(* a collection, the ones instructions make included.                        *)
THEOREM ChangesAreTold == Spec => UpdatesTell
  <1> DEFINE Tell == /\ bps' # bps => bpUpdates' # bpUpdates
                     /\ Configs(wps') # Configs(wps) => wpUpdates' # wpUpdates
  <1>1. IInv /\ WatchInv /\ BpsMap /\ [Next]_vars => [Tell]_vars
    <2> SUFFICES ASSUME IInv, WatchInv, BpsMap, Next PROVE Tell
      OBVIOUS
    <2>1. BreaksOK /\ WatchesOK /\ ram \in [Addrs -> Values] /\ WatchTypes /\ NothingMissed
      BY WatchInvParts DEF IInv, EditsOK
    <2>2. Bump(bpUpdates) # bpUpdates /\ Bump(wpUpdates) # wpUpdates
      BY <2>1, BumpMoves DEF BreaksOK, WatchesOK
    <2>3. ASSUME NEW acc \in Instructions, Debug(acc) PROVE Tell
      <3>1. \E pc : CheckBreakpoint(pc)
        BY <2>3, Zenon DEF Debug
      <3> QED
        BY <2>1, <2>3, <3>1, VisitTells, DebugMissesNothing
    <2>4. ASSUME UNCHANGED <<bps, wps>> PROVE Tell
      BY <2>4
    <2>5. CASE Instruction
      BY <2>3, <2>5 DEF Instruction
    <2>6. CASE BeginFrame
      BY <2>4, <2>6 DEF BeginFrame, breaks, watches
    <2>7. CASE FrameInstruction
      BY <2>3, <2>7 DEF FrameInstruction
    <2>8. CASE Unwatched
      BY <2>4, <2>8 DEF Unwatched, breaks, watches
    <2>9. CASE BreakpointRequest
      <3>1. UNCHANGED bps \/ bpUpdates' = Bump(bpUpdates)
        BY <2>9 DEF BreakpointRequest, BreakpointAdd, BreakpointSetStatus, BreakpointDel,
                    BreakpointDelAll, breaks
      <3>2. UNCHANGED wps
        BY <2>9 DEF BreakpointRequest, watches
      <3> QED
        BY <2>2, <3>1, <3>2
    <2>10. CASE WatchpointRequest
      <3>1. UNCHANGED wps \/ wpUpdates' = Bump(wpUpdates)
        BY <2>10 DEF WatchpointRequest, WatchpointAdd, WatchpointEdit, WatchpointDel,
                     WatchpointDelAll, watches
      <3>2. UNCHANGED bps
        BY <2>10 DEF WatchpointRequest, breaks
      <3> QED
        BY <2>2, <3>1, <3>2
    <2>11. CASE EditRequest
      BY <2>4, <2>11 DEF EditRequest, breaks, watches
    <2>12. CASE MemoryRequest
      BY <2>4, <2>12 DEF MemoryRequest, breaks, watches
    <2> QED
      BY <2>5, <2>6, <2>7, <2>8, <2>9, <2>10, <2>11, <2>12 DEF Next
  <1> QED
    BY WatchInvariant, <1>1, PTL DEF Spec, UpdatesTell
=============================================================================
