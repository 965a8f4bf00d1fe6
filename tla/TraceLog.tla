----------------------------- MODULE TraceLog -----------------------------
(***************************************************************************)
(* The trace log: a ring of the instructions executed last, the search     *)
(* for the caller of a range of code, which clients continue from a        *)
(* cursor, and the filter, whose result they fetch window by window.       *)
(*                                                                         *)
(* Numbers that only tell one history or filter from another, and are      *)
(* never used twice, are kept as whether they are the current ones.        *)
(***************************************************************************)
EXTENDS Opcodes

CONSTANTS
  LogSize,     \* TRACE_LOG_SIZE
  Digits,      \* how many digits an address is printed with
  Radix,       \* what they are, 16 in the machine
  Code,        \* bound: the program's instructions, [addr, opcode]
  Ranges,      \* bound: the ranges of code whose callers are asked for, pairs
  Globs        \* bound: the patterns of the filter's addresses

OPCODE_HLT == 118
STAR == -1
EMPTY_ITEM == -1
Slot == 0..(LogSize - 1)
CodeSpace == Radix ^ Digits

ASSUME TraceLogAssumption ==
  /\ LogSize \in Nat \ {0, 1} /\ Digits \in Nat \ {0} /\ Radix \in Nat \ {0, 1}
  /\ CodeSpace \in Nat /\ Code \subseteq [addr : 0..(CodeSpace - 1), opcode : Opcode]
  /\ Globs \subseteq Seq(Int) /\ \A r \in Ranges : r[1] \in Nat /\ r[2] \in (r[1] + 1)..CodeSpace

VARIABLES
  log,        \* m_log
  logIdx,     \* m_logIdx: the newest item
  count,      \* m_historyCount
  filter,     \* the glob of the filter whose id is valid, and its m_filteredEntries
  cursor,     \* the caller a client was told, -1 for none, if its m_historyGeneration is
              \* current, and of which history it was told
  livePc,
  isRunning,
  history     \* ghost: the instructions executed, newest first

traceVars == <<log, logIdx, count, filter, cursor, livePc, isRunning, history>>

Item(n) == log[(logIdx + n) % LogSize]
NoFilter == [valid |-> FALSE, glob |-> <<>>, entries |-> <<>>]
NoCursor == [at |-> -1, current |-> FALSE, told |-> <<>>]

-----------------------------------------------------------------------------
(* GlobMatches() goes through the value once; at a mismatch it goes back   *)
(* to the last star, which takes one character more.                       *)
GlobStep(pattern, value, g) ==
  CASE g.p <= Len(pattern) /\ pattern[g.p] # STAR /\ pattern[g.p] = value[g.v] ->
         [g EXCEPT !.p = @ + 1, !.v = @ + 1]
    [] g.p <= Len(pattern) /\ pattern[g.p] = STAR ->
         [g EXCEPT !.p = @ + 1, !.star = g.p, !.starV = g.v]
    [] (g.p > Len(pattern) \/ pattern[g.p] \notin {STAR, value[g.v]}) /\ g.star # 0 ->
         [g EXCEPT !.p = g.star + 1, !.v = g.starV + 1, !.starV = @ + 1]
    [] OTHER -> [g EXCEPT !.failed = TRUE]
GlobMatches(pattern, value) ==
  LET steps == (Len(pattern) + 2) * (Len(value) + 2)
      after[n \in 0..steps] ==
        IF n = 0 THEN [p |-> 1, v |-> 1, star |-> 0, starV |-> 0, failed |-> FALSE]
        ELSE LET g == after[n - 1]
             IN  IF g.failed \/ g.v > Len(value) THEN g ELSE GlobStep(pattern, value, g)
      end == after[steps]
  IN  ~end.failed /\ \A i \in end.p..Len(pattern) : pattern[i] = STAR

Printed(addr) == [i \in 1..Digits |-> (addr \div Radix ^ (Digits - i)) % Radix]
Selected(items, at) ==
  LET places == SelectSeq([n \in DOMAIN items |-> n], LAMBDA n : n \in at)
  IN  [k \in DOMAIN places |-> items[places[k]]]
Matching(glob, items) ==
  Selected(items, {n \in DOMAIN items : glob = <<>> \/ GlobMatches(glob, Printed(items[n].addr))})

(* The filter reads the ring from the newest item to the first empty one.  *)
Filled == {n \in Slot : \A m \in 0..n : Item(m).addr # EMPTY_ITEM}
Listed == LET n == IF Filled = {} THEN 0 ELSE 1 + CHOOSE m \in Filled : \A k \in Filled : k <= m
          IN  [i \in 1..n |-> Item(i - 1)]

-----------------------------------------------------------------------------
(* The answers to HISTORY_CALLER and HISTORY_SUCCESSOR: the newest item    *)
(* from there on that lies outside the range, and where it came to.        *)
FindCaller(from, to, start) ==
  LET outside == {n \in start..(count - 1) : Item(n).addr \notin from..(to - 1)}
      at == CHOOSE n \in outside : \A m \in outside : n <= m
  IN  IF outside = {} THEN NoCursor
      ELSE [at |-> at, callerPc |-> Item(at).addr,
            entrancePc |-> IF at = 0 THEN livePc ELSE Item(at - 1).addr]
CallerSuccessor(at) == (Item(at).addr + GetInstrLen(Item(at).opcode)) % CodeSpace

-----------------------------------------------------------------------------
InvalidateFilter == filter' = NoFilter

(* After an instruction; a HLT that is executed again and again is one.    *)
Update(i, pc) ==
  LET repeated == i.opcode = OPCODE_HLT /\ log[logIdx].opcode = OPCODE_HLT
      to == (logIdx + LogSize - 1) % LogSize
  IN  /\ InvalidateFilter /\ livePc' = pc /\ UNCHANGED isRunning
      /\ IF repeated THEN UNCHANGED <<log, logIdx, count, cursor>>
         ELSE /\ logIdx' = to /\ log' = [log EXCEPT ![to] = i]
              /\ count' = IF count < LogSize THEN count + 1 ELSE LogSize
              /\ cursor' = [cursor EXCEPT !.current = FALSE, !.told = <<>>]

(* The program runs the instructions in any order, but it does not begin   *)
(* with a HLT: one left in the first place would hide it.                  *)
Executed(i, pc) ==
  /\ i.opcode = OPCODE_HLT => history # <<>>
  /\ Update(i, pc)
  /\ history' = IF i.opcode = OPCODE_HLT /\ Head(history).opcode = OPCODE_HLT THEN history
                ELSE SubSeq(<<i>> \o history, 1, IF Len(history) < LogSize THEN Len(history) + 1 ELSE LogSize)

(* Mutant: the history's generation stays. *)
TraceResetQuietly(pc) ==
  /\ count' = 0 /\ logIdx' = 0 /\ log' = [log EXCEPT ![0].addr = EMPTY_ITEM]
  /\ InvalidateFilter /\ history' = <<>> /\ livePc' = pc /\ UNCHANGED <<cursor, isRunning>>

(* Reset, restart, loading a ROM and playback. *)
TraceReset(pc) ==
  /\ count' = 0 /\ logIdx' = 0 /\ log' = [log EXCEPT ![0].addr = EMPTY_ITEM]
  /\ cursor' = [cursor EXCEPT !.current = FALSE, !.told = <<>>] /\ InvalidateFilter
  /\ history' = <<>> /\ livePc' = pc /\ UNCHANGED isRunning

RunMachine == ~isRunning /\ isRunning' = TRUE /\ UNCHANGED <<log, logIdx, count, filter, cursor, livePc, history>>
StopMachine ==
  /\ isRunning' = FALSE /\ InvalidateFilter /\ UNCHANGED <<log, logIdx, count, cursor, livePc, history>>

(* Queries are refused while the machine runs, and so is a cursor of       *)
(* another history.                                                        *)
Query == ~isRunning /\ UNCHANGED <<log, logIdx, count, livePc, isRunning, history>>
QueryCaller(from, to, continued) ==
  LET found == FindCaller(from, to, IF continued THEN cursor.at + 1 ELSE 0)
  IN  /\ Query /\ UNCHANGED filter
      /\ continued => cursor.current /\ cursor.at < count
      /\ cursor' = IF found.at = -1 THEN NoCursor ELSE [at |-> found.at, current |-> TRUE, told |-> history]
CreateFilter(glob) ==
  /\ Query /\ UNCHANGED cursor
  /\ filter' = [valid |-> TRUE, glob |-> glob, entries |-> Matching(glob, Listed)]

TraceInit ==
  /\ log = [n \in Slot |-> [addr |-> EMPTY_ITEM, opcode |-> 0]] /\ logIdx = 0 /\ count = 0
  /\ filter = NoFilter /\ cursor = NoCursor /\ livePc = 0 /\ isRunning = FALSE /\ history = <<>>
TraceNext ==
  \/ \E i \in Code, next \in Code : Executed(i, next.addr)
  \/ TraceReset(0) \/ RunMachine \/ StopMachine
  \/ \E range \in Ranges, continued \in BOOLEAN : QueryCaller(range[1], range[2], continued)
  \/ \E glob \in Globs : CreateFilter(glob)

-----------------------------------------------------------------------------
TraceTypeOK ==
  /\ log \in [Slot -> Code \cup [addr : {EMPTY_ITEM}, opcode : {0} \cup {i.opcode : i \in Code}]]
  /\ logIdx \in Slot /\ count \in 0..LogSize
  /\ filter.valid \in BOOLEAN /\ cursor.at \in -1..(LogSize - 1) /\ cursor.current \in BOOLEAN
  /\ livePc \in {0} \cup {i.addr : i \in Code} /\ isRunning \in BOOLEAN

(* What a glob means: the value falls into one piece for each character of *)
(* the pattern, any piece for a star, itself for every other.              *)
Means(pattern, value) ==
  \E ends \in [0..Len(pattern) -> 0..Len(value)] :
    /\ ends[0] = 0 /\ ends[Len(pattern)] = Len(value)
    /\ \A i \in 1..Len(pattern) :
         IF pattern[i] = STAR THEN ends[i - 1] <= ends[i]
         ELSE ends[i] = ends[i - 1] + 1 /\ value[ends[i]] = pattern[i]

(* The caller is the newest instruction outside the range, from where the  *)
(* client has been told on, and where it led is where the range was        *)
(* entered.                                                                *)
CallersFound ==
  /\ count = Len(history) /\ (cursor.current => cursor.told = history)
  /\ \A range \in Ranges, start \in {0} \cup (IF cursor.current THEN {cursor.at + 1} ELSE {}) :
         LET from == range[1]  to == range[2]
             found == FindCaller(from, to, start)
             pc(n) == IF n = 0 THEN livePc ELSE history[n].addr
         IN  IF found.at = -1 THEN \A n \in (start + 1)..Len(history) : history[n].addr \in from..(to - 1)
             ELSE /\ found.callerPc = history[found.at + 1].addr /\ found.entrancePc = pc(found.at)
                  /\ found.callerPc \notin from..(to - 1)
                  /\ \A n \in start..(found.at - 1) : history[n + 1].addr \in from..(to - 1)
                  /\ CallerSuccessor(found.at) =
                       (found.callerPc + GetInstrLen(history[found.at + 1].opcode)) % CodeSpace

FilterShows ==
  filter.valid =>
    filter.entries =
      Selected(history, {n \in DOMAIN history :
                           filter.glob = <<>> \/ Means(filter.glob, Printed(history[n].addr))})

(* What clients are told is about the instructions executed since the last *)
(* reset, newest first, as far back as the ring goes, however often it     *)
(* has wrapped: a cursor is refused in any other history than its own, the *)
(* caller found from it is the first instruction outside the range before, *)
(* and where it led is where the range was entered; the windows of a       *)
(* filter's id show all its matches as long as the id is valid             *)
(* (UpdateLogBuffer(), FindCaller(), CallerSuccessor(), CreateFilter(),    *)
(* GlobMatches(), Reset()).                                                *)
TraceAnswers == CallersFound /\ FilterShows
=============================================================================
