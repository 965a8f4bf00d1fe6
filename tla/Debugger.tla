------------------------------ MODULE Debugger ------------------------------
(***************************************************************************)
(* What the debugger does with an instruction once it has been executed    *)
(* (Debugger::Debug()): the memory edits that reject its writes, the       *)
(* watchpoints its accesses match, the breakpoint at the next instruction, *)
(* and what it leaves for the recorder; and the requests that change those *)
(* collections between two instructions.                                   *)
(*                                                                         *)
(* Addresses are global ones.  A breakpoint's memory pages, operand,       *)
(* condition and value are abstracted: the instruction stops at an address *)
(* of Pcs if they accept the machine's state, and at Nowhere if they do    *)
(* not, or if there is no breakpoint to ask.                               *)
(***************************************************************************)
EXTENDS Integers, Sequences, FiniteSets, Functions

CONSTANTS
  Addrs,       \* bound: the memory, an interval of numbers
  Base,        \* bound: how many values a byte has (256)
  Pcs,         \* bound: where breakpoints may be
  Nowhere,     \* a program counter where no breakpoint's condition holds
  MaxCounter,  \* bound: the counters breakpoints are added with
  Watches,     \* bound: the watchpoint configurations clients send
  Edits,       \* bound: the memory edits clients send
  MaxRequests, \* bound: requests that change a collection
  UpdateWrap,  \* m_updates is an unsigned integer of this many values (2^32)
  Xthl         \* the program executes XTHL

Values == 0..Base - 1
Accesses == {"R", "W", "RW"}
Conditions == {"ANY", "EQU", "LESS", "GREATER", "LESS_EQU", "GREATER_EQU", "NOT_EQU"}

(* What the validation of the requests lets through. *)
WatchConfigs ==
  [addr : Addrs, len : Nat \ {0}, value : Nat, access : Accesses,
   cond : Conditions, type : {"LEN", "WORD"}, active : BOOLEAN]

EditConfigs == [entered : Values, readonly : BOOLEAN, active : BOOLEAN]

ASSUME DebuggerAssumption ==
  /\ Addrs \subseteq Nat /\ Base \in Nat \ {0} /\ Nowhere \notin Pcs
  /\ MaxCounter \in Nat \ {0} /\ MaxRequests \in Nat
  /\ UpdateWrap \in Nat \ {0, 1} /\ Xthl \in BOOLEAN
  /\ Watches \subseteq WatchConfigs
  /\ \A w \in Watches : w.type = "WORD" => w.len = 2
  /\ Edits \subseteq EditConfigs

VARIABLES
  ram,
  edits,      \* m_memoryEdits
  bps,        \* Breakpoints::m_bps
  bpUpdates,  \* Breakpoints::m_updates
  wps,        \* Watchpoints::m_wps
  nextId,     \* Watchpoints::m_nextId
  wpUpdates,  \* Watchpoints::m_updates
  frame,      \* a frame is being executed by a request
  report,     \* what Debug() said of the last instruction, if it was called
  recorded,   \* the writes it left for the recorder
  requests,   \* bound: how many requests have been made
  asked,      \* ghost: the counter each breakpoint was given, its visits since
  seen        \* ghost: the bytes each watchpoint has seen since the last stop

breaks == <<bps, bpUpdates, asked>>
watches == <<wps, nextId, wpUpdates, seen>>
vars == <<ram, edits, breaks, watches, frame, report, recorded, requests>>

Put(f, k, v) == [x \in DOMAIN f \union {k} |-> IF x = k THEN v ELSE f[x]]
Drop(f, k) == Restrict(f, DOMAIN f \ {k})
Bump(n) == (n + 1) % UpdateWrap

Nothing == -1
NoBytes == [lo |-> Nothing, hi |-> Nothing]
Silent == [by |-> "nobody"]         \* no Debug() in this step
Quiet == [by |-> "debug", reason |-> "none"]

Init ==
  /\ ram \in [Addrs -> Values]
  /\ edits = <<>> /\ bps = <<>> /\ bpUpdates = 0
  /\ wps = <<>> /\ nextId = 0 /\ wpUpdates = 0
  /\ frame = FALSE
  /\ report = Silent /\ recorded = <<>> /\ requests = 0
  /\ asked = <<>> /\ seen = <<>>

-----------------------------------------------------------------------------
(* An instruction's memory accesses: its reads, its writes in the order of   *)
(* their byte numbers, and how many writes Memory has counted: the number of *)
(* the byte written last, plus one.                                          *)

Access(reads, writes, counted) ==
  [reads |-> reads, writes |-> writes, counted |-> counted]

Write(a, v) == [addr |-> a, before |-> ram[a], after |-> v]

ReadByte(a) == Access(<<a>>, <<>>, 0)
WriteByte(a, v) == Access(<<>>, <<Write(a, v)>>, 1)
UpdateByte(a, v) == Access(<<a>>, <<Write(a, v)>>, 1)
ReadWord(as) == Access(as, <<>>, 0)
WriteWord(as, vs) == Access(<<>>, <<Write(as[1], vs[1]), Write(as[2], vs[2])>>, 2)

(* XTHL numbers the byte it writes first 1 and the one it writes last 0. *)
ExchangeWord(as, vs) ==
  Access(as, <<Write(as[2], vs[1]), Write(as[1], vs[2])>>, 1)

Plain == {Access(<<>>, <<>>, 0)}

(* MOV r,M and the like; MOV M,r and the like; INR M and DCR M. *)
Bytes ==
  {ReadByte(a) : a \in Addrs}
    \union {WriteByte(a, v) : a \in Addrs, v \in Values}
    \union {UpdateByte(a, v) : a \in Addrs, v \in Values}

(* The two bytes of a word in the order of the accesses: SHLD goes upwards,  *)
(* PUSH downwards, and where 64 KB or a mapped page ends they are far apart. *)
WordAddrs == {as \in [1..2 -> Addrs] : as[1] # as[2]}

(* LHLD, POP and RET; SHLD, PUSH, CALL and RST; XTHL. *)
Words ==
  {ReadWord(as) : as \in WordAddrs}
    \union {WriteWord(as, vs) : as \in WordAddrs, vs \in Values \X Values}

XthlBytes == {ExchangeWord(as, vs) : as \in WordAddrs, vs \in Values \X Values}

Instructions == Plain \union Bytes \union Words \union (IF Xthl THEN XthlBytes ELSE {})

(* The memory after the writes of ws, which are to different addresses. *)
After(ws) ==
  [a \in Addrs |-> IF \E i \in DOMAIN ws : ws[i].addr = a
                   THEN (CHOOSE w \in Range(ws) : w.addr = a).after
                   ELSE ram[a]]

(* Mutant: writing the value that was entered is let through. *)
RejectedUnlessEntered(w) ==
  /\ w.addr \in DOMAIN edits /\ edits[w.addr].active /\ edits[w.addr].readonly
  /\ w.after # edits[w.addr].entered

(* A write an active read-only edit rejects: Debug() puts the byte back, in  *)
(* the memory and in what the recorder is given.                             *)
Rejected(w) ==
  w.addr \in DOMAIN edits /\ edits[w.addr].active /\ edits[w.addr].readonly

PutBack(w) == IF Rejected(w) THEN [w EXCEPT !.after = w.before] ELSE w

(* Mutant: the recorder is still given the rejected value. *)
GivenAsWritten(w) == w

Given(w) == PutBack(w)

Counted(acc) == [i \in 1..acc.counted |-> acc.writes[i]]
Uncounted(acc) == [i \in 1..Len(acc.writes) - acc.counted |-> acc.writes[acc.counted + i]]

-----------------------------------------------------------------------------
(* Watchpoint::Check() *)

Low(w, a) == w.type = "LEN" \/ a = w.addr
ByteOf(w, low) == IF low THEN w.value % Base ELSE (w.value \div Base) % Base

Holds(cond, v, b) ==
  CASE cond = "ANY" -> TRUE
    [] cond = "EQU" -> v = b
    [] cond = "LESS" -> v < b
    [] cond = "GREATER" -> v > b
    [] cond = "LESS_EQU" -> v <= b
    [] cond = "GREATER_EQU" -> v >= b
    [] cond = "NOT_EQU" -> v # b

(* The bytes a watchpoint watches, and the accesses it looks at. *)
Span(w) == w.addr .. w.addr + w.len - 1
Touches(w, acc) ==
  w.active /\ w.access \in {"RW", acc.access} /\ acc.addr \in Span(w)

(* The latch of the byte that was accessed takes the outcome. *)
Latched(wp, acc) ==
  LET w == wp.config
      low == Low(w, acc.addr)
      match == Holds(w.cond, acc.value, ByteOf(w, low))
  IN  IF ~Touches(w, acc) THEN wp
      ELSE IF low THEN [wp EXCEPT !.breakL = match] ELSE [wp EXCEPT !.breakH = match]

Fires(wp, acc) ==
  /\ Touches(wp.config, acc)
  /\ Latched(wp, acc).breakL /\ (wp.config.type = "LEN" \/ Latched(wp, acc).breakH)

(* Watchpoints::Check() for each access in turn: the first access that makes *)
(* watchpoints fire is the hit.                                              *)
Watched(accs) ==
  LET check[k \in 0..Len(accs)] ==
        IF k = 0 THEN [wps |-> wps, hit |-> Quiet]
        ELSE LET was == check[k - 1]
                 fired == {id \in DOMAIN wps : Fires(was.wps[id], accs[k])}
             IN  [wps |-> [id \in DOMAIN wps |-> Latched(was.wps[id], accs[k])],
                  hit |-> IF was.hit # Quiet \/ fired = {} THEN was.hit
                          ELSE [by |-> "debug", reason |-> "watchpoint", ids |-> fired,
                                access |-> accs[k].access, addr |-> accs[k].addr,
                                value |-> accs[k].value]]
  IN  check[Len(accs)]

(* Mutant: only the watchpoints that fired are reset. *)
CheckBreakOnlyFired(was) ==
  [id \in DOMAIN wps |->
     IF was.hit # Quiet /\ id \in was.hit.ids
     THEN [was.wps[id] EXCEPT !.breakL = FALSE, !.breakH = FALSE] ELSE was.wps[id]]

(* CheckBreak(): a hit resets every watchpoint. *)
CheckBreak(was) ==
  [id \in DOMAIN wps |->
     IF was.hit # Quiet
     THEN [was.wps[id] EXCEPT !.breakL = FALSE, !.breakH = FALSE] ELSE was.wps[id]]

(* The byte a configuration has last seen, which was before up to here. *)
LastSeen(w, low, accs, before) ==
  LET ks == {k \in DOMAIN accs : Touches(w, accs[k]) /\ Low(w, accs[k].addr) = low}
  IN  IF ks = {} THEN before
      ELSE accs[CHOOSE k \in ks : \A j \in ks : j <= k].value

Seen(accs) ==
  [id \in DOMAIN wps |-> [lo |-> LastSeen(wps[id].config, TRUE, accs, seen[id].lo),
                          hi |-> LastSeen(wps[id].config, FALSE, accs, seen[id].hi)]]

-----------------------------------------------------------------------------
(* Breakpoints::Check() *)

Visits(pc) == pc \in DOMAIN bps /\ bps[pc].active

(* Mutant: the counter is counted down whatever it is. *)
LeftBelowZero(pc) == bps[pc].counter - 1

Left(pc) == IF bps[pc].counter > 0 THEN bps[pc].counter - 1 ELSE 0
Breaks(pc) == Visits(pc) /\ Left(pc) = 0

(* Mutant: the counter restarts when it has run out. *)
Restarted(pc) == IF Left(pc) = 0 THEN asked[pc].counter ELSE Left(pc)

(* What the counter is after a visit. *)
Remaining(pc) == Left(pc)

(* Mutant: an automatic deletion is not announced. *)
AnnouncedUnlessDeleted(pc) == Visits(pc) /\ bps[pc].counter > 0 /\ ~bps[pc].autoDel

Announced(pc) == Visits(pc) /\ (bps[pc].counter > 0 \/ bps[pc].autoDel)

CheckBreakpoint(pc) ==
  /\ bps' = IF ~Visits(pc) THEN bps
            ELSE IF Breaks(pc) /\ bps[pc].autoDel THEN Drop(bps, pc)
            ELSE [bps EXCEPT ![pc].counter = Remaining(pc)]
  /\ bpUpdates' = IF Announced(pc) THEN Bump(bpUpdates) ELSE bpUpdates
  /\ asked' = IF ~Visits(pc) THEN asked
              ELSE IF Breaks(pc) /\ bps[pc].autoDel THEN Drop(asked, pc)
              ELSE [asked EXCEPT ![pc].visits = IF @ < asked[pc].counter THEN @ + 1 ELSE @]

-----------------------------------------------------------------------------
(* Debug(): the reads and the accepted writes go to the watchpoints, then    *)
(* watchpoints, breakpoints and scripts are asked; that is the order in which *)
(* one of them is reported.  What a script asks for is anybody's guess.       *)

Reads(acc) ==
  [i \in DOMAIN acc.reads |->
     [access |-> "R", addr |-> acc.reads[i], value |-> ram[acc.reads[i]]]]

(* Mutant: a rejected write is shown to the watchpoints too. *)
WritesRejectedToo(acc) ==
  [i \in DOMAIN Counted(acc) |->
     [access |-> "W", addr |-> Counted(acc)[i].addr, value |-> Counted(acc)[i].after]]

Writes(acc) ==
  LET ws == Counted(acc)
      shown[i \in 0..Len(ws)] ==
        IF i = 0 THEN <<>>
        ELSE IF Rejected(ws[i]) THEN shown[i - 1]
        ELSE Append(shown[i - 1], [access |-> "W", addr |-> ws[i].addr, value |-> ws[i].after])
  IN  shown[Len(ws)]

Debug(acc) ==
  LET accs == Reads(acc) \o Writes(acc)
      was == Watched(accs)
      kept == [i \in DOMAIN Counted(acc) |-> PutBack(Counted(acc)[i])]
  IN  /\ ram' = After(kept \o Uncounted(acc))
      /\ recorded' = [i \in DOMAIN Counted(acc) |-> Given(Counted(acc)[i])]
      /\ wps' = CheckBreak(was)
      /\ seen' = IF was.hit # Quiet THEN [id \in DOMAIN wps |-> NoBytes] ELSE Seen(accs)
      /\ UNCHANGED <<nextId, wpUpdates, edits, requests>>
      /\ \E pc \in Pcs \union {Nowhere} :
           /\ CheckBreakpoint(pc)
           /\ report' \in IF was.hit # Quiet THEN {was.hit}
                          ELSE IF Breaks(pc)
                               THEN {[by |-> "debug", reason |-> "breakpoint", addr |-> pc]}
                          ELSE {Quiet, [by |-> "debug", reason |-> "script"]}

(* An instruction of a run, which a break ends, or of EXECUTE_INSTR. *)
Instruction ==
  /\ ~frame
  /\ \E acc \in Instructions : Debug(acc)
  /\ UNCHANGED frame

(* EXECUTE_FRAME and EXECUTE_FRAME_NO_BREAKS: what Debug() returns is ignored. *)
BeginFrame ==
  /\ ~frame /\ frame' = TRUE
  /\ report' = Silent /\ recorded' = <<>>
  /\ UNCHANGED <<ram, edits, breaks, watches, requests>>

FrameInstruction ==
  /\ frame
  /\ \E acc \in Instructions : Debug(acc)
  /\ frame' \in BOOLEAN

(* An instruction without Debug(): RUN_HEADLESS, or no debugger attached. *)
Unwatched ==
  /\ ~frame
  /\ \E acc \in Instructions : ram' = After(acc.writes)
  /\ report' = Silent /\ recorded' = <<>>
  /\ UNCHANGED <<edits, breaks, watches, frame, requests>>

-----------------------------------------------------------------------------
(* The requests. *)

Request ==
  /\ ~frame /\ requests < MaxRequests
  /\ requests' = requests + 1
  /\ report' = Silent /\ recorded' = <<>>

BreakpointAdd(pc, n, del, act) ==
  /\ bps' = Put(bps, pc, [counter |-> n, autoDel |-> del, active |-> act])
  /\ asked' = Put(asked, pc, [counter |-> n, visits |-> 0])
  /\ bpUpdates' = Bump(bpUpdates)

(* SetStatus(): nothing to do is nothing done. *)
BreakpointSetStatus(pc, act) ==
  IF pc \in DOMAIN bps /\ bps[pc].active # act
  THEN bps' = [bps EXCEPT ![pc].active = act] /\ bpUpdates' = Bump(bpUpdates) /\ UNCHANGED asked
  ELSE UNCHANGED breaks

BreakpointDel(pc) ==
  IF pc \in DOMAIN bps
  THEN bps' = Drop(bps, pc) /\ asked' = Drop(asked, pc) /\ bpUpdates' = Bump(bpUpdates)
  ELSE UNCHANGED breaks

BreakpointDelAll ==
  IF bps # <<>> THEN bps' = <<>> /\ asked' = <<>> /\ bpUpdates' = Bump(bpUpdates)
                ELSE UNCHANGED breaks

BreakpointRequest ==
  /\ Request
  /\ \/ \E pc \in Pcs :
          \/ \E n \in 1..MaxCounter, del, act \in BOOLEAN : BreakpointAdd(pc, n, del, act)
          \/ \E act \in BOOLEAN : BreakpointSetStatus(pc, act)
          \/ BreakpointDel(pc)
     \/ BreakpointDelAll
  /\ UNCHANGED <<ram, edits, watches, frame>>

(* A configuration as it is stored: nothing has matched yet. *)
Unlatched(w) == [config |-> w, breakL |-> FALSE, breakH |-> FALSE]

(* AddNew(): the first number that is free. *)
WatchpointAdd(w) ==
  LET id == CHOOSE i \in nextId..nextId + Cardinality(DOMAIN wps) :
              i \notin DOMAIN wps /\ \A j \in nextId..i - 1 : j \in DOMAIN wps
  IN  /\ wps' = Put(wps, id, Unlatched(w)) /\ seen' = Put(seen, id, NoBytes)
      /\ nextId' = id + 1
      /\ wpUpdates' = Bump(wpUpdates)

Edited(id, w) == Unlatched(w)

(* Edit() of an unknown identity is an error. *)
WatchpointEdit(id, w) ==
  IF id \in DOMAIN wps
  THEN /\ wps' = [wps EXCEPT ![id] = Edited(id, w)] /\ seen' = [seen EXCEPT ![id] = NoBytes]
       /\ wpUpdates' = Bump(wpUpdates)
       /\ UNCHANGED nextId
  ELSE UNCHANGED watches

WatchpointDel(id) ==
  IF id \in DOMAIN wps
  THEN /\ wps' = Drop(wps, id) /\ seen' = Drop(seen, id)
       /\ wpUpdates' = Bump(wpUpdates)
       /\ UNCHANGED nextId
  ELSE UNCHANGED watches

WatchpointDelAll ==
  IF wps # <<>> THEN /\ wps' = <<>> /\ seen' = <<>> /\ wpUpdates' = Bump(wpUpdates)
                     /\ UNCHANGED nextId
                ELSE UNCHANGED watches

WatchpointRequest ==
  /\ Request
  /\ \/ \E w \in Watches : WatchpointAdd(w) \/ \E id \in DOMAIN wps : WatchpointEdit(id, w)
     \/ \E id \in DOMAIN wps : WatchpointDel(id)
     \/ WatchpointDelAll
  /\ UNCHANGED <<ram, edits, breaks, frame>>

(* DEBUG_MEMORY_EDIT_ADD: the byte is written if that is news. *)
EditAdd(a, e) ==
  LET known == a \in DOMAIN edits
      original == IF known THEN edits[a].original ELSE ram[a]
      apply == e.active /\ (~known \/ ~edits[a].active \/ edits[a].entered # e.entered)
  IN  /\ edits' = Put(edits, a, [entered |-> e.entered, readonly |-> e.readonly,
                                active |-> e.active, original |-> original])
      /\ ram' = IF apply THEN [ram EXCEPT ![a] = e.entered] ELSE ram

EditDel(a) == edits' = Drop(edits, a) /\ UNCHANGED ram

EditDelAll == edits' = <<>> /\ UNCHANGED ram

(* DEBUG_MEMORY_EDIT_RESTORE; of an unknown address it is an error. *)
EditRestore(a) ==
  IF a \in DOMAIN edits
  THEN ram' = [ram EXCEPT ![a] = edits[a].original] /\ edits' = Drop(edits, a)
  ELSE UNCHANGED <<ram, edits>>

EditRequest ==
  /\ Request
  /\ \/ \E a \in Addrs : (\E e \in Edits : EditAdd(a, e)) \/ EditDel(a) \/ EditRestore(a)
     \/ EditDelAll
  /\ UNCHANGED <<breaks, watches, frame>>

(* SET_MEM and SET_BYTE_GLOBAL. *)
HostWrite(a, v) == ram' = [ram EXCEPT ![a] = v]

(* LOAD_ROM: the memory is loaded, then every active edit is applied again. *)
LoadRom(rom) ==
  ram' = [a \in Addrs |-> IF a \in DOMAIN edits /\ edits[a].active
                          THEN edits[a].entered ELSE rom[a]]

MemoryRequest ==
  /\ ~frame
  /\ \/ \E a \in Addrs, v \in Values : HostWrite(a, v)
     \/ \E rom \in [Addrs -> Values] : LoadRom(rom)
  /\ report' = Silent /\ recorded' = <<>>
  /\ UNCHANGED <<edits, breaks, watches, frame, requests>>

Next ==
  \/ Instruction \/ BeginFrame \/ FrameInstruction \/ Unwatched
  \/ BreakpointRequest \/ WatchpointRequest \/ EditRequest \/ MemoryRequest

Spec == Init /\ [][Next]_vars

-----------------------------------------------------------------------------
(* The type invariant. *)
TypeOK ==
  /\ ram \in [Addrs -> Values]
  /\ DOMAIN edits \subseteq Addrs
  /\ \A a \in DOMAIN edits : edits[a] \in [entered : Values, readonly : BOOLEAN,
                                           active : BOOLEAN, original : Values]
  /\ DOMAIN bps \subseteq Pcs
  /\ \A pc \in DOMAIN bps :
       bps[pc] \in [counter : 0..MaxCounter, autoDel : BOOLEAN, active : BOOLEAN]
  /\ bpUpdates \in 0..UpdateWrap - 1 /\ wpUpdates \in 0..UpdateWrap - 1
  /\ nextId \in Nat /\ DOMAIN wps \subseteq 0..nextId - 1
  /\ DOMAIN seen = DOMAIN wps
  /\ DOMAIN asked = DOMAIN bps
  /\ \A pc \in DOMAIN asked : asked[pc] \in [counter : 1..MaxCounter, visits : 0..MaxCounter]
  /\ frame \in BOOLEAN
  /\ requests \in 0..MaxRequests

(* A breakpoint stops the emulation at the visit its counter says and at all *)
(* later ones, never before: disabling, enabling, and visits in executed     *)
(* frames neither lose nor add a visit, replacing it starts again, and one   *)
(* that deletes itself is gone with its first stop.                          *)
CountKept ==
  \A pc \in DOMAIN bps :
    /\ bps[pc].counter = asked[pc].counter - asked[pc].visits
    /\ bps[pc].autoDel => asked[pc].visits < asked[pc].counter

Satisfied(w, low, v) == v # Nothing /\ Holds(w.cond, v, ByteOf(w, low))

(* A watchpoint's latches say what it has seen since the last stop, and it   *)
(* has not seen a match without a stop, whatever else is watched, edited,    *)
(* rejected or deleted in between.                                           *)
NothingMissed ==
  \A id \in DOMAIN wps :
    /\ wps[id].breakL = Satisfied(wps[id].config, TRUE, seen[id].lo)
    /\ wps[id].breakH = Satisfied(wps[id].config, FALSE, seen[id].hi)
    /\ wps[id].breakL => wps[id].config.type = "WORD" /\ ~wps[id].breakH

(* The access a watchpoint stop reports is one its watchpoints watch, and    *)
(* its value is the byte the memory had, or has after the write.             *)
TriggerIsReal ==
  [][LET r == report' IN
     r.by = "debug" /\ r.reason = "watchpoint" =>
       /\ r.ids # {} /\ r.ids \subseteq DOMAIN wps
       /\ \A id \in r.ids : Touches(wps[id].config, r)
       /\ r.value = (IF r.access = "R" THEN ram ELSE ram')[r.addr]]_vars

(* While a debugger watches, no instruction changes the byte of an active    *)
(* read-only edit.                                                           *)
ReadonlyHeld ==
  [][report'.by = "debug" =>
       \A a \in DOMAIN edits :
         edits[a].active /\ edits[a].readonly => ram'[a] = ram[a]]_vars

(* The writes left for the recorder undo and redo what the instruction did   *)
(* to the memory, rejected writes included.                                  *)
RecorderExact ==
  [][report'.by = "debug" =>
       \A a \in Addrs :
         LET ws == {w \in Range(recorded') : w.addr = a}
         IN  IF ws = {} THEN ram'[a] = ram[a]
             ELSE \A w \in ws : w.before = ram[a] /\ w.after = ram'[a]]_vars

Configs(ws) == [id \in DOMAIN ws |-> ws[id].config]

(* A client that polls the update counters misses no change of what GET_ALL  *)
(* returns, whether a request or an instruction made it.                     *)
UpdatesTell ==
  [][/\ bps' # bps => bpUpdates' # bpUpdates
     /\ Configs(wps') # Configs(wps) => wpUpdates' # wpUpdates]_vars
=============================================================================
