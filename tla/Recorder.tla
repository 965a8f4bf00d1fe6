------------------------------ MODULE Recorder ------------------------------
(***************************************************************************)
(* The playback recorder (core/recorder.h): a ring of hardware states, one *)
(* per frame, each with the memory writes made between it and the next.    *)
(* RAM is not in the ring: playback rewrites the live RAM, backwards with  *)
(* the values before the writes, forwards with the values after them.      *)
(*                                                                         *)
(* The machine is what the recorder sees of it: the CPU, memory mapping,   *)
(* I/O and display states (hw, told apart by the instruction they are      *)
(* after) and the RAM.  What no snapshot holds (timer, sound, FDC,         *)
(* keyboard, the commands of the single RAM disks, m_mappings) stays in    *)
(* the present when the rest is played back; it is not in the model.       *)
(***************************************************************************)
EXTENDS Integers, Sequences

CONSTANTS
  Sizes,            \* the lengths a recorder may be constructed with
  Addrs, Values,    \* the memory
  MaxInstr,         \* bound: instructions on one path from the start
  MaxPlay,          \* bound: frames asked for in one playback
  ResetFirst,       \* the client resets the recorder before it uses it
  ForwardWhileLive  \* the client plays forward without having played back

ASSUME RecorderAssumption ==
  /\ Sizes \subseteq Nat \ {0} /\ MaxInstr \in Nat /\ MaxPlay \in Nat
  /\ ResetFirst \in BOOLEAN /\ ForwardWhileLive \in BOOLEAN

VARIABLES
  size,      \* m_recordFrames, fixed by the constructor
  hw,        \* the CPU, memory, I/O and display states
  ram,       \* the RAM
  slots,     \* m_states
  idx,       \* m_stateIdx
  recorded,  \* m_stateRecorded
  current,   \* m_stateCurrent; -1 stands for the size_t below 0
  last,      \* m_lastRecord
  frameNum   \* m_frameNum

ring == <<slots, idx, recorded, current, last, frameNum>>
vars == <<size, hw, ram, ring>>

HwStates == [instr : 0..MaxInstr, frame : 0..MaxInstr]
Writes == [addr : Addrs, before : Values, after : Values]
Empty == [hw |-> [instr |-> 0, frame |-> 0], diffs |-> <<>>]
Snapshot(state) == [hw |-> state, diffs |-> <<>>]

-----------------------------------------------------------------------------
(* 2^64 % n, by doubling. *)
WordMod(n) ==
  LET pow[k \in 0..64] == IF k = 0 THEN 1 % n ELSE (2 * pow[k - 1]) % n
  IN  pow[64]

NextIdx(i) == (i + 1) % size

(* (m_stateIdx - 1) % m_recordFrames in 64 bits: 0 - 1 is 2^64 - 1. *)
PrevIdx(i) == IF i > 0 THEN i - 1 ELSE (WordMod(size) + size - 1) % size

Least(s) == CHOOSE i \in s : \A j \in s : i <= j
Greatest(s) == CHOOSE i \in s : \A j \in s : j <= i
WritesTo(a, ds) == {i \in 1..Len(ds) : ds[i].addr = a}

(* Mutant: the writes are undone in the order they were made. *)
UndoForwards(r, ds) ==
  [a \in Addrs |-> LET w == WritesTo(a, ds)
                   IN  IF w = {} THEN r[a] ELSE ds[Greatest(w)].before]

(* Undoing a slot's writes from the last to the first leaves the oldest      *)
(* value, redoing them from the first to the last the newest.                *)
Undo(r, ds) ==
  [a \in Addrs |-> LET w == WritesTo(a, ds)
                   IN  IF w = {} THEN r[a] ELSE ds[Least(w)].before]

Redo(r, ds) ==
  [a \in Addrs |-> LET w == WritesTo(a, ds)
                   IN  IF w = {} THEN r[a] ELSE ds[Greatest(w)].after]

-----------------------------------------------------------------------------
(* StoreState(): the next slot takes the state, and is the last one. *)
StoreState(ss, i, c, state) ==
  LET n == NextIdx(i)
      stored == IF c + 1 < size THEN c + 1 ELSE size
  IN  /\ idx' = n
      /\ current' = stored /\ recorded' = stored
      /\ slots' = [ss EXCEPT ![n] = Snapshot(state)]

(* Recorder::Reset() *)
Reset(ss, state) ==
  /\ StoreState(ss, 0, 0, state)
  /\ last' = TRUE
  /\ frameNum' = state.frame

(* A freshly constructed recorder, or one the client has reset. *)
Fresh == [i \in 0..size - 1 |-> Empty]

Init ==
  /\ size \in Sizes
  /\ hw = [instr |-> 0, frame |-> 0]
  /\ ram \in [Addrs -> Values]
  /\ last = TRUE /\ frameNum = 0
  /\ slots = Fresh
  /\ idx = IF ResetFirst THEN NextIdx(0) ELSE 0
  /\ recorded = IF ResetFirst THEN 1 ELSE 0
  /\ current = IF ResetFirst THEN 1 ELSE 0

(* Mutant: running on from the past keeps the future that was recorded. *)
UpdateNoClean(w, state) ==
  LET written == [slots EXCEPT ![idx].diffs = @ \o w]
  IN  /\ last' = TRUE
      /\ frameNum' = state.frame
      /\ IF frameNum # state.frame
         THEN StoreState(written, idx, current, state)
         ELSE /\ slots' = written
              /\ UNCHANGED <<idx, recorded, current>>

(* Update(), with CleanMemUpdates() if the machine runs on from the past:    *)
(* the writes of an instruction go to the slot before a new frame is stored. *)
Update(w, state) ==
  LET written == [slots EXCEPT ![idx].diffs = (IF last THEN @ ELSE <<>>) \o w]
  IN  /\ last' = TRUE
      /\ frameNum' = state.frame
      /\ IF frameNum # state.frame
         THEN StoreState(written, idx, current, state)
         ELSE /\ slots' = written
              /\ recorded' = IF last THEN recorded ELSE current
              /\ UNCHANGED <<idx, current>>

(* An instruction with the debugger attached: Debug() calls Update() last. *)
Execute(f, w) ==
  /\ hw.instr < MaxInstr
  /\ hw' = [instr |-> hw.instr + 1, frame |-> hw.frame + f]
  /\ ram' = Redo(ram, w)
  /\ Update(w, hw')
  /\ UNCHANGED size

Instruction(f) ==
  \/ Execute(f, <<>>)
  \/ \E a \in Addrs, v \in Values :
       Execute(f, <<[addr |-> a, before |-> ram[a], after |-> v]>>)

-----------------------------------------------------------------------------
(* What playback moves, and one iteration of each of its loops. *)
Here == [idx |-> idx, current |-> current, last |-> last, hw |-> hw, ram |-> ram]

BackOnce(s) ==
  IF s.current = 1 /\ ~s.last THEN s
  ELSE LET i == IF s.last THEN s.idx ELSE PrevIdx(s.idx)
       IN  [idx |-> i, current |-> IF s.last THEN s.current ELSE s.current - 1,
            last |-> FALSE, hw |-> slots[i].hw, ram |-> Undo(s.ram, slots[i].diffs)]

ForwardOnce(s) ==
  IF s.current = recorded THEN [s EXCEPT !.last = FALSE]
  ELSE LET i == NextIdx(s.idx)
       IN  [s EXCEPT !.idx = i, !.current = @ + 1, !.hw = slots[i].hw,
                     !.ram = Redo(s.ram, slots[s.idx].diffs)]

Goto(s) ==
  /\ idx' = s.idx /\ current' = s.current /\ last' = s.last
  /\ hw' = s.hw /\ ram' = s.ram
  /\ UNCHANGED <<size, slots, recorded, frameNum>>

PlayReverse(n) ==
  LET played[k \in 0..n] == IF k = 0 THEN Here ELSE BackOnce(played[k - 1])
  IN  Goto(played[n])

PlayForward(n) ==
  /\ last => ForwardWhileLive
  /\ LET played[k \in 0..n] == IF k = 0 THEN Here ELSE ForwardOnce(played[k - 1])
     IN  Goto(played[n])

(* DEBUG_RECORDER_RESET, and DEBUG_RESET with resetRecorder. *)
ClientReset ==
  /\ Reset(slots, hw)
  /\ UNCHANGED <<size, hw, ram>>

Next ==
  \/ \E f \in {0, 1} : Instruction(f)
  \/ \E n \in 1..MaxPlay : PlayReverse(n) \/ PlayForward(n)
  \/ ClientReset

Spec == Init /\ [][Next]_vars

-----------------------------------------------------------------------------
(* The snapshots the ring stands for: the k-th oldest slot, and the RAM the  *)
(* live RAM becomes when the writes between here and there are undone or     *)
(* redone.                                                                   *)
SlotAt(k) == slots[(idx + k - current) % size]

RamAt ==
  LET here == IF last THEN Undo(ram, slots[idx].diffs) ELSE ram
      at[k \in 1..recorded] ==
        IF k = current THEN here
        ELSE IF k < current THEN Undo(at[k + 1], SlotAt(k).diffs)
        ELSE Redo(at[k - 1], SlotAt(k - 1).diffs)
  IN  at

Past == [k \in 1..recorded |-> [hw |-> SlotAt(k).hw, ram |-> RamAt[k]]]

T == INSTANCE Timeline WITH
       Machines <- [hw : HwStates, ram : [Addrs -> Values]],
       machine <- [hw |-> hw, ram |-> ram],
       past <- Past, cursor <- current, live <- last

(* The recorder is a timeline: every recorded frame can be returned to, with *)
(* exactly the CPU, I/O and display states and the memory it had, however    *)
(* the client plays back and forth, runs on from the past and wraps around   *)
(* the ring.                                                                 *)
ImplementsTimeline == T!Spec

(* The type invariant, with what the header says of the counters. *)
TypeOK ==
  /\ size \in Sizes
  /\ hw \in HwStates /\ ram \in [Addrs -> Values]
  /\ slots \in [0..size - 1 -> [hw : HwStates, diffs : Seq(Writes)]]
  /\ idx \in 0..size - 1
  /\ recorded \in 0..size /\ current \in 0..recorded
  /\ last \in BOOLEAN /\ (last => current = recorded)
  /\ frameNum \in 0..MaxInstr
=============================================================================
