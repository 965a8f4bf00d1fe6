--------------------------- MODULE HardwareProofs ---------------------------
(***************************************************************************)
(* The counters and the stop record of module Hardware, for instructions   *)
(* of any lengths and behaviours of any length, playback included.         *)
(***************************************************************************)
EXTENDS Hardware, TLAPS

(* The part of the type invariant arithmetic needs. *)
Numbers ==
  /\ cc \in Nat /\ frame \in Nat /\ cycleOffset \in Nat /\ frameOffset \in Nat
  /\ sessionCycles \in Nat /\ sessionFrames \in Nat /\ runStart \in Nat
  /\ ticks \in Nat /\ frames \in Nat /\ runTicks \in Nat
  /\ lastRun \in Int /\ lastTicks \in Nat /\ life \in Nat
  /\ status \in {"RUN", "STOP"}
  /\ saved \subseteq Nat \X Nat

Accounted == Numbers /\ CountersAccounted /\ LastRunLatched

-----------------------------------------------------------------------------
(* An instruction advances the counters and their ghosts alike. *)
LEMMA TickAccounted ==
  ASSUME Accounted, NEW kind \in Kinds, NEW d \in Cycles, NEW f \in {0, 1},
         Tick(kind, d, f)
  PROVE  /\ cc' = cc + d /\ cc' \in Nat /\ frame' \in Nat /\ life' \in Nat
         /\ ticks' \in Nat /\ frames' \in Nat /\ runTicks' \in Nat
         /\ UNCHANGED <<cycleOffset, frameOffset, sessionCycles, sessionFrames, runStart>>
         /\ UNCHANGED replayed
         /\ CountersAccounted'
         /\ ~replayed /\ status = "RUN" => TotalCycles' - runStart = runTicks'
         /\ status # "RUN" => runTicks' = runTicks
  <1>1. d \in Nat
    BY HardwareAssumption
  <1>2. /\ cc' = cc + d /\ frame' = frame + f /\ life' = life + d
        /\ ticks' = ticks + d /\ frames' = frames + f
        /\ runTicks' = IF status = "RUN" THEN runTicks + d ELSE runTicks
        /\ UNCHANGED <<cycleOffset, frameOffset, sessionCycles, sessionFrames, runStart,
                       replayed>>
    BY DEF Tick, bases
  <1>3. CountersAccounted'
    BY <1>1, <1>2 DEF Accounted, Numbers, CountersAccounted, TotalCycles, TotalFrames
  <1>4. ~replayed /\ status = "RUN" => TotalCycles' - runStart = runTicks'
    BY <1>1, <1>2 DEF Accounted, Numbers, LastRunLatched, TotalCycles
  <1> QED
    BY <1>1, <1>2, <1>3, <1>4 DEF Accounted, Numbers

(* Reset and restart move the counters without changing their totals. *)
LEMMA RestartKeepsTotals ==
  ASSUME Numbers, Restart
  PROVE  /\ TotalCycles' = TotalCycles /\ TotalFrames' = TotalFrames
         /\ cc' \in Nat /\ frame' \in Nat /\ cycleOffset' \in Nat /\ frameOffset' \in Nat
  BY DEF Numbers, Restart, TotalCycles, TotalFrames

(* Stopping latches the length of the run, if one is on. *)
LEMMA LatchAccounted ==
  ASSUME Numbers, LastRunLatched, NEW total \in Nat, NEW length \in Nat,
         ~replayed /\ status = "RUN" => total - runStart = length,
         Latch(total, length)
  PROVE  /\ lastRun' \in Int /\ lastTicks' \in Nat
         /\ ~replayed => lastRun' = lastTicks'
  BY DEF Latch, Numbers, LastRunLatched

(* The steps that execute an instruction. *)
LEMMA InstructionAccounted ==
  ASSUME Accounted, Instruction
  PROVE  Accounted'
  <1>1. PICK kind \in Kinds, d \in Cycles, f \in {0, 1} :
          \/ HeadlessInstruction(kind, d, f)
          \/ \E outcome \in Hits \union {"exception", "none"} :
               \/ RunInstruction(kind, d, f, outcome)
               \/ ExecuteInstr(kind, d, f, outcome)
               \/ FrameInstruction(kind, d, f, outcome)
    BY DEF Instruction
  <1>2. Tick(kind, d, f)
    BY <1>1 DEF HeadlessInstruction, RunInstruction, ExecuteInstr, FrameInstruction, Execute
  <1>3. saved' \subseteq Nat \X Nat
    <2>1. cc + d \in Nat /\ frame + f \in Nat
      BY HardwareAssumption DEF Accounted, Numbers
    <2>2. saved' = saved \/ saved' = saved \union {<<cc + d, frame + f>>}
      BY <1>1 DEF HeadlessInstruction, RunInstruction, ExecuteInstr, FrameInstruction, Execute
    <2> QED
      BY <2>1, <2>2 DEF Accounted, Numbers
  <1> USE TickAccounted, <1>2, <1>3
  <1>4. ASSUME UNCHANGED <<status, lastRun, lastTicks>> PROVE Accounted'
    BY <1>4 DEF Accounted, Numbers, LastRunLatched
  <1> QED
    BY <1>1, <1>4 DEF HeadlessInstruction, RunInstruction, ExecuteInstr, FrameInstruction

(* A stop, of a break or of a request, between two instructions. *)
LEMMA StopAccounted ==
  ASSUME Accounted, StopUnrecorded,
         UNCHANGED <<cc, frame, cycleOffset, frameOffset, sessionCycles, sessionFrames,
                     runStart, ticks, frames, runTicks, life, saved, replayed>>
  PROVE  Accounted'
  <1> USE DEF Accounted, Numbers
  <1>1. Latch(TotalCycles', runTicks') /\ status' = "STOP"
    BY DEF StopUnrecorded
  <1>2. TotalCycles' = TotalCycles /\ TotalFrames' = TotalFrames /\ TotalCycles \in Nat
    BY DEF TotalCycles, TotalFrames
  <1>3. /\ lastRun' \in Int /\ lastTicks' \in Nat
        /\ ~replayed => lastRun' = lastTicks'
    BY <1>1, <1>2, LatchAccounted DEF LastRunLatched
  <1> QED
    BY <1>1, <1>2, <1>3 DEF CountersAccounted, LastRunLatched

LEMMA StopAfterBreakAccounted ==
  ASSUME Accounted, StopAfterBreak
  PROVE  Accounted'
  BY StopAccounted DEF StopAfterBreak, counters, bases, ghosts

(* The requests. *)
LEMMA RequestAccounted ==
  ASSUME Accounted, Request
  PROVE  Accounted'
  <1> USE DEF Accounted, Numbers
  <1>1. CASE BeginFrame
    BY <1>1 DEF BeginFrame, counters, bases, ghosts, CountersAccounted, LastRunLatched,
       TotalCycles, TotalFrames
  <1>2. CASE BeginSession
    BY <1>2 DEF BeginSession, Quiescent, counters, CountersAccounted, LastRunLatched,
       TotalCycles, TotalFrames
  <1>3. CASE RunRequest
    BY <1>3 DEF RunRequest, Plain, Quiescent, Run, counters, CountersAccounted,
       LastRunLatched, TotalCycles, TotalFrames
  <1>4. CASE StopRequest \/ ScriptBreak
    BY <1>4, StopAccounted DEF StopRequest, ScriptBreak, Plain, Quiescent, Stop, counters, bases
  <1>5. CASE ResetRequest
    BY <1>5, RestartKeepsTotals DEF ResetRequest, Plain, Quiescent, bases,
       CountersAccounted, LastRunLatched
  <1>6. ASSUME NEW autorun \in BOOLEAN, LoadRom(autorun) PROVE Accounted'
    <2>1. /\ Restart /\ Latch(TotalCycles, runTicks)
          /\ UNCHANGED <<sessionCycles, sessionFrames, ticks, frames, life, saved,
                         replayed>>
          /\ \/ Run("STOP")
             \/ status' = "STOP" /\ UNCHANGED <<runStart, runTicks>>
      BY <1>6 DEF LoadRom, Plain, Quiescent
    <2>2. TotalCycles \in Nat
      BY DEF TotalCycles
    <2>3. /\ lastRun' \in Int /\ lastTicks' \in Nat
          /\ ~replayed => lastRun' = lastTicks'
      BY <2>1, <2>2, LatchAccounted DEF LastRunLatched
    <2>4. /\ TotalCycles' = TotalCycles /\ TotalFrames' = TotalFrames
          /\ cc' \in Nat /\ frame' \in Nat /\ cycleOffset' \in Nat /\ frameOffset' \in Nat
      BY <2>1, RestartKeepsTotals
    <2>5. CASE Run("STOP")
      BY <2>1, <2>2, <2>3, <2>4, <2>5 DEF Run, CountersAccounted, LastRunLatched
    <2>6. CASE status' = "STOP" /\ UNCHANGED <<runStart, runTicks>>
      BY <2>1, <2>3, <2>4, <2>6 DEF CountersAccounted, LastRunLatched
    <2> QED
      BY <2>1, <2>5, <2>6
  <1>7. CASE MountFddBoot
    <2>1. /\ Restart /\ Run(status)
          /\ UNCHANGED <<sessionCycles, sessionFrames, lastRun, ticks, frames,
                         lastTicks, life, saved, replayed>>
      BY <1>7 DEF MountFddBoot, Plain, Quiescent
    <2>2. /\ TotalCycles' = TotalCycles /\ TotalFrames' = TotalFrames
          /\ cc' \in Nat /\ frame' \in Nat /\ cycleOffset' \in Nat /\ frameOffset' \in Nat
          /\ TotalCycles \in Nat
      BY <2>1, RestartKeepsTotals DEF TotalCycles
    <2> QED
      BY <2>1, <2>2 DEF Run, CountersAccounted, LastRunLatched
  <1>8. CASE DebugAttach
    BY <1>8 DEF DebugAttach, Plain, Quiescent, counters, bases, CountersAccounted,
       LastRunLatched, TotalCycles, TotalFrames
  <1>9. CASE Playback
    <2>1. cc' \in Nat /\ frame' \in Nat
      BY <1>9 DEF Playback
    <2> QED
      BY <1>9, <2>1 DEF Playback, Quiescent, bases, CountersAccounted, LastRunLatched
  <1> QED
    BY <1>1, <1>2, <1>3, <1>4, <1>5, <1>6, <1>7, <1>8, <1>9 DEF Request

(* cpuCycles, frameNumber and lastRunCycles are right in every state of a    *)
(* session that has not played the recorder back.                            *)
THEOREM CountersCorrect == Spec => [](CountersAccounted /\ LastRunLatched)
  <1>1. Init => Accounted
    BY DEF Init, Accounted, Numbers, CountersAccounted, LastRunLatched, TotalCycles,
       TotalFrames
  <1>2. Accounted /\ [Next]_vars => Accounted'
    <2> SUFFICES ASSUME Accounted, [Next]_vars PROVE Accounted'
      OBVIOUS
    <2>1. CASE UNCHANGED vars
      BY <2>1 DEF vars, counters, bases, ghosts, Accounted, Numbers, CountersAccounted,
         LastRunLatched, TotalCycles, TotalFrames
    <2> QED
      BY <2>1, InstructionAccounted, StopAfterBreakAccounted, RequestAccounted DEF Next
  <1>3. Accounted => CountersAccounted /\ LastRunLatched
    BY DEF Accounted
  <1> QED
    BY <1>1, <1>2, <1>3, PTL DEF Spec

(* lastRunCycles alone: the length of the last run that ended (Stop(), Run(), *)
(* the requests between them).                                               *)
THEOREM LastRunCorrect == Spec => []LastRunLatched
  BY CountersCorrect, PTL

-----------------------------------------------------------------------------
(* The rest of the type invariant. *)
Tags ==
  /\ attached \in BOOLEAN /\ replayed \in BOOLEAN
  /\ enabled \in 0..2
  /\ handler \in {"none", "frame", "headless"}
  /\ seq \in 0..MaxStops
  /\ record \in [reason : Reasons, at : Nat]
  /\ life \in 0..MaxTicks
  /\ broke \in BOOLEAN /\ events \in Nat /\ drifted \in BOOLEAN

LEMMA StopsTyped ==
  ASSUME Tags, life' \in Nat, NEW n \in {1, 2}, NEW reason \in Reasons,
         RecordStops(n, reason)
  PROVE  seq' \in 0..MaxStops /\ record' \in [reason : Reasons, at : Nat] /\ drifted' \in BOOLEAN
  <1>1. seq' \in 0..MaxStops
    BY HardwareAssumption DEF Tags, RecordStops
  <1> QED BY <1>1 DEF RecordStops

LEMMA ExecuteTyped ==
  ASSUME Numbers, Tags, NEW kind \in Kinds, NEW d \in Cycles, NEW f \in {0, 1}, Tick(kind, d, f)
  PROVE  /\ life' \in 0..MaxTicks /\ life' \in Nat /\ attached' \in BOOLEAN /\ replayed' \in BOOLEAN
         /\ Enabled(kind) \in 0..2
  <1>1. life' \in 0..MaxTicks /\ life' \in Nat
    BY HardwareAssumption DEF Numbers, Tags, Tick
  <1>2. Enabled(kind) \in 0..2
    BY DEF Enabled, Tags
  <1> QED BY <1>1, <1>2 DEF Tick, Tags

LEMMA InstructionTyped ==
  ASSUME Numbers, Tags, Instruction
  PROVE  Tags'
  <1>1. ASSUME NEW kind \in Kinds, NEW d \in Cycles, NEW f \in {0, 1}, HeadlessInstruction(kind, d, f)
        PROVE  Tags'
    <2>1. Tick(kind, d, f) /\ enabled' = Enabled(kind) /\ handler' \in {"none", "headless"}
          /\ UNCHANGED <<seq, record, broke, events>> /\ drifted' \in BOOLEAN
      BY <1>1 DEF HeadlessInstruction, stops
    <2> QED BY <2>1, ExecuteTyped DEF Tags
  <1>2. ASSUME NEW kind \in Kinds, NEW d \in Cycles, NEW f \in {0, 1},
               NEW outcome \in Hits \union {"exception", "none"},
               Execute(kind, d, f, outcome), handler' \in {"none", "frame", "headless"},
               broke' \in BOOLEAN, events' \in {events, events + 1, events + 2},
               \/ UNCHANGED <<seq, record, drifted>>
               \/ \E n \in {1, 2}, reason \in Reasons : RecordStops(n, reason)
        PROVE  Tags'
    <2>1. Tick(kind, d, f) /\ enabled' \in {Enabled(kind), 0}
      BY <1>2 DEF Execute
    <2>2. seq' \in 0..MaxStops /\ record' \in [reason : Reasons, at : Nat] /\ drifted' \in BOOLEAN
      BY <1>2, <2>1, ExecuteTyped, StopsTyped DEF Tags
    <2> QED BY <1>2, <2>1, <2>2, ExecuteTyped DEF Tags
  <1>3. ASSUME NEW kind \in Kinds, NEW d \in Cycles, NEW f \in {0, 1},
               NEW outcome \in Hits \union {"exception", "none"},
               \/ RunInstruction(kind, d, f, outcome) \/ ExecuteInstr(kind, d, f, outcome)
               \/ FrameInstruction(kind, d, f, outcome)
        PROVE  Tags'
    <2>1. outcome # "none" => outcome \in Reasons
      BY DEF Reasons
    <2>2. {"step", "frameStep"} \subseteq Reasons /\ 1 \in {1, 2} /\ 2 \in {1, 2}
      BY DEF Reasons
    <2>3. CASE RunInstruction(kind, d, f, outcome)
      <3>1. /\ Execute(kind, d, f, outcome) /\ handler' = handler
            /\ broke' \in BOOLEAN /\ events' = events
        BY <2>3 DEF RunInstruction, stops
      <3>2. \/ UNCHANGED <<seq, record, drifted>>
            \/ \E n \in {1, 2}, reason \in Reasons : RecordStops(n, reason)
        BY <2>1, <2>2, <2>3 DEF RunInstruction, RecordStop, stops
      <3> QED BY <1>2, <3>1, <3>2 DEF Tags
    <2>4. CASE ExecuteInstr(kind, d, f, outcome)
      <3>1. /\ Execute(kind, d, f, outcome) /\ handler' = handler
            /\ broke' = broke /\ events' = events + 1
        BY <2>4 DEF ExecuteInstr, Count
      <3>2. \E n \in {1, 2}, reason \in Reasons : RecordStops(n, reason)
        BY <2>1, <2>2, <2>4 DEF ExecuteInstr, RecordStop
      <3> QED BY <1>2, <3>1, <3>2 DEF Tags
    <2>5. CASE FrameInstruction(kind, d, f, outcome)
      <3>1. /\ Execute(kind, d, f, outcome) /\ handler' \in {"none", "frame"}
            /\ broke' = broke /\ events' \in {events, events + 1, events + 2}
        BY <2>5 DEF FrameInstruction, Count, stops
      <3>2. \/ UNCHANGED <<seq, record, drifted>>
            \/ \E n \in {1, 2}, reason \in Reasons : RecordStops(n, reason)
        BY <2>1, <2>2, <2>5 DEF FrameInstruction, RecordStop, stops
      <3> QED BY <1>2, <3>1, <3>2 DEF Tags
    <2> QED BY <1>3, <2>3, <2>4, <2>5
  <1> QED BY <1>1, <1>3 DEF Instruction

LEMMA RequestTyped ==
  ASSUME Numbers, Tags, Request
  PROVE  Tags'
  <1>1. ASSUME UNCHANGED <<life, handler, broke>>, attached' \in BOOLEAN, replayed' \in BOOLEAN,
               enabled' \in {enabled, 0},
               events' \in {events, events + 1},
               \/ UNCHANGED <<seq, record, drifted>>
               \/ \E reason \in {"pause", "script"} : RecordStop(reason)
        PROVE  Tags'
    <2>1. seq' \in 0..MaxStops /\ record' \in [reason : Reasons, at : Nat] /\ drifted' \in BOOLEAN
      <3>1. life' \in Nat /\ {"pause", "script"} \subseteq Reasons /\ 1 \in {1, 2}
        BY <1>1 DEF Numbers, Reasons, Hits
      <3>2. CASE UNCHANGED <<seq, record, drifted>>
        BY <3>2 DEF Tags
      <3>3. CASE \E reason \in {"pause", "script"} : RecordStop(reason)
        BY <3>1, <3>3, StopsTyped DEF RecordStop
      <3> QED BY <1>1, <3>2, <3>3
    <2> QED BY <1>1, <2>1 DEF Tags
  <1>2. CASE BeginFrame
    BY <1>2 DEF BeginFrame, Tags, stops, ghosts
  <1>3. CASE BeginSession
    BY <1>1, <1>3 DEF BeginSession, Quiescent, Tags, stops
  <1>4. CASE RunRequest
    BY <1>1, <1>4 DEF RunRequest, Plain, Quiescent, Tags, stops
  <1>5. CASE StopRequest
    BY <1>1, <1>5 DEF StopRequest, Stop, Count, Plain, Quiescent, Tags
  <1>6. CASE ResetRequest
    BY <1>1, <1>6 DEF ResetRequest, Restart, Plain, Quiescent, Tags, stops
  <1>7. ASSUME NEW autorun \in BOOLEAN, LoadRom(autorun) PROVE Tags'
    BY <1>1, <1>7 DEF LoadRom, Count, Restart, Plain, Quiescent, Tags
  <1>8. CASE MountFddBoot
    BY <1>1, <1>8 DEF MountFddBoot, Restart, Plain, Quiescent, Tags, stops
  <1>9. CASE ScriptBreak
    BY <1>1, <1>9 DEF ScriptBreak, Stop, Count, Plain, Quiescent, Tags
  <1>10. CASE DebugAttach
    BY <1>1, <1>10 DEF DebugAttach, Plain, Quiescent, Tags, stops
  <1>11. CASE Playback
    BY <1>1, <1>11 DEF Playback, Quiescent, Tags, stops
  <1> QED BY <1>2, <1>3, <1>4, <1>5, <1>6, <1>7, <1>8, <1>9, <1>10, <1>11 DEF Request

LEMMA StopAfterBreakTyped ==
  ASSUME Tags, StopAfterBreak
  PROVE  Tags'
  <1>1. /\ UNCHANGED <<attached, replayed, enabled, handler, seq, record, life, drifted>>
        /\ broke' = FALSE /\ events' = events + 1
    BY DEF StopAfterBreak, Count, ghosts
  <1>2. events' \in Nat
    BY <1>1 DEF Tags
  <1> QED BY <1>1, <1>2, Zenon DEF Tags

(* The state is what the members of Hardware can hold; a stop is counted and *)
(* one of the reasons, whichever requests and instructions record it.        *)
THEOREM TypeCorrect == Spec => []TypeOK
  <1>1. Init => Accounted /\ Tags
    <2>1. Init => Accounted
      BY DEF Init, Accounted, Numbers, CountersAccounted, LastRunLatched, TotalCycles, TotalFrames
    <2>2. ASSUME Init PROVE Tags
      <3>1. record \in [reason : Reasons, at : Nat]
        BY <2>2 DEF Init, Reasons
      <3>2. seq \in 0..MaxStops /\ life \in 0..MaxTicks /\ enabled \in 0..2
        BY <2>2, HardwareAssumption DEF Init
      <3>3. /\ attached \in BOOLEAN /\ replayed \in BOOLEAN /\ handler \in {"none", "frame", "headless"}
            /\ broke \in BOOLEAN /\ events \in Nat /\ drifted \in BOOLEAN
        BY <2>2 DEF Init
      <3> QED BY <3>1, <3>2, <3>3 DEF Tags
    <2> QED BY <2>1, <2>2
  <1>2. Accounted /\ Tags /\ [Next]_vars => Accounted' /\ Tags'
    <2> SUFFICES ASSUME Accounted, Tags, [Next]_vars PROVE Accounted' /\ Tags'
      OBVIOUS
    <2>1. CASE UNCHANGED vars
      <3>1. Accounted'
        BY <2>1 DEF vars, counters, bases, ghosts, Accounted, Numbers, CountersAccounted,
           LastRunLatched, TotalCycles, TotalFrames
      <3>2. Tags'
        BY <2>1 DEF vars, stops, ghosts, Tags
      <3> QED BY <3>1, <3>2
    <2>2. CASE Next
      <3>1. Accounted'
        BY <2>2, InstructionAccounted, StopAfterBreakAccounted, RequestAccounted DEF Next
      <3>2. Numbers
        BY DEF Accounted
      <3>3. Tags'
        BY <2>2, <3>2, InstructionTyped, StopAfterBreakTyped, RequestTyped DEF Next
      <3> QED BY <3>1, <3>3
    <2> QED BY <2>1, <2>2
  <1>3. Accounted /\ Tags => TypeOK
    BY DEF Accounted, Numbers, Tags, TypeOK
  <1> QED BY <1>1, <1>2, <1>3, PTL DEF Spec

-----------------------------------------------------------------------------
(* The break between its record and its stop: the machine still runs, and    *)
(* nothing else is under way.                                                *)
Pending == broke => status = "RUN" /\ handler = "none"

Recorded ==
  /\ events \in Nat /\ seq \in Nat /\ broke \in BOOLEAN /\ drifted \in BOOLEAN
  /\ Pending /\ StopRecorded
  /\ broke /\ ~drifted => record.at = life

(* What a step does to the record: nothing, while no cycle is executed; a    *)
(* record with its count; or a drift.                                        *)
LEMMA StepRecorded ==
  ASSUME Recorded, ~broke, broke' = broke,
         \/ UNCHANGED stops /\ life' = life /\ (status' = "STOP" => status = "STOP")
              /\ (handler' = "none" => handler = "none")
         \/ UNCHANGED stops /\ handler' # "none"
         \/ \E n \in {1, 2}, reason \in Reasons : RecordStops(n, reason) /\ Count(n)
         \/ UNCHANGED <<seq, events>> /\ drifted' = TRUE
  PROVE  Recorded'
  <1>0. broke = FALSE /\ broke' = FALSE
    BY DEF Recorded
  <1>1. CASE UNCHANGED stops /\ life' = life /\ (status' = "STOP" => status = "STOP")
              /\ (handler' = "none" => handler = "none")
    BY <1>0, <1>1 DEF Recorded, Pending, StopRecorded, stops
  <1>2. CASE UNCHANGED stops /\ handler' # "none"
    BY <1>0, <1>2 DEF Recorded, Pending, StopRecorded, stops
  <1>3. ASSUME NEW n \in {1, 2}, NEW reason \in Reasons, RecordStops(n, reason), Count(n)
        PROVE  Recorded'
    <2>1. seq' = seq + n /\ events' = events + n /\ record'.at = life' /\ drifted' = FALSE
      BY <1>3 DEF RecordStops, Count
    <2>2. seq = events
      BY <1>0, Zenon DEF Recorded, StopRecorded
    <2>3. seq' = events' /\ seq' \in Nat /\ events' \in Nat
      BY <2>1, <2>2 DEF Recorded
    <2> QED BY <1>0, <2>1, <2>3, Zenon DEF Recorded, Pending, StopRecorded
  <1>4. CASE UNCHANGED <<seq, events>> /\ drifted' = TRUE
    BY <1>0, <1>4 DEF Recorded, Pending, StopRecorded
  <1> QED BY <1>1, <1>2, <1>3, <1>4

LEMMA InstructionRecorded ==
  ASSUME Recorded, Instruction
  PROVE  Recorded'
  <1> USE DEF RecordStop
  <1>1. PICK kind \in Kinds, d \in Cycles, f \in {0, 1},
             outcome \in Hits \union {"exception", "none"} :
          \/ HeadlessInstruction(kind, d, f)
          \/ RunInstruction(kind, d, f, outcome)
          \/ ExecuteInstr(kind, d, f, outcome)
          \/ FrameInstruction(kind, d, f, outcome)
    BY DEF Instruction
  <1>2. {"step", "frameStep"} \subseteq Reasons /\ (outcome # "none" => outcome \in Reasons)
    BY DEF Reasons
  <1>3. CASE HeadlessInstruction(kind, d, f)
    BY <1>3, StepRecorded DEF HeadlessInstruction
  <1>4. CASE RunInstruction(kind, d, f, outcome)
    <2>1. CASE outcome = "none"
      BY <1>4, <2>1 DEF RunInstruction, Recorded, Pending, StopRecorded, stops
    <2>2. CASE outcome # "none"
      <3>1. /\ status' = "RUN" /\ handler' = "none" /\ broke' = TRUE /\ ~broke
            /\ seq' = seq + 1 /\ events' = events /\ record'.at = life' /\ drifted' = FALSE
        <4>1. broke' = TRUE
          BY <1>4, <2>2 DEF RunInstruction
        <4>2. /\ RecordStops(1, outcome) /\ events' = events /\ ~broke
              /\ status' = "RUN" /\ handler' = "none"
          BY <1>4, <4>1, Zenon DEF RunInstruction
        <4>3. seq' = seq + 1 /\ record'.at = life' /\ drifted' = FALSE
          BY <4>2 DEF RecordStops
        <4> QED BY <4>1, <4>2, <4>3
      <3>2. seq = events
        BY <3>1, Zenon DEF Recorded, StopRecorded
      <3>3. seq' = events' + 1 /\ seq' \in Nat /\ events' \in Nat
        BY <3>1, <3>2 DEF Recorded
      <3> QED BY <3>1, <3>3, Zenon DEF Recorded, Pending, StopRecorded
    <2> QED BY <2>1, <2>2
  <1>5. CASE ExecuteInstr(kind, d, f, outcome)
    BY <1>2, <1>5, StepRecorded DEF ExecuteInstr
  <1>6. CASE FrameInstruction(kind, d, f, outcome)
    <2>1. ~broke
      BY <1>6 DEF FrameInstruction, Recorded, Pending
    <2>2. \/ f = 0 /\ UNCHANGED stops
          \/ \E n \in {1, 2}, reason \in Reasons : RecordStops(n, reason) /\ Count(n)
      BY <1>2, <1>6 DEF FrameInstruction
    <2>3. f = 0 \/ f = 1
      OBVIOUS
    <2>4. f = 0 => handler' # "none"
      BY <1>6 DEF FrameInstruction
    <2>5. broke' = broke
      BY <1>6 DEF FrameInstruction
    <2> QED BY <2>1, <2>2, <2>4, <2>5, StepRecorded
  <1> QED BY <1>1, <1>3, <1>4, <1>5, <1>6

LEMMA RequestRecorded ==
  ASSUME Recorded, Request
  PROVE  Recorded'
  <1> USE DEF RecordStop
  <1>1. {"pause", "script"} \subseteq Reasons
    BY DEF Reasons, Hits
  <1>2. CASE BeginFrame
    BY <1>2, StepRecorded DEF BeginFrame
  <1>3. CASE BeginSession
    BY <1>3, StepRecorded DEF BeginSession, Quiescent
  <1>4. CASE RunRequest
    BY <1>4, StepRecorded DEF RunRequest, Run, Plain, Quiescent
  <1>5. CASE StopRequest
    BY <1>1, <1>5, StepRecorded DEF StopRequest, Stop, Plain, Quiescent
  <1>6. CASE ResetRequest
    BY <1>6, StepRecorded DEF ResetRequest, Plain, Quiescent
  <1>7. ASSUME NEW autorun \in BOOLEAN, LoadRom(autorun) PROVE Recorded'
    BY <1>1, <1>7, StepRecorded DEF LoadRom, Plain, Quiescent
  <1>8. CASE MountFddBoot
    BY <1>8, StepRecorded DEF MountFddBoot, Run, Plain, Quiescent
  <1>9. CASE ScriptBreak
    BY <1>1, <1>9, StepRecorded DEF ScriptBreak, Stop, Plain, Quiescent
  <1>10. CASE DebugAttach
    BY <1>10, StepRecorded DEF DebugAttach, Plain, Quiescent
  <1>11. CASE Playback
    BY <1>11, StepRecorded DEF Playback, Quiescent
  <1> QED
    BY <1>2, <1>3, <1>4, <1>5, <1>6, <1>7, <1>8, <1>9, <1>10, <1>11 DEF Request

(* Every stop is recorded exactly once, also the break that one step records *)
(* and a later one stops for, and a machine that stands still shows the      *)
(* record of where it stands, whatever the debugger, a script, a request or  *)
(* the RAM disk made of it.                                                  *)
THEOREM EveryStopRecorded == Spec => []StopRecorded
  <1>1. Init => Recorded
    <2> SUFFICES ASSUME Init PROVE Recorded
      OBVIOUS
    <2>1. /\ broke = FALSE /\ drifted = FALSE /\ seq = 0 /\ events = 0
          /\ record.at = 0 /\ life = 0
      BY DEF Init
    <2>2. 0 \in Nat
      OBVIOUS
    <2> QED BY <2>1, <2>2, Zenon DEF Recorded, Pending, StopRecorded
  <1>2. Recorded /\ [Next]_vars => Recorded'
    <2> SUFFICES ASSUME Recorded, [Next]_vars PROVE Recorded'
      OBVIOUS
    <2>1. CASE UNCHANGED vars
      BY <2>1 DEF vars, stops, ghosts, Recorded, Pending, StopRecorded
    <2>2. CASE StopAfterBreak
      <3>1. /\ broke /\ broke' = FALSE /\ UNCHANGED <<seq, record, drifted, life>>
            /\ events' = events + 1
        BY <2>2, Zenon DEF StopAfterBreak, Count, ghosts
      <3>2. seq = events + 1 /\ (~drifted => record.at = life)
        BY <3>1, Zenon DEF Recorded, StopRecorded
      <3>3. events' \in Nat /\ seq' = events'
        BY <3>1, <3>2 DEF Recorded
      <3> QED BY <3>1, <3>2, <3>3, Zenon DEF Recorded, Pending, StopRecorded
    <2> QED BY <2>1, <2>2, InstructionRecorded, RequestRecorded DEF Next
  <1>3. Recorded => StopRecorded
    BY DEF Recorded
  <1> QED BY <1>1, <1>2, <1>3, PTL DEF Spec

=============================================================================
