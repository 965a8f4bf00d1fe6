------------------------------ MODULE Hardware ------------------------------
(***************************************************************************)
(* The machine's run control as the emulation thread sees it: status, the  *)
(* cycle and frame counters with their session and run bases, the latched  *)
(* length of the last run, and the stop record.                            *)
(*                                                                         *)
(* A request is one step here: module Execution shows that a handler never *)
(* finds another request when it polls, and that requests are handled only *)
(* between instructions.  The handlers that execute instructions (frames,  *)
(* headless runs) are a step per instruction.  An instruction is a number  *)
(* of cycles, whether it ends the frame, what it does to the RAM disk      *)
(* mapping, and what the debugger says of it.  In a run, what breaks it is *)
(* recorded by the instruction and stops the emulation in a step of its    *)
(* own, as Execution() does it: nothing polls between the two.             *)
(***************************************************************************)
EXTENDS Integers

CONSTANTS
  Cycles,        \* bound: how long an instruction may be, a set of numbers
  MaxTicks,      \* bound: cycles executed in a behaviour, and counted by a playback
  MaxStops       \* bound: stop records

ASSUME HardwareAssumption ==
  /\ Cycles \subseteq Nat \ {0}
  /\ MaxTicks \in Nat /\ MaxStops \in Nat

VARIABLES
  status,        \* m_status
  cc, frame,     \* the CPU's cycle counter and the display's frame counter
  cycleOffset, frameOffset,      \* m_cycleOffset, m_frameOffset
  sessionCycles, sessionFrames,  \* m_sessionStartCycles, m_sessionStartFrames
  runStart,      \* m_runStartCycles
  lastRun,       \* m_lastRunCycles; below 0 stands for 2^64 more (after a playback)
  attached,      \* m_debugAttached
  enabled,       \* m_mappingsEnabled: RAM disks mapped, as last counted
  handler,       \* the instruction-executing handler that is running
  seq,           \* m_stopSequence
  record,        \* m_stopRecord: the reason, and when it was written
  saved,         \* the counters in the states the recorder holds
  broke,         \* ExecuteInstruction() has returned true to Execution()
  events,        \* ghost: what the protocol counts as stops, when it is done
  drifted,       \* ghost: a headless run has executed since the last record
  life,          \* ghost: cycles executed since the program began
  ticks, frames, \* ghost: cycles and frames executed in this session
  runTicks,      \* ghost: cycles executed in this run
  lastTicks,     \* ghost: cycles of the last run that ended
  replayed       \* ghost: the recorder has been played back in this session

counters == <<cc, frame, cycleOffset, frameOffset>>
bases == <<sessionCycles, sessionFrames, runStart>>
stops == <<seq, record, drifted, events>>
ghosts == <<life, ticks, frames, runTicks>>
vars == <<status, counters, bases, lastRun, attached, enabled, handler, stops, saved,
          broke, ghosts, lastTicks, replayed>>

Hits == {"watchpoint", "breakpoint", "script"}     \* what Debug() may break on
Kinds == {"plain", "collide", "remap"}
Reasons == Hits \union {"unknown", "pause", "step", "frameStep", "exception"}

TotalCycles == cycleOffset + cc
TotalFrames == frameOffset + frame

Init ==
  /\ status = "STOP"
  /\ cc = 0 /\ frame = 0 /\ cycleOffset = 0 /\ frameOffset = 0
  /\ sessionCycles = 0 /\ sessionFrames = 0 /\ runStart = 0 /\ lastRun = 0
  /\ attached = FALSE /\ enabled = 0 /\ handler = "none"
  /\ seq = 0 /\ record = [reason |-> "unknown", at |-> 0]
  /\ saved = {} /\ broke = FALSE /\ events = 0 /\ drifted = FALSE
  /\ life = 0 /\ ticks = 0 /\ frames = 0 /\ runTicks = 0 /\ lastTicks = 0
  /\ replayed = FALSE

-----------------------------------------------------------------------------
(* RecordStop(), n times in one step; the last reason stays. *)
RecordStops(n, reason) ==
  /\ seq + n <= MaxStops
  /\ seq' = seq + n
  /\ record' = [reason |-> reason, at |-> life']
  /\ drifted' = FALSE

RecordStop(reason) == RecordStops(1, reason)

(* Ghost: n of the protocol's stops are done in this step. *)
Count(n) == events' = events + n

(* Mutant: the length of a run is measured whether or not one is on. *)
LatchAlways(total, length) ==
  /\ lastRun' = total - runStart
  /\ lastTicks' = IF status = "RUN" THEN length ELSE lastTicks

(* The latch of Stop(), called when the counters' total is total. *)
Latch(total, length) ==
  /\ lastRun' = IF status = "RUN" THEN total - runStart ELSE lastRun
  /\ lastTicks' = IF status = "RUN" THEN length ELSE lastTicks

(* Stop(false). *)
StopUnrecorded == Latch(TotalCycles', runTicks') /\ status' = "STOP"

(* Stop(), which records a pause, and StopForScript(), which stops first. *)
Stop(reason) == StopUnrecorded /\ RecordStop(reason) /\ Count(1)

(* Run(), when the status before it is s. *)
Run(s) ==
  /\ status' = "RUN"
  /\ runStart' = IF s # "RUN" THEN TotalCycles' ELSE runStart
  /\ runTicks' = IF s # "RUN" THEN 0 ELSE runTicks

(* Mutant: the counters are cleared before they are added up. *)
ClearThenAdd ==
  /\ cc' = 0 /\ frame' = 0
  /\ UNCHANGED <<cycleOffset, frameOffset>>
  /\ enabled' = 0

(* What Reset() and Restart() have in common here: the counters move into the *)
(* offsets before the CPU and the display clear them, the mapping is reset.   *)
Restart ==
  /\ cycleOffset' = cycleOffset + cc /\ frameOffset' = frameOffset + frame
  /\ cc' = 0 /\ frame' = 0
  /\ enabled' = 0

-----------------------------------------------------------------------------
(* ExecuteInstruction() *)

(* Mutant: the count is not cleared before counting. *)
EnabledNotCleared(kind) ==
  enabled + (CASE kind = "collide" -> 2 [] kind = "remap" -> 1 [] OTHER -> 0)

(* SetRamDiskMode() counts the mappings, and only then. *)
Enabled(kind) == CASE kind = "collide" -> 2 [] kind = "remap" -> 1 [] OTHER -> enabled

(* What ends ExecuteInstruction(): a break of the debugger before the test   *)
(* for a collision, the collision, or nothing.                               *)
Outcomes(kind) ==
  (IF attached THEN Hits ELSE {})
    \union {IF Enabled(kind) > 1 THEN "exception" ELSE "none"}

(* The counters, whichever loop executes the instruction. *)
Tick(kind, d, f) ==
  /\ life + d <= MaxTicks
  /\ cc' = cc + d /\ frame' = frame + f
  /\ life' = life + d /\ ticks' = ticks + d /\ frames' = frames + f
  /\ runTicks' = IF status = "RUN" THEN runTicks + d ELSE runTicks
  /\ UNCHANGED <<cycleOffset, frameOffset, bases, attached, replayed>>

(* With a debugger the recorder saves the state of every frame; IsException() *)
(* clears the count it has tested.                                            *)
Execute(kind, d, f, outcome) ==
  /\ outcome \in Outcomes(kind)
  /\ Tick(kind, d, f)
  /\ enabled' = IF outcome \in Hits THEN Enabled(kind) ELSE 0
  /\ saved' = IF attached /\ f = 1 THEN saved \union {<<cc + d, frame + f>>} ELSE saved

(* Execution(): a break is recorded by Debug() or after IsException(). *)
RunInstruction(kind, d, f, outcome) ==
  /\ status = "RUN" /\ handler = "none" /\ ~broke
  /\ Execute(kind, d, f, outcome)
  /\ broke' = (outcome # "none")
  /\ IF broke' THEN RecordStop(outcome) /\ UNCHANGED events ELSE UNCHANGED stops
  /\ UNCHANGED <<status, lastRun, lastTicks, handler>>

(* Mutant: the loop stops with Stop(), which records a pause of its own. *)
StopAfterBreakRecorded ==
  /\ broke /\ broke' = FALSE
  /\ UNCHANGED <<counters, bases, attached, enabled, handler, saved, ghosts, replayed>>
  /\ Stop("pause")

(* What the loop does with the break: Stop(false). *)
StopAfterBreak ==
  /\ broke /\ broke' = FALSE
  /\ UNCHANGED <<counters, bases, attached, enabled, handler, saved, ghosts, replayed>>
  /\ StopUnrecorded /\ Count(1)
  /\ UNCHANGED <<seq, record, drifted>>

(* EXECUTE_INSTR: the status stays, also when it is RUN. *)
ExecuteInstr(kind, d, f, outcome) ==
  /\ handler = "none" /\ ~broke
  /\ Execute(kind, d, f, outcome)
  /\ RecordStop(IF outcome = "none" THEN "step" ELSE outcome) /\ Count(1)
  /\ UNCHANGED <<status, lastRun, lastTicks, handler, broke>>

(* EXECUTE_FRAME and EXECUTE_FRAME_NO_BREAKS: what ExecuteInstruction()      *)
(* returns is ignored, but what it recorded has been recorded.               *)
BeginFrame ==
  /\ handler = "none" /\ ~broke
  /\ handler' = "frame"
  /\ UNCHANGED <<status, counters, bases, lastRun, attached, enabled, stops, saved,
                 broke, ghosts, lastTicks, replayed>>

FrameInstruction(kind, d, f, outcome) ==
  /\ handler = "frame"
  /\ Execute(kind, d, f, outcome)
  /\ \/ f = 1 /\ outcome = "none" /\ RecordStop("frameStep") /\ Count(1)
     \/ f = 1 /\ outcome # "none" /\ RecordStops(2, "frameStep") /\ Count(2)
     \/ f = 0 /\ outcome # "none" /\ RecordStop(outcome) /\ Count(1)
     \/ f = 0 /\ outcome = "none" /\ UNCHANGED stops
  /\ handler' = IF f = 1 THEN "none" ELSE "frame"
  /\ UNCHANGED <<status, lastRun, lastTicks, broke>>

(* RUN_HEADLESS: neither the debugger nor IsException(). *)
HeadlessInstruction(kind, d, f) ==
  /\ handler \in {"none", "headless"} /\ ~broke
  /\ Tick(kind, d, f)
  /\ enabled' = Enabled(kind)
  /\ handler' \in {"none", "headless"}
  /\ drifted' = TRUE
  /\ UNCHANGED <<status, lastRun, lastTicks, seq, record, events, saved, broke>>

-----------------------------------------------------------------------------
(* The requests, between two instructions. *)

Quiescent == handler = "none" /\ ~broke /\ UNCHANGED <<handler, life, saved, broke>>

(* A request that is not a playback. *)
Plain == Quiescent /\ UNCHANGED replayed

(* INTERNAL_BEGIN_SESSION; a run goes on and is measured from here. *)
BeginSession ==
  /\ Quiescent
  /\ sessionCycles' = TotalCycles /\ sessionFrames' = TotalFrames
  /\ runStart' = TotalCycles /\ lastRun' = 0
  /\ replayed' = FALSE
  /\ ticks' = 0 /\ frames' = 0 /\ runTicks' = 0 /\ lastTicks' = 0
  /\ UNCHANGED <<status, counters, attached, enabled, stops>>

RunRequest ==
  /\ Plain
  /\ UNCHANGED <<counters, sessionCycles, sessionFrames, lastRun, attached, enabled,
                 stops, ticks, frames, lastTicks>>
  /\ Run(status)

StopRequest ==
  /\ Plain
  /\ UNCHANGED <<counters, ticks, frames, runTicks>>
  /\ Stop("pause")
  /\ UNCHANGED <<bases, attached, enabled>>

(* RESET, RESTART, and KEY_HANDLING of F11 and F12. *)
ResetRequest ==
  /\ Plain
  /\ Restart
  /\ UNCHANGED <<status, bases, lastRun, attached, stops, ticks, frames, runTicks,
                 lastTicks>>

(* LOAD_ROM: Stop(), Restart(), and Run() if asked for. *)
LoadRom(autorun) ==
  /\ Plain
  /\ Restart
  /\ Latch(TotalCycles, runTicks)
  /\ RecordStop("pause") /\ Count(1)
  /\ IF autorun THEN Run("STOP") ELSE status' = "STOP" /\ UNCHANGED <<runStart, runTicks>>
  /\ UNCHANGED <<sessionCycles, sessionFrames, attached, ticks, frames>>

(* MOUNT_FDD with autoBoot: Reset(), Run(). *)
MountFddBoot ==
  /\ Plain
  /\ Restart
  /\ Run(status)
  /\ UNCHANGED <<sessionCycles, sessionFrames, lastRun, attached, stops, ticks, frames,
                 lastTicks>>

(* DEBUG_SCRIPT_RUN_ONCE of a script that asks for a break: StopForScript(). *)
ScriptBreak ==
  /\ Plain
  /\ UNCHANGED <<counters, ticks, frames, runTicks>>
  /\ Stop("script")
  /\ UNCHANGED <<bases, attached, enabled>>

DebugAttach ==
  /\ Plain
  /\ attached' \in BOOLEAN
  /\ UNCHANGED <<status, counters, bases, lastRun, enabled, stops, ticks, frames,
                 runTicks, lastTicks>>

(* DEBUG_RECORDER_PLAY_FORWARD and _REVERSE: the CPU and the display take the *)
(* counters of a recorded state, the offsets and the bases stay.              *)
Playback ==
  /\ Quiescent
  /\ replayed' = TRUE
  /\ \E s \in saved : cycleOffset + s[1] <= MaxTicks /\ cc' = s[1] /\ frame' = s[2]
  /\ UNCHANGED <<status, cycleOffset, frameOffset, bases, lastRun, attached, enabled,
                 stops, ticks, frames, runTicks, lastTicks>>

Instruction ==
  \E kind \in Kinds, d \in Cycles, f \in {0, 1} :
    \/ HeadlessInstruction(kind, d, f)
    \/ \E outcome \in Hits \union {"exception", "none"} :
         \/ RunInstruction(kind, d, f, outcome)
         \/ ExecuteInstr(kind, d, f, outcome)
         \/ FrameInstruction(kind, d, f, outcome)

Request ==
  \/ BeginFrame \/ BeginSession \/ RunRequest \/ StopRequest \/ ResetRequest
  \/ \E autorun \in BOOLEAN : LoadRom(autorun)
  \/ MountFddBoot \/ ScriptBreak \/ DebugAttach \/ Playback

Next == Instruction \/ StopAfterBreak \/ Request

Spec == Init /\ [][Next]_vars

-----------------------------------------------------------------------------
(* The type invariant. *)
TypeOK ==
  /\ status \in {"RUN", "STOP"}
  /\ cc \in Nat /\ frame \in Nat /\ cycleOffset \in Nat /\ frameOffset \in Nat
  /\ sessionCycles \in Nat /\ sessionFrames \in Nat /\ runStart \in Nat
  /\ lastRun \in Int
  /\ attached \in BOOLEAN
  /\ enabled \in 0..2
  /\ handler \in {"none", "frame", "headless"}
  /\ seq \in 0..MaxStops
  /\ record \in [reason : Reasons, at : Nat]
  /\ saved \subseteq Nat \X Nat
  /\ life \in 0..MaxTicks /\ ticks \in Nat /\ frames \in Nat
  /\ runTicks \in Nat /\ lastTicks \in Nat
  /\ replayed \in BOOLEAN /\ broke \in BOOLEAN
  /\ events \in Nat /\ drifted \in BOOLEAN

(* What GET_HARDWARE_STATS reports as cpuCycles and frameNumber is what the  *)
(* machine has executed since the session began, across resets, restarts and *)
(* ROM loads in any order, running or stopped, unless the session has played *)
(* the recorder back.                                                        *)
CountersAccounted ==
  ~replayed => /\ TotalCycles - sessionCycles = ticks
               /\ TotalFrames - sessionFrames = frames

(* lastRunCycles is the length of the last run that ended, and the run that  *)
(* is on is measured from its own start: stepping while stopped, running     *)
(* twice, restarting in a run and new sessions in a run do not disturb it.   *)
LastRunLatched ==
  ~replayed => /\ lastRun = lastTicks
               /\ status = "RUN" => TotalCycles - runStart = runTicks

(* Every stop is recorded once: a break, which Debug() records and the loop *)
(* stops for a step later, a pause, a step, a frame, the breaks a frame      *)
(* ignores and LOAD_ROM's Stop().  And the record of a machine that stands   *)
(* still is of where it stands, whatever stopped it, unless it has been run  *)
(* headless since, which records nothing.                                    *)
StopRecorded ==
  /\ seq = IF broke THEN events + 1 ELSE events
  /\ status = "STOP" /\ handler = "none" /\ ~drifted => record.at = life
=============================================================================
