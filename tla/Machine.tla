------------------------------ MODULE Machine ------------------------------
(***************************************************************************)
(* The machine's parts beside each other: each initial state picks the     *)
(* part that moves in its behaviours.  The parts meet at ports and at      *)
(* instructions, where each module lets the other side do whatever it can. *)
(***************************************************************************)
EXTENDS CpuTables, Memory, Ports, Display, Timer, Sound, Fdc, Scripts, CodePerf, TraceLog

VARIABLE part

MachineParts ==
  {"cpu", "memory", "ports", "display", "timer", "sound", "fdc", "scripts", "perf", "trace"}
AtRest ==
  /\ CpuInit /\ MemoryInit /\ PortsInit /\ DisplayInit /\ TimerInit /\ SoundInit
  /\ FdcInit /\ ScriptsInit /\ PerfInit /\ TraceInit
MachineInit == part \in MachineParts /\ AtRest

Picturing == <<portVars, displayVars>>
Sounding == <<timerVars, soundVars>>
Storing == <<memVars, fdcVars>>
Board == <<Picturing, Sounding, Storing>>
Debugging == <<scriptVars, perfVars, traceVars>>
machineVars == <<part, cpuVars, Board, Debugging>>

MachineNext ==
  /\ UNCHANGED part
  /\ \/ part = "cpu" /\ CpuNext /\ UNCHANGED <<Board, Debugging>>
     \/ part = "memory" /\ MemoryNext /\ UNCHANGED <<cpuVars, Picturing, Sounding, fdcVars, Debugging>>
     \/ part = "ports" /\ PortsNext /\ UNCHANGED <<cpuVars, displayVars, Sounding, Storing, Debugging>>
     \/ part = "display" /\ DisplayNext /\ UNCHANGED <<cpuVars, portVars, Sounding, Storing, Debugging>>
     \/ part = "timer" /\ TimerNext /\ UNCHANGED <<cpuVars, Picturing, soundVars, Storing, Debugging>>
     \/ part = "sound" /\ SoundNext /\ UNCHANGED <<cpuVars, Picturing, timerVars, Storing, Debugging>>
     \/ part = "fdc" /\ FdcNext /\ UNCHANGED <<cpuVars, Picturing, Sounding, memVars, Debugging>>
     \/ part = "scripts" /\ ScriptsNext /\ UNCHANGED <<cpuVars, Board, perfVars, traceVars>>
     \/ part = "perf" /\ PerfNext /\ UNCHANGED <<cpuVars, Board, scriptVars, traceVars>>
     \/ part = "trace" /\ TraceNext /\ UNCHANGED <<cpuVars, Board, scriptVars, perfVars>>

MachineSpec == MachineInit /\ [][MachineNext]_machineVars

-----------------------------------------------------------------------------
(* The state of every part is what its module says (the members of         *)
(* CpuI8080::State, Memory, IO, Keyboard, Display, TimerI8253, SoundAY8910,*)
(* Fdc1793, Scripts, DebugData and TraceLog).                              *)
TypeOK ==
  /\ CpuTypeOK /\ MemTypeOK /\ PortsTypeOK /\ DisplayTypeOK /\ TimerTypeOK /\ SoundTypeOK
  /\ FdcTypeOK /\ ScriptsTypeOK /\ PerfTypeOK /\ TraceTypeOK

(* PortsExact of the behaviours in which the ports move (PortInHandling(), *)
(* Read()): the others leave them where they began.                        *)
PortsKept == part = "ports" => PortsExact

(* What is heard is what the program set the timer (CounterUnit::Clock(),  *)
(* Latch()) and the sound chip (EStep(), CStep()) to.                      *)
SoundKept == CounterExact /\ SoundExact

(* What clients are told of scripts and their overlays (m_updates,         *)
(* GetOverlayUpdatesJson()) and of code performance (CheckPerf(), Edit())  *)
(* is so.                                                                  *)
ClientTold == ClientInSync /\ SamplesExact

=============================================================================
