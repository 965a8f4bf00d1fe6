# A TLA+ verification of v6emul

v6emul is a headless emulator of the Vector-06C home computer: one thread runs
the machine, another serves a TCP client that displays, drives and debugs it.
This directory models the parts of it in which order, interleaving and history
matter, checks them with TLC on small instances, and proves the most important
results with TLAPS for all values of the constants.

Paths below are relative to the repository.

## 1. The system

| Component | State it keeps | Operations | What makes it correct |
|---|---|---|---|
| `TQueue` (`libs/v6utils/include/utils/tqueue.h`) | a queue, a mutex, a condition variable, a length limit | `push`/`emplace`, `pop` with no, a limited or an unlimited wait | FIFO, a bound, nobody sleeps through an item |
| Emulation thread (`Hardware::Execution`, `ReqHandling`) | `m_status`, request and result queues, exit grace period | run a frame, run an instruction, serve a request, nested polling | one answer per request, the right one; EXIT is final; shutdown ends |
| Run control (`hardware.cpp`) | cycle and frame counters, their offsets, session and run bases, stop record | run, stop, step, frame, headless, reset, restart, ROM and disk boot, new session | counters account for what was executed; every stop is recorded once |
| Server mode (`app/server_mode.cpp`) and `Transport` | listening and client socket, shutdown flag | accept, receive, dispatch, answer, reconnect, EXIT, signal | a client gets its own answers in order; EXIT and signals end the program |
| Recorder (`recorder.cpp`) | a ring of machine states with the memory writes between them, a position | update, play reverse, play forward, reset, save, load | playback restores exactly what was recorded |
| Debugger (`debugger.cpp`, breakpoints, watchpoints, memory edits) | three keyed collections with update counters, watchpoint latches | the check after every instruction, requests that add, edit, delete | no trigger is missed or invented, read-only bytes hold, the recorder is told the truth |
| Trace log (`trace_log.cpp`) | a ring of instructions, a filter and its page list, a caller cursor | update after an instruction, query callers, create and page a filter, reset | an answer belongs to the history it is asked about, or is refused |
| Scripts (`scripts.cpp`), code performance (`code_perf.h`, `debug_data.cpp`) | records by id, overlays with an *updated* mark; samples under way | add, edit, delete, run, draw; sample at an address | a client that polls sees what there is; an average is of whole passes |
| CPU (`cpu_i8080.cpp`) | registers, interrupt logic, the machine cycle it is in | one machine cycle | its cycles add up to instructions, interrupts fall between them, arithmetic is exact |
| Memory (`memory.cpp`) | RAM, ROM, eight RAM disks, the mapping in force | translate, read, write, send a mapping, reset, restart | a byte is where it was written, whatever is mapped in between |
| IO, keyboard (`io.cpp`, `keyboard.cpp`) | the 8255's latches, palette, pending OUTs; the key matrix | IN, OUT, commit, key up and down | a bit changes alone; ports show keys and latches |
| Display (`display.cpp`) | raster position, scroll latch, frame count | 16 pixels per machine cycle | every pixel of a frame is drawn from its place, OUTs take effect at their pixel |
| Timer, sound chip (`timer_i8253.cpp`, `sound_ay8910.h`) | counters; tones, noise, envelope | clock, port reads and writes | a wave has the period that was set, a latched count is read whole |
| Floppy controller (`fdc_wd1793.cpp`) | registers, the transfer under way, a watchdog; four disks | port reads and writes, mount, dismount | bytes go to the disk that was addressed, and it is marked as changed |
| Audio, disassembler, request validation, wire protocol, test mode, CLI, utilities, test client | nothing that outlives a call and is read again | mix, print, parse, encode | functions of their input |

### How they interact

The main thread calls `Hardware::Request()`, which pushes a request on one
`TQueue` and blocks on another for the result. The emulation thread polls the
first queue after every instruction, during the vsync wait, and blocks on it
while the machine is stopped. All machine state belongs to the emulation
thread. With a debugger attached every instruction ends in `Debugger::Debug()`,
which checks scripts, watchpoints and breakpoints, rejects writes to read-only
bytes, and feeds the trace log and the recorder. `main()` owns Hardware and
Debugger, and their destructors make requests of their own.

### Where it is hard

Two threads with untagged results; a handler that executes instructions and so
reaches the poll again; shutdown requests to a thread that is ending; clients
that pipeline, disconnect and come back; a signal handler that closes sockets
under the loop; counters that are cleared in the middle of a session; a ring
with unsigned indexes and rewound positions; latches that live across
instructions. In the machine: an instruction is a sequence of cycles in which
interrupts, OUTs and pixels interleave; mappings and disks change under a
transfer; counters are read byte by byte while they count. For clients: logs,
filters and overlays are fetched piece by piece while they change.
`PROJECT.json` lists each hazard at its line with the properties that cover it,
or the reason why none does.

## 2. The modules

| Module | Models | Checked by | Proved in |
|---|---|---|---|
| `TQueue` | the queue at the grain of lock, critical section, notify, wait | `TQueue.cfg` | `TQueueProofs` |
| `Execution` | both threads and the request channel | `Execution.cfg` | `ExecutionProofs` |
| `Server` | the server loop, transport, clients and signals over `Execution` | `Server.cfg`, `ServerAnswers.cfg`, `ServerSignalRace.cfg` | `ServerProofs` |
| `Hardware` | run control, counters and stop records | `Hardware.cfg` | `HardwareProofs` |
| `Timeline` | abstract: what a recorder promises | as a property of `Recorder` | `RecorderProofs` |
| `Recorder`, `RecorderMC` | the ring, playback and running on | `Recorder.cfg`, `RecorderWrap.cfg` | `RecorderProofs` |
| `Debugger`, `DebuggerMC` | the check after an instruction and the three collections | `Debugger.cfg`, `DebuggerXthl.cfg` | `DebuggerProofs` |
| `Isa` | abstract: what an instruction does as a whole | as a property of `Cpu` | `MachineProofs` |
| `Cpu` over `Words`, `Opcodes` | the processor by machine cycles; two-byte words; the tables of opcodes | `Machine.cfg`, `CpuMovML.cfg` | `MachineProofs` |
| `CpuTables` | how the decoder's routines fit its tables, opcode by opcode | assumptions of `Machine.cfg` | |
| `Alu` | its arithmetic and logic | `Machine.cfg` | |
| `Memory` | RAM, ROM and RAM disks | `Machine.cfg` | `PartsProofs` |
| `IO`; `Ports`, `Display` over it | ports with their delays; program and keyboard at the 8255; the rasterizer that commits OUTs | `Machine.cfg` | `MachineProofs` |
| `Timer`, `Sound` | a counter of the i8253; the sound chip | `Machine.cfg` | `PartsProofs` |
| `Fdc` | the floppy controller, its drives and the host that changes disks | `Machine.cfg` | `MachineProofs` |
| `Scripts`, `CodePerf`, `TraceLog` | three services of the debugger and the clients that poll them | `Machine.cfg` | `PartsProofs` |
| `Machine` | these parts, `Alu` excepted, side by side, one moving per behaviour | `Machine.cfg` | `PartsProofs` |
| `MachineMC` | `Machine` with `Alu`, and the values of one run | `Machine.cfg` | |

Definitions keep the names of the source where they can. An operator under a
comment that starts with *Mutant* is a faulty version of the definition after
it: substituting it must make the named property fail. Such operators are not
part of any specification.

### TQueue

Variables are the queue, the mutex and a program counter per thread. `push()`
is `PushLock`, `PushBody`, `Notify`, because the code notifies after unlocking.
`pop()` is `PopLock` and then `PopItem`, `PopNothing` (no wait), or
`PopWait`, `PopSleep` and `PopRelock`. `WakeUnnotified` is both a spurious
wake-up and a time-out. The limit test comes before the insertion, so the real
capacity is one more than the constructor's argument; `TypeOK` says so.

### Execution

`at` and `stack` are the emulation thread's program counter and the
`ReqHandling()` calls it is inside. Requests are classed by what they do to the
control state (`GET_CC` stands for every plain getter or setter, `GET_MEM_BAD`
for every handler that throws). A result carries, as a ghost, the request it
answers. The queues here are atomic: every operation of `TQueue` takes effect
within its critical section, and `TQueue` shows that a waiting `pop()` is served
when an item reaches it. The caller's side is what `RunServerMode()`, `main()`
and the destructors may do: one `Request()` at a time, after EXIT only the
debugger's DEBUG_ATTACH and the destructor's own EXIT if the status is not EXIT.

### Server

Every step of `RunServerMode()` between two blocking calls is an action.
`accept()` and the store of its result are two steps, since a signal may fall
between them. Module `Execution` is instantiated with its `phase` as a function
of the server's place; `ImplementsExecution` is the refinement, fairness
included. A message is its class: `local` for what the main thread answers
itself (PING, server information, frames, undecodable and invalid requests),
`empty` for a frame without payload, `exit`, or a request to dispatch. A client
may send before it is accepted and before it reads.

### Hardware

A request is one step, which `Execution` justifies: handlers do not overlap
and run only between instructions. Instructions have a length in cycles, may
end a frame, may map RAM disks so that they collide, and may make the debugger
break; frames and headless runs are a step per instruction. In a run a break
takes two steps, as in the code: the instruction records it (`Debug()`, or
`hardware.cpp:118`), and `Execution()` stops for it (`StopAfterBreak`,
`Stop(false)` at `hardware.cpp:153`); `broke` is what `ExecuteInstruction()`
has returned between them, where nothing polls. Ghost variables
count what was really executed since the program, the session and the run
began, and the stops (`events`), where the stop is made and not where it is
recorded. `lastRun` below zero stands for the wrapped 64-bit number.

### Timeline, Recorder

`Timeline` keeps a list of whole-machine snapshots and a position in it.
`Recorder` keeps what the code keeps: a ring of CPU, I/O and display states with
the memory writes made between each and the next, and the live RAM. The
refinement mapping computes each snapshot's RAM by undoing or redoing writes
from here (`RamAt`) and orders the ring by `current`. The unsigned arithmetic
of the index is modelled: a step back from slot 0 of `n` goes through 2^64 - 1,
hence `WordMod(n)`, the rest of 2^64. `size`, the ring's length, is a variable
that never changes, so that one run covers several lengths.
Of the memory's state a snapshot has the mapping in force; the commands of the
eight disks (`m_mappings`, `memory.h:99`) stay in the present, as the devices
that no snapshot holds do.

### Debugger

An instruction is its memory accesses, with the byte numbers the CPU gives
them; the two bytes of a word are any two addresses, since a word may lie
across the end of a mapped page. `Debug` is the whole of `Debugger::Debug()`:
reads, writes with rejection, `Watchpoints::Check` per access, the scripts'
say, `CheckBreak`, `Breakpoints::Check` at the next PC, and the record left for
the recorder. The requests change the collections between instructions.
`Unwatched` is an instruction without `Debug()`. What a breakpoint's condition,
operand and pages say is a choice: the instruction ends at the breakpoint's
address if they accept, `Nowhere` otherwise. Ghosts: the counter a breakpoint
was given with its visits since, and the bytes a watchpoint has seen since the
last stop.

### Cpu and Isa

`ExecuteMachineCycle` is one step: it latches the interrupt, fetches or accepts
it at the first cycle, and runs the cycle of the opcode's routine. The routine
of an opcode is read off `Decode()` by kind (`Opcodes`), since most of its 256
cases are one routine with another register. What decides the control flow is
kept (PC, SP, the memory under the stack, EI's delay, HLT); a tested flag and
what other registers hold are any value. `Isa` has a step per instruction and
none of the cycles. The refinement maps the registers as a request sees them
between instructions (`seen`), so a cycle within an instruction is a stutter.
`CpuTables` says which cycles, length and type an opcode's routine needs; TLC
finds that the tables agree for all opcodes but the six of `Odd`.
`Alu` holds the operations with the code's own tricks (carries from XOR, DAA in
two adds) beside plain arithmetic on numbers.

### Memory

Of the array one cell is followed, the last written; `place` is a ghost that
says in the RAM disk's terms whose byte it is. `MemoryExact` compares the code's
translation with that: it is found through every mapping under which its page
shows at its address, and nowhere else.

### IO, Ports and Display

`IO` has the port operations as operators on a record, with the three timers of
a delayed OUT. `Ports` lets a program and a host act on the 8255 at will, with
keys of which no two share a place (`PortsAssumption`, see section 3).
`Display` rasterizes 16 pixels per machine cycle, committing OUTs on the way; a
pixel is known by where it was taken from (border, or column, row and bit of
the screen memory), so a wrong scroll, a lost column or a late colour differ.
An OUT's own timer is no longer than the palette's and the display mode's
(`IOAssumption`, `io.h:22`), and all are at most the 16 pixels of one step.
`DisplayReset` sets raster and ports back, `DisplayRestart` the raster alone
(`hardware.cpp:707`): an OUT on its way then takes effect in the new frame.

### Timer and Sound

One counter with a `Base` of values per byte; the three counters share nothing.
`CounterExact` speaks from the second change of the output after a load: an odd
count that is loaded into a running counter can leave one clock too few for the
change in progress, and so make the first half wave a clock short.
`Sound` has the registers, each as wide as the code masks it, tones, envelope,
and the noise register, of which only two taps matter: `LowTap` and `HighTap`
(0x4000 and 0x20000 in the chip). What is done with the levels leaves no state.

### Fdc

Every command and register. Bytes are not kept: `xfer` remembers, as a ghost,
what the command was told to transfer, and `dirty` the disks that were written
to. The program selects drives at any time. In a transfer the pointer stays in
the disk it was set to, while the bytes written mark the disk selected
(`fdc_wd1793.cpp:385`): `Astray` is when those are two, and the command has not
marked the first itself (`xfer.mark`) or the host has taken that mark off. The
program uses the sectors there are and moves data while the drive selected holds
a disk: otherwise the code writes past a buffer, or to no disk.

### Scripts, CodePerf and TraceLog

`Scripts` has the records, `Check()` with its runs, the overlays with their
marks, and a client with what it knows and shows; what Lua computes is a choice
of what is drawn and whether it fails. `CodePerf` keeps for each record a trail,
a ghost, of the visits to its addresses and of what cuts a pass off; `Told` is
what a client should be told of a trail. `TraceLog` has the ring, the caller
search with its cursor and the filter; numbers that only distinguish histories
are kept as whether they are current. A glob's meaning (`Means`) is that the
value falls into pieces, one per character of the pattern; the code's search,
with its one backtracking point, is compared with that.

### Machine and MachineMC

The parts meet at ports and instructions, where each module already lets the
other side do whatever it can; their product would only multiply states. So an
initial state of `Machine` picks the part that moves in its behaviours. It
composes properties: `TypeOK` of all parts, `PortsKept`, `SoundKept` (timer and
sound chip) and `ClientTold` (scripts and code performance). `MachineMC` adds
`Alu` as one more part, gives the constants their values, and has a view that
leaves out the parts at rest and the floppy controller's interrupt line, which
no guard and no property reads. `Alu` is apart because it uses `Bitwise`, which
the provers cannot.

## 3. The runs

| Run | Shows | Bounds |
|---|---|---|
| `TQueue` | capacity, order, no lost wake-up, waiters are served | 2 producers, limit 1 (so items are dropped), 5 items: both producers can race for a full queue several times |
| `Execution` | the conversation is one request at a time; results match; EXIT is final; every request returns; shutdown completes | none but the queue limit, which is the program's: `Conversation` keeps the queues at one element |
| `Server` | the server is a caller `Execution` allows; EXIT and signals end the program | 2 connections of 1 message each |
| `ServerAnswers` | answers go to their own clients in order; descriptors are not lost | 2 connections of 2 messages: pipelining, disconnecting and reconnecting with unanswered messages all occur; with SIGPIPE |
| `Hardware` | counters, last run, stop records | 2 cycles, 3 stops: enough for a restart between two instructions of a run, for playback of an earlier frame, and for a stop after a break |
| `Recorder` | the ring implements `Timeline` | rings of 2 (wraps) and 4 (does not), 3 instructions, playback by 3 |
| `Machine` | the eleven properties of section 4 for the machine's parts and the debugger's services | see below |
| `Debugger` | the seven properties of section 4 | 2 bytes of 2 values, 1 breakpoint address with counters up to 2, a LEN and a WORD watchpoint configuration, 3 requests |

`ServerAnswers` dispatches only requests that throw: they take the longest way
through the handler, and to the transport all dispatched requests are alike.
`Recorder` uses symmetry on the memory's values: the module and the properties
compare them only for equality, and `ImplementsTimeline` is a safety property.
`Debugger` uses a view without `report` and `recorded`: every action assigns
both and none reads them, so they are outputs of the last step, and the action
properties are evaluated on every step, new state or not. In `Hardware` and
`TQueue` deadlock is not checked: the first stops at its bounds, and the second
when all items are sent and the consumer waits for ever, as the emulation thread
does on a stopped machine. All other runs check it.

Bounds of `Machine`, 450,000 distinct states in about two minutes: bytes of 2
values, so that words wrap after 4; one opcode of each kind, which `Represented`
checks to stand for the others; 13 operands at the edges of nibbles, digits and
signs, all pairs of them, all flags; 3 RAM disks of 4 pages with 4 mappings at 5
addresses, at the real page length; a screen of 64 by 4 pixels with borders on
all sides, scrolled and switched between modes; counters of 2 by 2 values, where
loading 0 is a count of 4; all 16 envelope shapes over three ramps, tones of
periods 0 to 3, a noise register of two bits; 2 drives with 1 track of 2 sectors
of 2 bytes and a watchdog of 2; 2 script ids, with one record's and one overlay's
room; a code performance record whose ids run out, 5 visits and 2 samples; a
trace log of 3 in which an address has 3 binary digits. Each lets its limit be
reached and passed. Deadlock is not checked, since the arithmetic part is one
operation long.

Four runs expect a violation: each shows a place where the code differs from
what the repository says.

| Run | The code does | The repository says |
|---|---|---|
| `ServerSignalRace` | a signal between `accept()` and the store of its result closes no client; the server waits for that client's message | `server_mode.cpp:31`: the sockets are closed to unblock `accept()`/`recv()` |
| `RecorderWrap` | stepping back from slot 0 in a ring of 3000 goes to slot 615, not 2999 (`recorder.cpp:153`) | `docs/architecture.md:144`: full state rewind |
| `DebuggerXthl` | XTHL numbers its two writes 1, 0, so the debugger sees one (`cpu_i8080.cpp:861`) | `memory.cpp:127`, `docs/ipc-protocol.md:530` |
| `CpuMovML` | `M_CYCLES` gives opcode 0x75 one machine cycle, so MOV M,L never writes (`cpu_i8080.cpp:132`) | `docs/architecture.md:43`: machine-cycle accurate, all 256 opcodes |

### Other behaviour met while modelling

Without a run of its own: the model follows the code, or a named bound keeps out
of its way.

* Run control. LOAD_ROM calls `Stop()` and so records a pause
  (`hardware.cpp:646`) though `docs/ipc-protocol.md:181` says loading does not
  alter the sequence. `StopRecorded` counts it as the stop that the code makes of
  it, so it says nothing of that sentence, which the code does not keep.
  EXECUTE_FRAME_NO_BREAKS counts breakpoints down and deletes them
  (`hardware.cpp:930`) though `docs/ipc-protocol.md:161` says it ignores them. A
  break or a headless run hides a RAM disk collision, which is then reported for
  a later instruction (`hardware.cpp:110`). `GetStepOverAddr()` of a conditional
  return that is taken gives the next address, not the caller's.
* Server. `send()` to a departed client raises SIGPIPE, which nothing ignores
  (`transport.cpp:127`).
* Recorder. Playback lowers `cpuCycles`, which `docs/ipc-protocol.md` calls
  monotonic, and below the session's base GET_HARDWARE_STATS throws; playing
  forward while live marks the machine as rewound (`recorder.cpp:110`); playing
  back before anything was recorded takes the position below its range
  (`recorder.cpp:154`); a run-on from a rewound position may store a second state
  of one frame; loading a recording copies too few bytes of RAM
  (`recorder.cpp:201`), and leaves the trace log's generation as it was though
  `docs/ipc-protocol.md:720` says it changes.
* Debugger. Read-only edits hold only while a debugger watches. A pass that code
  performance measures goes on through playback and headless runs; only a clock
  before its start ends it. Overlays of an inactive script that was run once go
  away without a new revision. A HLT left over from before a reset hides the next
  first HLT from the trace log.
* CPU. DI after EI does not stop an interrupt that was asked for in between
  (`cpu_i8080.cpp:88`). The tables call CB, D9, DD, ED and FD one byte long and
  ordinary, while `Decode()` runs jumps, calls and a return for them.
* IO and display. Both shifts, the three keys of RUS/LAT, and GRAVE and X share a
  line: releasing one releases it though the other is held
  (`keyboard.cpp:36`). The display mode's timer is not in the test that chooses the
  slow path (`display.cpp:39`); it works because the OUT's own timer starts at the
  same moment and all end within one step. A
  mode word at port 0 asks for a display mode and starts no timer
  (`io.cpp:177`). A left border that is no multiple of 16 would misplace bytes.
  The RUS/LAT lamp lags a write behind.
  `docs/architecture.md:110` has 4 pixels per step, the code 16.
* Timer. An odd count loaded into a running square wave can make the next half
  wave a clock short (section 2); loading 1 in mode 3 drifts below zero, loading 0
  in mode 0 never ends the count; reading and writing share the byte they are at.
* Floppy. The watchdog is not cleared when a transfer ends and later raises a
  second interrupt with LOSTDATA; READ-TRACK and WRITE-TRACK raise none; a
  multi-sector transfer from sector 6 on, and READ-ADDRESS, number sectors
  wrongly; a dismounted drive stays busy until the watchdog; selecting an empty
  drive in a transfer follows a null pointer (`fdc_wd1793.cpp:412`). Selecting
  another mounted drive in a transfer leaves the pointer in the first disk, and
  the bytes written then mark the second (`fdc_wd1793.cpp:385`): if the host has
  cleared the first disk's mark in between, or the command was a read, the first is
  changed with `updated` false, where `docs/ipc-protocol.md:386` tells a client to
  save the disks whose `updated` is true; the second is saved for nothing.
* Sound. Before a shape is written the envelope is a falling sawtooth. Audio
  sums 31 samples for each one of 30 (`audio.cpp:58`), which is 48.4 and not 50
  kHz; nothing reads its ring.

## 4. Properties

* `TQueue`: `TypeOK`, `FifoOrder`, `NoLostWakeup`; live: `WaiterServed`.
* `Execution`: `Conversation` (the request of a waiting caller is in exactly one
  place, otherwise the channel is empty), `OwnResult`, `ExitIsFinal`,
  `NothingRunsAfterExit`; live: `EveryRequestReturns`, `ShutdownCompletes`.
* `Server`: `ImplementsExecution`, `AnswersInOrder`; live: `ExitEndsProgram`,
  `SignalEndsProgram`.
* `Hardware`: `CountersAccounted`, `LastRunLatched`, `StopRecorded`. The first
  two are claimed for sessions that have not played back. `StopRecorded`: the
  sequence is the number of stops, or one more while a recorded break waits for
  its stop, and a machine that stands still shows the record of where it stands.
* `Recorder`: `ImplementsTimeline`.
* `Debugger`: `CountKept` (a breakpoint's counter is what it was given less its
  visits), `NothingMissed` (a watchpoint's latches say what it has seen since
  the last stop), `TriggerIsReal`, `ReadonlyHeld`, `RecorderExact`,
  `UpdatesTell`. `ReadonlyHeld` and `RecorderExact` hold for programs without
  XTHL.

* `Machine`, by part. `ImplementsIsa`: the processor's cycles implement `Isa`.
  `AluExact`: results and flags are those of arithmetic on numbers. `MemoryExact`:
  see `Memory`. `PortsKept`: what a program reads at the 8255 is what it latched
  and the keys held down. `OutTakesEffect`: an OUT is over within a machine cycle,
  at its pixel. `FrameExact`: a frame's pixels are those of the scrolled screen
  memory, each from its place. `SoundKept`: square waves have their period, a
  latched count is read whole, envelopes follow their shape, tones their period.
  `TransfersExact`: whichever drive is selected meanwhile, a transfer moves the
  bytes it was told to, of the disk it was told, and a watchdog ends it; what was
  written is marked as changed, but for the marks of `fdc_wd1793.cpp:385` on the
  wrong disk (section 3). `ClientTold`: a script client that
  polls has what there is; an average is that of the first passes since its
  addresses were given. `TraceAnswers`: callers and filtered pages are those of the
  history asked about, or refused. `TypeOK` of every part.

### Fairness

The threads are scheduled (`WF` of the emulation thread's and the server's
steps), a thread inside a `TQueue` call finishes it, a frame's vsync wait ends
because its deadline does (`SF` of `Vsync`: polls that find nothing may
interleave with it, but not for ever), and a handler that executes instructions
ends (`SF` of `StepEnd`), which for RUN_HEADLESS means that it was given a
limit or the program halts. Nothing is assumed of clients and signals.
`EveryRequestReturns` and `ShutdownCompletes` also assume `GraceSuffices`: the
main thread is never later than `m_exitGracePeriod` (250 ms) with the requests
of its destructors. Without it they fail, since a late request is never
answered.

## 5. Proofs

All proofs are for every value of the constants allowed by the modules' named
assumptions; where a theorem has a hypothesis of its own, it is named here with
the reason.

* `TQueueProofs`. `TypeCorrect`, `WakeupNotLost`, `DeliveryInOrder`. The
  invariant for wake-ups adds to `NoLostWakeup` that the mutex says who is
  inside (`MutualExclusion`) and that a consumer about to sleep has seen an
  empty queue (`WaitsOnEmpty`); the one for order adds that nothing carries a
  later number than the last push (`KnownItems`).
* `ExecutionProofs`. The inductive invariant is `OneRequest`: the channel is
  silent, or its one request is on its way, being handled, or answered
  (`Channel`); the thread is inside a handler exactly if the stack says so
  (`Nesting`); and the control types. `Conversation` alone is not inductive: it
  does not say that a handler's place and its stack agree. From it follow
  `TypeCorrect`, `ConversationHolds`, `OwnResultReturned`; with `ShuttingDown`
  (after EXIT only EXIT and DEBUG_ATTACH are asked) `ExitFinal` and
  `QuietAfterExit`. No assumption on `GraceSuffices` is needed.
* `HardwareProofs`. `TypeCorrect`, `CountersCorrect` and `LastRunCorrect` from
  `Accounted`, the two invariants with the numbers' types; `EveryStopRecorded`
  from `Recorded`, which adds to `StopRecorded` that a machine whose break is
  recorded and not yet stopped for still runs, outside any handler (`Pending`):
  otherwise the stop could come to a machine that has been stopped, and recorded,
  by something else.
* `ServerProofs`. `CallerAllowed` is `ImplementsExecution` without fairness: the
  server, its clients and signals take steps of `Execution` or leave it alone.
  `AnswersCorrect` needs to know that a result is that of the request just asked,
  hence `OneRequest` of the channel, stated again over the instance, whose
  theorems cannot be cited; and `Dialogue`: at each place of the loop, how many
  messages of the connection have been read and how many answered (`Counted`,
  `UpToDate`), which descriptor is open (`Descriptors`), and that the message in
  hand is the client's next (`OwnReply`). `TypeCorrect` follows from the same.
* `DebuggerProofs`. `TypeCorrect` and `CountsKept` from one invariant of the
  three collections: `CountKept` needs the types (a visit is a number, the
  counter asked for is positive) and the types need `CountKept` nowhere, but
  both are preserved by the same case analysis. `ReadonlyEnforced` and
  `RecorderTold` assume that the program executes no XTHL (`Xthl` is FALSE):
  then every write of an instruction is counted (`InstructionShape`), the
  writes are to different addresses, so the memory after an instruction is
  read off its writes (`AfterWrites`), and the sequence `Debug()` leaves is the
  instruction's with the rejected writes put back (`DebugTreats`). With XTHL
  both fail: `DebuggerXthl` shows the first. The watchpoints need none of that.
  `WatchpointsMissNothing` adds to `NothingMissed` the types of latches and
  ghosts, record by record (`WatchFine`): one access keeps it (`Latching`,
  `WatchOneFine`), so the accesses of an instruction do (`WatchedFine`, with
  `LastStep` for the step the recursive function takes). `WatchpointStopsAreReal`
  follows with what an instruction reads and writes (`ReadsShown`,
  `WritesShown`). `ChangesAreTold` goes step by step; the types it needs do not say
  that the breakpoints are a function (`BpsMap`), and so that a visit which gives
  each its own value changes nothing.
* `RecorderProofs`. The refinement mapping computes snapshots recursively, so
  the invariant has them as a function: `IInv` says that there are memories `R`
  of the positions 1 to `recorded` which the writes of each slot lead from one to
  the next and back, and of which the live RAM is one (`Memories`), with the
  types and the index that the position has (`Types`). `RamIs` shows that the
  recursive definition is `R`; then an instruction appends a snapshot, drops the
  oldest or cuts off the future (`ExecuteKeeps`), and playback is a jump
  (`ReverseGoes`, `ForwardGoes`): the steps of `Timeline`. Two hypotheses, each
  the name of something met in section 3: the client resets the recorder first
  (`ResetFirst`) and does not play forward while live (`ForwardWhileLive`). The
  ring may have any length, the 3000 of the program included, and be full. What
  `RecorderIsTimeline` must leave out is one step (`NotOverStart`): a playback
  from slot 0 to the slot before it (`OverStart`), if the length does not divide
  2^64 (`WordMod(size)` is not 0). `RecorderWrap` shows what that step does, so the
  theorem says that it is the only failure. `RecorderIsTimelineUntilFull` follows:
  while the ring has room its slots are numbered as they are counted
  (`RoomKeeps`), and no playback goes over the start. `TypesOK` needs only `ResetFirst`.
* `MachineProofs`, the floppy controller. `TransfersCorrect`: while data moves,
  two numbers, the sectors moved and the bytes of the next, determine all
  registers (`After`, `Within`); it moves on a mounted disk under a watchdog
  (`Moving`), and what was written to is marked (`Marked`). `TransfersExact`
  alone is not inductive: it does not say where in its sector the next byte is.
  `FdcTypesCorrect` from the same invariant.
* `MachineProofs`, the processor. `CpuIsIsa` is the refinement, for bytes of any
  size. `At(old, s, k)` says what `k` cycles of an opcode's routine have done to
  what a request saw before the instruction (`old`): how far PC and SP are, which
  bytes are stored, what is in WZ. The invariant `CpuInv` is that the processor is
  between instructions, waits in a HLT, or is `mc` cycles into an instruction
  whose interrupt state is one that `Isa` allows at its start. One cycle of a
  routine takes `At` from `k` to `k + 1` (`CycleDone`), and `At` all the cycles is
  `Isa`'s step of the opcode's type (`OrdinaryEnds`); HLT, EI, DI and the
  interrupt are steps of their own. That every opcode has the cycles, length and
  type its routine needs is left to TLC: `TablesAgree` and `InterruptIsRst7` are
  assumptions of `CpuTables` in which no parameter occurs, so that evaluating
  them decides them. Hypothesis: the program uses none of the six opcodes of
  `Odd`, which they leave out (`CpuMovML` shows MOV M,L; the others are the
  undocumented jump, calls and return of section 3). `CpuTypesCorrect` from the
  same invariant.
* `MachineProofs`, the ports. `PortsInv`: the latches of the 8255 are what the
  program last wrote, bit by bit (`LatchIs`), the ports it reads from the
  outside those of its last mode word (`InputsAre`), and the matrix has the places
  of the keys held down (`KeysAre`). The last one is not inductive when two keys share a place; that is
  how the shared lines of section 3 were found.
* `MachineProofs`, the display. `IoAt` is what `k` pixels leave of a pending OUT;
  `IoGoesOn` takes it from `k` to `k + 1`, whichever of the three timers runs out.
  The rasterizer's loops are folds over 16 pixels, in border (`BorderChunk`) and
  picture (`ActiveChunk`); that a loop computes a function of its rounds is proved
  once, by induction (`LoopExists`), and `Strip` says which pixels have been drawn
  so far. So a cycle commits an OUT at its pixel (`DisplayEnds`), and what a cycle draws, and a whole
  frame drawn at once (`WholeDrawn`), is each pixel from its place
  (`DisplayDraws`), from `DisplayInv`: the raster stands at a multiple of 16, and
  `io` is idle or has just been sent the OUT that the ghost remembers.
* `PartsProofs`, memory. `BytesFound` from `MemoryInv`: the mapping in force is
  that of the first enabled disk (the least one exists because disks are
  numbers), the collision count is that of the enabled disks, every disk's
  mapping is one it was sent or none (`Commanded`), and the ghost's place and the
  cell's index name the same byte.
* `PartsProofs`, timer. `TimerCounterExact`, `TimerTypesCorrect` from `TimerInv`:
  between two changes of the output the count says how many clocks have gone by
  since the last one (`WaveRight`), and while a latched count is read the latch
  still has it and the byte to come next is the right one (`LatchRight`).
  `CounterExact` used to claim the first half after a load too. The proof stopped
  at an odd count loaded into a running counter, which needs more values per byte
  than the two of the run: the claim starts one half later now.
* `PartsProofs`, sound chip. `SoundHeardExact` from `SoundInv`: the envelope's
  level is read off its shape and the steps taken (`Ramp`), and a tone's counter is
  the clocks since its last change (`Sounds`). The noise register is never
  zero: an odd one gets its high tap set before it is shifted (`NoiseLives`).
* `PartsProofs`, scripts and code performance. `ScriptsClientInSync` and
  `ScriptsTypesCorrect` from `ScriptsInv`; `CodePerfSamplesExact` and
  `CodePerfTypesCorrect` from `PerfInv`, with `ToldGrows` for what an event added
  to a trail changes in what it tells.
* `PartsProofs`, trace log. `TraceLogAnswers` from `TraceInv`: the ring read back
  from its newest item is the history (`RingHolds`), a cursor of the current
  history points at what its client was told (`CursorHolds`), and a valid filter
  shows its matches. `GlobIsMeaning` is for every pattern and value: at
  each step the whole fits exactly if the rest does or the last star may take more
  (`SearchRight`); once another star or the end is reached nothing is lost by
  leaving the last star as it is (`LastStarTakesNoMore`); and the search ends,
  because each step moves its backtracking point on, or else its place in the
  pattern.
* `PartsProofs`, the machine. A step of one part is a stutter of the others
  (`PartsMove`), so the invariants above hold together (`MachineKeeps`), and with
  them the composed properties the run checks: `MachineTypesCorrect`,
  `MachinePorts`, `MachineSounds`, `MachineTells`, `MachineStores`,
  `MachineTraces`, and `MachineExecutes`, `MachineCommits`, `MachineDraws` for the
  refinement and the action properties. Those about the processor have the
  hypothesis of `CpuIsIsa`.

What the recursive functions and folds of the modules compute is proved by
induction over the numbers below a bound (`Induct`), from the well-foundedness
of < on the naturals: the library's theorem about least elements takes a set,
where its induction theorems take an operator.

Only model-checked, and why:

* liveness, and with it the fairness part of `ImplementsExecution`: the temporal
  prover knows neither ENABLED nor how to count down to an event;
* `AluExact`: it is about bits, in a module that uses `Bitwise`, which the provers
  here do not know. For bytes of 8 bits TLC's enumeration of operands and flags is
  the argument;
* `TablesAgree`, `InterruptIsRst7` and `Represented`, which have no parameter, so
  that TLC decides them.

Two definitions changed because a proof could not go through. `Out` described
its ghost by a CASE whose guards overlapped, and TLA+ does not say that the first
one wins: they are disjoint now. The order in which OUTs come due rested on an
order of the commit times that no assumption stated.

## 6. Not modelled

* Audio's mixing, resampling and ring, and the chip's levels: numbers that nothing
  in the program reads back.
* The disassembler with its two tables of mnemonics, the printed lines of the
  trace log, screenshots, the command line, JSON and string helpers: formatting.
* Request validation and the wire protocol: functions of one message. What they
  let through is the input of the models, what they reject is the class
  GET_MEM_BAD.
* Labels, consts and comments: no request and no other code changes them.
* Recorder's Serialize and Deserialize, and host writes and headless runs between
  recorded frames. Its snapshots do not hold the timer, the sound chip, the floppy
  controller and the keyboard; neither does the model.
* `Display`'s copies of a finished frame for its readers, under a mutex, whole.
* Data bytes of the floppy controller, BCD counting of the timer, joysticks, tape
  and the debug port.
* Test mode: `Execution` with `HasDebugger` FALSE. Test client and vendored code.

## 7. Plan

Done, in this order, the most important behaviour first: `TQueue`, `Execution`,
`Server`, `Hardware`, `Timeline` and `Recorder`, `Debugger`; then `Cpu` with
`Isa` and `Alu`, `Memory`, `IO` with `Ports` and `Display`, `Timer`, `Sound`,
`Fdc`; then `TraceLog`, `Scripts`, `CodePerf`. Of the proofs, those of section 5.

Next:

1. `Recorder`: Serialize and Deserialize as actions; host writes between frames.
2. `Fdc` with `Cpu`: a program that polls the data port against the watchdog.
3. `Alu` over functions from bit numbers to bits, without `Bitwise`, so that the
   carries and DAA can be proved for a byte of any width.
