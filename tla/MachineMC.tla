----------------------------- MODULE MachineMC -----------------------------
(***************************************************************************)
(* The machine's parts, and the arithmetic of its processor beside them,   *)
(* for one run of TLC.                                                     *)
(***************************************************************************)
EXTENDS Machine, Alu

MCInit == part \in MachineParts \cup {"alu"} /\ AtRest /\ AluInit
MCNext ==
  \/ MachineNext /\ UNCHANGED alu
  \/ part = "alu" /\ AluNext /\ UNCHANGED machineVars
MCSpec == MCInit /\ [][MCNext]_<<machineVars, alu>>

(* Only the part that moves has states to tell apart, and nothing the disk *)
(* controller does depends on the interrupt it signals.                    *)
Moving ==
  CASE part = "cpu" -> <<part, cpuVars>> [] part = "alu" -> <<part, alu>>
    [] part = "memory" -> <<part, memVars>> [] part = "ports" -> <<part, portVars>>
    [] part = "display" -> <<part, displayVars>> [] part = "timer" -> <<part, timerVars>>
    [] part = "sound" -> <<part, soundVars>> [] part = "fdc" -> <<part, [fdc EXCEPT !.irq = 0], disks, xfer, dirty>>
    [] part = "scripts" -> <<part, scriptVars>> [] part = "perf" -> <<part, perfVars>>
    [] part = "trace" -> <<part, traceVars>>

-----------------------------------------------------------------------------
(* Bounds. *)
(* One opcode of each kind: of the others, all but MOV M,L and the         *)
(* undocumented calls and return have the routine, the cycles, the length  *)
(* and the type of one of them.                                            *)
MCProgram ==
  {0, 1, 2, 3, 6, 9, 10, 34, 42, 49, 50, 51, 52, 54, 58, 59, 112, 118, 192, 193, 194, 195, 196,
   197, 201, 205, 207, 211, 219, 227, 233, 243, 249, 251}
KindOf(op) == <<Routine(op), Cycles(op), GetInstrLen(op), GetInstrType(op)>>
ASSUME Represented ==
  \A op \in Opcode \ Odd : \E p \in MCProgram : KindOf(op) = KindOf(p)

MCOperands == {0, 1, 9, 15, 16, 25, 57, 99, 127, 128, 144, 153, 255}

RamDisk(ram, stack, modeStack, modeRamA, modeRam8, modeRamE) ==
  [pageRam |-> ram, pageStack |-> stack, modeStack |-> modeStack, modeRamA |-> modeRamA,
   modeRam8 |-> modeRam8, modeRamE |-> modeRamE]
MCMappings == {
  RamDisk(1, 0, FALSE, FALSE, FALSE, FALSE), RamDisk(0, 3, TRUE, FALSE, FALSE, FALSE),
  RamDisk(2, 1, TRUE, TRUE, FALSE, FALSE), RamDisk(3, 0, FALSE, FALSE, TRUE, TRUE)}
MCAddresses == {255, 32768, 40959, 40960, 57344}

MCKeys == {"A", "H", "LSHIFT", "F11"}
MCSent ==
  [p \in 0..3 |-> CASE p = 0 -> {136, 130, 6, 7} [] p = 1 -> {0, 160} [] p = 2 -> {1} [] p = 3 -> {0, 239}]

MCPicture(column, bit) == (column + bit) % 2
MCOuts == {<<2, 17>>, <<2, 0>>, <<3, 1>>, <<12, 1>>}

MCTexts == {<<"a", "p">>, <<"a", "q">>}
MCDraws == {<< <<1, "x">> >>, << <<1, "y">>, <<2, "x">> >>}

MCTunes == {{<<11, 1>>} \cup {<<13, s>> : s \in 0..15}, {<<0, 2>>, <<0, 3>>, <<4, 1>>}, {<<6, 33>>}}
MCSpans == {<<0, 1>>, <<1, 2>>}

MCCode == {[addr |-> 0, opcode |-> 0], [addr |-> 5, opcode |-> 205], [addr |-> 3, opcode |-> 118]}
MCRanges == {<<0, 1>>, <<3, 6>>, <<2, 4>>, <<0, 8>>}
MCGlobs == {<<>>, <<STAR>>, <<STAR, 1, STAR>>, <<STAR, 0, 1>>, <<1, 0>>}
=============================================================================
