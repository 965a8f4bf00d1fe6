------------------------------ MODULE Memory ------------------------------
(***************************************************************************)
(* The main memory, the ROM over it and the RAM disks: how an address of   *)
(* the processor becomes an index of the one array that holds them all,    *)
(* and how the mapping in force follows the commands sent to the disks.    *)
(*                                                                         *)
(* Of the contents one cell is followed: it holds the byte written last.   *)
(***************************************************************************)
EXTENDS Integers

CONSTANTS
  PAGE_LEN,    \* RAM_DISK_PAGE_LEN, and as long the main memory: 65536 in the machine
  Disks,       \* RAM_DISK_MAX
  Pages,       \* RAMDISK_PAGES_MAX
  RomSize,     \* the length of the boot ROM's image, which fits the address space
  RamDiskClear, \* m_ramDiskClearAfterRestart
  Addresses,   \* bound: the addresses the program uses
  Mappings     \* bound: the commands it sends to a RAM disk

Addr == 0..(PAGE_LEN - 1)
Disk == 0..(Disks - 1)
Page == 0..(Pages - 1)
Mapping == [pageRam : Page, pageStack : Page,
            modeStack : BOOLEAN, modeRamA : BOOLEAN, modeRam8 : BOOLEAN, modeRamE : BOOLEAN]

ASSUME MemoryAssumption ==
  /\ PAGE_LEN \in Nat \ {0}
  /\ Disks \in Nat \ {0} /\ Pages \in 1..4 /\ RomSize \in 0..PAGE_LEN /\ RamDiskClear \in BOOLEAN
  /\ Addresses \subseteq Addr /\ Mappings \subseteq Mapping

VARIABLES
  mappings,         \* the last command sent to each disk
  mapping,          \* the mapping in force ...
  ramdiskIdx,       \* ... and its disk
  mappingsEnabled,  \* how many disks were found enabled, 2 for more
  romEnabled,       \* memType is ROM
  cell,             \* the index of the array with the byte written last, or -1
  place             \* ghost: where the program wrote it, in the RAM disk's terms

memVars == <<mappings, mapping, ramdiskIdx, mappingsEnabled, romEnabled, cell, place>>

NoMapping == [pageRam |-> 0, pageStack |-> 0, modeStack |-> FALSE, modeRamA |-> FALSE,
              modeRam8 |-> FALSE, modeRamE |-> FALSE]
Enabled(m) == m.modeStack \/ m.modeRamA \/ m.modeRam8 \/ m.modeRamE
InWindow(m, addr) ==
  \/ m.modeRamA /\ addr >= 40960 /\ addr < 57344     \* 0xA000 - 0xDFFF
  \/ m.modeRam8 /\ addr >= 32768 /\ addr < 40960     \* 0x8000 - 0x9FFF
  \/ m.modeRamE /\ addr >= 57344                     \* 0xE000 - 0xFFFF

-----------------------------------------------------------------------------
GetGlobalAddr(addr, stack) ==
  LET page(p) == addr + (p + 1 + ramdiskIdx * 4) * PAGE_LEN
  IN  IF ~Enabled(mapping) THEN addr
      ELSE IF mapping.modeStack /\ stack THEN page(mapping.pageStack)
      ELSE IF InWindow(mapping, addr) THEN page(mapping.pageRam)
      ELSE addr

Read(addr, stack) ==
  LET at == GetGlobalAddr(addr, stack)
  IN  IF romEnabled /\ at < RomSize THEN "rom" ELSE IF at = cell THEN "written" ELSE "other"

(* The owner of an address, as the RAM disk is described: the first disk   *)
(* enabled, its stack page for stack instructions, its other page for what *)
(* falls into the window, and the main memory, as disk -1, for the rest.   *)
EnabledDisks == {d \in Disk : Enabled(mappings[d])}
Owner(addr, stack) ==
  IF EnabledDisks = {} THEN <<-1, 0, addr>>
  ELSE LET d == CHOOSE e \in EnabledDisks : \A f \in EnabledDisks : e <= f
           m == mappings[d]
       IN  IF m.modeStack /\ stack THEN <<d, m.pageStack, addr>>
           ELSE IF InWindow(m, addr) THEN <<d, m.pageRam, addr>>
           ELSE <<-1, 0, addr>>
Nowhere == <<-1, 0, -1>>

-----------------------------------------------------------------------------
CpuWrite(addr, stack) ==
  /\ cell' = GetGlobalAddr(addr, stack) /\ place' = Owner(addr, stack)
  /\ UNCHANGED <<mappings, mapping, ramdiskIdx, mappingsEnabled, romEnabled>>

(* The host writes by the array's index, here into the main memory. *)
SetRam(addr) ==
  /\ cell' = addr /\ place' = <<-1, 0, addr>>
  /\ UNCHANGED <<mappings, mapping, ramdiskIdx, mappingsEnabled, romEnabled>>

(* Mutant: the disk commanded last is in force. *)
SetRamDiskModeLast(d, m) ==
  LET set == [mappings EXCEPT ![d] = m]
      on == {e \in Disk : Enabled(set[e])}
  IN  /\ mappings' = set /\ mapping' = m /\ ramdiskIdx' = d
      /\ mappingsEnabled' = IF on = {} THEN 0 ELSE IF on = {d} THEN 1 ELSE 2
      /\ UNCHANGED <<romEnabled, cell, place>>

(* The scan ends at the second disk enabled: the first one is in force. *)
SetRamDiskMode(d, m) ==
  LET set == [mappings EXCEPT ![d] = m]
      on == {e \in Disk : Enabled(set[e])}
      first == CHOOSE e \in on : \A f \in on : e <= f
  IN  /\ mappings' = set
      /\ mapping' = IF on = {} THEN NoMapping ELSE set[first]
      /\ ramdiskIdx' = IF on = {} THEN ramdiskIdx ELSE first
      /\ mappingsEnabled' = IF on = {} THEN 0 ELSE IF on = {first} THEN 1 ELSE 2
      /\ UNCHANGED <<romEnabled, cell, place>>

NothingMapped ==
  /\ mappings' = [d \in Disk |-> NoMapping] /\ mapping' = NoMapping
  /\ ramdiskIdx' = 0 /\ mappingsEnabled' = 0

(* After an instruction the debugger does not break at, a collision is     *)
(* reported and ends all mappings.                                         *)
IsException ==
  /\ mappingsEnabled > 1 /\ NothingMapped /\ UNCHANGED <<romEnabled, cell, place>>

(* Asked when there is none, the count of enabled disks is forgotten too.  *)
NoException ==
  /\ mappingsEnabled = 1 /\ mappingsEnabled' = 0
  /\ UNCHANGED <<mappings, mapping, ramdiskIdx, romEnabled, cell, place>>

MemoryReset ==
  /\ NothingMapped /\ romEnabled' = TRUE
  /\ IF RamDiskClear \/ (cell >= 0 /\ cell < PAGE_LEN) THEN cell' = -1 /\ place' = Nowhere
                                          ELSE UNCHANGED <<cell, place>>
MemoryRestart == NothingMapped /\ romEnabled' = FALSE /\ UNCHANGED <<cell, place>>

MemoryInit ==
  /\ mappings = [d \in Disk |-> NoMapping] /\ mapping = NoMapping
  /\ ramdiskIdx = 0 /\ mappingsEnabled = 0
  /\ romEnabled = TRUE /\ cell = -1 /\ place = Nowhere
MemoryNext ==
  \/ \E addr \in Addresses, stack \in BOOLEAN : CpuWrite(addr, stack)
  \/ \E addr \in Addresses : SetRam(addr)
  \/ \E d \in Disk, m \in Mappings : SetRamDiskMode(d, m)
  \/ IsException \/ NoException \/ MemoryReset \/ MemoryRestart
MemorySpec == MemoryInit /\ [][MemoryNext]_memVars

-----------------------------------------------------------------------------
MemTypeOK ==
  /\ mappings \in [Disk -> Mappings \cup {NoMapping}] /\ mapping \in Mappings \cup {NoMapping}
  /\ ramdiskIdx \in Disk /\ mappingsEnabled \in 0..2 /\ romEnabled \in BOOLEAN
  /\ cell \in -1..((1 + Disks * 4) * PAGE_LEN - 1) /\ place \in (-1..(Disks - 1)) \X Page \X (-1..(PAGE_LEN - 1))

Found(addr, stack) ==
  LET hidden == romEnabled /\ Owner(addr, stack)[1] = -1 /\ addr < RomSize
  IN  /\ Read(addr, stack) = "rom" <=> hidden
      /\ Read(addr, stack) = "written" <=> Owner(addr, stack) = place /\ ~hidden
CollisionKnown == mappingsEnabled > 1 <=> \E d, e \in EnabledDisks : d # e

(* Through any sequence of commands to the disks, collisions and resets, a *)
(* byte is found where it was written and nowhere else: each disk's pages  *)
(* are its own, stack instructions and windows go where the RAM disk's     *)
(* description says, the ROM hides main memory only, and a collision is    *)
(* known exactly while two disks are enabled (GetGlobalAddr(),             *)
(* SetRamDiskMode(), IsException()).                                       *)
MemoryExact ==
  CollisionKnown /\ \A addr \in Addresses, stack \in BOOLEAN : Found(addr, stack)
=============================================================================
