-------------------------------- MODULE Fdc --------------------------------
(***************************************************************************)
(* The floppy disk controller: its commands, the transfers they start,     *)
(* the watchdog that ends them, and the host, which mounts, dismounts and  *)
(* saves images meanwhile.                                                 *)
(*                                                                         *)
(* The program uses the sectors, tracks and drives there are, and moves    *)
(* bytes while the drive it has selected holds a disk: for the rest the    *)
(* code reads and writes wherever its pointers lead.  A drive selected in  *)
(* a transfer leaves the pointer in the disk it was set to, and the bytes  *)
(* written then mark the disk selected.  A byte is known by its place.     *)
(***************************************************************************)
EXTENDS Integers, FiniteSets

CONSTANTS
  Drives,      \* DRIVES_MAX
  Tracks,      \* FDD_TRACKS_PER_SIDE
  Sectors,     \* FDD_SECTORS_PER_TRACK
  SectorLen,   \* FDD_SECTOR_LEN
  HeaderLen,   \* the length of FDisk::header
  Watchdog     \* how many polls without data end a transfer, 255

ASSUME FdcAssumption ==
  /\ {Drives, Tracks, Sectors, SectorLen, Watchdog} \subseteq Nat \ {0} /\ HeaderLen \in 1..(SectorLen - 1)

VARIABLES
  fdc,      \* the registers of Fdc1793
  disks,    \* mounted and updated of every FDisk
  xfer,     \* ghost: what the command under way was told to transfer
  dirty     \* ghost: the disks written to since the host looked

fdcVars == <<fdc, disks, xfer, dirty>>

Drive == 0..(Drives - 1)
Track == 0..(Tracks - 1)
Sector == 1..Sectors
None == -1

(* Bits of the status register; two of them have two meanings. *)
F_BUSY == 1
F_INDEX == 2
F_DRQ == 2
F_TRACK0 == 4
F_LOSTDATA == 4
F_NOTFOUND == 16
F_HEADLOAD == 32
IRQ == 128
DRQ == 64

Flag(flag, b) == IF b THEN {flag} ELSE {}
AtTrack0(t) == Flag(F_TRACK0, t = 0)

(* Reset() leaves the drive and the disk alone. *)
Cleared(f) ==
  [f EXCEPT !.status = {}, !.trackReg = 0, !.sectorReg = 0, !.dataReg = 0, !.side = 0, !.track = 0,
            !.lastS = FALSE, !.irq = 0, !.rwLen = 0, !.wait = 0, !.type1 = TRUE, !.ptr = None]

(* The pointer is followed while there are bytes left. *)
Over(f) == [f EXCEPT !.ptr = None, !.rwLen = 0]

Position(side, track, sector) ==
  (Sectors * (track * 2 + side) + (IF sector > 0 THEN sector - 1 ELSE 0)) * SectorLen
NoTransfer == [drive |-> None, side |-> 0, track |-> 0, sector |-> 0, len |-> 0, mark |-> None]

-----------------------------------------------------------------------------
(* Commands.  A busy controller takes none but FORCE-INTERRUPT. *)
Command(type1) ==
  [fdc EXCEPT !.irq = 0, !.status = {}, !.type1 = type1]
Idle == F_BUSY \notin fdc.status
CommandWhileBusy == ~Idle /\ fdc' = [fdc EXCEPT !.irq = 0] /\ UNCHANGED <<disks, xfer, dirty>>

ForceInterrupt(irq) ==
  /\ fdc' = [Over(fdc) EXCEPT !.type1 = TRUE, !.irq = IF irq THEN IRQ ELSE 0,
               !.status = IF Idle THEN AtTrack0(fdc.track) \cup {F_INDEX} ELSE @ \ {F_BUSY}]
  /\ xfer' = NoTransfer /\ UNCHANGED <<disks, dirty>>

Restore(load) ==
  /\ Idle /\ UNCHANGED <<disks, xfer, dirty>>
  /\ fdc' = [Command(TRUE) EXCEPT !.track = 0, !.trackReg = 0, !.irq = IRQ,
               !.status = {F_INDEX, F_TRACK0} \cup Flag(F_HEADLOAD, load)]
SeekTrack(load) ==
  /\ Idle /\ fdc.dataReg \in Track /\ UNCHANGED <<disks, xfer, dirty>>
  /\ fdc' = [Over(Command(TRUE)) EXCEPT !.track = fdc.dataReg, !.trackReg = fdc.dataReg,
               !.irq = IRQ, !.status = {F_INDEX} \cup AtTrack0(fdc.dataReg) \cup Flag(F_HEADLOAD, load)]

(* A step in a direction, or in the direction of the last one. *)
StepHead(given, out, update) ==
  LET back == IF given THEN out ELSE fdc.lastS
      to == IF back THEN (IF fdc.track > 0 THEN fdc.track - 1 ELSE 0) ELSE fdc.track + 1
  IN  /\ Idle /\ to \in Track /\ UNCHANGED <<disks, xfer, dirty>>
      /\ fdc' = [Command(TRUE) EXCEPT !.lastS = back, !.track = to, !.irq = IRQ,
                   !.trackReg = IF update THEN to ELSE @, !.status = {F_INDEX} \cup AtTrack0(to)]

(* Seek() finds any sector on a disk, and none without a disk. *)
Failed == fdc' = [Command(FALSE) EXCEPT !.status = {F_NOTFOUND}, !.irq = IRQ] /\ UNCHANGED <<disks, dirty, xfer>>
Started(at, len) ==
  [Command(FALSE) EXCEPT !.ptr = at, !.rwLen = len, !.irq = DRQ, !.wait = Watchdog,
                         !.status = {F_BUSY, F_DRQ}]

(* side is None for the side selected with the drive. *)
TransferSectors(write, multi, side) ==
  LET s == IF side = None THEN fdc.side ELSE side
      len == SectorLen * (IF multi THEN Sectors - fdc.sectorReg + 1 ELSE 1)
  IN  /\ Idle /\ fdc.sectorReg \in Sector
      /\ IF fdc.disk = None THEN Failed
         ELSE /\ fdc' = Started(Position(s, fdc.trackReg, fdc.sectorReg), len)
              /\ disks' = IF write THEN [disks EXCEPT ![fdc.disk].updated = TRUE] ELSE disks
              /\ xfer' = [drive |-> fdc.disk, side |-> s, track |-> fdc.trackReg,
                          sector |-> fdc.sectorReg, len |-> len,
                          mark |-> IF write THEN fdc.disk ELSE None]
              /\ UNCHANGED dirty

(* The header the last Seek() left, at None: the place of no sector. *)
ReadAddress ==
  /\ Idle
  /\ IF fdc.disk = None THEN Failed
     ELSE fdc' = Started(None, HeaderLen) /\ xfer' = NoTransfer /\ UNCHANGED <<disks, dirty>>

(* Formatting fills both sides of the track at once; it signals no end,    *)
(* and neither does READ-TRACK, which does nothing.                        *)
ReadTrack == Idle /\ fdc' = Command(FALSE) /\ UNCHANGED <<disks, xfer, dirty>>
WriteTrack ==
  /\ Idle /\ fdc' = Command(FALSE) /\ UNCHANGED xfer
  /\ IF fdc.disk = None THEN UNCHANGED <<disks, dirty>>
     ELSE disks' = [disks EXCEPT ![fdc.disk].updated = TRUE] /\ dirty' = dirty \cup {fdc.disk}

-----------------------------------------------------------------------------
(* The other registers. *)
ReadStatus ==
  /\ fdc' = [fdc EXCEPT !.status =
       IF fdc.type1 THEN (@ \cap {F_BUSY, F_TRACK0}) \cup Flag(F_INDEX, F_INDEX \notin @)
                    ELSE @ \cap {F_BUSY, F_DRQ}]
  /\ UNCHANGED <<disks, xfer, dirty>>
WriteRegister(track, sector) ==
  /\ Idle /\ fdc' = [fdc EXCEPT !.trackReg = track, !.sectorReg = sector]
  /\ UNCHANGED <<disks, xfer, dirty>>

(* The next byte of a transfer, read or written whichever the command was. *)
Moved(v) ==
  LET left == fdc.rwLen - 1
      f == [fdc EXCEPT !.dataReg = v]
  IN  /\ xfer' = IF left <= 0 THEN NoTransfer ELSE xfer
      /\ fdc' = IF left < 0 THEN f
                ELSE IF left = 0
                THEN [Over(f) EXCEPT !.status = @ \ {F_DRQ, F_BUSY}, !.irq = IRQ]
                ELSE [f EXCEPT !.ptr = IF @ = None THEN None ELSE @ + 1, !.rwLen = left, !.wait = Watchdog,
                        !.sectorReg = IF left % SectorLen = 0 THEN @ + 1 ELSE @]
ReadData(v) == fdc.rwLen > 0 /\ fdc.disk # None /\ Moved(v) /\ UNCHANGED <<disks, dirty>>
(* Ghost: the byte's disk is not the one marked for it, and bears no mark of *)
(* the command itself (xfer.mark).                                           *)
Astray == xfer.drive \notin {fdc.disk, xfer.mark}
WroteTo == IF fdc.ptr = None \/ Astray THEN {} ELSE {xfer.drive}
(* Mutant: marked by the command alone, which the host may have unmarked. *)
WriteDataUnmarked(v) ==
  /\ Moved(v) /\ UNCHANGED disks
  /\ IF fdc.rwLen = 0 THEN UNCHANGED dirty ELSE fdc.disk # None /\ dirty' = dirty \cup WroteTo
WriteData(v) ==
  /\ Moved(v)
  /\ IF fdc.rwLen = 0 THEN UNCHANGED <<disks, dirty>>
     ELSE /\ fdc.disk # None /\ disks' = [disks EXCEPT ![fdc.disk].updated = TRUE]
          /\ dirty' = dirty \cup WroteTo

(* Polling for the interrupt runs the watchdog, whatever it was set for. *)
ReadReady ==
  /\ fdc.wait > 0 /\ UNCHANGED <<disks, dirty>>
  /\ IF fdc.wait > 1 THEN fdc' = [fdc EXCEPT !.wait = @ - 1] /\ UNCHANGED xfer
     ELSE /\ fdc' = [Over(fdc) EXCEPT !.wait = 0, !.irq = IRQ,
                       !.status = (@ \ {F_DRQ, F_BUSY}) \cup {F_LOSTDATA}]
          /\ xfer' = NoTransfer

WriteSystem(drive, side) ==
  /\ fdc' = [fdc EXCEPT !.drive = drive, !.side = side,
                        !.disk = IF disks[drive].mounted THEN drive ELSE None]
  /\ UNCHANGED <<disks, xfer, dirty>>

-----------------------------------------------------------------------------
(* The host. *)
Unmark(d) == [xfer EXCEPT !.mark = IF @ = d THEN None ELSE @]
Mount(d) ==
  /\ disks' = [disks EXCEPT ![d] = [mounted |-> TRUE, updated |-> FALSE]] /\ dirty' = dirty \ {d}
  /\ IF d = fdc.drive THEN fdc' = Cleared(fdc) /\ xfer' = NoTransfer
                       ELSE UNCHANGED fdc /\ xfer' = Unmark(d)
Dismount(d) ==
  /\ disks' = [disks EXCEPT ![d].mounted = FALSE] /\ UNCHANGED dirty
  /\ IF d = fdc.drive THEN /\ fdc' = [Over(fdc) EXCEPT !.disk = None]
                           /\ xfer' = NoTransfer
     ELSE UNCHANGED <<fdc, xfer>>
(* The mark is taken off, once the image is saved or it was not wanted. *)
ResetUpdate(d) ==
  /\ disks' = [disks EXCEPT ![d].updated = FALSE] /\ dirty' = dirty \ {d}
  /\ UNCHANGED fdc /\ xfer' = Unmark(d)

FdcInit ==
  /\ fdc = [status |-> {}, trackReg |-> 0, sectorReg |-> 0, dataReg |-> 0, drive |-> 0, side |-> 0,
            track |-> 0, lastS |-> FALSE, irq |-> 0, rwLen |-> 0, wait |-> 0, type1 |-> TRUE,
            ptr |-> None, disk |-> None]
  /\ disks = [d \in Drive |-> [mounted |-> FALSE, updated |-> FALSE]]
  /\ xfer = NoTransfer /\ dirty = {}
FdcNext ==
  \/ \E b \in BOOLEAN : ForceInterrupt(b) \/ Restore(b) \/ SeekTrack(b)
  \/ \E given, out, update \in BOOLEAN : StepHead(given, out, update)
  \/ \E write, multi \in BOOLEAN, side \in {None, 0, 1} : TransferSectors(write, multi, side)
  \/ ReadAddress \/ ReadTrack \/ WriteTrack
  \/ CommandWhileBusy \/ ReadStatus \/ ReadReady
  \/ \E t \in Track, s \in Sector : WriteRegister(t, s)
  \/ \E v \in Track : ReadData(v) \/ WriteData(v)
  \/ \E d \in Drive, side \in 0..1 : WriteSystem(d, side)
  \/ \E d \in Drive : Mount(d) \/ Dismount(d) \/ ResetUpdate(d)

-----------------------------------------------------------------------------
FdcTypeOK ==
  /\ fdc.status \subseteq {F_BUSY, F_DRQ, F_TRACK0, F_NOTFOUND, F_HEADLOAD}
  /\ fdc.trackReg \in Track /\ fdc.track \in Track /\ fdc.sectorReg \in 0..Sectors /\ fdc.dataReg \in Track
  /\ fdc.drive \in Drive /\ fdc.disk \in Drive \cup {None} /\ fdc.side \in 0..1
  /\ fdc.irq \in {0, IRQ, DRQ} /\ fdc.rwLen \in 0..(SectorLen * Sectors) /\ fdc.wait \in 0..Watchdog
  /\ fdc.ptr \in -1..(2 * Tracks * Sectors * SectorLen) /\ dirty \subseteq Drive

(* The next byte of a sector transfer is the next byte of the sectors it   *)
(* was asked for, of the disk it was asked of, and the sector register     *)
(* tells the sector, whichever drives are selected meanwhile; a busy       *)
(* controller moves data, or its watchdog will end that; and what was      *)
(* written since the host looked is marked for saving, whatever the host   *)
(* mounts, dismounts and saves meanwhile, but for bytes written while      *)
(* another drive is selected to a disk the command has not marked or whose *)
(* mark was taken off (Seek(), Read(), Write(), Mount(), Dismount(),       *)
(* ResetUpdate()).                                                         *)
TransfersExact ==
  /\ fdc.rwLen > 0 /\ fdc.ptr # None =>
       LET done == xfer.len - fdc.rwLen
           sector == xfer.sector + (done \div SectorLen)
       IN  /\ fdc.ptr = Position(xfer.side, xfer.track, sector) + (done % SectorLen)
           /\ fdc.sectorReg = sector /\ sector \in Sector /\ xfer.drive \in Drive
  /\ F_BUSY \in fdc.status => fdc.wait > 0
  /\ fdc.rwLen > 0 => F_BUSY \in fdc.status
  /\ fdc.disk # None => fdc.disk = fdc.drive /\ disks[fdc.drive].mounted
  /\ \A d \in dirty : disks[d].updated
=============================================================================
